------------------------------- MODULE MCGateway -------------------------------
(***************************************************************************)
(* Two requests at a time: creations of one slug by two users, of which    *)
(* the first may be sent twice and names a user of its own, with and       *)
(* without a token; a list that asks for a full page, and a read.          *)
(***************************************************************************)
EXTENDS GatewayRequest

CONSTANTS r1, r2, u1, u2, s1

MCDelivery == Request \X (1 .. MaxCopies)
MCRolesOf == [u \in {u1, u2} |-> IF u = u1 THEN <<"reader", "writer">> ELSE <<"reader">>]

Creation(token, policy, large, replayable) ==
  [ask |-> [op |-> "create", slug |-> s1, valid |-> TRUE, publish |-> TRUE], policy |-> policy,
   token |-> token, header |-> u2, large |-> large, replayable |-> replayable]

Reading(ask) == [ask |-> ask, policy |-> "inherit", token |-> u1, header |-> None,
                 large |-> FALSE, replayable |-> FALSE]

MCInputsOf == [r \in {r1, r2} |->
  IF r = r1 THEN { Creation(u1, "rbac", FALSE, TRUE), Creation(None, "public", FALSE, FALSE) }
  ELSE { Creation(u2, "inherit", FALSE, FALSE), Creation(u2, "rbac", TRUE, FALSE),
         Reading([op |-> "list", page |-> 5, size |-> 9]),
         Reading([op |-> "get", slug |-> s1, valid |-> TRUE]) }]

=============================================================================
