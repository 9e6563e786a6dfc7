---------------------------- MODULE RouteOwnership ----------------------------
(***************************************************************************)
(* What registration promises about gateway routes, with no table, lock or *)
(* transaction in sight: each plugin owns a set of requests, a successful  *)
(* registration replaces the whole set in one step, and it succeeds only   *)
(* when no other plugin owns any of the requests it asks for.              *)
(***************************************************************************)
CONSTANTS
  Plugin,   \* plugin keys
  Request   \* gateway requests

VARIABLE owned   \* plugin -> the requests it answers

OwnedType == owned \in [Plugin -> SUBSET Request]

\* No request has two owners.
Exclusive == \A p, q \in Plugin : p # q => owned[p] \cap owned[q] = {}

Init == owned = [p \in Plugin |-> {}]

\* What p owns is replaced; it and the others still exclude each other.
Replace(p) ==
  /\ owned' \in [Plugin -> SUBSET Request]
  /\ \A q \in Plugin \ {p} : owned'[q] = owned[q] /\ owned[q] \cap owned'[p] = {}

Next == \E p \in Plugin : Replace(p)

Spec == Init /\ [][Next]_owned

=============================================================================
