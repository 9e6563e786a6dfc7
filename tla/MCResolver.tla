------------------------------ MODULE MCResolver ------------------------------
(***************************************************************************)
(* One plugin under route resolution: two manifests with the same route,   *)
(* one instance, one handler thread, one gateway request at a time, for    *)
(* the route or for a path no route answers.                               *)
(***************************************************************************)
EXTENDS RouteResolver

CONSTANTS blog, i1, t1, r1, old, new, NoRow

MCPath == {<<"a">>, <<"a", "b">>}

MCRoutesOf ==
  [m \in {old, new} |-> {[method |-> "ANY", match |-> "exact", path |-> <<"a">>]}]

MCPluginOf == [m \in {old, new} |-> blog]

MCManifests == Permutations({old, new})

=============================================================================
