----------------------------- MODULE MCLifecycle ------------------------------
(***************************************************************************)
(* One plugin with one manifest under two handler threads, the             *)
(* maintenance, the health sweep and the clock, which goes on until a      *)
(* lease has been over for more than a whole TTL.                          *)
(***************************************************************************)
EXTENDS ControlPlane

CONSTANTS blog, i1, t1, t2, only, NoRow

MCPath == {<<"a">>}

MCRoutesOf == [m \in Manifest |-> {[method |-> "ANY", match |-> "exact", path |-> <<"a">>]}]

MCPluginOf == [m \in Manifest |-> blog]

MCSymmetry == Permutations(Thread)

=============================================================================
