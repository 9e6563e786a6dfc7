------------------------------- MODULE MCRunner -------------------------------
(***************************************************************************)
(* Two instances of one plugin, each with a runner and a manifest of its   *)
(* own, as while one version of the plugin replaces another.               *)
(***************************************************************************)
EXTENDS LifecycleRunner

CONSTANTS blog, i1, i2, t1, t2, r1, r2, old, new, NoRow

MCPath == {<<"a">>}

MCRoutesOf == [m \in Manifest |-> {[method |-> "ANY", match |-> "exact", path |-> <<"a">>]}]

MCPluginOf == [m \in Manifest |-> blog]

MCManifestOf == (r1 :> old) @@ (r2 :> new)

MCInstanceOf == (r1 :> i1) @@ (r2 :> i2)

=============================================================================
