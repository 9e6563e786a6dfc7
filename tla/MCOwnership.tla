----------------------------- MODULE MCOwnership ------------------------------
(***************************************************************************)
(* Three plugins contend for four small paths: blog and shop each have two *)
(* manifests to move between, wiki asks for one route under both of them.  *)
(* The routes cover exact against prefix, ANY against a named method, one  *)
(* path above another, and a plugin whose own routes overlap.              *)
(***************************************************************************)
EXTENDS ControlPlane

CONSTANTS blog, shop, wiki, i1, t1, t2, NoRow

MCSegment == {"a", "b"}

MCPath == {<<"a">>, <<"b">>, <<"a", "b">>, <<"a", "b", "a">>}

MCRoute(method, match, path) == [method |-> method, match |-> match, path |-> path]

MCRoutesOf ==
  [blog1 |-> {MCRoute("ANY", "prefix", <<"a">>), MCRoute("ANY", "prefix", <<"a", "b">>)},
   blog2 |-> {MCRoute("GET", "exact", <<"a", "b">>), MCRoute("GET", "prefix", <<"a", "b">>)},
   shop1 |-> {MCRoute("GET", "prefix", <<"a", "b">>), MCRoute("POST", "exact", <<"a">>)},
   shop2 |-> {MCRoute("ANY", "prefix", <<"b">>)},
   wiki1 |-> {MCRoute("GET", "exact", <<"a", "b">>)}]

MCPluginOf == [blog1 |-> blog, blog2 |-> blog, shop1 |-> shop, shop2 |-> shop, wiki1 |-> wiki]

MCManifest == DOMAIN MCRoutesOf
MCOperation == {"register", "set_service", "set_instance", "fail", "restart"}
MCThreads == Permutations({t1, t2})

=============================================================================
