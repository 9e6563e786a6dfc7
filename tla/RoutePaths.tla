------------------------------ MODULE RoutePaths ------------------------------
(***************************************************************************)
(* Gateway routes: which request a route answers, when two routes overlap, *)
(* and which of several matching routes the gateway takes.                 *)
(*                                                                         *)
(* A path is the sequence of its segments.  Stored gateway paths have been *)
(* through cleanPath (one leading slash, none trailing), so the string     *)
(* test "equal, or starts with the prefix and a slash" that three packages *)
(* each repeat is the prefix relation on segments; "/" is the empty        *)
(* sequence, a prefix of everything.                                       *)
(***************************************************************************)
EXTENDS Naturals, Sequences, SequencesExt

CONSTANTS
  Segment,   \* path segments
  Path,      \* the paths under consideration, sequences of segments
  Method,    \* the HTTP methods a request may carry
  AnyMethod  \* the ANY method of a route

ASSUME PathAssumption ==
  /\ Path \subseteq Seq(Segment)
  /\ AnyMethod \notin Method

Route == [method : Method \cup {AnyMethod}, match : {"exact", "prefix"}, path : Path]

Request == [method : Method, path : Path]

-----------------------------------------------------------------------------
(* Matching: internal/domain/plugin. *)

SegmentPrefix(path, prefix) == IsPrefix(prefix, path)

Matches(route, req) ==
  /\ route.method \in {AnyMethod, req.method}
  /\ \/ route.match = "exact" /\ req.path = route.path
     \/ route.match = "prefix" /\ SegmentPrefix(req.path, route.path)

-----------------------------------------------------------------------------
(* Overlap: the repository's test for a route ownership conflict. *)

\* A repository that takes the methods of two routes as disjoint whenever they
\* are written differently, so that ANY and GET never conflict.
MethodsOverlapLiteral(l, r) == l = r

MethodsOverlap(l, r) == l = r \/ AnyMethod \in {l, r}

\* A repository that asks only whether the new route covers the old one.
PathsOverlapOneSided(l, r) ==
  \/ l.match = "exact" /\ r.match = "exact" /\ l.path = r.path
  \/ l.match = "prefix" /\ SegmentPrefix(r.path, l.path)

PathsOverlap(l, r) ==
  \/ l.match = "exact" /\ r.match = "exact" /\ l.path = r.path
  \/ l.match = "prefix" /\ SegmentPrefix(r.path, l.path)
  \/ r.match = "prefix" /\ SegmentPrefix(l.path, r.path)

RoutesOverlap(l, r) == MethodsOverlap(l.method, r.method) /\ PathsOverlap(l, r)

-----------------------------------------------------------------------------
(* The choice among matching routes: RouteMatcher.Match.  A named method   *)
(* goes before ANY, then exact before prefix, then the longer path: the    *)
(* routes in question all match one path, so more characters and more      *)
(* segments are the same thing.                                            *)

MethodScore(r) == IF r.method # AnyMethod THEN 1 ELSE 0

MatchScore(r) == IF r.match = "exact" THEN 1 ELSE 0

\* A matcher that leaves out the length of the path.
BeforeAnyLength(l, r) ==
  \/ MethodScore(l) > MethodScore(r)
  \/ MethodScore(l) = MethodScore(r) /\ MatchScore(l) > MatchScore(r)

Before(l, r) ==
  \/ MethodScore(l) > MethodScore(r)
  \/ /\ MethodScore(l) = MethodScore(r)
     /\ \/ MatchScore(l) > MatchScore(r)
        \/ MatchScore(l) = MatchScore(r) /\ Len(l.path) > Len(r.path)

\* Rows are route table entries with a field route; the best ones for a request.
BestRows(rows, req) ==
  LET candidates == {x \in rows : Matches(x.route, req)}
  IN  {x \in candidates : \A y \in candidates : ~Before(y.route, x.route)}

=============================================================================
