-------------------------- MODULE ControlPlaneProofs --------------------------
(***************************************************************************)
(* Theorems about RoutePaths, for any segments, paths and methods, and     *)
(* about ControlPlane, for any plugins, manifests, routes, threads, clock  *)
(* and threshold.                                                          *)
(*                                                                         *)
(* What the overlap test and the matching order of RoutePaths are good     *)
(* for: two routes overlap exactly when some request matches both, and no  *)
(* request has two different best routes.                                  *)
(***************************************************************************)
EXTENDS ControlPlane, TLAPS

-----------------------------------------------------------------------------
(* Prefixes. *)

\* The prefixes of one sequence are prefixes of each other.
LEMMA PrefixesOfOne ==
  ASSUME NEW S, NEW s \in Seq(S), NEW t \in Seq(S), NEW u \in Seq(S),
         IsPrefix(s, u), IsPrefix(t, u), Len(s) <= Len(t)
  PROVE  IsPrefix(s, t)
<1>1. /\ Len(s) <= Len(u) /\ SubSeq(s, 1, Len(s)) = SubSeq(u, 1, Len(s))
      /\ Len(t) <= Len(u) /\ SubSeq(t, 1, Len(t)) = SubSeq(u, 1, Len(t))
  BY DEF IsPrefix
<1>2. \A i \in 1 .. Len(s) : SubSeq(s, 1, Len(s))[i] = s[i] /\ SubSeq(u, 1, Len(s))[i] = u[i]
  BY <1>1
<1>3. \A i \in 1 .. Len(t) : SubSeq(t, 1, Len(t))[i] = t[i] /\ SubSeq(u, 1, Len(t))[i] = u[i]
  BY <1>1
<1>4. \A i \in 1 .. Len(s) : s[i] = t[i]
  BY <1>1, <1>2, <1>3
<1>5. SubSeq(s, 1, Len(s)) = SubSeq(t, 1, Len(s))
  BY <1>4
<1> QED BY <1>5 DEF IsPrefix

\* A sequence is a prefix of itself.
LEMMA PrefixOfItself ==
  ASSUME NEW S, NEW s \in Seq(S)
  PROVE  IsPrefix(s, s)
BY DEF IsPrefix

\* Prefixes of one sequence that are equally long are equal.
LEMMA PrefixesOfOneLength ==
  ASSUME NEW S, NEW s \in Seq(S), NEW t \in Seq(S), NEW u \in Seq(S),
         IsPrefix(s, u), IsPrefix(t, u), Len(s) = Len(t)
  PROVE  s = t
<1>1. IsPrefix(s, t)
  BY PrefixesOfOne
<1>2. SubSeq(s, 1, Len(s)) = SubSeq(t, 1, Len(t))
  BY <1>1 DEF IsPrefix
<1>3. \A i \in 1 .. Len(s) : SubSeq(s, 1, Len(s))[i] = s[i] /\ SubSeq(t, 1, Len(t))[i] = t[i]
  OBVIOUS
<1>4. \A i \in 1 .. Len(s) : s[i] = t[i]
  BY <1>2, <1>3
<1> QED BY <1>4

-----------------------------------------------------------------------------
(* The overlap test. *)

\* A request that two routes both match makes them overlap: the test that
\* registration relies on misses no conflict.
THEOREM OverlapComplete ==
  ASSUME NEW l \in Route, NEW r \in Route, NEW q \in Request, Matches(l, q), Matches(r, q)
  PROVE  RoutesOverlap(l, r)
<1>0. /\ l.path \in Seq(Segment) /\ r.path \in Seq(Segment) /\ q.path \in Seq(Segment)
      /\ q.method # AnyMethod
  BY PathAssumption DEF Route, Request
<1>1. MethodsOverlap(l.method, r.method)
  BY <1>0 DEF Matches, MethodsOverlap
<1>2. CASE l.match = "exact"
  <2>1. q.path = l.path
    BY <1>2 DEF Matches
  <2> QED BY <1>1, <1>2, <2>1 DEF Matches, RoutesOverlap, PathsOverlap
<1>3. CASE r.match = "exact"
  <2>1. q.path = r.path
    BY <1>3 DEF Matches
  <2> QED BY <1>1, <1>3, <2>1 DEF Matches, RoutesOverlap, PathsOverlap
<1>4. CASE l.match = "prefix" /\ r.match = "prefix"
  <2>1. IsPrefix(l.path, q.path) /\ IsPrefix(r.path, q.path)
    BY <1>4 DEF Matches, SegmentPrefix
  <2>2. Len(l.path) \in Nat /\ Len(r.path) \in Nat
    BY <1>0
  <2>3. CASE Len(l.path) <= Len(r.path)
    <3>1. IsPrefix(l.path, r.path)
      BY <1>0, <2>1, <2>3, PrefixesOfOne
    <3> QED BY <1>1, <1>4, <3>1 DEF RoutesOverlap, PathsOverlap, SegmentPrefix
  <2>4. CASE Len(r.path) <= Len(l.path)
    <3>1. IsPrefix(r.path, l.path)
      BY <1>0, <2>1, <2>4, PrefixesOfOne
    <3> QED BY <1>1, <1>4, <3>1 DEF RoutesOverlap, PathsOverlap, SegmentPrefix
  <2> QED BY <2>2, <2>3, <2>4
<1> QED BY <1>2, <1>3, <1>4 DEF Route

\* Routes that overlap both match some request, so the test refuses no
\* registration without a reason.
THEOREM OverlapSound ==
  ASSUME NEW l \in Route, NEW r \in Route, Method # {}, RoutesOverlap(l, r)
  PROVE  \E q \in Request : Matches(l, q) /\ Matches(r, q)
<1>0. l.path \in Seq(Segment) /\ r.path \in Seq(Segment) /\ l.path \in Path /\ r.path \in Path
  BY PathAssumption DEF Route
<1>1. PICK m \in Method : l.method \in {AnyMethod, m} /\ r.method \in {AnyMethod, m}
  BY DEF RoutesOverlap, MethodsOverlap, Route
<1>2. PICK p \in {l.path, r.path} :
        /\ l.match = "exact" => p = l.path
        /\ r.match = "exact" => p = r.path
        /\ l.match = "prefix" => IsPrefix(l.path, p)
        /\ r.match = "prefix" => IsPrefix(r.path, p)
  <2>0. IsPrefix(l.path, l.path) /\ IsPrefix(r.path, r.path)
    BY <1>0, PrefixOfItself
  <2>1. CASE l.match = "exact" /\ r.match = "exact" /\ l.path = r.path
    BY <2>1
  <2>2. CASE l.match = "prefix" /\ IsPrefix(l.path, r.path)
    BY <2>0, <2>2
  <2>3. CASE r.match = "prefix" /\ IsPrefix(r.path, l.path)
    BY <2>0, <2>3
  <2> QED BY <2>1, <2>2, <2>3 DEF RoutesOverlap, PathsOverlap, SegmentPrefix
<1> DEFINE q == [method |-> m, path |-> p]
<1>3. q \in Request
  BY <1>0 DEF Request
<1>4. Matches(l, q) /\ Matches(r, q)
  BY <1>1, <1>2 DEF Matches, SegmentPrefix, Route
<1> QED BY <1>3, <1>4

\* Overlap does not depend on which of the two routes is the new one.
LEMMA OverlapSymmetric ==
  ASSUME NEW l, NEW r, RoutesOverlap(l, r)
  PROVE  RoutesOverlap(r, l)
BY DEF RoutesOverlap, MethodsOverlap, PathsOverlap

-----------------------------------------------------------------------------
(* The order of the matching routes. *)

\* Of two different routes that match one request, one goes before the other.
THEOREM OrderTotal ==
  ASSUME NEW l \in Route, NEW r \in Route, NEW q \in Request,
         Matches(l, q), Matches(r, q), ~Before(l, r), ~Before(r, l)
  PROVE  l = r
<1>0. /\ l.path \in Seq(Segment) /\ r.path \in Seq(Segment) /\ q.path \in Seq(Segment)
      /\ l.method \in Method \cup {AnyMethod} /\ r.method \in Method \cup {AnyMethod}
      /\ l.match \in {"exact", "prefix"} /\ r.match \in {"exact", "prefix"}
      /\ AnyMethod \notin Method
  BY PathAssumption DEF Route, Request
<1>1. /\ MethodScore(l) = MethodScore(r)
      /\ MatchScore(l) = MatchScore(r)
      /\ MatchScore(l) = MatchScore(r) => Len(l.path) = Len(r.path)
  BY <1>0 DEF Before, MethodScore, MatchScore
<1>2. l.method = r.method
  BY <1>0, <1>1 DEF MethodScore, Matches
<1>3. l.match = r.match
  BY <1>0, <1>1 DEF MatchScore
<1>4. l.path = r.path
  <2>1. CASE l.match = "exact"
    BY <1>3, <2>1 DEF Matches
  <2>2. CASE l.match = "prefix"
    <3>1. IsPrefix(l.path, q.path) /\ IsPrefix(r.path, q.path)
      BY <1>3, <2>2 DEF Matches, SegmentPrefix
    <3>2. Len(l.path) = Len(r.path)
      BY <1>1
    <3> QED BY <1>0, <3>1, <3>2, PrefixesOfOneLength
  <2> QED BY <1>0, <2>1, <2>2
<1> QED BY <1>2, <1>3, <1>4 DEF Route

-----------------------------------------------------------------------------
(* Types. *)

\* The two calls without data are calls.
LEMMA CallTypes ==
  /\ IdleCall \in Call
  /\ InvalidateCall \in Call
BY DEF Call

\* The answer to a committed write leaves calls well typed.
LEMMA AfterWriteType ==
  ASSUME call \in [Thread -> Call], NEW t \in Thread, AfterWrite(t)
  PROVE  call' \in [Thread -> Call]
BY CallTypes DEF AfterWrite, Become

\* A thread that turns to another call leaves calls well typed.
LEMMA BecomeType ==
  ASSUME call \in [Thread -> Call], NEW t \in Thread, NEW c \in Call, Become(t, c)
  PROVE  call' \in [Thread -> Call]
BY DEF Become

\* The write of one row leaves the instance table well typed.
LEMMA WriteInstanceType ==
  ASSUME instance \in [Plugin -> [Instance -> InstanceRow \cup {None}]],
         NEW p \in Plugin, NEW i \in Instance, NEW row \in InstanceRow,
         WriteInstance(p, i, row)
  PROVE  instance' \in [Plugin -> [Instance -> InstanceRow \cup {None}]]
BY DEF WriteInstance

\* A contact leaves the history of contacts well typed.
LEMMA ContactType ==
  ASSUME contact \in [Plugin -> [Instance -> Nat]], NEW at \in Nat,
         NEW p \in Plugin, NEW i \in Instance, Contact(p, i, at)
  PROVE  contact' \in [Plugin -> [Instance -> Nat]]
BY DEF Contact

\* What a heartbeat writes back is an instance row.
LEMMA TouchedRowType ==
  ASSUME NEW row \in InstanceRow, NEW at \in Nat
  PROVE  TouchedRow(row, at) \in InstanceRow
<1>1. [row EXCEPT !.status = "active"] \in InstanceRow
  BY DEF InstanceRow
<1>2. TouchedRow(row, at) = [[row EXCEPT !.status = "active"] EXCEPT !.lease = at + TTL]
  BY DEF TouchedRow
<1>3. at + TTL \in Nat
  BY TablesAssumption
<1> QED BY <1>1, <1>2, <1>3 DEF InstanceRow

\* What a health check writes is an instance row.
LEMMA CheckedRowType ==
  ASSUME NEW row \in InstanceRow, NEW health \in {"unknown", "healthy", "unhealthy"},
         NEW failures \in Nat
  PROVE  CheckedRow(row, health, failures) \in InstanceRow
<1>1. [row EXCEPT !.health = health] \in InstanceRow
  BY DEF InstanceRow
<1>2. CheckedRow(row, health, failures)
        = [[row EXCEPT !.health = health] EXCEPT !.failures = failures]
  BY DEF CheckedRow
<1> QED BY <1>1, <1>2 DEF InstanceRow

\* A row that is there is an instance row.
LEMMA RowType ==
  ASSUME TablesType, NEW p \in Plugin, NEW i \in Instance, HasRow(p, i)
  PROVE  instance[p][i] \in InstanceRow
BY DEF TablesType, HasRow

\* The registration transaction leaves the tables well typed.
LEMMA UpsertType ==
  ASSUME TablesType, NEW i \in Instance, NEW m \in Manifest, NEW at \in Nat,
         UpsertRegistration(i, m, at)
  PROVE  TablesType'
<1> DEFINE p == PluginOf[m]
<1>1. p \in Plugin /\ RoutesOf[m] \subseteq Route
  BY TablesAssumption
<1>2. service' \in [Plugin -> ServiceRow \cup {None}]
  BY <1>1 DEF UpsertRegistration, TablesType, ServiceRow
<1>3. instance' \in [Plugin -> [Instance -> InstanceRow \cup {None}]]
  <2>1. FreshRow(m, at) \in InstanceRow
    BY TablesAssumption DEF FreshRow, InstanceRow
  <2>2. \A j \in Superseded(p, i, m) :
          [instance[p][j] EXCEPT !.status = "incompatible"] \in InstanceRow
    BY <1>1, RowType DEF Superseded, InstanceRow
  <2>3. \A j \in Instance : instance[p][j] \in InstanceRow \cup {None}
    BY <1>1 DEF TablesType
  <2>4. [j \in Instance |->
          CASE j = i -> FreshRow(m, at)
            [] j \in Superseded(p, i, m) -> [instance[p][j] EXCEPT !.status = "incompatible"]
            [] OTHER -> instance[p][j]] \in [Instance -> InstanceRow \cup {None}]
    BY <2>1, <2>2, <2>3 DEF Superseded
  <2> QED BY <1>1, <2>4 DEF UpsertRegistration, UpsertInstances, TablesType
<1>4. routes' \subseteq RouteRow /\ claims' \subseteq ClaimRow
  BY <1>1 DEF UpsertRegistration, ReplaceRoutes, TablesType, RouteRow, ClaimRow
<1> QED BY <1>2, <1>3, <1>4 DEF TablesType

\* A call in the phase of a registration or of a heartbeat is one.
LEMMA CallKinds ==
  ASSUME call \in [Thread -> Call], NEW t \in Thread
  PROVE  /\ call[t].phase = "register" => call[t] \in RegisterCall
         /\ call[t].phase = "touch" => call[t] \in TouchCall
BY DEF Call, IdleCall, InvalidateCall, RegisterCall, TouchCall

\* The sweep is well typed whatever targets are left.
LEMMA ProbingType ==
  ASSUME NEW targets \in SUBSET Target
  PROVE  Probing(targets) \in Sweep
BY DEF Probing, IdleSweep, Sweep

\* What a handler thread can do, whatever Operation leaves out.
Handles(t) ==
  \/ \E m \in Manifest, i \in Instance : Register(t, m, i)
  \/ RegisterCheck(t) \/ RegisterRefused(t) \/ RegisterCommit(t) \/ RegisterRollback(t)
  \/ \E p \in Plugin, i \in Instance : HeartbeatRead(t, p, i) \/ Unregister(t, p, i)
  \/ HeartbeatSave(t)
  \/ \E p \in Plugin, i \in Instance, s \in {"active", "disabled"} : AdminSetInstance(t, p, i, s)
  \/ \E p \in Plugin, s \in {"active", "disabled"} : AdminSetService(t, p, s)
  \/ CallFails(t)

LEMMA ServeHandles ==
  ASSUME NEW t \in Thread, Serve(t)
  PROVE  Handles(t)
BY DEF Serve, ClientCall, Handles

\* Each step that a handler thread takes keeps the types.
LEMMA ServeType ==
  ASSUME TypeOK, NEW t \in Thread, Handles(t)
  PROVE  TypeOK'
<1> USE DEF TypeOK, background, history, tables, TablesType
<1>1. ASSUME NEW m \in Manifest, NEW i \in Instance, Register(t, m, i)
      PROVE  TypeOK'
  <2>1. [phase |-> "register", manifest |-> m, instance |-> i, at |-> now,
         left |-> RoutesOf[m]] \in Call
    BY TablesAssumption DEF Call, RegisterCall
  <2>2. call' \in [Thread -> Call]
    BY <1>1, <2>1, BecomeType DEF Register
  <2>3. contact' \in [Plugin -> [Instance -> Nat]]
    BY <1>1, TablesAssumption, ContactType DEF Register
  <2> QED BY <1>1, <2>2, <2>3 DEF Register
<1>2. CASE RegisterCheck(t)
  <2>1. PICK r \in call[t].left : Become(t, [call[t] EXCEPT !.left = @ \ {r}])
    BY <1>2 DEF RegisterCheck
  <2>2. call[t] \in RegisterCall
    BY <1>2, CallKinds DEF RegisterCheck
  <2>3. [call[t] EXCEPT !.left = @ \ {r}] \in RegisterCall
    BY <2>2 DEF RegisterCall
  <2>4. call' \in [Thread -> Call]
    BY <2>1, <2>3, BecomeType DEF Call
  <2> QED BY <1>2, <2>4 DEF RegisterCheck
<1>3. CASE RegisterRefused(t)
  <2>1. call' \in [Thread -> Call]
    BY <1>3, CallTypes, BecomeType DEF RegisterRefused
  <2> QED BY <1>3, <2>1 DEF RegisterRefused
<1>4. CASE RegisterCommit(t)
  <2>1. call[t] \in RegisterCall
    BY <1>4, CallKinds DEF RegisterCommit, Checked
  <2>2. TablesType'
    BY <1>4, <2>1, UpsertType DEF RegisterCommit, RegisterCall
  <2>3. call' \in [Thread -> Call]
    BY <1>4, AfterWriteType DEF RegisterCommit
  <2> QED BY <1>4, <2>2, <2>3 DEF RegisterCommit
<1>5. CASE RegisterRollback(t)
  <2>1. call' \in [Thread -> Call]
    BY <1>5, CallTypes, BecomeType DEF RegisterRollback
  <2> QED BY <1>5, <2>1 DEF RegisterRollback
<1>6. ASSUME NEW p \in Plugin, NEW i \in Instance, HeartbeatRead(t, p, i)
      PROVE  TypeOK'
  <2>1. instance[p][i] \in InstanceRow
    BY <1>6, RowType DEF HeartbeatRead
  <2> PICK at \in 0 .. now :
         /\ Become(t, [phase |-> "touch", plugin |-> p, instance |-> i,
                       row |-> instance[p][i], at |-> at])
         /\ Contact(p, i, at)
    BY <1>6 DEF HeartbeatRead
  <2>2. [phase |-> "touch", plugin |-> p, instance |-> i,
         row |-> instance[p][i], at |-> at] \in Call
    BY <2>1 DEF Call, TouchCall
  <2>3. call' \in [Thread -> Call]
    BY <2>2, BecomeType
  <2>4. contact' \in [Plugin -> [Instance -> Nat]]
    BY ContactType
  <2> QED BY <1>6, <2>3, <2>4 DEF HeartbeatRead
<1>7. CASE HeartbeatSave(t)
  <2>1. call[t] \in TouchCall
    BY <1>7, CallKinds DEF HeartbeatSave
  <2>2. TouchedRow(call[t].row, call[t].at) \in InstanceRow
    BY <2>1, TouchedRowType DEF TouchCall
  <2>3. WriteInstance(call[t].plugin, call[t].instance, TouchedRow(call[t].row, call[t].at))
    BY <1>7 DEF HeartbeatSave, TouchSave
  <2>4. instance' \in [Plugin -> [Instance -> InstanceRow \cup {None}]]
    BY <2>1, <2>2, <2>3, WriteInstanceType DEF TouchCall
  <2>5. call' \in [Thread -> Call]
    BY <1>7, AfterWriteType DEF HeartbeatSave
  <2> QED BY <1>7, <2>4, <2>5 DEF HeartbeatSave, TouchSave
<1>8. ASSUME NEW p \in Plugin, NEW i \in Instance, NEW s \in {"active", "disabled"},
             SetInstanceStatus(p, i, s), AfterWrite(t),
             UNCHANGED <<now, background, history>>
      PROVE  TypeOK'
  <2>1. instance[p][i] \in InstanceRow
    BY <1>8, RowType DEF SetInstanceStatus
  <2>2. [instance[p][i] EXCEPT !.status = s] \in InstanceRow
    BY <2>1 DEF InstanceRow
  <2>3. instance' \in [Plugin -> [Instance -> InstanceRow \cup {None}]]
    BY <1>8, <2>2, WriteInstanceType DEF SetInstanceStatus
  <2>4. call' \in [Thread -> Call]
    BY <1>8, AfterWriteType
  <2> QED BY <1>8, <2>3, <2>4 DEF SetInstanceStatus
<1>9. ASSUME NEW p \in Plugin, NEW i \in Instance, Unregister(t, p, i)
      PROVE  TypeOK'
  BY <1>8, <1>9 DEF Unregister
<1>10. ASSUME NEW p \in Plugin, NEW i \in Instance, NEW s \in {"active", "disabled"},
              AdminSetInstance(t, p, i, s)
       PROVE  TypeOK'
  BY <1>8, <1>10 DEF AdminSetInstance
<1>11. ASSUME NEW p \in Plugin, NEW s \in {"active", "disabled"}, AdminSetService(t, p, s)
       PROVE  TypeOK'
  <2>1. service[p] \in ServiceRow
    BY <1>11 DEF AdminSetService, SetServiceStatus
  <2>2. service' \in [Plugin -> ServiceRow \cup {None}]
    BY <1>11, <2>1 DEF AdminSetService, SetServiceStatus, ServiceRow
  <2>3. call' \in [Thread -> Call]
    BY <1>11, AfterWriteType DEF AdminSetService
  <2> QED BY <1>11, <2>2, <2>3 DEF AdminSetService, SetServiceStatus
<1>12. CASE CallFails(t)
  <2>1. call' \in [Thread -> Call]
    BY <1>12, CallTypes, BecomeType DEF CallFails
  <2> QED BY <1>12, <2>1 DEF CallFails
<1> QED
  BY <1>1, <1>2, <1>3, <1>4, <1>5, <1>6, <1>7, <1>9, <1>10, <1>11, <1>12
  DEF Handles

\* Each step of the health sweep keeps the types.
LEMMA HealthType ==
  ASSUME TypeOK, HealthStep \/ HealthInvalidate
  PROVE  TypeOK'
<1> USE DEF TypeOK, background, history, tables, TablesType
<1>0. sweep.targets \in SUBSET Target /\ sweep.current \in Target \cup {None}
  BY DEF Sweep
<1>1. CASE HealthList
  <2>1. PICK at \in 0 .. now :
          sweep' = Probing({[plugin |-> pi[1], instance |-> pi[2],
                             health |-> instance[pi[1]][pi[2]].health,
                             failures |-> instance[pi[1]][pi[2]].failures] :
                              pi \in {x \in Plugin \X Instance : HealthTarget(x[1], x[2], at)}})
    BY <1>1 DEF HealthList
  <2>2. \A pi \in {x \in Plugin \X Instance : HealthTarget(x[1], x[2], at)} :
          [plugin |-> pi[1], instance |-> pi[2],
           health |-> instance[pi[1]][pi[2]].health,
           failures |-> instance[pi[1]][pi[2]].failures] \in Target
    <3> TAKE pi \in {x \in Plugin \X Instance : HealthTarget(x[1], x[2], at)}
    <3>1. pi[1] \in Plugin /\ pi[2] \in Instance /\ HasRow(pi[1], pi[2])
      BY DEF HealthTarget
    <3>2. instance[pi[1]][pi[2]] \in InstanceRow
      BY <3>1, RowType
    <3> QED BY <3>1, <3>2 DEF InstanceRow, Target
  <2>3. sweep' \in Sweep
    BY <2>1, <2>2, ProbingType
  <2> QED BY <1>1, <2>3 DEF HealthList
<1>2. ASSUME NEW x \in sweep.targets, NEW ok \in BOOLEAN, HealthProbe(x, ok)
      PROVE  TypeOK'
  <2>1. x \in Target
    BY <1>0
  <2>2. /\ NextFailures(x, ok) \in Nat
        /\ NextHealth(x, ok) \in {"unknown", "healthy", "unhealthy"}
    BY <2>1 DEF NextFailures, NextHealth, Target
  <2>3. instance[x.plugin][x.instance] \in InstanceRow
    BY <1>2, <2>1, RowType DEF HealthProbe, UpdateInstanceHealth, Target
  <2>4. CheckedRow(instance[x.plugin][x.instance], NextHealth(x, ok), NextFailures(x, ok))
          \in InstanceRow
    BY <2>2, <2>3, CheckedRowType
  <2>5. instance' \in [Plugin -> [Instance -> InstanceRow \cup {None}]]
    BY <1>2, <2>1, <2>4, WriteInstanceType DEF HealthProbe, UpdateInstanceHealth, Target
  <2>6. sweep' \in Sweep
    BY <1>0, <1>2, <2>1, ProbingType DEF HealthProbe, Sweep
  <2> QED BY <1>2, <2>5, <2>6 DEF HealthProbe, UpdateInstanceHealth
<1>3. ASSUME NEW x \in sweep.targets, HealthUpdateFails(x)
      PROVE  TypeOK'
  BY <1>0, <1>3, ProbingType DEF HealthUpdateFails
<1>4. CASE HealthReload
  <2>1. sweep' \in Sweep
    BY <1>0, <1>4, ProbingType DEF HealthReload, Sweep
  <2> QED BY <1>4, <2>1 DEF HealthReload
<1>5. CASE HealthInvalidate
  BY <1>0, <1>5, ProbingType DEF HealthInvalidate
<1> QED BY <1>1, <1>2, <1>3, <1>4, <1>5 DEF HealthStep, ProbeOutcome

\* The types hold at first and every step keeps them.
THEOREM TypeInductive ==
  /\ Init => TypeOK
  /\ TypeOK /\ [Next]_vars => TypeOK'
<1>1. Init => TypeOK
  <2>1. IdleSweep \in Sweep
    BY DEF IdleSweep, Sweep
  <2> QED BY <2>1, CallTypes DEF Init, TypeOK, TablesInit, TablesType
<1>2. ASSUME TypeOK, [Next]_vars
      PROVE  TypeOK'
  <2> USE DEF TypeOK, background, history, tables, TablesType
  <2>1. ASSUME NEW t \in Thread, Serve(t)
        PROVE  TypeOK'
    BY <1>2, <2>1, ServeHandles, ServeType
  <2>2. CASE HealthStep \/ HealthInvalidate
    BY <1>2, <2>2, HealthType
  <2>3. CASE MaintainDisableStale
    <3>1. PICK at \in 0 .. now : DisableStalePluginInstances(at)
      BY <2>3 DEF MaintainDisableStale
    <3>2. \A p \in Plugin, i \in Instance :
            (IF Stale(p, i, at) THEN [instance[p][i] EXCEPT !.status = "disabled"]
                                ELSE instance[p][i]) \in InstanceRow \cup {None}
      <4> TAKE p \in Plugin, i \in Instance
      <4>1. CASE Stale(p, i, at)
        <5>1. instance[p][i] \in InstanceRow
          BY <1>2, <4>1, RowType DEF Stale
        <5>2. [instance[p][i] EXCEPT !.status = "disabled"] \in InstanceRow
          BY <5>1 DEF InstanceRow
        <5> QED BY <4>1, <5>2
      <4>2. CASE ~Stale(p, i, at)
        BY <1>2, <4>2
      <4> QED BY <4>1, <4>2
    <3>3. instance' \in [Plugin -> [Instance -> InstanceRow \cup {None}]]
      BY <3>1, <3>2 DEF DisableStalePluginInstances
    <3> QED BY <1>2, <2>3, <3>1, <3>3 DEF MaintainDisableStale, DisableStalePluginInstances
  <2>4. CASE Tick
    BY <1>2, <2>4 DEF Tick
  <2>5. ASSUME NEW t \in Thread, Return(t)
        PROVE  TypeOK'
    <3>1. call' \in [Thread -> Call]
      BY <1>2, <2>5, CallTypes, BecomeType DEF Return
    <3> QED BY <1>2, <2>5, <3>1 DEF Return
  <2>6. CASE MaintainInvalidate
    BY <1>2, <2>6 DEF MaintainInvalidate
  <2>7. CASE ServerRestart
    <3>1. IdleSweep \in Sweep
      BY DEF IdleSweep, Sweep
    <3> QED BY <1>2, <2>7, <3>1, CallTypes DEF ServerRestart
  <2>8. CASE UNCHANGED vars
    BY <1>2, <2>8 DEF vars
  <2> QED
    BY <1>2, <2>1, <2>2, <2>3, <2>4, <2>5, <2>6, <2>7, <2>8
    DEF Next, Proceed, Invalidate, Restart
<1> QED BY <1>1, <1>2

\* Rows, calls in flight and listed targets are always what their types say, so
\* no step ever updates a row that is not there.
THEOREM TypeCorrect == Spec => []TypeOK
BY TypeInductive, PTL DEF Spec

-----------------------------------------------------------------------------
(* Route ownership. *)

\* The two facts that carry each other from step to step: claims exclude each
\* other, and route rows and claims are those of the service's manifest.
OwnershipInv == TypeOK /\ ClaimsExclusive /\ RoutesFollowService

\* What a step does to services, routes and claims, if it does anything.
LEMMA OwnershipSteps ==
  ASSUME [Next]_vars
  PROVE  \/ \E t \in Thread : RegisterCommit(t)
         \/ \E p \in Plugin, s \in {"active", "disabled"} : SetServiceStatus(p, s)
         \/ UNCHANGED <<service, routes, claims>>
<1> USE DEF tables
<1>1. ASSUME NEW t \in Thread, Serve(t)
      PROVE  \/ RegisterCommit(t)
             \/ \E p \in Plugin, s \in {"active", "disabled"} : SetServiceStatus(p, s)
             \/ UNCHANGED <<service, routes, claims>>
  BY <1>1 DEF Serve, ClientCall, Register, RegisterCheck, RegisterRefused, RegisterRollback,
    HeartbeatRead, HeartbeatSave, TouchSave, Unregister, AdminSetInstance, AdminSetService,
    SetInstanceStatus, CallFails
<1>2. CASE HealthStep \/ HealthInvalidate
  BY <1>2 DEF HealthStep, ProbeOutcome, HealthList, HealthProbe, UpdateInstanceHealth, HealthUpdateFails,
    HealthReload, HealthInvalidate
<1>3. CASE MaintainDisableStale \/ MaintainInvalidate
  BY <1>3 DEF MaintainDisableStale, DisableStalePluginInstances, MaintainInvalidate
<1>4. CASE Tick \/ ServerRestart \/ \E t \in Thread : Return(t)
  BY <1>4 DEF Tick, ServerRestart, Return
<1>5. CASE UNCHANGED vars
  BY <1>5 DEF vars
<1> QED
  BY <1>1, <1>2, <1>3, <1>4, <1>5 DEF Next, Proceed, Invalidate, Restart

\* What a committed registration leaves in the tables.
LEMMA CommitEffect ==
  ASSUME OwnershipInv, NEW t \in Thread, RegisterCommit(t)
  PROVE  \E m \in Manifest, p \in Plugin :
           /\ p = PluginOf[m]
           /\ RoutesOf[m] \subseteq Route
           /\ ~RouteConflict(m)
           /\ service' = [service EXCEPT ![p] = [manifest |-> m, status |-> "active"]]
           /\ ReplaceRoutes(p, m)
<1>1. call[t] \in RegisterCall
  BY CallKinds DEF RegisterCommit, Checked, OwnershipInv, TypeOK
<1>2. call[t].manifest \in Manifest
  BY <1>1 DEF RegisterCall
<1>3. PluginOf[call[t].manifest] \in Plugin /\ RoutesOf[call[t].manifest] \subseteq Route
  BY <1>2, TablesAssumption
<1> QED BY <1>2, <1>3 DEF RegisterCommit, UpsertRegistration

\* The registration transaction keeps the claims exclusive and the routes in
\* line with the services.
LEMMA CommitKeepsOwnership ==
  ASSUME OwnershipInv, NEW t \in Thread, RegisterCommit(t)
  PROVE  ClaimsExclusive' /\ RoutesFollowService'
<1>1. PICK m \in Manifest, p \in Plugin :
        /\ p = PluginOf[m]
        /\ RoutesOf[m] \subseteq Route
        /\ ~RouteConflict(m)
        /\ service' = [service EXCEPT ![p] = [manifest |-> m, status |-> "active"]]
        /\ ReplaceRoutes(p, m)
  BY CommitEffect
<1>2. service \in [Plugin -> ServiceRow \cup {None}]
  BY DEF OwnershipInv, TypeOK, TablesType
<1>3. ClaimsExclusive'
  <2> SUFFICES ASSUME NEW c \in claims', NEW d \in claims', c.plugin # d.plugin
               PROVE  ~RoutesOverlap(c.route, d.route)
    BY DEF ClaimsExclusive
  <2>1. CASE c.plugin # p /\ d.plugin # p
    BY <1>1, <2>1 DEF ReplaceRoutes, OwnershipInv, ClaimsExclusive
  <2>2. CASE c.plugin = p
    <3>1. c.route \in RoutesOf[m] /\ d \in claims /\ d.plugin # p
      BY <1>1, <2>2 DEF ReplaceRoutes
    <3> QED BY <1>1, <3>1 DEF RouteConflict, Claimed
  <2>3. CASE d.plugin = p
    <3>1. d.route \in RoutesOf[m] /\ c \in claims /\ c.plugin # p
      BY <1>1, <2>3 DEF ReplaceRoutes
    <3>2. ~RoutesOverlap(d.route, c.route)
      BY <1>1, <3>1 DEF RouteConflict, Claimed
    <3> QED BY <3>2, OverlapSymmetric
  <2> QED BY <2>1, <2>2, <2>3
<1>4. service'[p] = [manifest |-> m, status |-> "active"] /\ service'[p] # None
  BY <1>1, <1>2, NoneAssumption DEF ServiceRow
<1>5. \A q \in Plugin \ {p} : service'[q] = service[q]
  BY <1>1, <1>2
<1>6. RoutesFollowService'
  <2>1. ASSUME NEW q \in Plugin, service'[q] # None, NEW r \in RoutesOf[service'[q].manifest]
        PROVE  /\ PluginOf[service'[q].manifest] = q
               /\ [plugin |-> q, manifest |-> service'[q].manifest, route |-> r] \in routes'
               /\ [plugin |-> q, route |-> r] \in claims'
    BY <1>1, <1>4, <1>5, <2>1 DEF ReplaceRoutes, OwnershipInv, RoutesFollowService
  <2>2. ASSUME NEW q \in Plugin, service'[q] # None
        PROVE  PluginOf[service'[q].manifest] = q
    BY <1>1, <1>4, <1>5, <2>2 DEF OwnershipInv, RoutesFollowService
  <2>3. ASSUME NEW x \in routes'
        PROVE  /\ service'[x.plugin] # None
               /\ x.manifest = service'[x.plugin].manifest
               /\ x.route \in RoutesOf[x.manifest]
    <3>1. CASE x.plugin = p
      BY <1>1, <1>4, <2>3, <3>1 DEF ReplaceRoutes
    <3>2. CASE x.plugin # p
      <4>1. x \in routes /\ x.plugin \in Plugin \ {p}
        BY <1>1, <2>3, <3>2 DEF ReplaceRoutes, OwnershipInv, TypeOK, TablesType, RouteRow
      <4> QED BY <1>5, <4>1 DEF OwnershipInv, RoutesFollowService
    <3> QED BY <3>1, <3>2
  <2>4. ASSUME NEW c \in claims'
        PROVE  service'[c.plugin] # None /\ c.route \in RoutesOf[service'[c.plugin].manifest]
    <3>1. CASE c.plugin = p
      BY <1>1, <1>4, <2>4, <3>1 DEF ReplaceRoutes
    <3>2. CASE c.plugin # p
      <4>1. c \in claims /\ c.plugin \in Plugin \ {p}
        BY <1>1, <2>4, <3>2 DEF ReplaceRoutes, OwnershipInv, TypeOK, TablesType, ClaimRow
      <4> QED BY <1>5, <4>1 DEF OwnershipInv, RoutesFollowService
    <3> QED BY <3>1, <3>2
  <2> QED BY <2>1, <2>2, <2>3, <2>4 DEF RoutesFollowService
<1> QED BY <1>3, <1>6

\* RoutesFollowService asks nothing of a service row but its manifest.
LEMMA SameServiceManifests ==
  ASSUME RoutesFollowService, UNCHANGED <<routes, claims>>,
         \A x \in routes : x.plugin \in Plugin, \A c \in claims : c.plugin \in Plugin,
         \A q \in Plugin : /\ service'[q] # None <=> service[q] # None
                           /\ service'[q] # None => service'[q].manifest = service[q].manifest
  PROVE  RoutesFollowService'
<1>1. ASSUME NEW q \in Plugin, service'[q] # None
      PROVE  /\ PluginOf[service'[q].manifest] = q
             /\ \A r \in RoutesOf[service'[q].manifest] :
                  /\ [plugin |-> q, manifest |-> service'[q].manifest, route |-> r] \in routes'
                  /\ [plugin |-> q, route |-> r] \in claims'
  <2>1. service[q] # None /\ service'[q].manifest = service[q].manifest
    BY <1>1
  <2>2. /\ PluginOf[service[q].manifest] = q
        /\ \A r \in RoutesOf[service[q].manifest] :
             /\ [plugin |-> q, manifest |-> service[q].manifest, route |-> r] \in routes
             /\ [plugin |-> q, route |-> r] \in claims
    BY <2>1 DEF RoutesFollowService
  <2> QED BY <2>1, <2>2
<1>2. ASSUME NEW x \in routes'
      PROVE  /\ service'[x.plugin] # None
             /\ x.manifest = service'[x.plugin].manifest
             /\ x.route \in RoutesOf[x.manifest]
  BY <1>2 DEF RoutesFollowService
<1>3. ASSUME NEW c \in claims'
      PROVE  service'[c.plugin] # None /\ c.route \in RoutesOf[service'[c.plugin].manifest]
  BY <1>3 DEF RoutesFollowService
<1> QED BY <1>1, <1>2, <1>3 DEF RoutesFollowService

\* So does the administrative change of a service's status.
LEMMA StatusKeepsOwnership ==
  ASSUME OwnershipInv, NEW p \in Plugin, NEW s \in {"active", "disabled"},
         SetServiceStatus(p, s)
  PROVE  ClaimsExclusive' /\ RoutesFollowService'
<1>1. /\ service \in [Plugin -> ServiceRow \cup {None}]
      /\ \A x \in routes : x.plugin \in Plugin
      /\ \A c \in claims : c.plugin \in Plugin
  BY DEF OwnershipInv, TypeOK, TablesType, RouteRow, ClaimRow
<1>2. service[p] \in ServiceRow
  BY <1>1 DEF SetServiceStatus
<1>3. service'[p].manifest = service[p].manifest
  BY <1>1, <1>2 DEF SetServiceStatus, ServiceRow
<1>4. \A q \in Plugin \ {p} : service'[q] = service[q]
  BY <1>1 DEF SetServiceStatus
<1>5. UNCHANGED <<routes, claims>> /\ service[p] # None
  BY DEF SetServiceStatus
<1>6. \A q \in Plugin : /\ service'[q] # None <=> service[q] # None
                        /\ service'[q] # None => service'[q].manifest = service[q].manifest
  <2>1. [service[p] EXCEPT !.status = s] \in ServiceRow
    BY <1>2 DEF ServiceRow
  <2>2. service'[p] # None
    BY <1>1, <2>1, NoneAssumption DEF SetServiceStatus
  <2> QED BY <1>3, <1>4, <1>5, <2>2
<1>7. ClaimsExclusive'
  BY <1>5 DEF OwnershipInv, ClaimsExclusive
<1>8. RoutesFollowService /\ UNCHANGED <<routes, claims>>
  BY <1>5 DEF OwnershipInv
<1>9. RoutesFollowService'
  BY <1>1, <1>6, <1>8, SameServiceManifests
<1> QED BY <1>7, <1>9

\* OwnershipInv is inductive.
THEOREM OwnershipInductive ==
  /\ Init => OwnershipInv
  /\ OwnershipInv /\ [Next]_vars => OwnershipInv'
<1>1. Init => OwnershipInv
  BY TypeInductive DEF Init, TablesInit, OwnershipInv, ClaimsExclusive, RoutesFollowService
<1>2. ASSUME OwnershipInv, [Next]_vars
      PROVE  OwnershipInv'
  <2>1. TypeOK'
    BY <1>2, TypeInductive DEF OwnershipInv
  <2>2. ASSUME NEW t \in Thread, RegisterCommit(t)
        PROVE  ClaimsExclusive' /\ RoutesFollowService'
    BY <1>2, <2>2, CommitKeepsOwnership
  <2>3. ASSUME NEW p \in Plugin, NEW s \in {"active", "disabled"}, SetServiceStatus(p, s)
        PROVE  ClaimsExclusive' /\ RoutesFollowService'
    BY <1>2, <2>3, StatusKeepsOwnership
  <2>4. ASSUME UNCHANGED <<service, routes, claims>>
        PROVE  ClaimsExclusive' /\ RoutesFollowService'
    <3>1. ClaimsExclusive'
      BY <1>2, <2>4 DEF OwnershipInv, ClaimsExclusive
    <3>2. RoutesFollowService'
      BY <1>2, <2>4, SameServiceManifests
      DEF OwnershipInv, TypeOK, TablesType, RouteRow, ClaimRow
    <3> QED BY <3>1, <3>2
  <2>5. \/ \E t \in Thread : RegisterCommit(t)
        \/ \E p \in Plugin, s \in {"active", "disabled"} : SetServiceStatus(p, s)
        \/ UNCHANGED <<service, routes, claims>>
    BY <1>2, OwnershipSteps
  <2>6. ClaimsExclusive' /\ RoutesFollowService'
    BY <2>2, <2>3, <2>4, <2>5
  <2> QED BY <2>1, <2>6 DEF OwnershipInv
<1> QED BY <1>1, <1>2

\* The claims of any number of plugins exclude each other, with any number of
\* registrations under way.
THEOREM ClaimsAlwaysExclusive == Spec => []ClaimsExclusive
<1>1. OwnershipInv => ClaimsExclusive
  BY DEF OwnershipInv
<1> QED BY <1>1, OwnershipInductive, PTL DEF Spec

\* Routes and claims are always those of the manifest that the service row names.
THEOREM RoutesAlwaysFollowService == Spec => []RoutesFollowService
<1>1. OwnershipInv => RoutesFollowService
  BY DEF OwnershipInv
<1> QED BY <1>1, OwnershipInductive, PTL DEF Spec

\* Two rows that match one request have claims that overlap, so they belong to
\* one plugin.
LEMMA InvSingleOwner ==
  ASSUME OwnershipInv
  PROVE  SingleOwner
<1> SUFFICES ASSUME NEW q \in Request, NEW x \in routes, NEW y \in routes,
                    Matches(x.route, q), Matches(y.route, q)
             PROVE  x.plugin = y.plugin
  BY DEF SingleOwner
<1>1. x \in RouteRow /\ y \in RouteRow
  BY DEF OwnershipInv, TypeOK, TablesType
<1>2. x.route \in Route /\ y.route \in Route /\ x.plugin \in Plugin /\ y.plugin \in Plugin
  BY <1>1 DEF RouteRow
<1>3. RoutesOverlap(x.route, y.route)
  BY <1>2, OverlapComplete
<1>4. /\ [plugin |-> x.plugin, route |-> x.route] \in claims
      /\ [plugin |-> y.plugin, route |-> y.route] \in claims
  BY <1>2 DEF OwnershipInv, RoutesFollowService
<1> QED BY <1>3, <1>4 DEF OwnershipInv, ClaimsExclusive

\* No request is ever answered by the routes of two plugins.
THEOREM AlwaysSingleOwner == Spec => []SingleOwner
BY InvSingleOwner, OwnershipInductive, PTL DEF Spec

\* The matching rows of one request are rows of one plugin and one manifest, and
\* the order is total on their routes.
LEMMA InvOneBestRow ==
  ASSUME OwnershipInv
  PROVE  OneBestRow
<1> SUFFICES ASSUME NEW q \in Request, NEW x \in BestRows(routes, q), NEW y \in BestRows(routes, q)
             PROVE  x = y
  BY DEF OneBestRow
<1>1. /\ x \in routes /\ y \in routes
      /\ Matches(x.route, q) /\ Matches(y.route, q)
      /\ ~Before(x.route, y.route) /\ ~Before(y.route, x.route)
  BY DEF BestRows
<1>2. x \in RouteRow /\ y \in RouteRow
  BY <1>1 DEF OwnershipInv, TypeOK, TablesType
<1>3. x.plugin = y.plugin
  BY <1>1, InvSingleOwner DEF SingleOwner
<1>4. x.manifest = y.manifest
  BY <1>1, <1>3 DEF OwnershipInv, RoutesFollowService
<1>5. x.route = y.route
  BY <1>1, <1>2, OrderTotal DEF RouteRow
<1> QED BY <1>2, <1>3, <1>4, <1>5 DEF RouteRow

\* The gateway's choice of a route is never left to the order in which the
\* database returns the rows.
THEOREM AlwaysOneBestRow == Spec => []OneBestRow
BY InvOneBestRow, OwnershipInductive, PTL DEF Spec

-----------------------------------------------------------------------------
(* Diagnose agrees with ResolveRoute. *)

\* Nothing speaks against an instance exactly when the queries and the filter
\* would let it pass.
LEMMA NoReasons ==
  ASSUME TypeOK, NEW p \in Plugin, NEW i \in Instance, NEW at \in Nat,
         service[p] # None, HasRow(p, i)
  PROVE  Reasons(p, i, at) = {} <=>
           Selectable(p, i) /\ instance[p][i].lease >= at
<1> DEFINE row == instance[p][i]
           holds == [service_disabled |-> service[p].status # "active",
                     manifest_mismatch |-> row.manifest # service[p].manifest,
                     instance_status |-> row.status # "active",
                     lease_expired |-> row.lease < at,
                     health |-> row.health \notin {"unknown", "healthy"}]
<1>1. row.lease \in Nat
  BY DEF TypeOK, TablesType, InstanceRow, HasRow
<1>2. row.lease < at <=> ~(row.lease >= at)
  BY <1>1
<1>3. Reasons(p, i, at) = {r \in DOMAIN holds : holds[r]}
  BY Zenon DEF Reasons
<1>4. DOMAIN holds = {"service_disabled", "manifest_mismatch", "instance_status",
                      "lease_expired", "health"}
  OBVIOUS
<1>5. /\ holds["service_disabled"] <=> service[p].status # "active"
      /\ holds["manifest_mismatch"] <=> row.manifest # service[p].manifest
      /\ holds["instance_status"] <=> row.status # "active"
      /\ holds["lease_expired"] <=> row.lease < at
      /\ holds["health"] <=> row.health \notin {"unknown", "healthy"}
  OBVIOUS
<1> HIDE DEF holds
<1>6. Reasons(p, i, at) = {} <=>
        /\ service[p].status = "active"
        /\ row.manifest = service[p].manifest
        /\ row.status = "active"
        /\ ~(row.lease < at)
        /\ row.health \in {"unknown", "healthy"}
  BY <1>3, <1>4, <1>5
<1> QED BY <1>2, <1>6 DEF Selectable, ServiceActive

\* Diagnose sees only the routes of one plugin, but no other plugin has a row
\* for a request of this one; the rest is in NoReasons.
LEMMA InvDiagnosticsAgree ==
  ASSUME OwnershipInv
  PROVE  DiagnosticsAgree
<1> SUFFICES ASSUME NEW p \in Plugin, NEW q \in Request, NEW at \in 0 .. now + TTL + 1,
                    service[p] # None
             PROVE  Diagnose(p, q, at).route \X Diagnose(p, q, at).routable
                      = {z \in Resolvable(q, at) : z[1].plugin = p}
  BY Zenon DEF DiagnosticsAgree
<1> DEFINE own == {x \in routes : x.plugin = p /\ x.manifest = service[p].manifest}
           found == [services |-> ActiveServices, instances |-> RoutableInstances(at),
                     routes |-> ActiveRoutes]
           routable == {i \in Instance : HasRow(p, i) /\ Reasons(p, i, at) = {}}
<1>1. TypeOK /\ SingleOwner /\ at \in Nat
  BY InvSingleOwner DEF OwnershipInv, TypeOK
<1>2. ServiceActive(p) =>
        \A x : x \in BestRows(own, q) <=> x \in BestRows(ActiveRoutes, q) /\ x.plugin = p
  BY <1>1 DEF BestRows, ActiveRoutes, SingleOwner
<1>3. ASSUME NEW i \in routable
      PROVE  ServiceActive(p)
  BY <1>1, <1>3, NoReasons DEF Selectable
<1>4. ASSUME NEW x \in BestRows(ActiveRoutes, q), x.plugin = p
      PROVE  {y.instance : y \in Candidates(found, x, at)} = routable
  <2>1. ServiceActive(p)
    BY <1>4 DEF BestRows, ActiveRoutes
  <2>2. ASSUME NEW i \in routable
        PROVE  i \in {y.instance : y \in Candidates(found, x, at)}
    <3> DEFINE y == [plugin |-> p, instance |-> i, row |-> instance[p][i]]
    <3>1. Selectable(p, i) /\ instance[p][i].lease >= at
      BY <1>1, <2>2, NoReasons
    <3>2. y \in RoutableInstances(at)
      <4>1. <<p, i>> \in {pi \in Plugin \X Instance :
                           Selectable(pi[1], pi[2]) /\ instance[pi[1]][pi[2]].lease >= at}
        BY <2>2, <3>1
      <4>2. /\ <<p, i>>[1] = p
            /\ <<p, i>>[2] = i
        OBVIOUS
      <4> QED BY <4>1, <4>2, Zenon DEF RoutableInstances
    <3>3. [plugin |-> p, manifest |-> service[p].manifest] \in ActiveServices
      BY <2>1 DEF ActiveServices
    <3>4. Routable(y.row, service[p].manifest, at)
      BY <3>1 DEF Routable, Selectable
    <3>5. y \in Candidates(found, x, at)
      BY <1>4, <3>2, <3>3, <3>4 DEF Candidates
    <3> QED BY <3>5
  <2>3. ASSUME NEW y \in Candidates(found, x, at)
        PROVE  y.instance \in routable
    <3>1. y \in RoutableInstances(at) /\ y.plugin = p
      BY <1>4, <2>3 DEF Candidates
    <3>2. /\ y.instance \in Instance
          /\ Selectable(p, y.instance)
          /\ instance[p][y.instance].lease >= at
      BY <3>1 DEF RoutableInstances
    <3> QED BY <1>1, <3>2, NoReasons DEF Selectable
  <2> QED BY <2>2, <2>3
<1>5. Diagnose(p, q, at).route = BestRows(own, q) /\ Diagnose(p, q, at).routable = routable
  BY DEF Diagnose
<1>6. Resolvable(q, at) =
        UNION {{<<x, y.instance>> : y \in Candidates(found, x, at)} :
                 x \in BestRows(ActiveRoutes, q)}
  BY DEF Resolvable
<1> HIDE DEF own, found, routable
<1>7. ASSUME NEW x \in BestRows(own, q), NEW i \in routable
      PROVE  <<x, i>> \in Resolvable(q, at) /\ x.plugin = p
  <2>1. x \in BestRows(ActiveRoutes, q) /\ x.plugin = p
    BY <1>2, <1>3, <1>7
  <2>2. i \in {y.instance : y \in Candidates(found, x, at)}
    BY <1>4, <2>1
  <2> QED BY <1>6, <2>1, <2>2
<1>8. ASSUME NEW z \in Resolvable(q, at), z[1].plugin = p
      PROVE  z \in BestRows(own, q) \X routable
  <2>0. PICK x \in BestRows(ActiveRoutes, q) :
          z \in {<<x, y.instance>> : y \in Candidates(found, x, at)}
    BY <1>6, <1>8
  <2>1. PICK y \in Candidates(found, x, at) : z = <<x, y.instance>>
    BY <2>0
  <2>2. x.plugin = p
    BY <1>8, <2>1
  <2>3. y.instance \in routable
    BY <1>4, <2>1, <2>2
  <2>4. x \in BestRows(own, q)
    BY <1>2, <1>3, <2>1, <2>2, <2>3
  <2> QED BY <2>1, <2>3, <2>4
<1> QED BY <1>5, <1>7, <1>8

\* What Diagnose reports is what ResolveRoute does, whatever state the tables
\* have got into.
THEOREM AlwaysDiagnosticsAgree == Spec => []DiagnosticsAgree
BY InvDiagnosticsAgree, OwnershipInductive, PTL DEF Spec

-----------------------------------------------------------------------------
(* The control plane implements RouteOwnership. *)

\* A registration replaces what its plugin owns by requests no one else owns.
LEMMA CommitReplaces ==
  ASSUME OwnershipInv, OwnershipInv', NEW t \in Thread, RegisterCommit(t)
  PROVE  \E p \in Plugin : Ownership!Replace(p)
<1>1. PICK m \in Manifest, p \in Plugin : ReplaceRoutes(p, m)
  BY CommitEffect
<1>2. Owned' \in [Plugin -> SUBSET Request]
  BY DEF Owned
<1>3. ASSUME NEW q \in Plugin \ {p}
      PROVE  Owned'[q] = Owned[q] /\ Owned[q] \cap Owned'[p] = {}
  <2>1. \A x : x.plugin = q => (x \in routes' <=> x \in routes)
    BY <1>1, <1>3 DEF ReplaceRoutes
  <2>2. Owned'[q] = Owned[q]
    BY <2>1 DEF Owned
  <2>3. SingleOwner'
    BY InvSingleOwner, PTL
  <2>4. Owned'[q] \cap Owned'[p] = {}
    BY <1>3, <2>3 DEF Owned, SingleOwner
  <2> QED BY <2>2, <2>4
<1> QED BY <1>2, <1>3 DEF Ownership!Replace

\* What requests a plugin answers changes only as RouteOwnership allows, for
\* every interleaving of registrations with everything else.
THEOREM ImplementsOwnership == Spec => OwnershipSpec
<1>1. Init => Ownership!Init
  BY DEF Init, TablesInit, Ownership!Init, Owned
<1>2. OwnershipInv /\ OwnershipInv' /\ [Next]_vars => [Ownership!Next]_Owned
  <2> SUFFICES ASSUME OwnershipInv, OwnershipInv', [Next]_vars
               PROVE  Ownership!Next \/ Owned' = Owned
    OBVIOUS
  <2>1. ASSUME NEW t \in Thread, RegisterCommit(t)
        PROVE  Ownership!Next
    BY <2>1, CommitReplaces DEF Ownership!Next
  <2>2. CASE routes' = routes
    BY <2>2 DEF Owned
  <2> QED BY <2>1, <2>2, OwnershipSteps DEF SetServiceStatus
<1> QED BY <1>1, <1>2, OwnershipInductive, PTL DEF Spec, OwnershipSpec, Ownership!Spec

-----------------------------------------------------------------------------
(* Health. *)

HealthInv == TypeOK /\ HealthCoherent

\* A thread that becomes c leaves the other threads alone.
LEMMA BecomeEffect ==
  ASSUME call \in [Thread -> Call], NEW t \in Thread, NEW c, Become(t, c), NEW u \in Thread
  PROVE  call'[u] = IF u = t THEN c ELSE call[u]
BY DEF Become

\* A committed write leaves its own thread idle or about to invalidate, and
\* leaves the others alone.
LEMMA AfterWriteEffect ==
  ASSUME call \in [Thread -> Call], NEW t \in Thread, AfterWrite(t), NEW u \in Thread
  PROVE  IF u = t THEN call'[u] \in {IdleCall, InvalidateCall} ELSE call'[u] = call[u]
BY DEF AfterWrite, Become

\* After the write of one row every other row is as it was.
LEMMA WriteInstanceEffect ==
  ASSUME instance \in [Plugin -> [Instance -> InstanceRow \cup {None}]],
         NEW p \in Plugin, NEW i \in Instance, NEW row, WriteInstance(p, i, row),
         NEW q \in Plugin, NEW j \in Instance
  PROVE  instance'[q][j] = IF q = p /\ j = i THEN row ELSE instance[q][j]
BY DEF WriteInstance

\* A fresh registration, and a row with another status or lease, is as coherent
\* as before.
LEMMA CoherentRows ==
  /\ \A m, at : Coherent(FreshRow(m, at))
  /\ \A row \in InstanceRow : \A s : Coherent(row) => Coherent([row EXCEPT !.status = s])
  /\ \A row \in InstanceRow : \A at : Coherent(row) => Coherent(TouchedRow(row, at))
BY ControlPlaneAssumption DEF Coherent, FreshRow, TouchedRow, InstanceRow

\* What a probe makes of a coherent target is coherent.
LEMMA CoherentProbe ==
  ASSUME NEW x \in Target, NEW ok \in BOOLEAN, Coherent(x), NEW row \in InstanceRow
  PROVE  Coherent(CheckedRow(row, NextHealth(x, ok), NextFailures(x, ok)))
<1>1. NextHealth(x, ok) = "unhealthy" <=> NextFailures(x, ok) >= Threshold
  BY ControlPlaneAssumption DEF Coherent, NextHealth, NextFailures, Target
<1>2. /\ CheckedRow(row, NextHealth(x, ok), NextFailures(x, ok)).health = NextHealth(x, ok)
      /\ CheckedRow(row, NextHealth(x, ok), NextFailures(x, ok)).failures = NextFailures(x, ok)
  BY DEF CheckedRow, InstanceRow
<1> QED BY <1>1, <1>2 DEF Coherent

\* The registration transaction writes only coherent rows.
LEMMA UpsertCoherent ==
  ASSUME TypeOK, HealthCoherent, NEW i \in Instance, NEW m \in Manifest, NEW at \in Nat,
         UpsertRegistration(i, m, at), NEW q \in Plugin, NEW j \in Instance,
         instance'[q][j] # None
  PROVE  Coherent(instance'[q][j])
<1> DEFINE p == PluginOf[m]
<1>1. /\ p \in Plugin
      /\ instance \in [Plugin -> [Instance -> InstanceRow \cup {None}]]
  BY TablesAssumption DEF TypeOK, TablesType
<1>2. instance' = [instance EXCEPT ![p] = [k \in Instance |->
        CASE k = i -> FreshRow(m, at)
          [] k \in Superseded(p, i, m) -> [instance[p][k] EXCEPT !.status = "incompatible"]
          [] OTHER -> instance[p][k]]]
  BY DEF UpsertRegistration, UpsertInstances
<1>3. CASE q = p /\ j = i
  <2>1. i \notin Superseded(p, i, m)
    BY DEF Superseded
  <2>2. instance'[p][i] = FreshRow(m, at)
    BY <1>1, <1>2, <2>1
  <2> QED BY <1>3, <2>2, CoherentRows
<1>4. CASE q = p /\ j # i /\ j \in Superseded(p, i, m)
  <2>1. instance[p][j] \in InstanceRow /\ Coherent(instance[p][j])
    BY <1>1, <1>4, RowType DEF Superseded, TypeOK, HealthCoherent
  <2>2. instance'[q][j] = [instance[p][j] EXCEPT !.status = "incompatible"]
    BY <1>1, <1>2, <1>4
  <2> QED BY <2>1, <2>2, CoherentRows
<1>5. CASE q # p \/ (j # i /\ j \notin Superseded(p, i, m))
  <2>1. instance'[q][j] = instance[q][j]
    BY <1>1, <1>2, <1>5
  <2> QED BY <2>1 DEF HealthCoherent, HasRow
<1> QED BY <1>3, <1>4, <1>5

\* Each step of a handler thread keeps health coherent.
LEMMA ServeCoherent ==
  ASSUME HealthInv, NEW t \in Thread, Serve(t)
  PROVE  HealthCoherent'
<1>0. /\ call \in [Thread -> Call]
      /\ instance \in [Plugin -> [Instance -> InstanceRow \cup {None}]]
      /\ TypeOK /\ TablesType /\ HealthCoherent
  BY DEF HealthInv, TypeOK, TablesType
<1>1. sweep' = sweep
  BY DEF Serve, ClientCall, Register, RegisterCheck, RegisterRefused, RegisterCommit,
    RegisterRollback, HeartbeatRead, HeartbeatSave, Unregister, AdminSetInstance,
    AdminSetService, CallFails, background
<1>2. ASSUME NEW p \in Plugin, NEW i \in Instance, HasRow(p, i)'
      PROVE  Coherent(instance'[p][i])
  <2>1. CASE RegisterCommit(t)
    <3>1. call[t] \in RegisterCall
      BY <1>0, <2>1, CallKinds DEF RegisterCommit, Checked
    <3> QED BY <1>0, <1>2, <2>1, <3>1, UpsertCoherent DEF RegisterCommit, RegisterCall, HasRow
  <2>2. CASE HeartbeatSave(t)
    <3>1. call[t] \in TouchCall /\ call[t].phase = "touch"
      BY <1>0, <2>2, CallKinds DEF HeartbeatSave
    <3>2. Coherent(TouchedRow(call[t].row, call[t].at))
      BY <1>0, <3>1, CoherentRows DEF HealthCoherent, TouchCall
    <3>3. instance'[p][i] = IF p = call[t].plugin /\ i = call[t].instance
                            THEN TouchedRow(call[t].row, call[t].at) ELSE instance[p][i]
      BY <1>0, <2>2, <3>1, WriteInstanceEffect DEF HeartbeatSave, TouchSave, TouchCall
    <3> QED BY <1>0, <1>2, <3>2, <3>3 DEF HealthCoherent, HasRow
  <2>3. ASSUME NEW q \in Plugin, NEW j \in Instance, NEW s, SetInstanceStatus(q, j, s)
        PROVE  Coherent(instance'[p][i])
    <3>1. instance[q][j] \in InstanceRow /\ Coherent(instance[q][j])
      BY <1>0, <2>3, RowType DEF SetInstanceStatus, HealthCoherent
    <3>2. instance'[p][i] = IF p = q /\ i = j THEN [instance[q][j] EXCEPT !.status = s]
                            ELSE instance[p][i]
      BY <1>0, <2>3, WriteInstanceEffect DEF SetInstanceStatus
    <3> QED BY <1>0, <1>2, <3>1, <3>2, CoherentRows DEF HealthCoherent, HasRow
  <2>4. CASE instance' = instance
    BY <1>0, <1>2, <2>4 DEF HealthCoherent, HasRow
  <2> QED
    BY <2>1, <2>2, <2>3, <2>4
    DEF Serve, ClientCall, Register, RegisterCheck, RegisterRefused, RegisterRollback,
      HeartbeatRead, Unregister, AdminSetInstance, AdminSetService, SetServiceStatus,
      CallFails, tables
<1>3. ASSUME NEW u \in Thread, call'[u].phase = "touch"
      PROVE  Coherent(call'[u].row)
  <2>1. CASE u # t
    <3>1. call'[u] = call[u]
      BY <1>0, <2>1, AfterWriteEffect
      DEF Become, Serve, ClientCall, Register, RegisterCheck, RegisterRefused,
        RegisterCommit, RegisterRollback, HeartbeatRead, HeartbeatSave, Unregister,
        AdminSetInstance, AdminSetService, CallFails
    <3> QED BY <1>0, <1>3, <3>1 DEF HealthCoherent
  <2>2. ASSUME u = t, NEW p \in Plugin, NEW i \in Instance, HeartbeatRead(t, p, i)
        PROVE  Coherent(call'[u].row)
    <3>1. call'[u].row = instance[p][i]
      BY <1>0, <2>2 DEF HeartbeatRead, Become
    <3> QED BY <1>0, <2>2, <3>1 DEF HeartbeatRead, HealthCoherent
  <2>3. ASSUME u = t, ~\E p \in Plugin, i \in Instance : HeartbeatRead(t, p, i)
        PROVE  FALSE
    <3>1. CASE AfterWrite(t)
      BY <1>0, <1>3, <2>3, <3>1, AfterWriteEffect DEF IdleCall, InvalidateCall
    <3>2. ASSUME NEW m \in Manifest, NEW i \in Instance, Register(t, m, i)
          PROVE  FALSE
      BY <1>0, <1>3, <2>3, <3>2 DEF Register, Become
    <3>3. CASE RegisterCheck(t)
      <4>1. call[t] \in RegisterCall
        BY <1>0, <3>3, CallKinds DEF RegisterCheck
      <4>2. PICK r \in call[t].left : Become(t, [call[t] EXCEPT !.left = @ \ {r}])
        BY <3>3 DEF RegisterCheck
      <4>3. call'[t] = [call[t] EXCEPT !.left = @ \ {r}]
        BY <1>0, <4>2 DEF Become
      <4>4. call'[t].phase = "register"
        BY <4>1, <4>3 DEF RegisterCall
      <4> QED BY <1>3, <2>3, <4>4
    <3>4. CASE Become(t, IdleCall)
      BY <1>0, <1>3, <2>3, <3>4 DEF Become, IdleCall
    <3> QED
      BY <2>3, <3>1, <3>2, <3>3, <3>4
      DEF Serve, ClientCall, RegisterRefused, RegisterCommit, RegisterRollback,
        HeartbeatSave, Unregister, AdminSetInstance, AdminSetService, CallFails
  <2> QED BY <2>1, <2>2, <2>3
<1> QED BY <1>0, <1>1, <1>2, <1>3 DEF HealthCoherent

\* The targets left to probe are those given.
LEMMA ProbingTargets ==
  ASSUME NEW targets
  PROVE  Probing(targets).targets = targets
BY DEF Probing, IdleSweep

\* Each step of the health sweep keeps health coherent.
LEMMA SweepCoherent ==
  ASSUME HealthInv, HealthStep \/ HealthInvalidate
  PROVE  HealthCoherent'
<1>0. /\ TypeOK /\ TablesType /\ HealthCoherent
      /\ instance \in [Plugin -> [Instance -> InstanceRow \cup {None}]]
      /\ sweep.targets \subseteq Target
      /\ \A x \in sweep.targets : Coherent(x)
  BY DEF HealthInv, TypeOK, TablesType, Sweep, HealthCoherent
<1>1. call' = call
  BY DEF HealthStep, ProbeOutcome, HealthList, HealthProbe, HealthUpdateFails, HealthReload, HealthInvalidate
<1>2. CASE HealthList
  <2>1. PICK at \in 0 .. now :
          sweep' = Probing({[plugin |-> pi[1], instance |-> pi[2],
                             health |-> instance[pi[1]][pi[2]].health,
                             failures |-> instance[pi[1]][pi[2]].failures] :
                              pi \in {x \in Plugin \X Instance : HealthTarget(x[1], x[2], at)}})
    BY <1>2 DEF HealthList
  <2>2. \A pi \in {x \in Plugin \X Instance : HealthTarget(x[1], x[2], at)} :
          Coherent(instance[pi[1]][pi[2]])
    BY <1>0 DEF HealthTarget, HealthCoherent
  <2>3. \A x \in sweep'.targets : Coherent(x)
    BY <2>1, <2>2, ProbingTargets DEF Coherent
  <2> QED BY <1>0, <1>1, <1>2, <2>3 DEF HealthList, HealthCoherent, HasRow, tables
<1>3. ASSUME NEW x \in sweep.targets, NEW ok \in BOOLEAN, HealthProbe(x, ok)
      PROVE  HealthCoherent'
  <2>1. /\ x \in Target
        /\ instance[x.plugin][x.instance] \in InstanceRow
    BY <1>0, <1>3, RowType DEF HealthProbe, UpdateInstanceHealth, Target
  <2> DEFINE row == CheckedRow(instance[x.plugin][x.instance],
                               NextHealth(x, ok), NextFailures(x, ok))
  <2>2. Coherent(row)
    BY <1>0, <2>1, CoherentProbe
  <2>3. \A p \in Plugin, i \in Instance :
          instance'[p][i] = IF p = x.plugin /\ i = x.instance THEN row ELSE instance[p][i]
    BY <1>0, <1>3, <2>1, WriteInstanceEffect DEF HealthProbe, UpdateInstanceHealth, Target
  <2>4. sweep'.targets \subseteq sweep.targets
    BY <1>3, ProbingTargets DEF HealthProbe
  <2>5. \A p \in Plugin, i \in Instance : HasRow(p, i)' => Coherent(instance'[p][i])
    BY <1>0, <2>2, <2>3 DEF HealthCoherent, HasRow
  <2> QED BY <1>0, <1>1, <2>4, <2>5 DEF HealthCoherent
<1>4. ASSUME instance' = instance, sweep'.targets \subseteq sweep.targets
      PROVE  HealthCoherent'
  BY <1>0, <1>1, <1>4 DEF HealthCoherent, HasRow
<1>5. ASSUME NEW x \in sweep.targets, HealthUpdateFails(x)
      PROVE  HealthCoherent'
  BY <1>4, <1>5, ProbingTargets DEF HealthUpdateFails, tables
<1>6. CASE HealthReload
  BY <1>4, <1>6, ProbingTargets DEF HealthReload, tables
<1>7. CASE HealthInvalidate
  BY <1>4, <1>7, ProbingTargets DEF HealthInvalidate, tables
<1> QED BY <1>2, <1>3, <1>5, <1>6, <1>7 DEF HealthStep, ProbeOutcome

\* The maintenance of stale instances keeps health coherent.
LEMMA StaleCoherent ==
  ASSUME HealthInv, MaintainDisableStale
  PROVE  HealthCoherent'
<1>0. TypeOK /\ TablesType /\ HealthCoherent
  BY DEF HealthInv, TypeOK
<1>1. PICK at \in 0 .. now : DisableStalePluginInstances(at)
  BY DEF MaintainDisableStale
<1>2. ASSUME NEW p \in Plugin, NEW i \in Instance, HasRow(p, i)'
      PROVE  Coherent(instance'[p][i])
  <2>1. CASE Stale(p, i, at)
    <3>1. instance[p][i] \in InstanceRow /\ Coherent(instance[p][i])
      BY <1>0, <2>1, RowType DEF Stale, HealthCoherent
    <3>2. instance'[p][i] = [instance[p][i] EXCEPT !.status = "disabled"]
      BY <1>1, <2>1 DEF DisableStalePluginInstances
    <3> QED BY <3>1, <3>2, CoherentRows
  <2>2. CASE ~Stale(p, i, at)
    <3>1. instance'[p][i] = instance[p][i]
      BY <1>1, <2>2 DEF DisableStalePluginInstances
    <3> QED BY <1>0, <1>2, <3>1 DEF HealthCoherent, HasRow
  <2> QED BY <2>1, <2>2
<1>3. call' = call /\ sweep' = sweep
  BY DEF MaintainDisableStale
<1> QED BY <1>0, <1>2, <1>3 DEF HealthCoherent

\* HealthInv is inductive.
THEOREM HealthInductive ==
  /\ Init => HealthInv
  /\ HealthInv /\ [Next]_vars => HealthInv'
<1>1. Init => HealthInv
  BY TypeInductive
  DEF Init, TablesInit, HealthInv, HealthCoherent, HasRow, IdleCall, IdleSweep
<1>2. ASSUME HealthInv, [Next]_vars
      PROVE  HealthInv'
  <2>0. TypeOK /\ HealthCoherent /\ call \in [Thread -> Call]
    BY <1>2 DEF HealthInv, TypeOK
  <2>1. TypeOK'
    BY <1>2, TypeInductive DEF HealthInv
  <2>2. ASSUME NEW t \in Thread, Serve(t)
        PROVE  HealthCoherent'
    BY <1>2, <2>2, ServeCoherent
  <2>3. ASSUME HealthStep \/ HealthInvalidate
        PROVE  HealthCoherent'
    BY <1>2, <2>3, SweepCoherent
  <2>4. ASSUME MaintainDisableStale
        PROVE  HealthCoherent'
    BY <1>2, <2>4, StaleCoherent
  <2>5. ASSUME NEW t \in Thread, Return(t)
        PROVE  HealthCoherent'
    <3>1. \A u \in Thread : call'[u] = IF u = t THEN IdleCall ELSE call[u]
      BY <2>0, <2>5, BecomeEffect DEF Return
    <3>2. instance' = instance /\ sweep' = sweep
      BY <2>5 DEF Return, tables, background
    <3> QED BY <2>0, <3>1, <3>2 DEF HealthCoherent, HasRow, IdleCall
  <2>6. ASSUME ServerRestart
        PROVE  HealthCoherent'
    BY <2>0, <2>6 DEF ServerRestart, HealthCoherent, HasRow, IdleCall, IdleSweep, tables
  <2>7. ASSUME Tick \/ MaintainInvalidate \/ UNCHANGED vars
        PROVE  HealthCoherent'
    <3>1. UNCHANGED <<instance, call, sweep>>
      BY <2>7 DEF Tick, MaintainInvalidate, vars, tables, background
    <3> QED BY <2>0, <3>1 DEF HealthCoherent, HasRow
  <2>8. HealthCoherent'
    BY <1>2, <2>2, <2>3, <2>4, <2>5, <2>6, <2>7 DEF Next, Proceed, Invalidate, Restart
  <2> QED BY <2>1, <2>8 DEF HealthInv
<1> QED BY <1>1, <1>2

\* Whatever overtakes a health sweep, an instance is out of routing as unhealthy
\* exactly when its counted failures have reached the threshold.
THEOREM AlwaysHealthCoherent == Spec => []HealthCoherent
<1>1. HealthInv => HealthCoherent
  BY DEF HealthInv
<1> QED BY <1>1, HealthInductive, PTL DEF Spec

-----------------------------------------------------------------------------
(* Leases. *)

\* The clock value that a call takes its lease from is no later than the last
\* contact of its instance.
CallFollowsContact(c) ==
  /\ c.phase = "register" => c.at <= contact[PluginOf[c.manifest]][c.instance]
  /\ c.phase = "touch" => c.at <= contact[c.plugin][c.instance]

LeaseInv ==
  /\ TypeOK
  /\ LeaseFollowsContact
  /\ \A p \in Plugin, i \in Instance : contact[p][i] <= now
  /\ \A t \in Thread : CallFollowsContact(call[t])

\* A contact moves one entry of the history, and only forward.
LEMMA ContactEffect ==
  ASSUME contact \in [Plugin -> [Instance -> Nat]],
         NEW q \in Plugin, NEW j \in Instance, NEW at, Contact(q, j, at),
         NEW p \in Plugin, NEW i \in Instance
  PROVE  contact'[p][i] = IF p = q /\ i = j /\ at > contact[p][i] THEN at ELSE contact[p][i]
BY DEF Contact

\* Contacts and the clock only move forward.
LEMMA ContactGrows ==
  ASSUME LeaseInv, [Next]_vars
  PROVE  \A p \in Plugin, i \in Instance :
           /\ contact'[p][i] \in Nat
           /\ contact[p][i] \in Nat
           /\ contact[p][i] <= contact'[p][i]
           /\ contact'[p][i] <= now'
<1>0. /\ contact \in [Plugin -> [Instance -> Nat]] /\ now \in Nat
      /\ \A p \in Plugin, i \in Instance : contact[p][i] <= now
  BY DEF LeaseInv, TypeOK
<1>1. ASSUME NEW q \in Plugin, NEW j \in Instance, NEW at \in 0 .. now, Contact(q, j, at)
      PROVE  \A p \in Plugin, i \in Instance :
               contact'[p][i] = IF p = q /\ i = j /\ at > contact[p][i] THEN at
                                ELSE contact[p][i]
  BY <1>0, <1>1, ContactEffect
<1> DEFINE Contacted == \E q \in Plugin, j \in Instance, at \in 0 .. now :
                          Contact(q, j, at) /\ now' = now
<1>2. ASSUME NEW t \in Thread, NEW m \in Manifest, NEW i \in Instance, Register(t, m, i)
      PROVE  Contacted
  <2>1. now \in 0 .. now
    BY <1>0
  <2>2. now' = now /\ PluginOf[m] \in Plugin /\ Contact(PluginOf[m], i, now)
    BY <1>2, TablesAssumption DEF Register
  <2> QED BY <2>1, <2>2
<1>3. ASSUME NEW t \in Thread, NEW p \in Plugin, NEW i \in Instance, HeartbeatRead(t, p, i)
      PROVE  Contacted
  BY <1>3 DEF HeartbeatRead
<1>4. CASE contact' = contact /\ now' \in Nat /\ now <= now'
  BY <1>0, <1>4
<1>5. CASE Contacted
  <2>1. PICK q \in Plugin, j \in Instance, at \in 0 .. now : Contact(q, j, at) /\ now' = now
    BY <1>5
  <2>2. \A p \in Plugin, i \in Instance :
          contact'[p][i] = IF p = q /\ i = j /\ at > contact[p][i] THEN at
                           ELSE contact[p][i]
    BY <1>1, <2>1
  <2> QED BY <1>0, <2>1, <2>2
<1>6. \/ contact' = contact /\ now' = now
      \/ contact' = contact /\ now' = now + 1
      \/ Contacted
  <2> HIDE DEF Contacted
  <2> QED BY <1>2, <1>3
    DEF Next, Proceed, Invalidate, Restart, Serve, ClientCall, RegisterCheck,
      RegisterRefused, RegisterCommit, RegisterRollback, HeartbeatSave, Unregister,
      AdminSetInstance, AdminSetService, CallFails, Return, HealthStep, ProbeOutcome, HealthList,
      HealthProbe, HealthUpdateFails, HealthReload, HealthInvalidate,
      MaintainDisableStale, MaintainInvalidate, ServerRestart, Tick, vars, history
<1> QED BY <1>0, <1>4, <1>5, <1>6

\* A row that a step leaves has the lease it had, or the one of a call.
LEMMA LeaseSteps ==
  ASSUME LeaseInv, [Next]_vars, NEW p \in Plugin, NEW i \in Instance, HasRow(p, i)'
  PROVE  instance'[p][i].lease <= contact[p][i] + TTL
<1>0. /\ TypeOK /\ TablesType /\ call \in [Thread -> Call]
      /\ instance \in [Plugin -> [Instance -> InstanceRow \cup {None}]]
      /\ contact \in [Plugin -> [Instance -> Nat]]
      /\ TTL \in Nat
      /\ instance'[p][i] # None
      /\ HasRow(p, i) => /\ instance[p][i] \in InstanceRow
                         /\ instance[p][i].lease <= contact[p][i] + TTL
  BY TablesAssumption, RowType DEF LeaseInv, LeaseFollowsContact, TypeOK, TablesType, HasRow
<1>1. CASE instance'[p][i] = instance[p][i]
  BY <1>0, <1>1 DEF HasRow
<1>2. ASSUME NEW q \in Plugin, NEW j \in Instance, NEW s, SetInstanceStatus(q, j, s)
      PROVE  instance'[p][i].lease <= contact[p][i] + TTL
  <2>1. CASE p = q /\ i = j
    <3>1. instance'[p][i] = [instance[p][i] EXCEPT !.status = s] /\ HasRow(p, i)
      BY <1>0, <1>2, <2>1, WriteInstanceEffect DEF SetInstanceStatus
    <3>2. instance'[p][i].lease = instance[p][i].lease
      BY <1>0, <3>1 DEF InstanceRow
    <3> QED BY <1>0, <3>1, <3>2
  <2>2. CASE ~(p = q /\ i = j)
    <3>1. instance'[p][i] = instance[p][i]
      BY <1>0, <1>2, <2>2, WriteInstanceEffect DEF SetInstanceStatus
    <3> QED BY <1>1, <3>1
  <2> QED BY <2>1, <2>2
<1>3. ASSUME NEW t \in Thread, RegisterCommit(t)
      PROVE  instance'[p][i].lease <= contact[p][i] + TTL
  <2>1. /\ call[t] \in RegisterCall
        /\ call[t].at <= contact[PluginOf[call[t].manifest]][call[t].instance]
    BY <1>0, <1>3, CallKinds DEF RegisterCommit, Checked, LeaseInv, CallFollowsContact
  <2> DEFINE m == call[t].manifest
             q == PluginOf[call[t].manifest]
             k == call[t].instance
             at == call[t].at
  <2>2. q \in Plugin /\ m \in Manifest /\ k \in Instance /\ at \in Nat
    BY <2>1, TablesAssumption DEF RegisterCall
  <2>3. instance' = [instance EXCEPT ![q] = [j \in Instance |->
          CASE j = k -> FreshRow(m, at)
            [] j \in Superseded(q, k, m) -> [instance[q][j] EXCEPT !.status = "incompatible"]
            [] OTHER -> instance[q][j]]]
    BY <1>3 DEF RegisterCommit, UpsertRegistration, UpsertInstances
  <2>4. CASE p = q /\ i = k
    <3>1. k \notin Superseded(q, k, m)
      BY DEF Superseded
    <3>2. instance'[q][k] = FreshRow(m, at)
      BY <1>0, <2>2, <2>3, <3>1
    <3>3. FreshRow(m, at).lease = at + TTL
      BY DEF FreshRow
    <3> HIDE DEF m, q, k, at
    <3>4. contact[q][k] \in Nat
      BY <1>0, <2>2
    <3>5. at <= contact[q][k]
      BY <2>1 DEF m, q, k, at
    <3>6. at + TTL <= contact[q][k] + TTL
      BY <1>0, <2>2, <3>4, <3>5
    <3> QED BY <2>4, <3>2, <3>3, <3>6
  <2>5. CASE p = q /\ i # k /\ i \in Superseded(q, k, m)
    <3>1. instance'[p][i] = [instance[p][i] EXCEPT !.status = "incompatible"]
      BY <1>0, <2>2, <2>3, <2>5
    <3>2. HasRow(p, i)
      BY <2>5 DEF Superseded
    <3>3. instance'[p][i].lease = instance[p][i].lease
      BY <1>0, <3>1, <3>2 DEF InstanceRow
    <3> QED BY <1>0, <3>2, <3>3, SMTT(30)
  <2>6. CASE p # q \/ (i # k /\ i \notin Superseded(q, k, m))
    <3>1. instance'[p][i] = instance[p][i]
      BY <1>0, <2>2, <2>3, <2>6
    <3> QED BY <1>1, <3>1, SMTT(30)
  <2> QED BY <2>4, <2>5, <2>6
<1>4. ASSUME NEW t \in Thread, HeartbeatSave(t)
      PROVE  instance'[p][i].lease <= contact[p][i] + TTL
  <2>1. /\ call[t] \in TouchCall
        /\ call[t].at <= contact[call[t].plugin][call[t].instance]
    BY <1>0, <1>4, CallKinds DEF HeartbeatSave, LeaseInv, CallFollowsContact
  <2>2. instance'[p][i] = IF p = call[t].plugin /\ i = call[t].instance
                          THEN TouchedRow(call[t].row, call[t].at) ELSE instance[p][i]
    BY <1>0, <1>4, <2>1, WriteInstanceEffect DEF HeartbeatSave, TouchSave, TouchCall
  <2>3. TouchedRow(call[t].row, call[t].at).lease = call[t].at + TTL
    BY <2>1 DEF TouchedRow, TouchCall, InstanceRow
  <2>4. call[t].at \in Nat
    BY <2>1 DEF TouchCall
  <2>5. CASE p = call[t].plugin /\ i = call[t].instance
    <3>1. instance'[p][i].lease = call[t].at + TTL /\ call[t].at <= contact[p][i]
      BY <2>1, <2>2, <2>3, <2>5
    <3>2. contact[p][i] \in Nat
      BY <1>0
    <3> QED BY <1>0, <2>4, <3>1, <3>2
  <2>6. CASE ~(p = call[t].plugin /\ i = call[t].instance)
    BY <1>1, <2>2, <2>6
  <2> QED BY <2>5, <2>6
<1>5. ASSUME NEW x \in sweep.targets, NEW ok \in BOOLEAN, HealthProbe(x, ok)
      PROVE  instance'[p][i].lease <= contact[p][i] + TTL
  <2>1. x \in Target
    BY <1>0 DEF TypeOK, Sweep
  <2>2. instance[x.plugin][x.instance] \in InstanceRow /\ HasRow(x.plugin, x.instance)
    BY <1>0, <1>5, <2>1, RowType DEF HealthProbe, UpdateInstanceHealth, Target
  <2>3. instance'[p][i] =
          IF p = x.plugin /\ i = x.instance
          THEN CheckedRow(instance[p][i], NextHealth(x, ok), NextFailures(x, ok))
          ELSE instance[p][i]
    BY <1>0, <1>5, <2>1, WriteInstanceEffect DEF HealthProbe, UpdateInstanceHealth, Target
  <2>4. CASE p = x.plugin /\ i = x.instance
    <3>1. instance'[p][i].lease = instance[p][i].lease
      BY <2>2, <2>3, <2>4 DEF CheckedRow, InstanceRow
    <3> QED BY <1>0, <2>2, <2>4, <3>1
  <2>5. CASE ~(p = x.plugin /\ i = x.instance)
    BY <1>1, <2>3, <2>5
  <2> QED BY <2>4, <2>5
<1>6. ASSUME MaintainDisableStale
      PROVE  instance'[p][i].lease <= contact[p][i] + TTL
  <2>1. PICK at \in 0 .. now : DisableStalePluginInstances(at)
    BY <1>6 DEF MaintainDisableStale
  <2>2. CASE Stale(p, i, at)
    <3>1. instance'[p][i] = [instance[p][i] EXCEPT !.status = "disabled"] /\ HasRow(p, i)
      BY <2>1, <2>2 DEF DisableStalePluginInstances, Stale
    <3>2. instance'[p][i].lease = instance[p][i].lease
      BY <1>0, <3>1 DEF InstanceRow
    <3> QED BY <1>0, <3>1, <3>2
  <2>3. CASE ~Stale(p, i, at)
    BY <1>1, <2>1, <2>3 DEF DisableStalePluginInstances
  <2> QED BY <2>2, <2>3
<1>7. CASE instance' = instance
  BY <1>1, <1>7
<1> QED
  BY <1>2, <1>3, <1>4, <1>5, <1>6, <1>7
  DEF Next, Proceed, Invalidate, Restart, Serve, ClientCall, Register, RegisterCheck,
    RegisterRefused, RegisterRollback, HeartbeatRead, Unregister, AdminSetInstance,
    AdminSetService, SetServiceStatus, CallFails, Return, HealthStep, ProbeOutcome, HealthList,
    HealthUpdateFails, HealthReload, HealthInvalidate, MaintainInvalidate, ServerRestart,
    Tick, vars, tables

\* Whoever waits to write a lease still waits with one that its contact covers.
LEMMA CallSteps ==
  ASSUME LeaseInv, [Next]_vars, NEW u \in Thread
  PROVE  CallFollowsContact(call[u])'
<1>0. /\ TypeOK /\ TypeOK'
      /\ call \in [Thread -> Call] /\ call' \in [Thread -> Call]
      /\ contact \in [Plugin -> [Instance -> Nat]] /\ now \in Nat
      /\ CallFollowsContact(call[u])
  BY TypeInductive DEF LeaseInv, TypeOK
<1>1. \A p \in Plugin, i \in Instance :
        /\ contact'[p][i] \in Nat
        /\ contact[p][i] \in Nat
        /\ contact[p][i] <= contact'[p][i]
  BY ContactGrows
<1>2. CASE call'[u] = call[u]
  <2>1. CASE call[u].phase = "register"
    <3>1. call[u] \in RegisterCall
      BY <1>0, <2>1, CallKinds
    <3>2. /\ PluginOf[call[u].manifest] \in Plugin
          /\ call[u].instance \in Instance
          /\ call[u].at \in Nat
      BY <3>1, TablesAssumption DEF RegisterCall
    <3>3. call[u].at <= contact'[PluginOf[call[u].manifest]][call[u].instance]
      BY <1>0, <1>1, <2>1, <3>2 DEF CallFollowsContact
    <3> QED BY <1>2, <2>1, <3>3 DEF CallFollowsContact
  <2>2. CASE call[u].phase = "touch"
    <3>1. call[u].plugin \in Plugin /\ call[u].instance \in Instance /\ call[u].at \in Nat
      BY <1>0, <2>2, CallKinds DEF TouchCall
    <3>2. call[u].at <= contact'[call[u].plugin][call[u].instance]
      BY <1>0, <1>1, <2>2, <3>1 DEF CallFollowsContact
    <3> QED BY <1>2, <2>2, <3>2 DEF CallFollowsContact
  <2> QED BY <1>2, <2>1, <2>2 DEF CallFollowsContact
<1>3. CASE call'[u] = IdleCall \/ call'[u] = InvalidateCall
  BY <1>3 DEF CallFollowsContact, IdleCall, InvalidateCall
<1>4. ASSUME NEW t \in Thread, Become(t, IdleCall) \/ AfterWrite(t)
      PROVE  CallFollowsContact(call[u])'
  <2>1. call'[u] = call[u] \/ call'[u] = IdleCall \/ call'[u] = InvalidateCall
    BY <1>0, <1>4 DEF AfterWrite, Become
  <2> QED BY <1>2, <1>3, <2>1
<1>5. ASSUME NEW t \in Thread, NEW m \in Manifest, NEW i \in Instance, Register(t, m, i)
      PROVE  CallFollowsContact(call[u])'
  <2>1. CASE t # u
    BY <1>0, <1>2, <1>5, <2>1 DEF Register, Become
  <2>2. CASE t = u
    <3>1. call'[u] = [phase |-> "register", manifest |-> m, instance |-> i, at |-> now,
                      left |-> RoutesOf[m]]
      BY <1>0, <1>5, <2>2 DEF Register, Become
    <3>2. PluginOf[m] \in Plugin /\ Contact(PluginOf[m], i, now)
      BY <1>5, TablesAssumption DEF Register
    <3>3. now <= contact'[PluginOf[m]][i]
      BY <1>0, <1>1, <3>2, ContactEffect
    <3> QED BY <3>1, <3>3 DEF CallFollowsContact
  <2> QED BY <2>1, <2>2
<1>6. ASSUME NEW t \in Thread, RegisterCheck(t)
      PROVE  CallFollowsContact(call[u])'
  <2>1. CASE t # u
    BY <1>0, <1>2, <1>6, <2>1 DEF RegisterCheck, Become
  <2>2. CASE t = u
    <3>1. call[u] \in RegisterCall
      BY <1>0, <1>6, <2>2, CallKinds DEF RegisterCheck
    <3>2. PICK r : call'[u] = [call[u] EXCEPT !.left = @ \ {r}]
      BY <1>0, <1>6, <2>2 DEF RegisterCheck, Become
    <3>3. /\ call'[u].phase = "register" /\ call'[u].at = call[u].at
          /\ call'[u].manifest = call[u].manifest /\ call'[u].instance = call[u].instance
      BY <3>1, <3>2 DEF RegisterCall
    <3>4. contact' = contact
      BY <1>6 DEF RegisterCheck, history
    <3>5. call[u].at <= contact[PluginOf[call[u].manifest]][call[u].instance]
      BY <1>0, <1>6, <2>2 DEF CallFollowsContact, RegisterCheck
    <3> QED BY <3>3, <3>4, <3>5 DEF CallFollowsContact
  <2> QED BY <2>1, <2>2
<1>7. ASSUME NEW t \in Thread, NEW p \in Plugin, NEW i \in Instance, HeartbeatRead(t, p, i)
      PROVE  CallFollowsContact(call[u])'
  <2>1. CASE t # u
    BY <1>0, <1>2, <1>7, <2>1 DEF HeartbeatRead, Become
  <2>2. CASE t = u
    <3>1. PICK at \in 0 .. now :
            /\ Become(t, [phase |-> "touch", plugin |-> p, instance |-> i,
                          row |-> instance[p][i], at |-> at])
            /\ Contact(p, i, at)
      BY <1>7 DEF HeartbeatRead
    <3>2. call'[u] = [phase |-> "touch", plugin |-> p, instance |-> i,
                      row |-> instance[p][i], at |-> at]
      BY <1>0, <2>2, <3>1 DEF Become
    <3>3. at <= contact'[p][i]
      BY <1>0, <1>1, <3>1, ContactEffect
    <3> QED BY <3>2, <3>3 DEF CallFollowsContact
  <2> QED BY <2>1, <2>2
<1>8. ASSUME NEW t \in Thread, Serve(t)
      PROVE  CallFollowsContact(call[u])'
  BY <1>4, <1>5, <1>6, <1>7, <1>8
  DEF Serve, ClientCall, RegisterRefused, RegisterCommit, RegisterRollback, HeartbeatSave,
    Unregister, AdminSetInstance, AdminSetService, CallFails
<1>9. ASSUME NEW t \in Thread, Return(t)
      PROVE  CallFollowsContact(call[u])'
  BY <1>4, <1>9 DEF Return
<1>10. ASSUME ServerRestart
       PROVE  CallFollowsContact(call[u])'
  BY <1>3, <1>10 DEF ServerRestart
<1>11. CASE call' = call
  BY <1>2, <1>11
<1> QED
  BY <1>8, <1>9, <1>10, <1>11
  DEF Next, Proceed, Invalidate, Restart, HealthStep, ProbeOutcome, HealthList, HealthProbe,
    HealthUpdateFails, HealthReload, HealthInvalidate, MaintainDisableStale,
    MaintainInvalidate, Tick, vars

\* LeaseInv is inductive.
THEOREM LeaseInductive ==
  /\ Init => LeaseInv
  /\ LeaseInv /\ [Next]_vars => LeaseInv'
<1>1. ASSUME Init
      PROVE  LeaseInv
  <2>1. TypeOK
    BY <1>1, TypeInductive
  <2>2. LeaseFollowsContact
    BY <1>1 DEF Init, TablesInit, LeaseFollowsContact, HasRow
  <2>3. \A p \in Plugin, i \in Instance : contact[p][i] <= now
    BY <1>1 DEF Init
  <2>4. \A t \in Thread : CallFollowsContact(call[t])
    BY <1>1 DEF Init, CallFollowsContact, IdleCall
  <2> QED BY <2>1, <2>2, <2>3, <2>4 DEF LeaseInv
<1>2. ASSUME LeaseInv, [Next]_vars
      PROVE  LeaseInv'
  <2>1. TypeOK'
    BY <1>2, TypeInductive DEF LeaseInv
  <2>2. \A p \in Plugin, i \in Instance :
          /\ contact'[p][i] \in Nat
          /\ contact[p][i] \in Nat
          /\ contact[p][i] <= contact'[p][i]
          /\ contact'[p][i] <= now'
    BY <1>2, ContactGrows
  <2>3. ASSUME NEW p \in Plugin, NEW i \in Instance, HasRow(p, i)'
        PROVE  instance'[p][i].lease <= contact'[p][i] + TTL
    <3>1. instance'[p][i] \in InstanceRow
      BY <2>1, <2>3 DEF TypeOK, TablesType, HasRow
    <3>2. instance'[p][i].lease \in Nat /\ TTL \in Nat
      BY <3>1, TablesAssumption DEF InstanceRow
    <3>3. instance'[p][i].lease <= contact[p][i] + TTL
      BY <1>2, <2>3, LeaseSteps
    <3> QED BY <2>2, <3>2, <3>3
  <2>4. \A t \in Thread : CallFollowsContact(call[t])'
    BY <1>2, CallSteps
  <2> QED BY <2>1, <2>2, <2>3, <2>4 DEF LeaseInv, LeaseFollowsContact
<1> QED BY <1>1, <1>2

\* An instance that falls silent is out of routing one TTL later at the latest,
\* whichever of its calls are still under way and whatever they overtake.
THEOREM AlwaysLeaseFollowsContact == Spec => []LeaseFollowsContact
<1>1. LeaseInv => LeaseFollowsContact
  BY DEF LeaseInv
<1> QED BY <1>1, LeaseInductive, PTL DEF Spec

-----------------------------------------------------------------------------
(* Who may bring an instance back. *)

\* After a step of thread t a call that is under way for an instance was so before,
\* or t has just begun it: by its registration, or by a heartbeat that found it active.
LEMMA ServeBegins ==
  ASSUME TypeOK, NEW t \in Thread, Serve(t), NEW p \in Plugin, NEW i \in Instance,
         UnderWay(p, i)'
  PROVE  \/ UnderWay(p, i)
         \/ \E m \in Manifest : PluginOf[m] = p /\ Register(t, m, i)
         \/ HeartbeatRead(t, p, i)
<1>0. call \in [Thread -> Call]
  BY DEF TypeOK
<1>1. PICK u \in Thread :
        \/ /\ call'[u].phase = "register"
           /\ PluginOf[call'[u].manifest] = p /\ call'[u].instance = i
        \/ /\ call'[u].phase = "touch"
           /\ call'[u].plugin = p /\ call'[u].instance = i
  BY DEF UnderWay
<1>2. CASE u # t
  <2>1. call'[u] = call[u]
    BY <1>0, <1>2, AfterWriteEffect
    DEF Become, Serve, ClientCall, Register, RegisterCheck, RegisterRefused,
      RegisterCommit, RegisterRollback, HeartbeatRead, HeartbeatSave, Unregister,
      AdminSetInstance, AdminSetService, CallFails
  <2> QED BY <1>1, <2>1 DEF UnderWay
<1>3. CASE u = t
  <2>1. CASE AfterWrite(t) \/ Become(t, IdleCall)
    BY <1>0, <1>1, <1>3, <2>1 DEF AfterWrite, Become, IdleCall, InvalidateCall
  <2>2. ASSUME NEW m \in Manifest, NEW j \in Instance, Register(t, m, j)
        PROVE  PluginOf[m] = p /\ Register(t, m, i)
    <3>1. call'[t] = [phase |-> "register", manifest |-> m, instance |-> j, at |-> now,
                      left |-> RoutesOf[m]]
      BY <1>0, <2>2 DEF Register, Become
    <3> QED BY <1>1, <1>3, <2>2, <3>1
  <2>3. ASSUME NEW q \in Plugin, NEW j \in Instance, HeartbeatRead(t, q, j)
        PROVE  HeartbeatRead(t, p, i)
    <3>1. PICK at \in 0 .. now :
            call'[t] = [phase |-> "touch", plugin |-> q, instance |-> j,
                        row |-> instance[q][j], at |-> at]
      BY <1>0, <2>3 DEF HeartbeatRead, Become
    <3> QED BY <1>1, <1>3, <2>3, <3>1
  <2>4. CASE RegisterCheck(t)
    <3>1. call[t] \in RegisterCall
      BY <1>0, <2>4, CallKinds DEF RegisterCheck
    <3>2. PICK r \in call[t].left : Become(t, [call[t] EXCEPT !.left = @ \ {r}])
      BY <2>4 DEF RegisterCheck
    <3>3. call'[t] = [call[t] EXCEPT !.left = @ \ {r}]
      BY <1>0, <3>2 DEF Become
    <3>4. /\ call'[t].phase = "register" /\ call[t].phase = "register"
          /\ call'[t].manifest = call[t].manifest
          /\ call'[t].instance = call[t].instance
      BY <3>1, <3>3 DEF RegisterCall
    <3> QED BY <1>1, <1>3, <3>4 DEF UnderWay
  <2> QED
    BY <2>1, <2>2, <2>3, <2>4
    DEF Serve, ClientCall, RegisterRefused, RegisterCommit, RegisterRollback,
      HeartbeatSave, Unregister, AdminSetInstance, AdminSetService, CallFails
<1> QED BY <1>2, <1>3

\* A step of thread t leaves a row that is not active so, unless the call it ends was
\* under way for it or an administrator enables it.
LEMMA ServeLeavesOut ==
  ASSUME TypeOK, NEW t \in Thread, Serve(t), NEW p \in Plugin, NEW i \in Instance,
         ShutOut(p, i), ~AdminSetInstance(t, p, i, "active")
  PROVE  HasRow(p, i)' /\ instance'[p][i].status # "active"
<1>0. /\ call \in [Thread -> Call]
      /\ instance \in [Plugin -> [Instance -> InstanceRow \cup {None}]]
      /\ HasRow(p, i) /\ instance[p][i].status # "active"
      /\ instance[p][i] \in InstanceRow
      /\ TablesType
  BY RowType DEF TypeOK, TablesType, ShutOut
<1>1. CASE instance' = instance
  BY <1>0, <1>1 DEF HasRow
<1>2. CASE RegisterCommit(t)
  <2>1. /\ call[t] \in RegisterCall /\ call[t].phase = "register"
        /\ UpsertRegistration(call[t].instance, call[t].manifest, call[t].at)
    BY <1>0, <1>2, CallKinds DEF RegisterCommit, Checked
  <2>2. ~(PluginOf[call[t].manifest] = p /\ call[t].instance = i)
    BY <2>1 DEF ShutOut, UnderWay
  <2>3. /\ PluginOf[call[t].manifest] \in Plugin
        /\ i \notin Superseded(p, call[t].instance, call[t].manifest)
    BY <1>0, <2>1, TablesAssumption DEF RegisterCall, Superseded
  <2>4. instance'[p][i] = instance[p][i]
    BY <1>0, <2>1, <2>2, <2>3 DEF UpsertRegistration, UpsertInstances
  <2> QED BY <1>0, <2>4 DEF HasRow
<1>3. CASE HeartbeatSave(t)
  <2>1. call[t] \in TouchCall /\ call[t].phase = "touch"
    BY <1>0, <1>3, CallKinds DEF HeartbeatSave
  <2>2. ~(call[t].plugin = p /\ call[t].instance = i)
    BY <2>1 DEF ShutOut, UnderWay
  <2>3. instance'[p][i] = instance[p][i]
    BY <1>0, <1>3, <2>1, <2>2, WriteInstanceEffect DEF HeartbeatSave, TouchSave, TouchCall
  <2> QED BY <1>0, <2>3 DEF HasRow
<1>4. ASSUME NEW q \in Plugin, NEW j \in Instance, NEW s \in {"active", "disabled"},
             SetInstanceStatus(q, j, s), q = p /\ j = i => s = "disabled"
      PROVE  HasRow(p, i)' /\ instance'[p][i].status # "active"
  <2>1. instance'[p][i] = IF p = q /\ i = j THEN [instance[q][j] EXCEPT !.status = s]
                          ELSE instance[p][i]
    BY <1>0, <1>4, WriteInstanceEffect DEF SetInstanceStatus
  <2>2. CASE q = p /\ j = i
    <3>1. /\ instance'[p][i] = [instance[p][i] EXCEPT !.status = "disabled"]
          /\ instance'[p][i] \in InstanceRow
      BY <1>0, <1>4, <2>1, <2>2 DEF InstanceRow
    <3>2. instance'[p][i].status = "disabled"
      BY <1>0, <3>1 DEF InstanceRow
    <3> QED BY <3>1, <3>2, NoneAssumption DEF HasRow
  <2>3. CASE ~(q = p /\ j = i)
    BY <1>0, <2>1, <2>3 DEF HasRow
  <2> QED BY <2>2, <2>3
<1>5. ASSUME NEW q \in Plugin, NEW j \in Instance, Unregister(t, q, j)
      PROVE  HasRow(p, i)' /\ instance'[p][i].status # "active"
  BY <1>4, <1>5 DEF Unregister
<1>6. ASSUME NEW q \in Plugin, NEW j \in Instance, NEW s \in {"active", "disabled"},
             AdminSetInstance(t, q, j, s)
      PROVE  HasRow(p, i)' /\ instance'[p][i].status # "active"
  <2>1. SetInstanceStatus(q, j, s) /\ (q = p /\ j = i => s = "disabled")
    BY <1>6 DEF AdminSetInstance
  <2> QED BY <1>4, <2>1
<1> QED
  BY <1>1, <1>2, <1>3, <1>5, <1>6
  DEF Serve, ClientCall, Register, RegisterCheck, RegisterRefused, RegisterRollback,
    HeartbeatRead, AdminSetService, SetServiceStatus, CallFails, tables

\* The sweep and the maintenance leave a row that is not active so.
LEMMA BackgroundLeavesOut ==
  ASSUME TypeOK, HealthStep \/ MaintainDisableStale, NEW p \in Plugin, NEW i \in Instance,
         HasRow(p, i), instance[p][i].status # "active"
  PROVE  HasRow(p, i)' /\ instance'[p][i].status # "active"
<1>0. /\ instance \in [Plugin -> [Instance -> InstanceRow \cup {None}]]
      /\ sweep.targets \subseteq Target
      /\ instance[p][i] \in InstanceRow
      /\ TablesType
  BY RowType DEF TypeOK, TablesType, Sweep
<1>1. CASE instance' = instance
  BY <1>1 DEF HasRow
<1>2. ASSUME NEW x \in sweep.targets, NEW ok \in BOOLEAN, HealthProbe(x, ok)
      PROVE  HasRow(p, i)' /\ instance'[p][i].status # "active"
  <2> DEFINE health == NextHealth(x, ok)
             failures == NextFailures(x, ok)
             row == CheckedRow(instance[x.plugin][x.instance], health, failures)
  <2>1. x \in Target /\ UpdateInstanceHealth(x.plugin, x.instance, health, failures)
    BY <1>0, <1>2 DEF HealthProbe
  <2>2. instance'[p][i] = IF p = x.plugin /\ i = x.instance THEN row ELSE instance[p][i]
    BY <1>0, <2>1, WriteInstanceEffect DEF UpdateInstanceHealth, Target
  <2>3. CASE p = x.plugin /\ i = x.instance
    <3>1. health \in {"unknown", "healthy", "unhealthy"} /\ failures \in Nat
      BY <2>1 DEF NextHealth, NextFailures, Target
    <3> HIDE DEF health, failures
    <3>2. /\ instance'[p][i] = CheckedRow(instance[p][i], health, failures)
          /\ instance'[p][i] \in InstanceRow
      BY <1>0, <2>2, <2>3, <3>1, CheckedRowType
    <3>3. instance'[p][i].status = instance[p][i].status
      BY <1>0, <3>2 DEF CheckedRow, InstanceRow
    <3> QED BY <1>0, <3>2, <3>3, NoneAssumption DEF HasRow
  <2>4. CASE ~(p = x.plugin /\ i = x.instance)
    BY <2>2, <2>4 DEF HasRow
  <2> QED BY <2>3, <2>4
<1>3. CASE MaintainDisableStale
  <2>1. PICK at \in 0 .. now : DisableStalePluginInstances(at)
    BY <1>3 DEF MaintainDisableStale
  <2>2. instance'[p][i] = instance[p][i]
    BY <2>1 DEF DisableStalePluginInstances, Stale
  <2> QED BY <2>2 DEF HasRow
<1> QED
  BY <1>1, <1>2, <1>3
  DEF HealthStep, ProbeOutcome, HealthList, HealthUpdateFails, HealthReload, tables

\* An instance that is disabled or superseded while no call of its own is under way
\* comes back by a registration of its own that begins after that, or by an
\* administrator, and by nothing else.
THEOREM AlwaysShutOutUntilReadmitted == Spec => ShutOutUntilReadmitted
<1>1. ASSUME TypeOK, [Next]_vars, NEW p \in Plugin, NEW i \in Instance,
             ShutOut(p, i), ~ShutOut(p, i)'
      PROVE  \E t \in Thread : \/ \E m \in Manifest : PluginOf[m] = p /\ Register(t, m, i)
                               \/ AdminSetInstance(t, p, i, "active")
  <2>0. HasRow(p, i) /\ instance[p][i].status # "active" /\ ~UnderWay(p, i)
    BY <1>1 DEF ShutOut
  <2>1. ASSUME NEW t \in Thread, Serve(t)
        PROVE  \/ \E m \in Manifest : PluginOf[m] = p /\ Register(t, m, i)
               \/ AdminSetInstance(t, p, i, "active")
    <3>1. ~HeartbeatRead(t, p, i)
      BY <2>0 DEF HeartbeatRead
    <3>2. CASE UnderWay(p, i)'
      BY <1>1, <2>0, <2>1, <3>1, <3>2, ServeBegins
    <3>3. CASE ~UnderWay(p, i)'
      BY <1>1, <2>1, <3>3, ServeLeavesOut DEF ShutOut
    <3> QED BY <3>2, <3>3
  <2>2. CASE HealthStep \/ MaintainDisableStale
    <3>1. call' = call
      BY <2>2 DEF HealthStep, ProbeOutcome, HealthList, HealthProbe, HealthUpdateFails,
        HealthReload, MaintainDisableStale
    <3>2. HasRow(p, i)' /\ instance'[p][i].status # "active"
      BY <1>1, <2>0, <2>2, BackgroundLeavesOut
    <3> QED BY <1>1, <2>0, <3>1, <3>2 DEF ShutOut, UnderWay
  <2>3. CASE tables' = tables /\ \A u \in Thread : call'[u] \in {call[u], IdleCall}
    <3>1. ~UnderWay(p, i)'
      BY <2>0, <2>3 DEF UnderWay, IdleCall
    <3> QED BY <1>1, <2>0, <2>3, <3>1 DEF ShutOut, HasRow, tables
  <2>4. CASE Tick \/ Invalidate \/ Restart \/ UNCHANGED vars
    <3>1. call \in [Thread -> Call]
      BY <1>1 DEF TypeOK
    <3> QED
      BY <2>3, <2>4, <3>1
      DEF Tick, Invalidate, Return, Become, HealthInvalidate, MaintainInvalidate, Restart,
        ServerRestart, vars
  <2> QED BY <1>1, <2>1, <2>2, <2>4 DEF Next, Proceed
<1>2. TypeOK /\ [Next]_vars =>
        [\A p \in Plugin, i \in Instance : ShutOut(p, i) /\ ~ShutOut(p, i)' =>
           \E t \in Thread :
             \/ \E m \in Manifest : PluginOf[m] = p /\ Register(t, m, i)
             \/ AdminSetInstance(t, p, i, "active")]_vars
  BY <1>1
<1> QED BY <1>2, TypeCorrect, PTL DEF Spec, ShutOutUntilReadmitted

=============================================================================
