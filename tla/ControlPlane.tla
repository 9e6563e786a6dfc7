----------------------------- MODULE ControlPlane -----------------------------
(***************************************************************************)
(* The control plane of the plugin system (internal/application/plugin):   *)
(* registration, heartbeats, unregistration and the administrative calls,  *)
(* each served by an HTTP handler thread, the health sweep and the stale   *)
(* instance maintenance, each a goroutine of its own, over the tables.     *)
(*                                                                         *)
(* A call is split where another one can get in between: between the       *)
(* queries of FindRouteConflict and before the transaction that follows,   *)
(* between the read and the write of TouchInstance, and between a          *)
(* committed write and the cache invalidation after it.  Calls have passed *)
(* the signature and manifest checks.  One that the code answers with an   *)
(* error before it writes anything (404 for a missing row, 403, 409 on a   *)
(* heartbeat) changes nothing and is no step.                              *)
(***************************************************************************)
EXTENDS PluginTables

CONSTANTS
  Thread,        \* HTTP handler threads
  Operation,     \* what happens: the calls that clients make, sweeps, failures
  Threshold,     \* plugins.unhealthy_threshold
  MaxTime,       \* bound on the clock
  MaxFailures    \* bound on the consecutive failures of one instance

Operations == {"register", "heartbeat", "unregister", "set_instance", "set_service",
               "health", "maintain", "fail", "restart"}

ASSUME ControlPlaneAssumption ==
  /\ Operation \subseteq Operations
  /\ Threshold \in Nat \ {0}
  /\ MaxTime \in Nat
  /\ MaxFailures \in Nat

VARIABLES
  now,             \* the clock
  call,            \* thread -> the call it serves
  sweep,           \* the health sweep
  maintenance,     \* the maintenance goroutine: idle or about to invalidate
  contact          \* history: when the instance last got a call accepted

background == <<sweep, maintenance>>
history == <<contact>>
vars == <<tables, now, call, background, history>>

IdleCall == [phase |-> "idle"]

InvalidateCall == [phase |-> "invalidate"]

RegisterCall == [phase : {"register"}, manifest : Manifest, instance : Instance,
                 at : Nat, left : SUBSET Route]

TouchCall == [phase : {"touch"}, plugin : Plugin, instance : Instance,
              row : InstanceRow, at : Nat]

Call == {IdleCall, InvalidateCall} \cup RegisterCall \cup TouchCall

\* What the sweep keeps of a row it listed.
Target == [plugin : Plugin, instance : Instance,
           health : {"unknown", "healthy", "unhealthy"}, failures : Nat]

Sweep == [phase : {"idle", "probing", "reload", "invalidate"},
          targets : SUBSET Target, current : Target \cup {None}]

IdleSweep == [phase |-> "idle", targets |-> {}, current |-> None]

TypeOK ==
  /\ TablesType
  /\ now \in Nat
  /\ call \in [Thread -> Call]
  /\ sweep \in Sweep
  /\ maintenance \in {"idle", "invalidate"}
  /\ contact \in [Plugin -> [Instance -> Nat]]

Init ==
  /\ TablesInit
  /\ now = 0
  /\ call = [t \in Thread |-> IdleCall]
  /\ sweep = IdleSweep
  /\ maintenance = "idle"
  /\ contact = [p \in Plugin |-> [i \in Instance |-> 0]]

-----------------------------------------------------------------------------
(* Calls. *)

Idle(t) == call[t].phase = "idle"

Become(t, c) == call' = [call EXCEPT ![t] = c]

\* A committed write: the driver reports success, and the handler goes on to
\* invalidate the route cache, or it reports an error for a statement that was
\* applied, and the handler returns at once.
AfterWrite(t) ==
  \/ Become(t, InvalidateCall)
  \/ "fail" \in Operation /\ Become(t, IdleCall)

\* The instance made itself heard: its new lease counts from there.
Contact(p, i, at) ==
  contact' = [contact EXCEPT ![p][i] = IF at > contact[p][i] THEN at ELSE contact[p][i]]

\* Register up to the clock it takes the lease from.
Register(t, m, i) ==
  /\ Idle(t)
  /\ Become(t, [phase |-> "register", manifest |-> m, instance |-> i, at |-> now,
                left |-> RoutesOf[m]])
  /\ Contact(PluginOf[m], i, now)
  /\ UNCHANGED <<tables, now, background>>

\* One query of FindRouteConflict, which looks at one route and finds no claim
\* in its way.
RegisterCheck(t) ==
  /\ call[t].phase = "register"
  /\ \E r \in call[t].left :
       /\ ~Claimed(PluginOf[call[t].manifest], r)
       /\ Become(t, [call[t] EXCEPT !.left = @ \ {r}])
  /\ UNCHANGED <<tables, now, background, history>>

\* One that finds a conflict: 409.
RegisterRefused(t) ==
  /\ call[t].phase = "register"
  /\ \E r \in call[t].left : Claimed(PluginOf[call[t].manifest], r)
  /\ Become(t, IdleCall)
  /\ UNCHANGED <<tables, now, background, history>>

Checked(t) == call[t].phase = "register" /\ call[t].left = {}

RegisterCommit(t) ==
  /\ Checked(t)
  /\ UpsertRegistration(call[t].instance, call[t].manifest, call[t].at)
  /\ AfterWrite(t)
  /\ UNCHANGED <<now, background, history>>

\* A claim made since FindRouteConflict looked: the transaction rolls back, and the
\* conflict is answered as a failing dependency.
RegisterRollback(t) ==
  /\ Checked(t)
  /\ RouteConflict(call[t].manifest)
  /\ Become(t, IdleCall)
  /\ UNCHANGED <<tables, now, background, history>>

\* A heartbeat that refuses only an instance of an older manifest.
HeartbeatReadDisabled(t, p, i) ==
  /\ Idle(t)
  /\ HasRow(p, i)
  /\ instance[p][i].status # "incompatible"
  /\ \E at \in 0 .. now :
       /\ Become(t, [phase |-> "touch", plugin |-> p, instance |-> i,
                     row |-> instance[p][i], at |-> at])
       /\ Contact(p, i, at)
  /\ UNCHANGED <<tables, now, background>>

\* TouchInstance reads the row and lets an active instance pass; the clock for
\* the lease was read before.
HeartbeatRead(t, p, i) ==
  /\ Idle(t)
  /\ HasRow(p, i)
  /\ instance[p][i].status = "active"
  /\ \E at \in 0 .. now :
       /\ Become(t, [phase |-> "touch", plugin |-> p, instance |-> i,
                     row |-> instance[p][i], at |-> at])
       /\ Contact(p, i, at)
  /\ UNCHANGED <<tables, now, background>>

\* A heartbeat that takes its lease from the moment of the write.
HeartbeatSaveLate(t) ==
  /\ call[t].phase = "touch"
  /\ TouchSave(call[t].plugin, call[t].instance, call[t].row, now)
  /\ AfterWrite(t)
  /\ UNCHANGED <<now, background, history>>

HeartbeatSave(t) ==
  /\ call[t].phase = "touch"
  /\ TouchSave(call[t].plugin, call[t].instance, call[t].row, call[t].at)
  /\ AfterWrite(t)
  /\ UNCHANGED <<now, background, history>>

\* Unregister disables the row, whatever its status.
Unregister(t, p, i) ==
  /\ Idle(t)
  /\ SetInstanceStatus(p, i, "disabled")
  /\ AfterWrite(t)
  /\ UNCHANGED <<now, background, history>>

\* The administrative DisableInstance and EnableInstance.
AdminSetInstance(t, p, i, status) ==
  /\ Idle(t)
  /\ SetInstanceStatus(p, i, status)
  /\ AfterWrite(t)
  /\ UNCHANGED <<now, background, history>>

\* The administrative DisableService and EnableService.
AdminSetService(t, p, status) ==
  /\ Idle(t)
  /\ SetServiceStatus(p, status)
  /\ AfterWrite(t)
  /\ UNCHANGED <<now, background, history>>

\* invalidateRouteCache, the audit record, and the answer.
Return(t) ==
  /\ call[t].phase = "invalidate"
  /\ Become(t, IdleCall)
  /\ UNCHANGED <<tables, now, background, history>>

\* A statement fails, a deadlock's victim is rolled back, or the client's
\* context ends: the call returns an error and nothing was written.
CallFails(t) ==
  /\ call[t].phase \in {"register", "touch"}
  /\ Become(t, IdleCall)
  /\ UNCHANGED <<tables, now, background, history>>

-----------------------------------------------------------------------------
(* The health sweep: CheckHealth and, for each target, checkInstanceHealth. *)

Probing(targets) ==
  IF targets = {} THEN IdleSweep
  ELSE [phase |-> "probing", targets |-> targets, current |-> None]

\* The clock was read before the query that lists the targets.
HealthList ==
  /\ sweep.phase = "idle"
  /\ \E at \in 0 .. now :
       LET listed == {pi \in Plugin \X Instance : HealthTarget(pi[1], pi[2], at)}
       IN  sweep' = Probing({[plugin |-> pi[1], instance |-> pi[2],
                              health |-> instance[pi[1]][pi[2]].health,
                              failures |-> instance[pi[1]][pi[2]].failures] : pi \in listed})
  /\ UNCHANGED <<tables, now, call, maintenance, history>>

\* What a probe comes to: the instance answers its health path in time, with a status
\* from 200 to 399, or it does not.
ProbeOutcome == BOOLEAN

\* The failures counted and the health after a probe of a target as it was listed.
NextFailures(x, ok) == IF ok THEN 0 ELSE x.failures + 1

\* A sweep that takes an instance out only when the failures exceed the threshold.
NextHealthBeyond(x, ok) ==
  CASE ok -> "healthy"
    [] ~ok /\ NextFailures(x, ok) > Threshold -> "unhealthy"
    [] OTHER -> x.health

NextHealth(x, ok) ==
  CASE ok -> "healthy"
    [] ~ok /\ NextFailures(x, ok) >= Threshold -> "unhealthy"
    [] OTHER -> x.health

\* The probe of a target ends and UpdateInstanceHealth writes what came of it.
\* The row is read again next, unless the update was reported to have failed.
HealthProbe(x, ok) ==
  /\ sweep.phase = "probing"
  /\ x \in sweep.targets
  /\ ok \/ x.failures < MaxFailures
  /\ UpdateInstanceHealth(x.plugin, x.instance, NextHealth(x, ok), NextFailures(x, ok))
  /\ \/ sweep' = [phase |-> "reload", targets |-> sweep.targets \ {x}, current |-> x]
     \/ "fail" \in Operation /\ sweep' = Probing(sweep.targets \ {x})
  /\ UNCHANGED <<now, call, maintenance, history>>

\* The update fails: on to the next target.
HealthUpdateFails(x) ==
  /\ sweep.phase = "probing"
  /\ x \in sweep.targets
  /\ sweep' = Probing(sweep.targets \ {x})
  /\ UNCHANGED <<tables, now, call, maintenance, history>>

\* The row as it now is against the row as it was listed: only a difference is
\* announced.
HealthReload ==
  /\ sweep.phase = "reload"
  /\ LET x == sweep.current
     IN  sweep' = IF instance[x.plugin][x.instance].health = x.health
                  THEN Probing(sweep.targets)
                  ELSE [sweep EXCEPT !.phase = "invalidate"]
  /\ UNCHANGED <<tables, now, call, maintenance, history>>

HealthInvalidate ==
  /\ sweep.phase = "invalidate"
  /\ sweep' = Probing(sweep.targets)
  /\ UNCHANGED <<tables, now, call, maintenance, history>>

-----------------------------------------------------------------------------
(* Maintenance, restarts, time. *)

\* Maintain, whose clock was read before it pruned the nonces and the audit.
MaintainDisableStale ==
  /\ maintenance = "idle"
  /\ \E at \in 0 .. now :
       /\ \E p \in Plugin, i \in Instance : Stale(p, i, at)
       /\ DisableStalePluginInstances(at)
  /\ \/ maintenance' = "invalidate"
     \/ "fail" \in Operation /\ UNCHANGED maintenance
  /\ UNCHANGED <<now, call, sweep, history>>

MaintainInvalidate ==
  /\ maintenance = "invalidate"
  /\ maintenance' = "idle"
  /\ UNCHANGED <<tables, now, call, sweep, history>>

\* The server dies and starts again; the tables stay.
ServerRestart ==
  /\ call' = [t \in Thread |-> IdleCall]
  /\ sweep' = IdleSweep
  /\ maintenance' = "idle"
  /\ UNCHANGED <<tables, now, history>>

Tick ==
  /\ now < MaxTime
  /\ now' = now + 1
  /\ UNCHANGED <<tables, call, background, history>>

ClientCall(t) ==
  \/ /\ "register" \in Operation
     /\ \E m \in Manifest, i \in Instance : Register(t, m, i)
  \/ /\ "heartbeat" \in Operation
     /\ \E p \in Plugin, i \in Instance : HeartbeatRead(t, p, i)
  \/ /\ "unregister" \in Operation
     /\ \E p \in Plugin, i \in Instance : Unregister(t, p, i)
  \/ /\ "set_instance" \in Operation
     /\ \E p \in Plugin, i \in Instance, s \in {"active", "disabled"} :
          AdminSetInstance(t, p, i, s)
  \/ /\ "set_service" \in Operation
     /\ \E p \in Plugin, s \in {"active", "disabled"} : AdminSetService(t, p, s)

Serve(t) ==
  \/ ClientCall(t)
  \/ RegisterCheck(t) \/ RegisterRefused(t) \/ RegisterCommit(t) \/ RegisterRollback(t)
  \/ HeartbeatSave(t)
  \/ "fail" \in Operation /\ CallFails(t)

HealthStep ==
  \/ "health" \in Operation /\ HealthList
  \/ \E x \in sweep.targets : \E ok \in ProbeOutcome : HealthProbe(x, ok)
  \/ "fail" \in Operation /\ \E x \in sweep.targets : HealthUpdateFails(x)
  \/ HealthReload

\* The steps that leave the route cache alone.
Proceed ==
  \/ \E t \in Thread : Serve(t)
  \/ HealthStep
  \/ "maintain" \in Operation /\ MaintainDisableStale
  \/ Tick

\* invalidateRouteCache, called from one of its three places.
Invalidate ==
  \/ \E t \in Thread : Return(t)
  \/ HealthInvalidate
  \/ MaintainInvalidate

Restart == "restart" \in Operation /\ ServerRestart

Next == Proceed \/ Invalidate \/ Restart

Spec == Init /\ [][Next]_vars

-----------------------------------------------------------------------------
(* ResolveRoute on the tables as they are, and what Diagnose says of it. *)

\* A choice that takes the leases for checked, since the query did.
CandidatesAsRead(found, x, at) ==
  {y \in found.instances : y.plugin = x.plugin /\
     \E s \in found.services : s.plugin = x.plugin /\ y.row.manifest = s.manifest}

\* The instances left for a route row: none when its service is not among
\* those found, else those routable for the manifest of that service.
Candidates(found, x, at) ==
  {y \in found.instances : y.plugin = x.plugin /\
     \E s \in found.services : s.plugin = x.plugin /\ Routable(y.row, s.manifest, at)}

\* The route rows and instances that ResolveRoute may answer with.
Resolvable(q, at) ==
  LET found == [services |-> ActiveServices, instances |-> RoutableInstances(at),
                routes |-> ActiveRoutes]
  IN  UNION {{<<x, y.instance>> : y \in Candidates(found, x, at)} :
               x \in BestRows(found.routes, q)}

\* A lease counted as expired at its last moment, not after it.
ReasonsAtExpiry(p, i, at) ==
  LET row == instance[p][i]
      holds == [service_disabled |-> service[p].status # "active",
                manifest_mismatch |-> row.manifest # service[p].manifest,
                instance_status |-> row.status # "active",
                lease_expired |-> row.lease <= at,
                health |-> row.health \notin {"unknown", "healthy"}]
  IN  {r \in DOMAIN holds : holds[r]}

\* Why an instance would not be routed to.
Reasons(p, i, at) ==
  LET row == instance[p][i]
      holds == [service_disabled |-> service[p].status # "active",
                manifest_mismatch |-> row.manifest # service[p].manifest,
                instance_status |-> row.status # "active",
                lease_expired |-> row.lease < at,
                health |-> row.health \notin {"unknown", "healthy"}]
  IN  {r \in DOMAIN holds : holds[r]}

\* It looks at the rows of one plugin, and asks nothing of FindRoutable.
Diagnose(p, q, at) ==
  [route |-> BestRows({x \in routes : x.plugin = p /\ x.manifest = service[p].manifest}, q),
   routable |-> {i \in Instance : HasRow(p, i) /\ Reasons(p, i, at) = {}}]

-----------------------------------------------------------------------------
(* Properties. *)

\* Two plugins never hold overlapping route claims, however their
\* registrations interleave: the check of FindRouteConflict is only advice, the
\* one inside the transaction of UpsertRegistration is what counts.
ClaimsExclusive ==
  \A c, d \in claims : c.plugin # d.plugin => ~RoutesOverlap(c.route, d.route)

\* The route rows and the claims of a plugin are those of the manifest its
\* service row names, all of them and no others: a registration replaces the
\* routes as a whole, and nothing else touches them.
RoutesFollowService ==
  /\ \A p \in Plugin : service[p] # None =>
       LET m == service[p].manifest
       IN  /\ PluginOf[m] = p
           /\ \A r \in RoutesOf[m] : /\ [plugin |-> p, manifest |-> m, route |-> r] \in routes
                                     /\ [plugin |-> p, route |-> r] \in claims
  /\ \A x \in routes : /\ service[x.plugin] # None
                       /\ x.manifest = service[x.plugin].manifest
                       /\ x.route \in RoutesOf[x.manifest]
  /\ \A c \in claims : /\ service[c.plugin] # None
                       /\ c.route \in RoutesOf[service[c.plugin].manifest]

\* No request is answered by route rows of two plugins, so a plugin cannot take
\* over, or be made to share, the traffic of another.
SingleOwner ==
  \A q \in Request : \A x, y \in routes :
    Matches(x.route, q) /\ Matches(y.route, q) => x.plugin = y.plugin

\* RouteMatcher never has to break a tie: its order over the matching rows has
\* one best row, whatever order the database returned them in.
OneBestRow ==
  \A q \in Request : \A x, y \in BestRows(routes, q) : x = y

\* What Diagnose tells an operator of a plugin is what the gateway does for it:
\* the matched route and the routable instances it reports are those that
\* ResolveRoute may pick, though Diagnose sees no other plugin's routes and
\* states the conditions of the queries and filters a third time.
DiagnosticsAgree ==
  \A p \in Plugin, q \in Request, at \in 0 .. now + TTL + 1 :
    service[p] # None =>
      LET d == Diagnose(p, q, at)
      IN  d.route \X d.routable = {z \in Resolvable(q, at) : z[1].plugin = p}

\* The requests that the route rows of a plugin match.
Owned ==
  [p \in Plugin |-> {q \in Request : \E x \in routes : x.plugin = p /\ Matches(x.route, q)}]

Ownership == INSTANCE RouteOwnership WITH owned <- Owned

\* Registration over tables, threads and transactions does what RouteOwnership
\* promises: what a plugin owns changes in one step, to all it asked for, and
\* never to a request somebody else owns.
OwnershipSpec == Ownership!Spec

\* A row is unhealthy exactly when its consecutive failures reached the
\* threshold, although the sweep writes blindly from a listing that
\* registrations and the whole-row saves of heartbeats overtake.  Rows that a
\* heartbeat or the sweep has read and will write back count too.
Coherent(x) == x.health = "unhealthy" <=> x.failures >= Threshold

HealthCoherent ==
  /\ \A p \in Plugin, i \in Instance : HasRow(p, i) => Coherent(instance[p][i])
  /\ \A t \in Thread : call[t].phase = "touch" => Coherent(call[t].row)
  /\ \A x \in sweep.targets : Coherent(x)

\* No lease lasts longer than TTL after the instance was last heard of, however
\* long its call was under way.
LeaseFollowsContact ==
  \A p \in Plugin, i \in Instance :
    HasRow(p, i) => instance[p][i].lease <= contact[p][i] + TTL

\* A call that will make the instance active when it commits: a registration of
\* it, or a heartbeat that found it active.
UnderWay(p, i) ==
  \E t \in Thread :
    \/ /\ call[t].phase = "register"
       /\ PluginOf[call[t].manifest] = p /\ call[t].instance = i
    \/ /\ call[t].phase = "touch"
       /\ call[t].plugin = p /\ call[t].instance = i

\* The instance was disabled or superseded, and no call overtook that.
ShutOut(p, i) ==
  HasRow(p, i) /\ instance[p][i].status # "active" /\ ~UnderWay(p, i)

\* An instance that an administrator, its unregister or the maintenance disabled,
\* or a newer manifest superseded, comes back by a registration of its own that
\* begins after that or by an administrator, and by nothing else: heartbeats,
\* probes, the maintenance and restarts leave it shut out (TouchInstance refuses
\* it, UpdateInstanceHealth writes no status).  A heartbeat that read its row
\* before may undo what came between; one that comes in later may not.
ShutOutUntilReadmitted ==
  [][\A p \in Plugin, i \in Instance : ShutOut(p, i) /\ ~ShutOut(p, i)' =>
       \E t \in Thread :
         \/ \E m \in Manifest : PluginOf[m] = p /\ Register(t, m, i)
         \/ AdminSetInstance(t, p, i, "active")]_vars

=============================================================================
