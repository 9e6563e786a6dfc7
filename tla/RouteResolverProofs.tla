------------------------- MODULE RouteResolverProofs -------------------------
(***************************************************************************)
(* Theorems about RouteResolver, for any control plane under it, any       *)
(* resolvers and any lifetime of a cache entry.                            *)
(***************************************************************************)
EXTENDS RouteResolver, ControlPlaneProofs

Looking == [phase : {"lookup", "services", "instances", "routes", "store", "choose"},
            start : Nat, found : Snapshot]

Picked == [phase : {"picked"}, start : Nat, instance : InstanceRead, route : RouteRow]

-----------------------------------------------------------------------------
(* The invariant. *)

\* When the instance that was read was last fit to be selected.
Seen(y) == lastSelectable[y.plugin][y.instance]

\* Fit to be selected less than CacheTTL before a request, or later.
Recent(y, start) == Seen(y) >= start \/ Seen(y) + CacheTTL > start

\* The lease that was read does not outlast the instance's latest contact by more
\* than TTL.
Heard(y) == y.row.lease <= contact[y.plugin][y.instance] + TTL

\* The history is up to date.
SelectableSeen ==
  \A p \in Plugin, i \in Instance :
    /\ lastSelectable[p][i] <= now
    /\ Selectable(p, i) => lastSelectable[p][i] = now

\* The cache holds nothing for longer than CacheTTL after it was fit.
CacheSound ==
  cache # None => \A y \in cache.found.instances :
                    Heard(y) /\ Seen(y) + CacheTTL >= cache.expires

\* What a resolution has read was fit since it began, and what it took from the cache
\* recently enough.
ResolveSound(r) ==
  /\ resolve[r] \in Looking => resolve[r].start <= now
  /\ resolve[r].phase \in {"routes", "store"} =>
       \A y \in resolve[r].found.instances : Heard(y) /\ Seen(y) >= resolve[r].start
  /\ resolve[r].phase = "choose" =>
       \A y \in resolve[r].found.instances : Heard(y) /\ Recent(y, resolve[r].start)
  /\ resolve[r].phase = "picked" =>
       LET y == resolve[r].instance
       IN  /\ Recent(y, resolve[r].start)
           /\ contact[y.plugin][y.instance] + TTL >= resolve[r].start

ResolverInv ==
  /\ LeaseInv
  /\ ResolverType
  /\ SelectableSeen
  /\ CacheSound
  /\ \A r \in Resolver : ResolveSound(r)

-----------------------------------------------------------------------------
(* What every step does. *)

LEMMA ResolveKinds ==
  ASSUME resolve \in [Resolver -> Resolve], NEW r \in Resolver
  PROVE  /\ resolve[r].phase \in {"lookup", "services", "instances", "routes", "store", "choose"}
              => resolve[r] \in Looking
         /\ resolve[r].phase = "picked" => resolve[r] \in Picked
BY DEF Resolve, IdleResolve, Looking, Picked

LEMMA LookingTypes ==
  /\ Looking \subseteq Resolve
  /\ Picked \subseteq Resolve
  /\ IdleResolve \in Resolve
  /\ Refusal("CodeNotFound") \in Resolve
  /\ Refusal("CodeServiceUnavailable") \in Resolve
BY DEF Resolve, Looking, Picked, Refusal

\* A step of the composition is a step of the control plane, or leaves it alone.
LEMMA ControlPlaneSteps ==
  ASSUME [ResolverNext]_resolverVars
  PROVE  [Next]_vars
BY DEF ResolverNext, resolverVars, ControlStep, Next, ResolveStep, ResolveStart, CacheHit,
       CacheMiss, ReadServices, ReadInstances, ReadRoutes, ReadFails, CacheStore, Choose, Done

\* The clock only moves forward.
LEMMA ClockGrows ==
  ASSUME TypeOK, [Next]_vars
  PROVE  now \in Nat /\ now' \in Nat /\ now <= now'
<1>1. now \in Nat
  BY DEF TypeOK
<1>2. now' = now \/ now' = now + 1
  BY DEF Next, Proceed, Invalidate, Restart, Serve, ClientCall, Register, RegisterCheck,
      RegisterRefused, RegisterCommit, RegisterRollback, HeartbeatRead, HeartbeatSave, Unregister,
      AdminSetInstance, AdminSetService, CallFails, Return, HealthStep, ProbeOutcome, HealthList,
      HealthProbe, HealthUpdateFails, HealthReload, HealthInvalidate,
      MaintainDisableStale, MaintainInvalidate, ServerRestart, Tick, vars
<1> QED BY <1>1, <1>2

\* Contacts and the history of fitness only move forward, too.
LEMMA HistoriesGrow ==
  ASSUME ResolverInv, [ResolverNext]_resolverVars
  PROVE  /\ LeaseInv'
         /\ now \in Nat /\ now' \in Nat /\ now <= now'
         /\ lastSelectable \in [Plugin -> [Instance -> Nat]]
         /\ lastSelectable' \in [Plugin -> [Instance -> Nat]]
         /\ SelectableSeen'
         /\ \A p \in Plugin, i \in Instance :
              /\ contact[p][i] \in Nat /\ contact'[p][i] \in Nat
              /\ contact[p][i] <= contact'[p][i]
              /\ lastSelectable[p][i] <= lastSelectable'[p][i]
<1>1. [Next]_vars
  BY ControlPlaneSteps
<1>2. TypeOK /\ LeaseInv /\ LeaseInv'
  BY <1>1, LeaseInductive DEF ResolverInv, LeaseInv
<1>3. now \in Nat /\ now' \in Nat /\ now <= now'
  BY <1>1, <1>2, ClockGrows
<1>4. \A p \in Plugin, i \in Instance :
        contact[p][i] \in Nat /\ contact'[p][i] \in Nat /\ contact[p][i] <= contact'[p][i]
  BY <1>1, <1>2, ContactGrows
<1>5. /\ lastSelectable \in [Plugin -> [Instance -> Nat]]
      /\ \A p \in Plugin, i \in Instance : lastSelectable[p][i] <= now
  BY DEF ResolverInv, ResolverType, SelectableSeen
<1>6. CASE ResolverNext
  <2>1. lastSelectable' = [p \in Plugin |-> [i \in Instance |->
          IF Selectable(p, i) \/ Selectable(p, i)' THEN now' ELSE lastSelectable[p][i]]]
    BY <1>6 DEF ResolverNext
  <2>2. \A p \in Plugin, i \in Instance :
          lastSelectable'[p][i] =
            IF Selectable(p, i) \/ Selectable(p, i)' THEN now' ELSE lastSelectable[p][i]
    BY <2>1, Zenon
  <2>3. lastSelectable' \in [Plugin -> [Instance -> Nat]]
    BY <1>3, <1>5, <2>1
  <2>4. \A p \in Plugin, i \in Instance : lastSelectable[p][i] \in Nat
    BY <1>5
  <2>5. SelectableSeen'
    <3> SUFFICES ASSUME NEW p \in Plugin, NEW i \in Instance
                 PROVE  /\ lastSelectable'[p][i] <= now'
                        /\ Selectable(p, i)' => lastSelectable'[p][i] = now'
      BY DEF SelectableSeen
    <3>1. CASE Selectable(p, i) \/ Selectable(p, i)'
      BY <1>3, <2>2, <3>1
    <3>2. CASE ~(Selectable(p, i) \/ Selectable(p, i)')
      BY <1>3, <1>5, <2>2, <2>4, <3>2
    <3> QED BY <3>1, <3>2
  <2>6. \A p \in Plugin, i \in Instance : lastSelectable[p][i] <= lastSelectable'[p][i]
    <3> TAKE p \in Plugin, i \in Instance
    <3>1. CASE Selectable(p, i) \/ Selectable(p, i)'
      BY <1>3, <1>5, <2>2, <2>4, <3>1
    <3>2. CASE ~(Selectable(p, i) \/ Selectable(p, i)')
      BY <2>2, <2>4, <3>2
    <3> QED BY <3>1, <3>2
  <2> QED BY <1>2, <1>3, <1>4, <1>5, <2>3, <2>5, <2>6
<1>7. CASE UNCHANGED resolverVars
  <2>1. lastSelectable' = lastSelectable /\ now' = now /\ UNCHANGED <<service, instance>>
    BY <1>7 DEF resolverVars, vars, tables
  <2>2. SelectableSeen'
    BY <2>1 DEF ResolverInv, SelectableSeen, Selectable, ServiceActive, HasRow
  <2>3. \A p \in Plugin, i \in Instance : lastSelectable[p][i] \in Nat
    BY <1>5
  <2> QED BY <1>2, <1>3, <1>4, <1>5, <2>1, <2>2, <2>3
<1> QED BY <1>6, <1>7

\* What was heard of stays so, and what was fit is fit as recently.
LEMMA HeldStays ==
  ASSUME ResolverInv, [ResolverNext]_resolverVars, NEW y \in InstanceRead
  PROVE  /\ Seen(y) \in Nat /\ Seen(y)' \in Nat /\ Seen(y) <= Seen(y)'
         /\ Heard(y) => Heard(y)'
         /\ \A start \in Nat : Recent(y, start) => Recent(y, start)'
<1>1. y.plugin \in Plugin /\ y.instance \in Instance /\ y.row.lease \in Nat
  BY DEF InstanceRead, InstanceRow
<1>2. Seen(y) \in Nat /\ Seen(y)' \in Nat /\ Seen(y) <= Seen(y)'
  BY <1>1, HistoriesGrow DEF Seen
<1>3. Heard(y) => Heard(y)'
  BY <1>1, HistoriesGrow, TablesAssumption DEF Heard
<1>4. \A start \in Nat : Recent(y, start) => Recent(y, start)'
  BY <1>2, ResolverAssumption DEF Recent
<1> QED BY <1>2, <1>3, <1>4

\* A resolution that makes no step.
LEMMA OthersStaySound ==
  ASSUME ResolverInv, [ResolverNext]_resolverVars, NEW r \in Resolver,
         resolve'[r] = resolve[r]
  PROVE  ResolveSound(r)'
<1>1. /\ resolve[r] \in Looking => resolve[r].start \in Nat /\ resolve[r].found \in Snapshot
      /\ resolve[r].phase \in {"routes", "store", "choose"} => resolve[r] \in Looking
      /\ resolve[r].phase = "picked" =>
           resolve[r].start \in Nat /\ resolve[r].instance \in InstanceRead
  BY ResolveKinds DEF ResolverInv, ResolverType, Looking, Picked
<1>2. resolve[r] \in Looking => \A y \in resolve[r].found.instances : y \in InstanceRead
  BY <1>1 DEF Snapshot
<1>3. ResolveSound(r)
  BY DEF ResolverInv
<1>4. resolve[r] \in Looking => resolve[r].start <= now'
  BY <1>1, <1>3, HistoriesGrow DEF ResolveSound
<1>5. ASSUME resolve[r].phase \in {"routes", "store"}, NEW y \in resolve[r].found.instances
      PROVE  Heard(y)' /\ Seen(y)' >= resolve[r].start
  BY <1>1, <1>2, <1>3, <1>5, HeldStays DEF ResolveSound
<1>6. ASSUME resolve[r].phase = "choose", NEW y \in resolve[r].found.instances
      PROVE  Heard(y)' /\ Recent(y, resolve[r].start)'
  BY <1>1, <1>2, <1>3, <1>6, HeldStays DEF ResolveSound
<1>7. ASSUME resolve[r].phase = "picked"
      PROVE  LET y == resolve[r].instance
             IN  /\ Recent(y, resolve[r].start)'
                 /\ contact'[y.plugin][y.instance] + TTL >= resolve[r].start
  <2> DEFINE y == resolve[r].instance
  <2>1. y.plugin \in Plugin /\ y.instance \in Instance
    BY <1>1, <1>7 DEF InstanceRead
  <2>2. contact[y.plugin][y.instance] + TTL >= resolve[r].start
    BY <1>3, <1>7 DEF ResolveSound
  <2>3. contact'[y.plugin][y.instance] + TTL >= resolve[r].start
    BY <1>1, <1>7, <2>1, <2>2, HistoriesGrow, TablesAssumption
  <2> QED BY <1>1, <1>3, <1>7, <2>3, HeldStays DEF ResolveSound
<1> QED BY <1>4, <1>5, <1>6, <1>7 DEF ResolveSound, Recent, Seen, Heard

\* The cache while it stays as it is, or is emptied.
LEMMA CacheStaysSound ==
  ASSUME ResolverInv, [ResolverNext]_resolverVars, cache' \in {cache, None}
  PROVE  CacheSound'
<1> SUFFICES ASSUME cache # None, cache' = cache, NEW y \in cache.found.instances
             PROVE  Heard(y)' /\ Seen(y)' + CacheTTL >= cache.expires
  BY DEF CacheSound
<1>1. cache.expires \in Nat /\ y \in InstanceRead
  BY DEF ResolverInv, ResolverType, CacheEntry, Snapshot
<1> QED BY <1>1, HeldStays, ResolverAssumption DEF ResolverInv, CacheSound

-----------------------------------------------------------------------------
(* The steps of a resolution. *)

\* What a resolution is left with after a step of its own.
LEMMA GoEffect ==
  ASSUME resolve \in [Resolver -> Resolve], NEW r \in Resolver, NEW to, Go(r, to)
  PROVE  /\ resolve'[r] = to
         /\ \A s \in Resolver \ {r} : resolve'[s] = resolve[s]
         /\ to \in Resolve => resolve' \in [Resolver -> Resolve]
BY DEF Go

\* What the queries return is well typed, and fit now.
LEMMA QueriesFit ==
  ASSUME ResolverInv, NEW at \in Nat, at <= now
  PROVE  /\ ActiveServices \subseteq ServiceRead
         /\ RoutableInstances(at) \subseteq InstanceRead
         /\ ActiveRoutes \subseteq RouteRow
         /\ \A y \in RoutableInstances(at) : Heard(y) /\ Seen(y) >= at
<1>1. /\ service \in [Plugin -> ServiceRow \cup {None}]
      /\ instance \in [Plugin -> [Instance -> InstanceRow \cup {None}]]
      /\ routes \subseteq RouteRow
      /\ now \in Nat
  BY DEF ResolverInv, LeaseInv, TypeOK, TablesType
<1>2. ActiveServices \subseteq ServiceRead
  BY <1>1 DEF ActiveServices, ServiceActive, ServiceRow, ServiceRead
<1>3. ActiveRoutes \subseteq RouteRow
  BY <1>1 DEF ActiveRoutes
<1>4. ASSUME NEW y \in RoutableInstances(at)
      PROVE  y \in InstanceRead /\ Heard(y) /\ Seen(y) >= at
  <2>1. PICK pi \in Plugin \X Instance :
          /\ Selectable(pi[1], pi[2])
          /\ y = [plugin |-> pi[1], instance |-> pi[2], row |-> instance[pi[1]][pi[2]]]
    BY <1>4 DEF RoutableInstances
  <2> DEFINE p == pi[1]
             i == pi[2]
  <2>2. p \in Plugin /\ i \in Instance
    BY <2>1
  <2>3. HasRow(p, i) /\ instance[p][i] \in InstanceRow
    BY <1>1, <2>1, <2>2 DEF Selectable, HasRow
  <2>4. y.plugin = p /\ y.instance = i /\ y.row = instance[p][i] /\ y \in InstanceRead
    BY <2>1, <2>2, <2>3 DEF InstanceRead
  <2>5. Heard(y)
    BY <2>2, <2>3, <2>4 DEF ResolverInv, LeaseInv, LeaseFollowsContact, Heard
  <2>6. Seen(y) = now
    BY <2>1, <2>2, <2>4 DEF ResolverInv, SelectableSeen, Seen
  <2> QED BY <1>1, <2>4, <2>5, <2>6
<1> QED BY <1>2, <1>3, <1>4

\* A resolution that steps stays well typed and sound, and leaves the cache sound.
StepKeeps(r) ==
  /\ resolve' \in [Resolver -> Resolve]
  /\ \A s \in Resolver \ {r} : resolve'[s] = resolve[s]
  /\ ResolveSound(r)'
  /\ CacheSound'
  /\ cache' \in CacheEntry \cup {None}

\* The steps that leave a resolution with nothing read.
LEMMA EmptySteps ==
  ASSUME ResolverInv, ResolverNext, NEW r \in Resolver,
         ResolveStart(r) \/ CacheMiss(r) \/ ReadServices(r) \/ ReadFails(r) \/ Done(r)
  PROVE  StepKeeps(r)
<1>1. /\ resolve \in [Resolver -> Resolve] /\ now \in Nat /\ now' = now
      /\ cache \in CacheEntry \cup {None}
  <2>1. now' = now
    BY DEF ResolveStart, CacheMiss, ReadServices, ReadFails, Done, vars
  <2> QED BY <2>1, HistoriesGrow DEF ResolverInv, ResolverType
<1>2. cache' \in {cache, None}
  BY DEF ResolveStart, CacheMiss, ReadServices, ReadFails, Done
<1>3. CacheSound'
  BY <1>2, CacheStaysSound
<1>4. CASE ResolveStart(r)
  <2> DEFINE to == [phase |-> "lookup", start |-> now, found |-> Nothing]
  <2>1. Nothing \in Snapshot
    BY DEF Nothing, Snapshot
  <2>2. to \in Looking
    BY <1>1, <2>1 DEF Looking
  <2>3. Go(r, to)
    BY <1>4 DEF ResolveStart
  <2>4. ResolveSound(r)'
    BY <1>1, <2>2, <2>3, GoEffect DEF ResolveSound
  <2> QED BY <1>1, <1>2, <1>3, <2>2, <2>3, <2>4, GoEffect, LookingTypes DEF StepKeeps
<1>5. CASE CacheMiss(r) \/ ReadServices(r)
  <2>1. resolve[r] \in Looking /\ resolve[r].start <= now
    BY <1>1, <1>5, ResolveKinds DEF CacheMiss, ReadServices, At, ResolverInv, ResolveSound
  <2>2. PICK to \in Looking : /\ Go(r, to)
                              /\ to.start = resolve[r].start
                              /\ to.phase \in {"services", "instances"}
    <3>1. ActiveServices \in SUBSET ServiceRead
      BY <1>1, QueriesFit
    <3>2. CASE CacheMiss(r)
      BY <2>1, <3>2 DEF CacheMiss, Looking
    <3>3. CASE ReadServices(r)
      <4>1. [resolve[r].found EXCEPT !.services = ActiveServices] \in Snapshot
        BY <2>1, <3>1 DEF Looking, Snapshot
      <4>2. [resolve[r] EXCEPT !.phase = "instances", !.found.services = ActiveServices] \in Looking
        BY <2>1, <4>1 DEF Looking
      <4> QED BY <2>1, <3>3, <4>2 DEF ReadServices, Looking
    <3> QED BY <1>5, <3>2, <3>3
  <2>3. ResolveSound(r)'
    BY <1>1, <2>1, <2>2, GoEffect DEF ResolveSound
  <2> QED BY <1>1, <1>2, <1>3, <2>2, <2>3, GoEffect, LookingTypes DEF StepKeeps
<1>6. CASE ReadFails(r) \/ Done(r)
  <2>1. Go(r, IdleResolve)
    BY <1>6 DEF ReadFails, Done
  <2>2. IdleResolve.phase = "idle" /\ IdleResolve \notin Looking
    BY DEF IdleResolve, Looking
  <2>3. ResolveSound(r)'
    BY <1>1, <2>1, <2>2, GoEffect DEF ResolveSound
  <2> QED BY <1>1, <1>2, <1>3, <2>1, <2>3, GoEffect, LookingTypes DEF StepKeeps
<1> QED BY <1>4, <1>5, <1>6

\* The query of the instances, and the one after it.
LEMMA ReadSteps ==
  ASSUME ResolverInv, ResolverNext, NEW r \in Resolver, ReadInstances(r) \/ ReadRoutes(r)
  PROVE  StepKeeps(r)
<1>1. /\ resolve \in [Resolver -> Resolve] /\ now \in Nat
      /\ cache' = cache /\ cache \in CacheEntry \cup {None}
      /\ UNCHANGED <<now, contact>>
  BY HistoriesGrow DEF ResolverInv, ResolverType, ReadInstances, ReadRoutes, vars, history
<1>2. CacheSound'
  BY <1>1, CacheStaysSound
<1>3. resolve[r] \in Looking /\ resolve[r].start \in Nat /\ resolve[r].start <= now
  BY <1>1, ResolveKinds DEF ReadInstances, ReadRoutes, At, ResolverInv, ResolveSound, Looking
<1>4. PICK to \in Looking :
        /\ Go(r, to)
        /\ to.start = resolve[r].start
        /\ to.phase \in {"routes", "store", "choose"}
        /\ \A y \in to.found.instances : /\ y \in InstanceRead
                                         /\ Heard(y) /\ Seen(y) >= resolve[r].start
  <2>1. CASE ReadInstances(r)
    <3> DEFINE found == [resolve[r].found EXCEPT
                           !.instances = RoutableInstances(resolve[r].start)]
               to == [resolve[r] EXCEPT !.phase = "routes",
                        !.found.instances = RoutableInstances(resolve[r].start)]
    <3>1. RoutableInstances(resolve[r].start) \in SUBSET InstanceRead
      BY <1>3, QueriesFit
    <3>2. found \in Snapshot /\ found.instances = RoutableInstances(resolve[r].start)
      BY <1>3, <3>1 DEF Looking, Snapshot
    <3>3. /\ to \in Looking /\ to.found = found
          /\ to.start = resolve[r].start /\ to.phase = "routes"
      BY <1>3, <3>2 DEF Looking
    <3>4. Go(r, to)
      BY <2>1 DEF ReadInstances
    <3>5. \A y \in RoutableInstances(resolve[r].start) :
            y \in InstanceRead /\ Heard(y) /\ Seen(y) >= resolve[r].start
      BY <1>3, <3>1, QueriesFit
    <3> HIDE DEF found, to
    <3> QED BY <3>2, <3>3, <3>4, <3>5
  <2>2. CASE ReadRoutes(r)
    <3> DEFINE found == [resolve[r].found EXCEPT !.routes = ActiveRoutes]
               phase == IF CacheTTL > 0 THEN "store" ELSE "choose"
               to == [resolve[r] EXCEPT !.phase = phase, !.found.routes = ActiveRoutes]
    <3>1. ActiveRoutes \in SUBSET RouteRow
      BY <1>1, QueriesFit
    <3>2. found \in Snapshot /\ found.instances = resolve[r].found.instances
      BY <1>3, <3>1 DEF Looking, Snapshot
    <3>3. phase \in {"store", "choose"}
      OBVIOUS
    <3> HIDE DEF phase
    <3>4. /\ to \in Looking /\ to.found = found
          /\ to.start = resolve[r].start /\ to.phase = phase
      BY <1>3, <3>2, <3>3 DEF Looking
    <3>5. Go(r, to)
      BY <2>2 DEF ReadRoutes, phase
    <3>6. \A y \in resolve[r].found.instances :
            y \in InstanceRead /\ Heard(y) /\ Seen(y) >= resolve[r].start
      <4>1. resolve[r].found \in Snapshot /\ ResolveSound(r) /\ resolve[r].phase = "routes"
        BY <1>3, <2>2 DEF Looking, ResolverInv, ReadRoutes, At
      <4> QED BY <4>1 DEF ResolveSound, Snapshot
    <3> HIDE DEF found, to
    <3> QED BY <3>2, <3>3, <3>4, <3>5, <3>6
  <2> QED BY <2>1, <2>2
<1>5. ASSUME NEW y \in to.found.instances
      PROVE  Heard(y)' /\ Seen(y)' >= to.start /\ Recent(y, to.start)'
  <2>1. y \in InstanceRead /\ Heard(y) /\ Seen(y) >= to.start
    BY <1>4, <1>5
  <2>2. Heard(y)' /\ Seen(y)' >= to.start
    BY <1>3, <1>4, <2>1, HeldStays
  <2> QED BY <2>2 DEF Recent
<1>6. ResolveSound(r)'
  <2>1. resolve'[r] = to
    BY <1>1, <1>4, GoEffect
  <2> QED BY <1>1, <1>3, <1>4, <1>5, <2>1 DEF ResolveSound, Recent, Seen, Heard
<1> QED BY <1>1, <1>2, <1>4, <1>6, GoEffect, LookingTypes DEF StepKeeps

\* The steps that take the cache and fill it.
LEMMA CacheSteps ==
  ASSUME ResolverInv, ResolverNext, NEW r \in Resolver, CacheHit(r) \/ CacheStore(r)
  PROVE  StepKeeps(r)
<1>1. /\ resolve \in [Resolver -> Resolve] /\ now \in Nat
      /\ cache \in CacheEntry \cup {None}
      /\ now' = now /\ contact' = contact
  BY HistoriesGrow DEF ResolverInv, ResolverType, CacheHit, CacheStore, vars, history
<1>2. resolve[r] \in Looking /\ resolve[r].start \in Nat /\ resolve[r].start <= now
  BY <1>1, ResolveKinds DEF CacheHit, CacheStore, At, ResolverInv, ResolveSound, Looking
<1>0. PICK start \in Nat : start = resolve[r].start
  BY <1>2
<1>3. CASE CacheHit(r)
  <2> DEFINE to == [resolve[r] EXCEPT !.phase = "choose", !.found = cache.found]
  <2>1. /\ cache \in CacheEntry /\ cache' = cache
        /\ cache.found \in Snapshot /\ cache.expires \in Nat
        /\ resolve[r].start < cache.expires
    BY <1>1, <1>3 DEF CacheHit, Fresh, CacheEntry
  <2>2. /\ to \in Looking /\ to.found = cache.found
        /\ to.start = start /\ to.phase = "choose"
    BY <1>0, <1>2, <2>1 DEF Looking
  <2>3. Go(r, to)
    BY <1>3 DEF CacheHit
  <2> HIDE DEF to
  <2>4. resolve'[r] = to
    BY <1>1, <2>3, GoEffect
  <2>5. ASSUME NEW y \in cache.found.instances
        PROVE  Heard(y)' /\ Recent(y, start)'
    <3>1. y \in InstanceRead
      BY <2>1, <2>5 DEF Snapshot
    <3>2. Heard(y) /\ Seen(y) + CacheTTL >= cache.expires
      BY <1>3, <2>5 DEF ResolverInv, CacheSound, CacheHit, Fresh
    <3>3. Seen(y) \in Nat /\ Seen(y)' \in Nat /\ Seen(y) <= Seen(y)' /\ Heard(y)'
      BY <3>1, <3>2, HeldStays
    <3>4. Seen(y)' + CacheTTL > start
      BY <1>0, <1>2, <2>1, <2>2, <3>2, <3>3, ResolverAssumption
    <3> QED BY <3>3, <3>4 DEF Recent
  <2>6. ResolveSound(r)'
    BY <1>0, <1>1, <1>2, <2>2, <2>4, <2>5 DEF ResolveSound, Recent, Seen, Heard
  <2>7. CacheSound'
    BY <2>1, CacheStaysSound
  <2> QED BY <1>1, <2>1, <2>2, <2>3, <2>6, <2>7, GoEffect, LookingTypes DEF StepKeeps
<1>4. CASE CacheStore(r)
  <2> DEFINE to == [resolve[r] EXCEPT !.phase = "choose"]
             entry == [found |-> resolve[r].found, expires |-> resolve[r].start + CacheTTL]
  <2>1. /\ to \in Looking /\ to.found = resolve[r].found
        /\ to.start = start /\ to.phase = "choose"
    BY <1>0, <1>2 DEF Looking
  <2>2. Go(r, to) /\ cache' = entry
    BY <1>4 DEF CacheStore
  <2>3. entry \in CacheEntry
    BY <1>0, <1>2, ResolverAssumption DEF CacheEntry, Looking
  <2>4. entry.found = resolve[r].found /\ entry.expires = resolve[r].start + CacheTTL
    OBVIOUS
  <2> HIDE DEF to, entry
  <2>5. resolve'[r] = to
    BY <1>1, <2>2, GoEffect
  <2>6. ASSUME NEW y \in to.found.instances
        PROVE  Heard(y)' /\ Seen(y)' \in Nat /\ Seen(y)' >= start
    <3>1. y \in InstanceRead
      BY <1>0, <1>2, <2>1, <2>6 DEF Looking, Snapshot
    <3>2. Heard(y) /\ Seen(y) >= start
      BY <1>0, <1>4, <2>1, <2>6 DEF ResolverInv, ResolveSound, CacheStore, At
    <3> QED BY <1>0, <1>2, <2>1, <3>1, <3>2, HeldStays
  <2>7. ResolveSound(r)'
    <3>1. \A y \in to.found.instances : Heard(y)' /\ Recent(y, start)'
      BY <2>6 DEF Recent
    <3> QED BY <1>0, <1>1, <1>2, <2>1, <2>5, <3>1 DEF ResolveSound, Recent, Seen, Heard
  <2>8. CacheSound'
    <3>1. \A y \in entry.found.instances : Heard(y)' /\ Seen(y)' + CacheTTL >= entry.expires
      BY <1>0, <1>2, <2>1, <2>4, <2>6, ResolverAssumption
    <3> QED BY <2>2, <3>1 DEF CacheSound, Heard, Seen
  <2> QED BY <1>1, <2>1, <2>2, <2>3, <2>7, <2>8, GoEffect, LookingTypes DEF StepKeeps
<1> QED BY <1>3, <1>4

\* The choice takes an instance whose lease it has checked.
LEMMA ChooseStep ==
  ASSUME ResolverInv, ResolverNext, NEW r \in Resolver, NEW q \in Request, Choose(r, q)
  PROVE  StepKeeps(r)
<1>1. /\ resolve \in [Resolver -> Resolve] /\ now \in Nat
      /\ cache' = cache /\ cache \in CacheEntry \cup {None}
      /\ now' = now /\ contact' = contact
  BY HistoriesGrow DEF ResolverInv, ResolverType, Choose, vars, history
<1>2. /\ resolve[r] \in Looking /\ resolve[r].start \in Nat /\ resolve[r].start <= now
      /\ resolve[r].found \in Snapshot
      /\ \A y \in resolve[r].found.instances : Heard(y) /\ Recent(y, resolve[r].start)
  BY <1>1, ResolveKinds DEF Choose, At, ResolverInv, ResolveSound, Looking
<1>0. PICK start \in Nat : start = resolve[r].start
  BY <1>2
<1>3. CacheSound'
  BY <1>1, CacheStaysSound
<1>4. CASE \E code \in {"CodeNotFound", "CodeServiceUnavailable"} : Go(r, Refusal(code))
  <2>1. PICK code \in {"CodeNotFound", "CodeServiceUnavailable"} : Go(r, Refusal(code))
    BY <1>4
  <2>2. Refusal(code) \in Resolve
    BY LookingTypes
  <2>3. Refusal(code).phase = "refused" /\ Refusal(code) \notin Looking
    BY DEF Refusal, Looking
  <2>4. ResolveSound(r)'
    BY <1>1, <2>1, <2>3, GoEffect DEF ResolveSound
  <2> QED BY <1>1, <1>3, <2>1, <2>2, <2>4, GoEffect DEF StepKeeps
<1>5. ASSUME NEW x \in BestRows(resolve[r].found.routes, q),
             NEW y \in Candidates(resolve[r].found, x, resolve[r].start),
             Go(r, [phase |-> "picked", start |-> resolve[r].start, instance |-> y, route |-> x])
      PROVE  StepKeeps(r)
  <2> DEFINE to == [phase |-> "picked", start |-> resolve[r].start, instance |-> y, route |-> x]
  <2>1. x \in RouteRow
    BY <1>0, <1>2, <1>5 DEF BestRows, Snapshot
  <2>2. /\ y \in resolve[r].found.instances /\ y \in InstanceRead
        /\ y.row.lease >= resolve[r].start
    BY <1>0, <1>2, <1>5 DEF Candidates, Routable, Snapshot
  <2>3. /\ to \in Picked /\ to \notin Looking /\ to.instance = y
        /\ to.start = start /\ to.phase = "picked"
    BY <1>0, <1>2, <2>1, <2>2 DEF Picked, Looking
  <2>4. Go(r, to)
    BY <1>5
  <2> HIDE DEF to
  <2>5. resolve'[r] = to
    BY <1>1, <2>4, GoEffect
  <2>6. Heard(y)' /\ Recent(y, start)'
    BY <1>0, <1>2, <2>2, <2>3, HeldStays
  <2>7. contact'[y.plugin][y.instance] + TTL >= start
    <3>1. /\ y.plugin \in Plugin /\ y.instance \in Instance /\ y.row.lease \in Nat
      BY <2>2 DEF InstanceRead, InstanceRow
    <3>2. contact'[y.plugin][y.instance] \in Nat
      BY <3>1, HistoriesGrow
    <3> QED BY <1>0, <1>2, <2>2, <2>3, <2>6, <3>1, <3>2, TablesAssumption DEF Heard
  <2>8. ResolveSound(r)'
    BY <1>0, <2>3, <2>5, <2>6, <2>7 DEF ResolveSound, Recent, Seen
  <2> QED BY <1>1, <1>3, <2>3, <2>4, <2>8, GoEffect, LookingTypes DEF StepKeeps
<1> QED BY <1>4, <1>5 DEF Choose

-----------------------------------------------------------------------------
(* The theorems. *)

\* The invariant holds at first and every step keeps it.
THEOREM ResolverInductive ==
  /\ ResolverInit => ResolverInv
  /\ ResolverInv /\ [ResolverNext]_resolverVars => ResolverInv'
<1>1. ASSUME ResolverInit
      PROVE  ResolverInv
  <2>1. LeaseInv /\ TypeOK
    BY <1>1, LeaseInductive, TypeInductive DEF ResolverInit
  <2>2. /\ cache = None /\ now = 0
        /\ \A p \in Plugin, i \in Instance : lastSelectable[p][i] = 0
        /\ \A r \in Resolver : resolve[r] = IdleResolve
    BY <1>1 DEF ResolverInit, Init
  <2>3. ResolverType
    BY <1>1, <2>1, LookingTypes DEF ResolverInit, ResolverType
  <2>4. SelectableSeen /\ CacheSound
    BY <2>2 DEF SelectableSeen, CacheSound
  <2>5. IdleResolve.phase = "idle" /\ IdleResolve \notin Looking
    BY DEF IdleResolve, Looking
  <2>6. \A r \in Resolver : ResolveSound(r)
    BY <2>2, <2>5 DEF ResolveSound
  <2> QED BY <2>1, <2>3, <2>4, <2>6 DEF ResolverInv
<1>2. ASSUME ResolverInv, [ResolverNext]_resolverVars
      PROVE  ResolverInv'
  <2>1. LeaseInv' /\ SelectableSeen' /\ lastSelectable' \in [Plugin -> [Instance -> Nat]]
    BY <1>2, HistoriesGrow
  <2>2. /\ resolve \in [Resolver -> Resolve]
        /\ cache \in CacheEntry \cup {None}
    BY <1>2 DEF ResolverInv, ResolverType
  <2>3. SUFFICES /\ resolve' \in [Resolver -> Resolve]
                 /\ cache' \in CacheEntry \cup {None}
                 /\ CacheSound'
                 /\ \A r \in Resolver : ResolveSound(r)'
    BY <2>1 DEF ResolverInv, ResolverType, LeaseInv
  <2>4. ASSUME NEW r \in Resolver, ResolverNext, ResolveStep(r)
        PROVE  StepKeeps(r)
    BY <1>2, <2>4, EmptySteps, ReadSteps, CacheSteps, ChooseStep DEF ResolveStep
  <2>5. CASE ResolverNext /\ \E r \in Resolver : ResolveStep(r)
    <3>1. PICK r \in Resolver : StepKeeps(r)
      BY <2>4, <2>5
    <3>2. \A s \in Resolver \ {r} : ResolveSound(s)'
      BY <1>2, <3>1, OthersStaySound DEF StepKeeps
    <3> QED BY <3>1, <3>2 DEF StepKeeps
  <2>6. CASE resolve' = resolve /\ cache' \in {cache, None}
    BY <1>2, <2>2, <2>6, OthersStaySound, CacheStaysSound
  <2>7. CASE resolve' = [r \in Resolver |-> IdleResolve] /\ cache' = None
    <3>1. IdleResolve.phase = "idle" /\ IdleResolve \notin Looking
      BY DEF IdleResolve, Looking
    <3> QED BY <1>2, <2>7, <3>1, CacheStaysSound, LookingTypes DEF ResolveSound
  <2> QED BY <1>2, <2>5, <2>6, <2>7 DEF ResolverNext, ControlStep, resolverVars
<1> QED BY <1>1, <1>2

\* Whatever is disabled, superseded or found unhealthy is out of routing CacheTTL
\* later, although entries are stored after the invalidation that should have
\* dropped them.
THEOREM AlwaysBoundedStaleness == ResolverSpec => []BoundedStaleness
<1>1. ResolverInv => BoundedStaleness
  BY DEF ResolverInv, ResolveSound, BoundedStaleness, Recent, Seen
<1> QED BY <1>1, ResolverInductive, PTL DEF ResolverSpec

\* No request goes to an instance that has been silent for more than TTL, whatever
\* the cache holds.
THEOREM AlwaysPickedHeard == ResolverSpec => []PickedHeard
<1>1. ResolverInv => PickedHeard
  BY DEF ResolverInv, ResolveSound, PickedHeard
<1> QED BY <1>1, ResolverInductive, PTL DEF ResolverSpec

-----------------------------------------------------------------------------
(* The composition. *)

\* With the gateway resolving requests beside it, the control plane does nothing
\* that it does not do alone: a resolution only reads its tables, and whatever
\* drops the cache is a step of its own.
THEOREM ResolverImplementsControlPlane == ResolverSpec => Spec
<1>1. ResolverInit => Init
  BY DEF ResolverInit
<1>2. [ResolverNext]_resolverVars => [Next]_vars
  BY ControlPlaneSteps
<1> QED BY <1>1, <1>2, PTL DEF ResolverSpec, Spec

\* So the tables that the gateway reads never let two plugins answer one request,
\* nor leave it a choice of rows, and no lease in them outlasts its contact.
THEOREM ResolverReadsSound ==
  ResolverSpec => [](SingleOwner /\ OneBestRow /\ LeaseFollowsContact)
BY ResolverImplementsControlPlane, AlwaysSingleOwner, AlwaysOneBestRow,
   AlwaysLeaseFollowsContact, PTL

=============================================================================
