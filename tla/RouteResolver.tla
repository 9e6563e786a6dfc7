----------------------------- MODULE RouteResolver ----------------------------
(***************************************************************************)
(* The gateway's route resolution over the control plane: ResolveRoute,    *)
(* the three queries of FindRoutable, the route cache, and the choice of a *)
(* route and an instance.  The queries run in no common transaction, so    *)
(* the control plane can step between any two of them, and between the     *)
(* last one and routeCacheSet.                                             *)
(*                                                                         *)
(* pickInstance goes round robin over the instances that are left; since   *)
(* that set and the counter shared by all requests change freely, any of   *)
(* them may be next.                                                       *)
(***************************************************************************)
EXTENDS ControlPlane

CONSTANTS
  Resolver,   \* gateway requests under way at a time
  CacheTTL    \* plugins.route_cache_ttl; 0 turns the cache off

ASSUME ResolverAssumption == CacheTTL \in Nat

VARIABLES
  cache,           \* the route cache: None or an entry
  resolve,         \* resolver -> how far it got
  lastSelectable   \* history: when the instance was last fit to be selected

resolverVars == <<vars, cache, resolve, lastSelectable>>

ServiceRead == [plugin : Plugin, manifest : Manifest]

InstanceRead == [plugin : Plugin, instance : Instance, row : InstanceRow]

\* What FindRoutable returns.
Snapshot == [services : SUBSET ServiceRead, instances : SUBSET InstanceRead,
             routes : SUBSET RouteRow]

Nothing == [services |-> {}, instances |-> {}, routes |-> {}]

CacheEntry == [found : Snapshot, expires : Nat]

IdleResolve == [phase |-> "idle"]

Resolve ==
  {IdleResolve}
    \cup [phase : {"lookup", "services", "instances", "routes", "store", "choose"},
          start : Nat, found : Snapshot]
    \cup [phase : {"refused"}, code : {"CodeNotFound", "CodeServiceUnavailable"}]
    \cup [phase : {"picked"}, start : Nat, instance : InstanceRead, route : RouteRow]

ResolverType ==
  /\ TypeOK
  /\ cache \in CacheEntry \cup {None}
  /\ resolve \in [Resolver -> Resolve]
  /\ lastSelectable \in [Plugin -> [Instance -> Nat]]

ResolverInit ==
  /\ Init
  /\ cache = None
  /\ resolve = [r \in Resolver |-> IdleResolve]
  /\ lastSelectable = [p \in Plugin |-> [i \in Instance |-> 0]]

-----------------------------------------------------------------------------
(* ResolveRoute. *)

At(r, phase) == resolve[r].phase = phase

Go(r, to) == resolve' = [resolve EXCEPT ![r] = to]

\* The clock is read once, before anything else.
ResolveStart(r) ==
  /\ At(r, "idle")
  /\ Go(r, [phase |-> "lookup", start |-> now, found |-> Nothing])
  /\ UNCHANGED <<vars, cache>>

\* The cache counts only before it expires.
Fresh(entry, at) == entry # None /\ at < entry.expires

CacheHit(r) ==
  /\ At(r, "lookup")
  /\ CacheTTL > 0
  /\ Fresh(cache, resolve[r].start)
  /\ Go(r, [resolve[r] EXCEPT !.phase = "choose", !.found = cache.found])
  /\ UNCHANGED <<vars, cache>>

\* A miss drops whatever the cache holds.
CacheMiss(r) ==
  /\ At(r, "lookup")
  /\ IF CacheTTL > 0
     THEN ~Fresh(cache, resolve[r].start) /\ cache' = None
     ELSE UNCHANGED cache
  /\ Go(r, [resolve[r] EXCEPT !.phase = "services"])
  /\ UNCHANGED vars

\* FindRoutable, one query at a time; each joins the service rows anew.
ReadServices(r) ==
  /\ At(r, "services")
  /\ Go(r, [resolve[r] EXCEPT !.phase = "instances", !.found.services = ActiveServices])
  /\ UNCHANGED <<vars, cache>>

ReadInstances(r) ==
  /\ At(r, "instances")
  /\ Go(r, [resolve[r] EXCEPT !.phase = "routes",
                             !.found.instances = RoutableInstances(resolve[r].start)])
  /\ UNCHANGED <<vars, cache>>

ReadRoutes(r) ==
  /\ At(r, "routes")
  /\ Go(r, [resolve[r] EXCEPT !.phase = IF CacheTTL > 0 THEN "store" ELSE "choose",
                             !.found.routes = ActiveRoutes])
  /\ UNCHANGED <<vars, cache>>

\* A cache entry that lives from the moment it is stored.
CacheStoreLate(r) ==
  /\ At(r, "store")
  /\ cache' = [found |-> resolve[r].found, expires |-> now + CacheTTL]
  /\ Go(r, [resolve[r] EXCEPT !.phase = "choose"])
  /\ UNCHANGED vars

\* routeCacheSet: the entry lives from the moment the request began, and it is
\* stored whatever was invalidated meanwhile.
CacheStore(r) ==
  /\ At(r, "store")
  /\ cache' = [found |-> resolve[r].found, expires |-> resolve[r].start + CacheTTL]
  /\ Go(r, [resolve[r] EXCEPT !.phase = "choose"])
  /\ UNCHANGED vars

ReadFails(r) ==
  /\ resolve[r].phase \in {"services", "instances", "routes"}
  /\ Go(r, IdleResolve)
  /\ UNCHANGED <<vars, cache>>

Refusal(code) == [phase |-> "refused", code |-> code]

Choose(r, q) ==
  /\ At(r, "choose")
  /\ LET found == resolve[r].found
         best == BestRows(found.routes, q)
     IN  \/ best = {} /\ Go(r, Refusal("CodeNotFound"))
         \/ \E x \in best :
              LET left == Candidates(found, x, resolve[r].start)
              IN  \/ left = {} /\ Go(r, Refusal("CodeServiceUnavailable"))
                  \/ \E y \in left :
                       Go(r, [phase |-> "picked", start |-> resolve[r].start,
                              instance |-> y, route |-> x])
  /\ UNCHANGED <<vars, cache>>

\* The gateway goes on with the answer.
Done(r) ==
  /\ resolve[r].phase \in {"picked", "refused"}
  /\ Go(r, IdleResolve)
  /\ UNCHANGED <<vars, cache>>

ResolveStep(r) ==
  \/ ResolveStart(r)
  \/ CacheHit(r) \/ CacheMiss(r)
  \/ ReadServices(r) \/ ReadInstances(r) \/ ReadRoutes(r)
  \/ "fail" \in Operation /\ ReadFails(r)
  \/ CacheStore(r)
  \/ \E q \in Request : Choose(r, q)
  \/ Done(r)

ControlStep ==
  \/ Proceed /\ UNCHANGED <<cache, resolve>>
  \/ Invalidate /\ cache' = None /\ UNCHANGED resolve
  \/ Restart /\ cache' = None /\ resolve' = [r \in Resolver |-> IdleResolve]

ResolverNext ==
  /\ ControlStep \/ \E r \in Resolver : ResolveStep(r)
  /\ lastSelectable' = [p \in Plugin |-> [i \in Instance |->
       IF Selectable(p, i) \/ Selectable(p, i)' THEN now' ELSE lastSelectable[p][i]]]

ResolverSpec == ResolverInit /\ [][ResolverNext]_resolverVars

-----------------------------------------------------------------------------
(* Properties. *)

\* An instance that the gateway picks was fit to be selected (an active service
\* with that manifest, an active row, no bad health) at some moment less than
\* CacheTTL before the request began, or later: whatever the late stores do
\* to the cache, a disabled, superseded or unhealthy instance is out of
\* routing after CacheTTL.
BoundedStaleness ==
  \A r \in Resolver : resolve[r].phase = "picked" =>
    LET y == resolve[r].instance
        seen == lastSelectable[y.plugin][y.instance]
    IN  seen >= resolve[r].start \/ seen + CacheTTL > resolve[r].start

\* An instance that the gateway picks was heard of no more than TTL before the
\* request began, cached or not: the lease is checked again on every request.
PickedHeard ==
  \A r \in Resolver : resolve[r].phase = "picked" =>
    LET y == resolve[r].instance
    IN  contact[y.plugin][y.instance] + TTL >= resolve[r].start

=============================================================================
