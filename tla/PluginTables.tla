----------------------------- MODULE PluginTables -----------------------------
(***************************************************************************)
(* The plugin tables of the registry and the repository operations on them *)
(* (internal/infrastructure/persistence/mysql/plugin_repository.go).       *)
(*                                                                         *)
(* Each operator below is one statement or one transaction.  InnoDB locks  *)
(* make UpsertRegistration atomic: it locks the service row, and reads the *)
(* claims of every other plugin FOR UPDATE before it inserts its own, so   *)
(* of two registrations that could miss each other's claims one waits or   *)
(* is rolled back.  TouchInstance is a read and a later write of the whole *)
(* row, with neither a transaction nor a lock between them.                *)
(*                                                                         *)
(* An instance row's base URL, version and health path are written by the  *)
(* same statements as its manifest hash; the manifest column stands for    *)
(* all of them.                                                            *)
(***************************************************************************)
EXTENDS RoutePaths

CONSTANTS
  Plugin,      \* plugin keys
  Instance,    \* instance ids; a row's key is a plugin and an instance id
  Manifest,    \* valid, trusted manifests; one stands for its manifest hash
  PluginOf,    \* manifest -> the plugin key in it
  RoutesOf,    \* manifest -> its routes
  TTL,         \* plugins.heartbeat_ttl
  None         \* no row

ASSUME TablesAssumption ==
  /\ PluginOf \in [Manifest -> Plugin]
  /\ RoutesOf \in [Manifest -> SUBSET Route]
  /\ TTL \in Nat

ServiceRow == [manifest : Manifest, status : {"active", "disabled"}]

InstanceRow == [manifest : Manifest,
                status   : {"active", "disabled", "incompatible"},
                health   : {"unknown", "healthy", "unhealthy"},
                failures : Nat,
                lease    : Nat]

ASSUME NoneAssumption == None \notin ServiceRow /\ None \notin InstanceRow

VARIABLES
  service,    \* plugin_services: plugin -> row or None
  instance,   \* plugin_instances: plugin -> instance id -> row or None
  routes,     \* plugin_routes
  claims      \* plugin_route_claims

tables == <<service, instance, routes, claims>>

RouteRow == [plugin : Plugin, manifest : Manifest, route : Route]

ClaimRow == [plugin : Plugin, route : Route]

TablesType ==
  /\ service \in [Plugin -> ServiceRow \cup {None}]
  /\ instance \in [Plugin -> [Instance -> InstanceRow \cup {None}]]
  /\ routes \subseteq RouteRow
  /\ claims \subseteq ClaimRow

TablesInit ==
  /\ service = [p \in Plugin |-> None]
  /\ instance = [p \in Plugin |-> [i \in Instance |-> None]]
  /\ routes = {}
  /\ claims = {}

HasRow(p, i) == instance[p][i] # None

ServiceActive(p) == service[p] # None /\ service[p].status = "active"

-----------------------------------------------------------------------------
(* Registration. *)

\* Some other plugin holds a claim that overlaps the route.
Claimed(p, r) == \E c \in claims : c.plugin # p /\ RoutesOverlap(r, c.route)

RouteConflict(m) == \E r \in RoutesOf[m] : Claimed(PluginOf[m], r)

\* A registration that leaves the health status empty.
FreshRowHealthUnset(m, at) ==
  [manifest |-> m, status |-> "active", health |-> "", failures |-> 0,
   lease |-> at + TTL]

FreshRow(m, at) ==
  [manifest |-> m, status |-> "active", health |-> "unknown", failures |-> 0,
   lease |-> at + TTL]

\* The other instances of the plugin that still run an older manifest.
Superseded(p, i, m) ==
  {j \in Instance \ {i} : HasRow(p, j) /\ instance[p][j].status = "active"
                                       /\ instance[p][j].manifest # m}

UpsertInstances(p, i, m, at) ==
  instance' = [instance EXCEPT ![p] =
    [j \in Instance |->
      CASE j = i -> FreshRow(m, at)
        [] j \in Superseded(p, i, m) -> [instance[p][j] EXCEPT !.status = "incompatible"]
        [] OTHER -> instance[p][j]]]

\* A registration that leaves the claims of the manifest before it.
ReplaceRoutesKeepClaims(p, m) ==
  /\ routes' = {x \in routes : x.plugin # p}
                 \cup {[plugin |-> p, manifest |-> m, route |-> r] : r \in RoutesOf[m]}
  /\ claims' = claims \cup {[plugin |-> p, route |-> r] : r \in RoutesOf[m]}

ReplaceRoutes(p, m) ==
  /\ routes' = {x \in routes : x.plugin # p}
                 \cup {[plugin |-> p, manifest |-> m, route |-> r] : r \in RoutesOf[m]}
  /\ claims' = {c \in claims : c.plugin # p}
                 \cup {[plugin |-> p, route |-> r] : r \in RoutesOf[m]}

\* A transaction that trusts the check made before it.
UpsertRegistrationUnchecked(i, m, at) ==
  LET p == PluginOf[m]
  IN  /\ service' = [service EXCEPT ![p] = [manifest |-> m, status |-> "active"]]
      /\ UpsertInstances(p, i, m, at)
      /\ ReplaceRoutes(p, m)

\* The transaction when no claim is in its way; a registration enables the
\* service again, whoever disabled it.
UpsertRegistration(i, m, at) ==
  LET p == PluginOf[m]
  IN  /\ ~RouteConflict(m)
      /\ service' = [service EXCEPT ![p] = [manifest |-> m, status |-> "active"]]
      /\ UpsertInstances(p, i, m, at)
      /\ ReplaceRoutes(p, m)

-----------------------------------------------------------------------------
(* Single-row operations. *)

WriteInstance(p, i, row) == instance' = [instance EXCEPT ![p][i] = row]

\* The second half of TouchInstance: every column goes back as it was read,
\* but the status and the lease.
TouchedRow(row, at) == [row EXCEPT !.status = "active", !.lease = at + TTL]

TouchSave(p, i, row, at) ==
  /\ WriteInstance(p, i, TouchedRow(row, at))
  /\ UNCHANGED <<service, routes, claims>>

SetInstanceStatus(p, i, status) ==
  /\ HasRow(p, i)
  /\ WriteInstance(p, i, [instance[p][i] EXCEPT !.status = status])
  /\ UNCHANGED <<service, routes, claims>>

SetServiceStatus(p, status) ==
  /\ service[p] # None
  /\ service' = [service EXCEPT ![p].status = status]
  /\ UNCHANGED <<instance, routes, claims>>

CheckedRow(row, health, failures) == [row EXCEPT !.health = health, !.failures = failures]

UpdateInstanceHealth(p, i, health, failures) ==
  /\ HasRow(p, i)
  /\ WriteInstance(p, i, CheckedRow(instance[p][i], health, failures))
  /\ UNCHANGED <<service, routes, claims>>

-----------------------------------------------------------------------------
(* Queries and updates over all rows. *)

\* ListHealthCheckTargets.
HealthTarget(p, i, at) ==
  /\ ServiceActive(p)
  /\ HasRow(p, i)
  /\ instance[p][i].status = "active"
  /\ instance[p][i].manifest = service[p].manifest
  /\ instance[p][i].lease >= at

\* Instance.Routable, against the manifest the caller holds to be current.
Routable(row, manifest, at) ==
  /\ row.status = "active"
  /\ row.manifest = manifest
  /\ row.lease >= at
  /\ row.health \in {"unknown", "healthy"}

\* The three queries of FindRoutable.
ActiveServices == {[plugin |-> p, manifest |-> service[p].manifest] :
                     p \in {q \in Plugin : ServiceActive(q)}}

\* Fit to be selected but for the lease.
Selectable(p, i) ==
  /\ ServiceActive(p)
  /\ HasRow(p, i)
  /\ instance[p][i].status = "active"
  /\ instance[p][i].manifest = service[p].manifest
  /\ instance[p][i].health \in {"unknown", "healthy"}

RoutableInstances(at) ==
  {[plugin |-> pi[1], instance |-> pi[2], row |-> instance[pi[1]][pi[2]]] :
     pi \in {x \in Plugin \X Instance :
               Selectable(x[1], x[2]) /\ instance[x[1]][x[2]].lease >= at}}

ActiveRoutes ==
  {x \in routes : ServiceActive(x.plugin) /\ x.manifest = service[x.plugin].manifest}

\* Active, with a lease that ran out more than a whole TTL ago.
Stale(p, i, at) ==
  HasRow(p, i) /\ instance[p][i].status = "active" /\ instance[p][i].lease + TTL < at

DisableStalePluginInstances(at) ==
  /\ instance' = [p \in Plugin |-> [i \in Instance |->
       IF Stale(p, i, at) THEN [instance[p][i] EXCEPT !.status = "disabled"]
                              ELSE instance[p][i]]]
  /\ UNCHANGED <<service, routes, claims>>

=============================================================================
