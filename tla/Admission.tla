-------------------------------- MODULE Admission -------------------------------
(***************************************************************************)
(* What a registration of one plugin goes through before the tables        *)
(* (pkg/plugin/manifest.go, application/plugin/trust.go, Service.Register),*)
(* and the checks of a call to what was admitted (outbound_transport.go).  *)
(* The configuration is read at the start of the process; the rows stay.   *)
(*                                                                         *)
(* NormalizeRoute is applied several times, to the manifest's own routes   *)
(* and to copies, and is not idempotent: TrimSpace and Trim take one blank *)
(* at a time off a path that ends in slashes and blanks.                   *)
(***************************************************************************)
EXTENDS Integers, SequencesExt

CONSTANTS
  Instance,
  Segment,          \* of a path, without blanks and slashes
  HostName,
  Address,          \* IP addresses
  KindOf,           \* Address -> "public", "private", "loopback", "link_local"
  MaxRouteTimeout,
  Config,           \* the configurations a process may start with
  Command,          \* the registrations a plugin may ask for
  None              \* omitted, no row, no trust

Kind == {"public", "private", "loopback", "link_local"}

ASSUME AdmissionAssumption ==
  /\ KindOf \in [Address -> Kind]
  /\ MaxRouteTimeout \in Nat
  /\ HostName \cap Address = {}

\* blanks: how many rounds it takes to trim the path; apart: a slash is before the
\* first blank.
Path == [parts : Seq(Segment), blanks : Nat, apart : BOOLEAN]

AuthPolicy == {"inherit", "authenticated", "rbac", "admin", "public"}
Method == {"ANY", "GET", "POST", "PUT", "PATCH", "DELETE"}

\* A timeout of 0 is not a positive duration.
Route == [id : STRING, method : Method \cup {None}, match : {"exact", "prefix", None},
          path : Path, policy : AuthPolicy \cup {None}, timeout : Nat \cup {None}]

URL == [scheme : STRING, host : HostName \cup Address]

Hash == [version : Nat, routes : SUBSET Route]

\* A row of plugin_instances, with the configuration it was admitted under.
Admitted == [command : Command, hash : Hash, under : Config]

\* A granted prefix is trimmed in one round: an operator writes no blanks between
\* the slashes at its end.
ASSUME InputAssumption ==
  /\ Command \subseteq [version : Nat, routes : Seq(Route), url : URL]
  /\ \A c \in Config : c.trust # None => \A p \in c.trust.prefixes : p \in Path /\ p.blanks <= 1
  /\ None \notin Config \cup Hash \cup Admitted

VARIABLES
  config,     \* the configuration in force, or None before the first start
  hash,       \* current_manifest_hash of the service row, or None
  stored,     \* its rows in plugin_routes
  instances,  \* instance -> [command, hash, under], or None
  answer,     \* of the last registration
  outbound    \* a call to an instance, or None

vars == <<config, hash, stored, instances, answer, outbound>>

Init ==
  /\ config = None
  /\ hash = None /\ stored = {}
  /\ instances = [i \in Instance |-> None]
  /\ answer = "none"
  /\ outbound = None

-----------------------------------------------------------------------------
(* Paths and routes. *)

CleanPath(p) ==
  IF p.blanks <= 1 THEN [p EXCEPT !.blanks = 0, !.apart = FALSE] ELSE [p EXCEPT !.blanks = @ - 1]

\* segmentPrefix: p is q, or goes on with a slash after q.
Under(p, q) ==
  \/ p = q \/ q.parts = <<>>
  \/ q.blanks = 0 /\ IsStrictPrefix(q.parts, p.parts)
  \/ q.blanks = 0 /\ p.parts = q.parts /\ p.apart

Default(value, default) == IF value = None THEN default ELSE value

NormalizeRoute(r) ==
  [r EXCEPT !.method = Default(@, "ANY"), !.match = Default(@, "prefix"),
            !.path = CleanPath(@), !.policy = Default(@, "inherit"), !.timeout = Default(@, 5)]

Normalized(routes) == [k \in DOMAIN routes |-> NormalizeRoute(routes[k])]

\* The manifest's routes after commandToManifest, after ValidateManifest and after
\* ManifestHash, which both write to the slice they were given.
Declared(c) == Normalized(c.routes)
Validated(c) == Normalized(Declared(c))
Hashed(c) == Normalized(Validated(c))

ValidRoutes(routes) ==
  /\ routes # <<>>
  /\ \A k \in DOMAIN routes : routes[k].timeout > 0 /\ routes[k].path.parts # <<>>
  /\ \A j, k \in DOMAIN routes : j # k =>
       /\ routes[j].id # routes[k].id
       /\ \/ routes[j].method # routes[k].method
          \/ routes[j].match # routes[k].match
          \/ routes[j].path # routes[k].path

\* It normalises each route once more than the slice.
ValidateManifest(c) == c.url.scheme \in {"http", "https"} /\ ValidRoutes(Normalized(Validated(c)))

-----------------------------------------------------------------------------
(* The configuration. *)

\* Mutant: the public prefix itself may be granted and registered.
ValidateGatewayPathOrAt(p, public) == Under(CleanPath(p), public)

ValidateGatewayPath(p, public) == CleanPath(p) # public /\ Under(CleanPath(p), public)

NormalizePrefixes(c) ==
  IF c.trust.prefixes = {}
  THEN {[parts |-> Append(CleanPath(c.public).parts, c.key), blanks |-> 0, apart |-> FALSE]}
  ELSE {CleanPath(p) : p \in c.trust.prefixes}

OrAll(granted, all) == IF granted = {} THEN all ELSE granted

\* NewService fails for a prefix that is not below the public one.
Startable(c) ==
  c.trust # None /\ c.trust.prefixes # {} =>
    \A p \in NormalizePrefixes(c) : ValidateGatewayPath(p, CleanPath(c.public))

ManifestPathsTrusted(c, routes) ==
  \A k \in DOMAIN routes :
    LET r == NormalizeRoute(routes[k])
    IN  /\ ValidateGatewayPath(r.path, CleanPath(c.public))
        /\ \E p \in NormalizePrefixes(c) : Under(r.path, p)
        /\ r.policy \in OrAll(c.trust.policies, AuthPolicy)
        /\ r.method \in OrAll(c.trust.methods, Method)

AddressAllowed(trust, a) ==
  /\ KindOf[a] = "loopback" => trust.loopback
  /\ KindOf[a] # "link_local"

ValidatePluginURL(trust, url) ==
  /\ url.scheme \in {"http", "https"}
  /\ url.scheme = "http" => trust.insecure
  /\ IF url.host \in Address
     THEN AddressAllowed(trust, url.host) /\ url.host \in trust.networks
     ELSE url.host \in trust.hosts

\* Mutant: a private address is refused whatever networks are trusted.
ValidateResolvedIPPrivate(trust, a) == AddressAllowed(trust, a) /\ KindOf[a] # "private"

ValidateResolvedIP(trust, a) ==
  AddressAllowed(trust, a) /\ (a \in trust.networks \/ KindOf[a] # "private")

-----------------------------------------------------------------------------
(* The process. *)

Start(c) ==
  /\ Startable(c) /\ c # config
  /\ config' = c
  /\ answer' = "none" /\ outbound' = None
  /\ UNCHANGED <<hash, stored, instances>>

Admissible(c) ==
  /\ config.trust # None
  /\ ValidateManifest(c)
  /\ ManifestPathsTrusted(config, Validated(c))
  /\ ValidatePluginURL(config.trust, c.url)
  /\ \A k \in DOMAIN c.routes : NormalizeRoute(Hashed(c)[k]).timeout <= MaxRouteTimeout

\* Mutant: the hash is taken of routes that are normalised once more than the rows.
ManifestHashAgain(c) == [version |-> c.version, routes |-> ToSet(Normalized(Normalized(Hashed(c))))]

\* The routes are sorted before they are hashed: their order does not matter.
ManifestHash(c) == [version |-> c.version, routes |-> ToSet(Normalized(Hashed(c)))]

\* uk_plugin_routes_identity refuses two routes that have become equal.
SameRow(c) == \E j, k \in DOMAIN c.routes : j # k /\
  LET r == NormalizeRoute(Hashed(c)[j])
      s == NormalizeRoute(Hashed(c)[k])
  IN  r.method = s.method /\ r.match = s.match /\ r.path = s.path

Register(i, c) ==
  /\ config # None
  /\ \/ ~Admissible(c) /\ answer' = "invalid_argument"
        /\ UNCHANGED <<hash, stored, instances>>
     \/ Admissible(c) /\ SameRow(c) /\ answer' = "dependency"
        /\ UNCHANGED <<hash, stored, instances>>
     \/ /\ Admissible(c) /\ ~SameRow(c) /\ answer' = "ok"
        /\ hash' = ManifestHash(c)
        /\ stored' = {NormalizeRoute(Hashed(c)[k]) : k \in DOMAIN c.routes}
        /\ instances' = [instances EXCEPT ![i] =
                           [command |-> c, hash |-> ManifestHash(c), under |-> config]]
  /\ UNCHANGED <<config, outbound>>

\* RoundTrip: the URL built on the instance's base URL is checked again.
RoundTrip(i) ==
  /\ config # None /\ instances[i] # None /\ outbound = None
  /\ LET url == instances[i].command.url
     IN outbound' = [instance |-> i, url |-> url, under |-> instances[i].under, step |->
          IF config.trust # None /\ ValidatePluginURL(config.trust, url) THEN "dial" ELSE "refused"]
  /\ UNCHANGED <<config, hash, stored, instances, answer>>

\* validateResolvedAddress: every address of the name has to be allowed.
DialContext(addresses) ==
  /\ outbound # None /\ outbound.step = "dial"
  /\ outbound.url.host \in Address => addresses = {outbound.url.host}
  /\ outbound' = [outbound EXCEPT !.step =
       IF \A a \in addresses : ValidateResolvedIP(config.trust, a) THEN "connect" ELSE "refused"]
  /\ UNCHANGED <<config, hash, stored, instances, answer>>

Finish ==
  /\ outbound # None /\ outbound.step \in {"refused", "connect"}
  /\ outbound' = None
  /\ UNCHANGED <<config, hash, stored, instances, answer>>

Next ==
  \/ \E c \in Config : Start(c)
  \/ \E i \in Instance, c \in Command : Register(i, c)
  \/ \E i \in Instance : RoundTrip(i)
  \/ \E addresses \in (SUBSET Address) \ {{}} : DialContext(addresses)
  \/ Finish

Spec == Init /\ [][Next]_vars

-----------------------------------------------------------------------------
(* Properties. *)

\* Whatever blanks a path had and however often it was normalised between its
\* checks and its row, a plugin's routes are below the public prefix, under a
\* prefix and with a policy and a method that the plugin was granted when its
\* latest registration was admitted.
StoredTrusted ==
  \A r \in stored : \E i \in Instance :
    LET c == instances[i].under
    IN  /\ instances[i] # None /\ instances[i].hash = hash
        /\ r.path # CleanPath(c.public) /\ Under(r.path, CleanPath(c.public))
        /\ \E p \in NormalizePrefixes(c) : Under(r.path, p)
        /\ r.policy \in OrAll(c.trust.policies, AuthPolicy)
        /\ r.method \in OrAll(c.trust.methods, Method)

\* The instances that go by the service's hash declared the routes that are stored,
\* be it in another order or with other blanks: what is hashed, and what is written
\* after it, went through as many normalisations.
HashMeansRoutes ==
  \A i \in Instance : instances[i] # None /\ instances[i].hash = hash =>
    stored = {NormalizeRoute(Hashed(instances[i].command)[k]) :
                k \in DOMAIN instances[i].command.routes}

\* The gateway's checks agree with those of the registration: under the configuration
\* it was admitted with, a plugin is not refused, but for the addresses of its name.
AdmittedReachable ==
  outbound # None /\ outbound.step = "refused" /\ outbound.under = config =>
    outbound.url.host \in HostName

=============================================================================
