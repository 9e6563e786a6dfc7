---------------------------- MODULE AdmissionProofs ----------------------------
(***************************************************************************)
(* Theorems about Admission, for any manifests, addresses and              *)
(* configurations.                                                         *)
(***************************************************************************)
EXTENDS Admission, TLAPS

-----------------------------------------------------------------------------
(* Normalisation. *)

LEMMA CleanPathType ==
  ASSUME NEW p \in Path
  PROVE  /\ CleanPath(p) \in Path
         /\ CleanPath(p) = IF p.blanks <= 1
                           THEN [parts |-> p.parts, blanks |-> 0, apart |-> FALSE]
                           ELSE [parts |-> p.parts, blanks |-> p.blanks - 1, apart |-> p.apart]
<1>1. p = [parts |-> p.parts, blanks |-> p.blanks, apart |-> p.apart]
  BY DEF Path
<1>2. p.parts \in Seq(Segment) /\ p.blanks \in Nat /\ p.apart \in BOOLEAN
  BY DEF Path
<1>3. CASE p.blanks <= 1
  <2>1. CleanPath(p) = [parts |-> p.parts, blanks |-> 0, apart |-> FALSE]
    BY <1>1, <1>3 DEF CleanPath
  <2> QED BY <1>2, <1>3, <2>1 DEF Path
<1>4. CASE ~(p.blanks <= 1)
  <2>1. CleanPath(p) = [parts |-> p.parts, blanks |-> p.blanks - 1, apart |-> p.apart]
    BY <1>1, <1>4 DEF CleanPath
  <2>2. p.blanks - 1 \in Nat
    BY <1>2, <1>4
  <2> QED BY <1>2, <1>4, <2>1, <2>2 DEF Path
<1> QED BY <1>3, <1>4

\* Another round changes the path of a route, and nothing else that is checked.
LEMMA NormalizeEffect ==
  ASSUME NEW r \in Route
  PROVE  LET n == NormalizeRoute(r)
         IN  /\ n \in Route
             /\ n.path = CleanPath(r.path)
             /\ NormalizeRoute(n).path = CleanPath(n.path)
             /\ NormalizeRoute(n).policy = n.policy
             /\ NormalizeRoute(n).method = n.method
<1>1. ASSUME NEW x \in Route
      PROVE  /\ NormalizeRoute(x) \in Route
             /\ NormalizeRoute(x).path = CleanPath(x.path)
             /\ NormalizeRoute(x).policy = Default(x.policy, "inherit")
             /\ NormalizeRoute(x).method = Default(x.method, "ANY")
  <2>1. x.path \in Path /\ CleanPath(x.path) \in Path
    BY CleanPathType DEF Route
  <2>2. /\ Default(x.policy, "inherit") \in AuthPolicy \cup {None}
        /\ Default(x.method, "ANY") \in Method \cup {None}
        /\ Default(x.match, "prefix") \in {"exact", "prefix", None}
        /\ Default(x.timeout, 5) \in Nat \cup {None}
    BY DEF Route, Default, AuthPolicy, Method
  <2> QED BY <2>1, <2>2 DEF NormalizeRoute, Route
<1>2. \A d, value : Default(Default(value, d), d) = Default(value, d)
  BY DEF Default
<1> QED BY <1>1, <1>2

\* The routes of a manifest after the rounds of commandToManifest, ValidateManifest
\* and ManifestHash.
LEMMA Rounds ==
  ASSUME NEW c \in Command, NEW k \in DOMAIN c.routes
  PROVE  /\ c.routes[k] \in Route
         /\ Validated(c)[k] = NormalizeRoute(NormalizeRoute(c.routes[k]))
         /\ Validated(c)[k] \in Route
         /\ Hashed(c)[k] = NormalizeRoute(Validated(c)[k])
         /\ Hashed(c)[k] \in Route
         /\ DOMAIN Validated(c) = DOMAIN c.routes
         /\ DOMAIN Hashed(c) = DOMAIN c.routes
<1>1. c.routes[k] \in Route
  BY InputAssumption
<1>2. /\ DOMAIN Declared(c) = DOMAIN c.routes
      /\ Declared(c)[k] = NormalizeRoute(c.routes[k])
  BY DEF Declared, Normalized
<1>3. /\ DOMAIN Validated(c) = DOMAIN c.routes
      /\ Validated(c)[k] = NormalizeRoute(NormalizeRoute(c.routes[k]))
  BY <1>2 DEF Validated, Normalized
<1>4. /\ DOMAIN Hashed(c) = DOMAIN c.routes
      /\ Hashed(c)[k] = NormalizeRoute(Validated(c)[k])
  BY <1>3 DEF Hashed, Normalized
<1>5. Validated(c)[k] \in Route
  BY <1>1, <1>3, NormalizeEffect
<1>6. Hashed(c)[k] \in Route
  BY <1>4, <1>5, NormalizeEffect
<1> QED BY <1>1, <1>3, <1>4, <1>5, <1>6

\* A path under a prefix that needs no trimming is under it one round later.
LEMMA CleanStaysUnder ==
  ASSUME NEW p \in Path, NEW q, q = [parts |-> q.parts, blanks |-> 0, apart |-> FALSE],
         Under(p, q)
  PROVE  Under(CleanPath(p), q)
<1>1. CleanPath(p).parts = p.parts
  BY CleanPathType
<1>2. p.blanks \in Nat /\ q.blanks = 0 /\ q.apart = FALSE
  BY DEF Path
<1>3. CASE p = q
  <2>1. p.blanks <= 1
    BY <1>2, <1>3
  <2> QED BY <1>3, <2>1, CleanPathType DEF Under
<1>4. CASE q.parts = <<>> \/ IsStrictPrefix(q.parts, p.parts)
  BY <1>1, <1>2, <1>4 DEF Under
<1>5. CASE p.parts = q.parts /\ p.apart
  <2>1. CASE p.blanks <= 1
    BY <1>5, <2>1, CleanPathType DEF Under
  <2>2. CASE ~(p.blanks <= 1)
    BY <1>2, <1>5, <2>2, CleanPathType DEF Under
  <2> QED BY <2>1, <2>2
<1> QED BY <1>3, <1>4, <1>5 DEF Under

\* The rows that are written of a manifest are the routes that its hash is made of.
RowsOf(c) == {NormalizeRoute(Hashed(c)[k]) : k \in DOMAIN c.routes}

LEMMA HashOfRows ==
  ASSUME NEW c \in Command
  PROVE  ManifestHash(c).routes = RowsOf(c) /\ ManifestHash(c) \in Hash
<1>1. ToSet(Normalized(Hashed(c))) = {Normalized(Hashed(c))[k] : k \in DOMAIN Normalized(Hashed(c))}
  BY DEF ToSet
<1>2. DOMAIN Hashed(c) = DOMAIN c.routes
  BY DEF Hashed, Validated, Declared, Normalized
<1>3. ToSet(Normalized(Hashed(c))) = RowsOf(c)
  BY <1>1, <1>2 DEF Normalized, RowsOf
<1>4. RowsOf(c) \subseteq Route
  BY Rounds, NormalizeEffect DEF RowsOf
<1> QED BY <1>3, <1>4, InputAssumption DEF ManifestHash, Hash

-----------------------------------------------------------------------------
(* The invariant. *)

\* What was granted to the stored routes.
Granted(c, r) ==
  /\ r.path # CleanPath(c.public) /\ Under(r.path, CleanPath(c.public))
  /\ \E p \in NormalizePrefixes(c) : Under(r.path, p)
  /\ r.policy \in OrAll(c.trust.policies, AuthPolicy)
  /\ r.method \in OrAll(c.trust.methods, Method)

\* A call of RoundTrip to an instance.
Outbound == [instance : Instance, url : URL, under : Config,
             step : {"dial", "connect", "refused"}]

\* A call refused under the configuration of its instance is one to a name.
OutboundSound ==
  outbound # None =>
    /\ outbound \in Outbound
    /\ outbound.under = config =>
         /\ config.trust # None /\ ValidatePluginURL(config.trust, outbound.url)
         /\ outbound.step = "refused" => outbound.url.host \in HostName

AdmissionInv ==
  /\ config \in Config \cup {None}
  /\ instances \in [Instance -> Admitted \cup {None}]
  /\ \A i \in Instance : instances[i] # None =>
       LET x == instances[i]
       IN  /\ x.hash = ManifestHash(x.command)
           /\ x.under.trust # None /\ ValidatePluginURL(x.under.trust, x.command.url)
  /\ \A i \in Instance : instances[i] # None => hash # None /\ stored = hash.routes
  /\ StoredTrusted
  /\ OutboundSound

\* The rows of an admissible registration are granted, though they went through one
\* round more than the routes that were checked.
LEMMA RowsGranted ==
  ASSUME config \in Config, NEW c \in Command, Admissible(c), NEW r \in RowsOf(c)
  PROVE  Granted(config, r)
<1>1. PICK k \in DOMAIN c.routes : r = NormalizeRoute(Hashed(c)[k])
  BY DEF RowsOf
<1> DEFINE checked == NormalizeRoute(Validated(c)[k])
<1>2. /\ Validated(c)[k] \in Route /\ checked \in Route
      /\ Hashed(c)[k] = checked /\ k \in DOMAIN Validated(c)
  BY Rounds
<1>3. /\ r.path = CleanPath(checked.path)
      /\ r.policy = checked.policy /\ r.method = checked.method
  BY <1>1, <1>2, NormalizeEffect
<1>4. /\ ValidateGatewayPath(checked.path, CleanPath(config.public))
      /\ \E p \in NormalizePrefixes(config) : Under(checked.path, p)
      /\ checked.policy \in OrAll(config.trust.policies, AuthPolicy)
      /\ checked.method \in OrAll(config.trust.methods, Method)
  BY <1>2 DEF Admissible, ManifestPathsTrusted
<1> HIDE DEF checked
<1>5. checked.path \in Path
  BY <1>2 DEF Route
<1>6. ASSUME NEW p \in NormalizePrefixes(config), Under(checked.path, p)
      PROVE  Under(CleanPath(checked.path), p)
  <2>1. CASE config.trust.prefixes = {}
    <3>1. p = [parts |-> Append(CleanPath(config.public).parts, config.key), blanks |-> 0,
               apart |-> FALSE]
      BY <1>6, <2>1 DEF NormalizePrefixes
    <3>2. p = [parts |-> p.parts, blanks |-> 0, apart |-> FALSE]
      BY <3>1
    <3> QED BY <1>5, <1>6, <3>2, CleanStaysUnder
  <2>2. CASE config.trust.prefixes # {}
    <3>1. PICK g \in config.trust.prefixes : p = CleanPath(g)
      BY <1>6, <2>2 DEF NormalizePrefixes
    <3>2. g \in Path /\ g.blanks <= 1
      BY <3>1, InputAssumption DEF Admissible
    <3>3. p = [parts |-> g.parts, blanks |-> 0, apart |-> FALSE]
      BY <3>1, <3>2, CleanPathType
    <3> QED BY <1>5, <1>6, <3>3, CleanStaysUnder
  <2> QED BY <2>1, <2>2
<1> QED BY <1>3, <1>4, <1>6 DEF Granted, ValidateGatewayPath

-----------------------------------------------------------------------------
(* The steps. *)

LEMMA InitAdmission == Init => AdmissionInv
BY DEF Init, AdmissionInv, StoredTrusted, OutboundSound

\* The rows and the instances are not touched.
TablesInv ==
  /\ instances \in [Instance -> Admitted \cup {None}]
  /\ \A i \in Instance : instances[i] # None =>
       LET x == instances[i]
       IN  /\ x.hash = ManifestHash(x.command)
           /\ x.under.trust # None /\ ValidatePluginURL(x.under.trust, x.command.url)
  /\ \A i \in Instance : instances[i] # None => hash # None /\ stored = hash.routes
  /\ StoredTrusted

LEMMA TablesKept ==
  ASSUME TablesInv, UNCHANGED <<hash, stored, instances>>
  PROVE  TablesInv'
BY DEF TablesInv, StoredTrusted

LEMMA StartKeeps ==
  ASSUME AdmissionInv, NEW c \in Config, Start(c)
  PROVE  AdmissionInv'
<1>1. TablesInv /\ UNCHANGED <<hash, stored, instances>>
  BY DEF AdmissionInv, TablesInv, Start
<1>2. TablesInv'
  BY <1>1, TablesKept
<1>3. config' \in Config \cup {None}
  BY DEF Start
<1>4. OutboundSound'
  BY DEF Start, OutboundSound
<1> QED BY <1>2, <1>3, <1>4 DEF AdmissionInv, TablesInv

\* Register replaces the routes as a whole, and its instance is the one that they
\* were granted to.
LEMMA RegisterKeeps ==
  ASSUME AdmissionInv, NEW i \in Instance, NEW c \in Command, Register(i, c)
  PROVE  AdmissionInv'
<1>1. UNCHANGED <<config, outbound>> /\ config \in Config
  BY DEF Register, AdmissionInv
<1>2. OutboundSound'
  BY <1>1 DEF AdmissionInv, OutboundSound
<1>3. CASE UNCHANGED <<hash, stored, instances>>
  <2>1. TablesInv
    BY DEF AdmissionInv, TablesInv
  <2>2. TablesInv'
    BY <1>3, <2>1, TablesKept
  <2> QED BY <1>1, <1>2, <2>2 DEF AdmissionInv, TablesInv
<1>4. CASE ~UNCHANGED <<hash, stored, instances>>
  <2> DEFINE new == [command |-> c, hash |-> ManifestHash(c), under |-> config]
  <2>1. /\ Admissible(c)
        /\ hash' = ManifestHash(c)
        /\ stored' = RowsOf(c)
        /\ instances' = [instances EXCEPT ![i] = new]
    BY <1>4 DEF Register, RowsOf
  <2>2. ManifestHash(c).routes = RowsOf(c) /\ ManifestHash(c) \in Hash
    BY HashOfRows
  <2>3. new \in Admitted /\ new # None
    BY <1>1, <2>2, InputAssumption DEF Admitted
  <2>4. instances' \in [Instance -> Admitted \cup {None}]
    BY <2>1, <2>3 DEF AdmissionInv
  <2>5. instances'[i] = new /\ \A j \in Instance : j # i => instances'[j] = instances[j]
    BY <2>1 DEF AdmissionInv
  <2>6. hash' # None /\ stored' = hash'.routes
    <3>1. hash' \in Hash
      BY <2>1, <2>2
    <3> QED BY <2>1, <2>2, <3>1, InputAssumption
  <2>7. ASSUME NEW j \in Instance, instances'[j] # None
        PROVE  LET x == instances'[j]
               IN  /\ x.hash = ManifestHash(x.command)
                   /\ x.under.trust # None /\ ValidatePluginURL(x.under.trust, x.command.url)
    <3>1. CASE j = i
      BY <2>1, <2>5, <3>1 DEF Admissible
    <3>2. CASE j # i
      BY <2>5, <2>7, <3>2 DEF AdmissionInv
    <3> QED BY <3>1, <3>2
  <2>8. StoredTrusted'
    <3> SUFFICES ASSUME NEW r \in RowsOf(c)
                 PROVE  /\ instances'[i] # None /\ instances'[i].hash = hash'
                        /\ Granted(instances'[i].under, r)
      BY <2>1 DEF StoredTrusted, Granted
    <3>1. Granted(config, r)
      BY <1>1, <2>1, RowsGranted
    <3> QED BY <2>1, <2>3, <2>5, <3>1
  <2> QED BY <1>1, <1>2, <2>4, <2>6, <2>7, <2>8 DEF AdmissionInv
<1> QED BY <1>3, <1>4

LEMMA RoundTripKeeps ==
  ASSUME AdmissionInv, NEW i \in Instance, RoundTrip(i)
  PROVE  AdmissionInv'
<1>1. TablesInv /\ UNCHANGED <<hash, stored, instances>>
  BY DEF AdmissionInv, TablesInv, RoundTrip
<1>2. TablesInv'
  BY <1>1, TablesKept
<1>3. config' = config /\ config \in Config
  BY DEF RoundTrip, AdmissionInv
<1> DEFINE x == instances[i]
<1>4. /\ x \in Admitted /\ x # None
      /\ x.under.trust # None /\ ValidatePluginURL(x.under.trust, x.command.url)
  BY DEF RoundTrip, AdmissionInv
<1>5. x.command.url \in URL /\ x.under \in Config
  BY <1>4, InputAssumption DEF Admitted
<1>6. outbound' = [instance |-> i, url |-> x.command.url, under |-> x.under, step |->
          IF config.trust # None /\ ValidatePluginURL(config.trust, x.command.url)
          THEN "dial" ELSE "refused"]
  BY DEF RoundTrip
<1> HIDE DEF x
<1>7. OutboundSound'
  <2>1. outbound' \in Outbound
    BY <1>5, <1>6 DEF Outbound
  <2>2. outbound'.under = config => /\ config.trust # None
                                   /\ ValidatePluginURL(config.trust, outbound'.url)
                                   /\ outbound'.step = "dial"
    BY <1>4, <1>6
  <2> QED BY <1>3, <2>1, <2>2 DEF OutboundSound
<1> QED BY <1>2, <1>3, <1>7 DEF AdmissionInv, TablesInv

\* An address in the base URL was checked as what it resolves to.
LEMMA DialKeeps ==
  ASSUME AdmissionInv, NEW addresses \in (SUBSET Address) \ {{}}, DialContext(addresses)
  PROVE  AdmissionInv'
<1>1. TablesInv /\ UNCHANGED <<hash, stored, instances>>
  BY DEF AdmissionInv, TablesInv, DialContext
<1>2. TablesInv'
  BY <1>1, TablesKept
<1>3. config' = config /\ config \in Config \cup {None}
  BY DEF DialContext, AdmissionInv
<1>4. PICK step \in {"connect", "refused"} :
        /\ outbound' = [outbound EXCEPT !.step = step]
        /\ step = "refused" => \E a \in addresses : ~ValidateResolvedIP(config.trust, a)
  BY DEF DialContext
<1>5. outbound # None /\ outbound \in Outbound
  BY DEF DialContext, AdmissionInv, OutboundSound
<1>6. /\ outbound' \in Outbound
      /\ outbound'.url = outbound.url /\ outbound'.under = outbound.under
      /\ outbound'.step = step
  BY <1>4, <1>5 DEF Outbound
<1>7. ASSUME outbound.under = config
      PROVE  /\ config.trust # None /\ ValidatePluginURL(config.trust, outbound.url)
             /\ step = "refused" => outbound.url.host \in HostName
  <2>1. config.trust # None /\ ValidatePluginURL(config.trust, outbound.url)
    BY <1>5, <1>7 DEF AdmissionInv, OutboundSound
  <2>2. outbound.url.host \in HostName \cup Address
    BY <1>5 DEF Outbound, URL
  <2>3. CASE outbound.url.host \in Address
    <3>1. addresses = {outbound.url.host}
      BY <2>3 DEF DialContext
    <3>2. ValidateResolvedIP(config.trust, outbound.url.host)
      BY <2>1, <2>3 DEF ValidatePluginURL, ValidateResolvedIP
    <3> QED BY <1>4, <2>1, <3>1, <3>2
  <2> QED BY <2>1, <2>2, <2>3
<1>8. OutboundSound'
  BY <1>3, <1>6, <1>7 DEF OutboundSound
<1> QED BY <1>2, <1>3, <1>8 DEF AdmissionInv, TablesInv

LEMMA FinishKeeps ==
  ASSUME AdmissionInv, Finish
  PROVE  AdmissionInv'
<1>1. TablesInv /\ UNCHANGED <<hash, stored, instances>>
  BY DEF AdmissionInv, TablesInv, Finish
<1>2. TablesInv'
  BY <1>1, TablesKept
<1>3. config' \in Config \cup {None}
  BY DEF Finish, AdmissionInv
<1>4. OutboundSound'
  BY DEF Finish, OutboundSound
<1> QED BY <1>2, <1>3, <1>4 DEF AdmissionInv, TablesInv

LEMMA AdmissionKept ==
  ASSUME AdmissionInv, [Next]_vars
  PROVE  AdmissionInv'
<1>1. CASE UNCHANGED vars
  <2>1. UNCHANGED <<config, outbound>> /\ UNCHANGED <<hash, stored, instances>>
    BY <1>1 DEF vars
  <2>2. TablesInv
    BY DEF AdmissionInv, TablesInv
  <2>3. TablesInv'
    BY <2>1, <2>2, TablesKept
  <2>4. OutboundSound' /\ config' \in Config \cup {None}
    BY <2>1 DEF AdmissionInv, OutboundSound
  <2> QED BY <2>3, <2>4 DEF AdmissionInv, TablesInv
<1> QED BY <1>1, StartKeeps, RegisterKeeps, RoundTripKeeps, DialKeeps, FinishKeeps DEF Next

THEOREM AlwaysAdmissionInv == Spec => []AdmissionInv
<1>1. AdmissionInv /\ [Next]_vars => AdmissionInv'
  BY AdmissionKept
<1> QED BY InitAdmission, <1>1, PTL DEF Spec

-----------------------------------------------------------------------------
(* The properties that the admission run checks. *)

\* Whatever manifests are registered under whatever configurations, the rows that the
\* gateway routes by are within what was granted, though Register writes them one
\* normalisation after validateTrustedManifest looked at them.
THEOREM AlwaysStoredTrusted == Spec => []StoredTrusted
<1>1. AdmissionInv => StoredTrusted
  BY DEF AdmissionInv
<1> QED BY <1>1, AlwaysAdmissionInv, PTL

\* The hash that an instance is compared by stands for the rows, for any manifests.
THEOREM AlwaysHashMeansRoutes == Spec => []HashMeansRoutes
<1>1. AdmissionInv => HashMeansRoutes
  <2> SUFFICES ASSUME AdmissionInv, NEW i \in Instance, instances[i] # None,
                      instances[i].hash = hash
               PROVE  stored = RowsOf(instances[i].command)
    BY DEF HashMeansRoutes, RowsOf
  <2>1. instances[i].command \in Command
    BY DEF AdmissionInv, Admitted
  <2>2. stored = hash.routes /\ hash = ManifestHash(instances[i].command)
    BY DEF AdmissionInv
  <2> QED BY <2>1, <2>2, HashOfRows
<1> QED BY <1>1, AlwaysAdmissionInv, PTL

\* What ValidatePluginURL admits at registration, RoundTrip and DialContext let through
\* under the same configuration, unless a name resolves to what is not allowed.
THEOREM AlwaysAdmittedReachable == Spec => []AdmittedReachable
<1>1. AdmissionInv => AdmittedReachable
  BY DEF AdmissionInv, OutboundSound, AdmittedReachable
<1> QED BY <1>1, AlwaysAdmissionInv, PTL

=============================================================================
