----------------------------- MODULE GatewayRequest -----------------------------
(***************************************************************************)
(* A request of a client through the gateway to the blog plugin: route,    *)
(* authorisation, forwarding with a signature, and the answer that comes   *)
(* back.  The connection to the plugin may break at any moment, the route  *)
(* timeout may end and the client may leave, while the plugin goes on with *)
(* a delivery; net/http sends a replayable request again on a connection   *)
(* that broke, with the same signature.                                    *)
(***************************************************************************)
EXTENDS BlogArticles, Sequences

CONSTANTS Request,    \* requests of clients
          InputsOf,   \* InputsOf[r]: what request r may be
          RolesOf,    \* RolesOf[u]: the roles in the token of user u, in order
          Permitted,  \* the roles that the policy permits
          AllowPublicRoutes,
          MaxCopies   \* bound of the deliveries of one request

Input == UNION {InputsOf[r] : r \in Request}

Policy == {"inherit", "authenticated", "rbac", "admin", "public"}

ASSUME GatewayAssumption ==
  /\ Delivery = Request \X (1 .. MaxCopies)
  /\ MaxCopies \in Nat \ {0}
  \* policy: of the route that the path leads to; token: whose valid access token
  \* the client presents; header: the user that it names in X-Keiyaku-User-ID
  /\ \A i \in Input : /\ i.ask \in Ask /\ i.policy \in Policy
                      /\ i.token \in User \cup {None} /\ i.header \in User \cup {None}
                      /\ i.large \in BOOLEAN /\ i.replayable \in BOOLEAN
  /\ AllowPublicRoutes \in BOOLEAN
  /\ \A u \in User : DOMAIN RolesOf[u] \subseteq Nat

VARIABLES request,   \* request[r]: the state of its gateway handler, or None
          sent,      \* deliveries on their way to the plugin
          nonces,    \* requests whose nonce the plugin has recorded
          forgotten  \* history: requests under way when the plugin restarted

gatewayVars == <<request, sent, nonces, forgotten>>
vars == <<blogVars, gatewayVars>>

Stage == {"resolve", "authorize", "forward", "wait", "copy", "answered", "done"}

GatewayError == {"none", "route_not_found", "plugin_unavailable", "resolve", "auth",
                 "upstream_request", "upstream_connect", "upstream_timeout"}

RequestState ==
  [pc : Stage, input : Input, user : User \cup {None}, copy : 0 .. MaxCopies,
   status : Nat, error : GatewayError]

ASSUME NoRequestAssumption == None \notin RequestState

GatewayType ==
  /\ BlogType
  /\ request \in [Request -> RequestState \cup {None}]
  /\ sent \subseteq Delivery
  /\ nonces \subseteq Request /\ forgotten \subseteq Request

Init ==
  /\ BlogInit
  /\ request = [r \in Request |-> None]
  /\ sent = {} /\ nonces = {} /\ forgotten = {}

-----------------------------------------------------------------------------

In(r, pc) == request[r] # None /\ request[r].pc = pc

Go(r, state) == request' = [request EXCEPT ![r] = state]

\* Only the handler's own state changes.
Move(r, state) == Go(r, state) /\ UNCHANGED <<blogVars, sent, nonces, forgotten>>

Answer(r, status, error) ==
  Move(r, [request[r] EXCEPT !.pc = "answered", !.status = status, !.error = error])

Gateway(r, i) ==
  /\ request[r] = None
  /\ Move(r, [pc |-> "resolve", input |-> i, user |-> None, copy |-> 0,
              status |-> 0, error |-> "none"])

\* What ResolveRoute finds is the business of RouteResolver.
ResolveRoute(r) ==
  /\ In(r, "resolve")
  /\ \/ Move(r, [request[r] EXCEPT !.pc = "authorize"])
     \/ Answer(r, 404, "route_not_found")
     \/ Answer(r, 503, "plugin_unavailable")
     \/ Answer(r, 500, "resolve")

\* The roles are asked for in order, until one is permitted or a call of IAM
\* fails: failing is the role whose call fails.
Allow(roles, failing) ==
  LET decided == {k \in DOMAIN roles : roles[k] \in Permitted \cup {failing}}
  IN IF decided = {} THEN "no"
     ELSE IF roles[Min(decided)] = failing THEN "error" ELSE "yes"

\* authorizeGateway for a token that IAM confirmed.
Decision(policy, roles, failing) ==
  CASE policy = "admin" -> IF \E k \in DOMAIN roles : roles[k] = "admin" THEN "yes" ELSE "no"
    [] policy = "rbac" -> Allow(roles, failing)
    [] OTHER -> "yes"

Authorized(r, user) == Move(r, [request[r] EXCEPT !.pc = "forward", !.user = user])

AuthorizeGateway(r) ==
  /\ In(r, "authorize")
  /\ LET policy == request[r].input.policy
         u == request[r].input.token
     IN  \/ /\ policy = "public"
            /\ IF AllowPublicRoutes THEN Authorized(r, None) ELSE Answer(r, 403, "auth")
         \/ policy # "public" /\ Answer(r, 401, "auth")   \* no token, or not confirmed
         \/ /\ policy # "public" /\ u # None
            /\ \E failing \in {None} \cup {RolesOf[u][k] : k \in DOMAIN RolesOf[u]} :
                 \/ Decision(policy, RolesOf[u], failing) = "yes" /\ Authorized(r, u)
                 \/ Decision(policy, RolesOf[u], failing) = "no" /\ Answer(r, 403, "auth")
                 \/ Decision(policy, RolesOf[u], failing) = "error" /\ Answer(r, 500, "auth")

\* No usable URL, a body too large or broken off, or the request is signed and sent.
Forward(r) ==
  /\ In(r, "forward")
  /\ \/ Answer(r, 502, "upstream_request")
     \/ Answer(r, 400, "upstream_request")
     \/ request[r].input.large /\ Answer(r, 413, "upstream_request")
     \/ /\ ~request[r].input.large
        /\ Go(r, [request[r] EXCEPT !.pc = "wait", !.copy = 1])
        /\ sent' = sent \cup {<<r, 1>>}
        /\ UNCHANGED <<blogVars, nonces, forgotten>>

-----------------------------------------------------------------------------

\* Mutant: the client's header is copied like any other, and replaced when there is
\* a user.
UserHeaderCopied(r) ==
  IF request[r].user # None THEN request[r].user ELSE request[r].input.header

\* What the plugin reads in X-Keiyaku-User-ID: the client's header is not copied.
UserHeader(r) == request[r].user

\* Mutant: no store of nonces.
NonceUsedNever(r) == FALSE

\* The plugin takes each nonce once.
NonceUsed(r) == r \in nonces

GatewaySignature(d) ==
  /\ d \in sent
  /\ sent' = sent \ {d}
  /\ LET r == d[1]
     IN IF NonceUsed(r)
        THEN Become(d, Answered(401)) /\ UNCHANGED nonces
        ELSE Become(d, Handle(request[r].input.ask, UserHeader(r))) /\ nonces' = nonces \cup {r}
  /\ UNCHANGED <<articles, request, forgotten>>

PluginStep(d) ==
  /\ handling[d] # None
  /\ HandlerStep(d, request[d[1]].input.ask, UserHeader(d[1]))
  /\ UNCHANGED gatewayVars

Lose(d) ==
  /\ d \in sent
  /\ sent' = sent \ {d}
  /\ UNCHANGED <<blogVars, request, nonces, forgotten>>

\* The plugin's handlers and its nonces end with its process.  Bound: it restarts
\* once while there are requests.
PluginRestart ==
  /\ forgotten = {}
  /\ handling' = [d \in Delivery |->
       IF handling[d] # None /\ handling[d].pc = "answered" THEN handling[d] ELSE None]
  /\ nonces' = {}
  /\ forgotten' = forgotten \cup {r \in Request : request[r] # None}
  /\ UNCHANGED <<articles, request, sent>>

-----------------------------------------------------------------------------

Current(r) == <<r, request[r].copy>>

\* The connection breaks, or the client leaves and ends the call: the transport
\* sends a replayable request again.
ConnectionBroken(r) ==
  /\ In(r, "wait")
  /\ \/ Answer(r, 502, "upstream_connect")
     \/ /\ request[r].input.replayable /\ request[r].copy < MaxCopies
        /\ Go(r, [request[r] EXCEPT !.copy = @ + 1])
        /\ sent' = sent \cup {<<r, request[r].copy + 1>>}
        /\ UNCHANGED <<blogVars, nonces, forgotten>>

\* The status goes out before the body is read.
Respond(r) ==
  /\ In(r, "wait")
  /\ InHandler(Current(r), "answered")
  /\ Move(r, [request[r] EXCEPT !.pc = "copy", !.status = handling[Current(r)].status])

\* The plugin has sent the whole body, which it may never do, or the copy breaks off;
\* nothing is made of that.
Copy(r) == In(r, "copy") /\ Answer(r, request[r].status, "none")

\* Mutant: a timeout that is over when the status is there.
TimeoutUntilStatus(r) == In(r, "wait") /\ Answer(r, 504, "upstream_timeout")

\* The route timeout, which covers every delivery and the body, whose copy it cuts short.
Timeout(r) ==
  \/ In(r, "wait") /\ Answer(r, 504, "upstream_timeout")
  \/ Copy(r)

\* The deferred record of the metric and of the audit event, which nothing reads and
\* which are left out.
RecordGatewayFailure(r) ==
  /\ In(r, "answered")
  /\ Move(r, [request[r] EXCEPT !.pc = "done"])

-----------------------------------------------------------------------------

\* What the gateway does on its own, the end of the timeout included.
Proceed(r) ==
  \/ ResolveRoute(r) \/ AuthorizeGateway(r) \/ Forward(r)
  \/ Respond(r) \/ Timeout(r)
  \/ RecordGatewayFailure(r)

Next ==
  \/ \E r \in Request : \/ \E i \in InputsOf[r] : Gateway(r, i)
                        \/ Proceed(r)
                        \/ ConnectionBroken(r) \/ Copy(r)
  \/ \E d \in Delivery : GatewaySignature(d) \/ PluginStep(d) \/ Lose(d)
  \/ PluginRestart

Spec == Init /\ [][Next]_vars

\* A handler runs until it returns, and its timeout ends; nothing is asked of the
\* plugin or of the connections.
FairSpec == Spec /\ \A r \in Request : WF_vars(Proceed(r))

-----------------------------------------------------------------------------

Creates(r) == request[r] # None /\ request[r].input.ask.op = "create"

\* The article that a delivery of r wrote.
CreatedBy(r) == {s \in Slug : articles[s] # None /\ articles[s].from[1] = r}

\* The author of an article is the user of the token that came with the request,
\* whom the route's policy let pass (authorizeGateway, copyPluginHeaders and
\* userIDFromHeader together).
AuthorIsCaller ==
  \A r \in Request : \A s \in CreatedBy(r) :
    LET roles == {RolesOf[articles[s].author][k] : k \in DOMAIN RolesOf[articles[s].author]}
    IN  /\ articles[s].author = request[r].input.token
        /\ request[r].input.policy = "rbac" => roles \cap Permitted # {}
        /\ request[r].input.policy = "admin" => "admin" \in roles

\* What the client is told of a creation is true then and stays true: success only
\* when the article was written by this request, and a refusal other than the 401 of
\* a nonce seen before only when none of its deliveries writes one, however
\* they overtake each other; unless the plugin restarted under the request.
AnswerTellsTruth ==
  \A r \in Request : Creates(r) /\ request[r].pc \in {"copy", "answered", "done"} =>
    /\ request[r].status = 200 => CreatedBy(r) # {}
    /\ \/ request[r].status \in {400, 403, 404, 409, 413, 503}
       \/ request[r].error \in {"auth", "resolve", "upstream_request"}
       => CreatedBy(r) = {} \/ r \in forgotten

\* A list counts before it queries, and articles are not deleted: its page is full
\* as far as its own total says.
PageCoversTotal ==
  \A d \in Delivery : InHandler(d, "answered") /\ handling[d].status = 200 =>
    LET ask == request[d[1]].input.ask
    IN  ask.op = "list" => handling[d].items >= OnPage(ask, handling[d].total)

\* Every request is answered and recorded, though the plugin may take a delivery and
\* never answer, or stop in the middle of a body: the request's context, which
\* EffectiveRouteTimeout bounds, covers both the call and the copy of its body.
EveryRequestEnds ==
  \A r \in Request : In(r, "resolve") ~> In(r, "done")

=============================================================================
