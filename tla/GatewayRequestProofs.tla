-------------------------- MODULE GatewayRequestProofs --------------------------
(***************************************************************************)
(* Theorems about GatewayRequest, for any requests, users, slugs, page     *)
(* sizes and number of copies.                                             *)
(***************************************************************************)
EXTENDS GatewayRequest, FiniteSetTheorems, TLAPS

-----------------------------------------------------------------------------
(* The inductive invariant. *)

\* The roles of the token satisfy the route's policy.
Entitled(i) ==
  LET roles == {RolesOf[i.token][k] : k \in DOMAIN RolesOf[i.token]}
  IN  /\ i.policy = "rbac" => roles \cap Permitted # {}
      /\ i.policy = "admin" => "admin" \in roles

\* The errors of a request that is not sent to the plugin.
Early == {"route_not_found", "plugin_unavailable", "resolve", "auth", "upstream_request"}

\* What the client is told by a request with so many copies: what the handler h of the last
\* one answered, or the failure of the wait, or an early error.
Told(error, status, copy, h) ==
  \/ /\ error = "none" /\ copy > 0
     /\ h # None /\ h.pc = "answered" /\ h.status = status
  \/ error = "upstream_connect" /\ status = 502
  \/ error = "upstream_timeout" /\ status = 504
  \/ error \in Early /\ copy = 0 /\ status # 200

\* What is known of the state q of a request, with h the handler of its current copy: a
\* user in it was let pass, and nothing was sent before.
RequestKnown(q, h) ==
  /\ q.user # None => q.user = q.input.token /\ Entitled(q.input)
  /\ q.pc \in {"resolve", "authorize", "forward"} => q.copy = 0
  /\ q.pc \in {"wait", "copy"} => q.copy > 0
  /\ q.pc \notin {"answered", "done"} => q.error = "none"
  /\ q.pc \in {"copy", "answered", "done"} => Told(q.error, q.status, q.copy, h)

\* What is known of the plugin's handler for delivery d: its nonce is recorded or was
\* forgotten, its status is the last thing it has, a creation has a user, a count is
\* still covered by what is published, and success means that the article is there or
\* the page is as full as it should be.
HandlerKnown(d, h) ==
  LET ask == request[d[1]].input.ask
  IN  /\ d[1] \in nonces \cup forgotten
      /\ h.pc # "answered" => h.status = 0
      /\ h.pc = "create" => request[d[1]].user # None
      /\ h.pc = "find" => h.total <= Cardinality(Published)
      /\ h.pc = "answered" /\ h.status = 200 =>
           /\ ask.op = "create" => \E s \in Slug : articles[s] # None /\ articles[s].from = d
           /\ ask.op = "list" => h.items >= OnPage(ask, h.total)

\* A delivery is a copy that was sent, and it is accepted once.
DeliveriesKnown ==
  \A d \in Delivery :
    /\ d \in sent \/ handling[d] # None => request[d[1]] # None /\ d[2] <= request[d[1]].copy
    /\ d \in sent => handling[d] = None
    /\ handling[d] # None => HandlerKnown(d, handling[d])

\* A delivery that the plugin did not refuse to look at.
Accepted(d) == handling[d] # None /\ handling[d].status # 401

\* Of the deliveries of a request one is accepted, unless the plugin forgot its nonce.
AcceptedOnce ==
  \A d, e \in Delivery :
    Accepted(d) /\ Accepted(e) /\ d[1] = e[1] /\ d[1] \notin forgotten => d = e

\* An article was written by a handler that then answered 200 or 500, in the name of the
\* user of the request.
ArticlesKnown ==
  \A s \in Slug : articles[s] # None =>
    LET d == articles[s].from
    IN  /\ InHandler(d, "answered") /\ handling[d].status \in {200, 500}
        /\ request[d[1]] # None /\ articles[s].author = request[d[1]].user

GInv ==
  /\ GatewayType
  /\ \A r \in Request : request[r] # None => RequestKnown(request[r], handling[Current(r)])
  /\ DeliveriesKnown
  /\ AcceptedOnce
  /\ ArticlesKnown
  /\ IsFiniteSet(Published)

-----------------------------------------------------------------------------
(* Numbers. *)

\* A set of natural numbers has a least one: else the intervals up to its members would
\* be finite sets without a minimal one.
LEMMA LeastOf ==
  ASSUME NEW S \in SUBSET Nat, S # {}
  PROVE  Min(S) \in S
<1> DEFINE T == {0 .. x : x \in S}
<1>1. \A x \in S : 0 .. x \in FiniteSubsetsOf(Nat)
  BY FS_Interval DEF FiniteSubsetsOf
<1>2. T \subseteq FiniteSubsetsOf(Nat) /\ T # {}
  BY <1>1
<1>3. PICK X \in T : \A Y \in T : <<Y, X>> \notin StrictSubsetOrdering(Nat)
  BY <1>2, FS_StrictSubsetOrderingWellFounded, WFMin
<1>4. PICK x \in S : X = 0 .. x
  BY <1>3
<1>5. ASSUME NEW y \in S, y < x PROVE FALSE
  <2>1. <<0 .. y, 0 .. x>> \in StrictSubsetOrdering(Nat)
    BY <1>5 DEF StrictSubsetOrdering
  <2> QED BY <1>3, <1>4, <2>1
<1>6. \A y \in S : x <= y
  BY <1>5
<1> QED BY <1>6 DEF Min

\* The larger and the smaller of two integers.
LEMMA MaxOfTwo ==
  ASSUME NEW a \in Int, NEW b \in Int
  PROVE  /\ Max({a, b}) \in {a, b}
         /\ Max({a, b}) >= a /\ Max({a, b}) >= b
<1>1. \E x \in {a, b} : \A y \in {a, b} : x >= y
  BY a >= b \/ b >= a
<1> QED BY <1>1 DEF Max

LEMMA MinOfTwo ==
  ASSUME NEW a \in Int, NEW b \in Int
  PROVE  /\ Min({a, b}) \in {a, b}
         /\ Min({a, b}) <= a /\ Min({a, b}) <= b
<1>1. \E x \in {a, b} : \A y \in {a, b} : x <= y
  BY a <= b \/ b <= a
<1> QED BY <1>1 DEF Min

\* What is on a page grows with what there is (ListPublished's limit and offset), also
\* when the offset wraps around.
LEMMA OnPageGrows ==
  ASSUME NEW ask \in Ask, ask.op = "list", NEW n \in Nat, NEW m \in Nat, n <= m
  PROVE  /\ OnPage(ask, n) \in Nat
         /\ OnPage(ask, n) <= OnPage(ask, m)
<1>1. ask.page \in Int /\ ask.size \in Int
  BY DEF Ask
<1>2. DefaultSize \in Nat /\ MaxSize \in Nat /\ IntMax \in Nat \ {0}
  BY BlogAssumption
<1>3. SizeOf(ask) \in Nat
  <2>1. Min({DefaultSize, MaxSize}) \in Nat
    <3>1. Min({DefaultSize, MaxSize}) \in {DefaultSize, MaxSize}
      BY <1>2, MinOfTwo
    <3> QED BY <1>2, <3>1
  <2>2. ask.size > 0 => Min({ask.size, MaxSize}) \in Nat
    <3>1. ask.size \in Int /\ MaxSize \in Int
      BY <1>1, <1>2
    <3>2. Min({ask.size, MaxSize}) \in {ask.size, MaxSize}
      BY <3>1, MinOfTwo
    <3> QED BY <1>1, <1>2, <3>2
  <2> QED BY <1>1, <2>1, <2>2 DEF SizeOf
<1>4. PageOf(ask) \in Int
  BY <1>1 DEF PageOf
<1>5. Offset(ask) \in Nat
  <2>1. PICK k \in Int : k = (PageOf(ask) - 1) * SizeOf(ask)
    BY <1>3, <1>4
  <2>2. PICK w \in Nat \ {0} : w = 2 * (IntMax + 1)
    BY <1>2
  <2>3. (k + IntMax + 1) % w \in Nat
    BY <1>2, <2>1, <2>2
  <2>4. Wrapped(k) \in Int
    BY <1>2, <2>2, <2>3 DEF Wrapped
  <2>5. PICK j \in Int : j = Wrapped(k)
    BY <2>4
  <2>6. Max({0, j}) \in Nat
    BY MaxOfTwo
  <2> QED BY <2>1, <2>5, <2>6 DEF Offset
<1>6. PICK s \in Nat, o \in Nat : s = SizeOf(ask) /\ o = Offset(ask)
  BY <1>3, <1>5
<1>7. PICK x \in Nat, y \in Nat : x = Max({0, n - o}) /\ y = Max({0, m - o}) /\ x <= y
  <2>1. PICK p \in Int, q \in Int : p = n - o /\ q = m - o /\ p <= q
    BY <1>6
  <2>2. \A z \in Int : Max({0, z}) \in {0, z} /\ Max({0, z}) >= 0 /\ Max({0, z}) >= z
    BY MaxOfTwo
  <2>3. PICK x, y : x = Max({0, p}) /\ y = Max({0, q})
    OBVIOUS
  <2>4. x \in {0, p} /\ x >= 0 /\ x >= p /\ y \in {0, q} /\ y >= 0 /\ y >= q
    BY <2>2, <2>3
  <2>5. x \in Nat /\ y \in Nat /\ x <= y
    BY <2>1, <2>4
  <2> QED BY <2>1, <2>3, <2>5
<1>8. \A z \in Nat : Min({s, z}) \in {s, z} /\ Min({s, z}) <= s /\ Min({s, z}) <= z
  <2> SUFFICES ASSUME NEW z \in Nat
               PROVE  Min({s, z}) \in {s, z} /\ Min({s, z}) <= s /\ Min({s, z}) <= z
    OBVIOUS
  <2>1. s \in Int /\ z \in Int
    OBVIOUS
  <2> QED BY <2>1, MinOfTwo
<1>9. Min({s, x}) \in Nat /\ Min({s, x}) <= Min({s, y})
  <2>1. PICK a, b : a = Min({s, x}) /\ b = Min({s, y})
    OBVIOUS
  <2>2. a \in {s, x} /\ a <= s /\ a <= x /\ b \in {s, y} /\ b <= s /\ b <= y
    BY <1>8, <2>1
  <2> QED BY <1>7, <2>1, <2>2
<1>10. OnPage(ask, n) = Min({s, x}) /\ OnPage(ask, m) = Min({s, y})
  BY <1>6, <1>7 DEF OnPage
<1> QED BY <1>9, <1>10

\* The sets of published articles that grow, by one at a time, stay finite.
LEMMA PublishedGrows ==
  ASSUME IsFiniteSet(Published), Published \subseteq Published',
         \E s : Published' \subseteq Published \cup {s}
  PROVE  /\ IsFiniteSet(Published')
         /\ Cardinality(Published) \in Nat /\ Cardinality(Published') \in Nat
         /\ Cardinality(Published) <= Cardinality(Published')
<1>1. PICK s : Published' \subseteq Published \cup {s}
  OBVIOUS
<1>2. IsFiniteSet(Published \cup {s})
  BY FS_AddElement
<1>3. IsFiniteSet(Published')
  BY <1>1, <1>2, FS_Subset
<1>4. Cardinality(Published) <= Cardinality(Published')
  BY <1>3, FS_Subset
<1> QED BY <1>3, <1>4, FS_CardinalityType

-----------------------------------------------------------------------------
(* Types. *)

\* A delivery is a request and the number of a copy.
LEMMA DeliveryType ==
  ASSUME NEW d \in Delivery
  PROVE  d[1] \in Request /\ d[2] \in 1 .. MaxCopies /\ d = <<d[1], d[2]>>
BY GatewayAssumption

\* The input of a request that came in.
LEMMA InputType ==
  ASSUME GatewayType, NEW r \in Request, request[r] # None
  PROVE  /\ request[r] \in RequestState
         /\ request[r].input \in Input
         /\ request[r].input.ask \in Ask
         /\ request[r].input.token \in User \cup {None}
         /\ request[r].input.policy \in Policy
<1>1. request[r] \in RequestState
  BY DEF GatewayType
<1>2. request[r].input \in Input
  BY <1>1 DEF RequestState
<1> QED BY <1>1, <1>2, GatewayAssumption

LEMMA HandlerTypes ==
  /\ \A pc \in {"create", "count", "find", "get", "answered"} :
       At(pc) \in Handler /\ At(pc).pc = pc /\ At(pc).status = 0
  /\ \A c \in Nat : /\ Answered(c) \in Handler
                    /\ Answered(c).pc = "answered" /\ Answered(c).status = c
BY DEF At, Answered, Handler

-----------------------------------------------------------------------------
(* A step of the gateway changes one request, and may send one copy of it. *)

\* What is told without an answer of the plugin does not depend on it.
LEMMA ToldWhat ==
  ASSUME NEW copy, NEW h
  PROVE  /\ Told("upstream_connect", 502, copy, h)
         /\ Told("upstream_timeout", 504, copy, h)
         /\ \A error \in Early, status \in Nat \ {200} : Told(error, status, 0, h)
         /\ copy > 0 /\ h # None /\ h.pc = "answered" => Told("none", h.status, copy, h)
BY DEF Told

\* An early error, and the answer of a copy, each on its own.
LEMMA ToldEarly ==
  ASSUME NEW h, NEW error \in Early, NEW status \in Nat \ {200}
  PROVE  Told(error, status, 0, h)
BY ToldWhat

LEMMA ToldAnswer ==
  ASSUME NEW h, h # None, h.pc = "answered", NEW copy, copy > 0
  PROVE  Told("none", h.status, copy, h)
BY ToldWhat

\* Success is told by an answer, and so is everything once a copy was sent, but for the
\* failures of the wait.
LEMMA ToldByAnswer ==
  ASSUME NEW error, NEW status, NEW copy \in Nat, NEW h, Told(error, status, copy, h),
         \/ status = 200
         \/ copy # 0 /\ status \in {400, 403, 404, 409, 413, 503}
         \/ copy # 0 /\ error \in {"auth", "resolve", "upstream_request"}
  PROVE  error = "none" /\ copy > 0 /\ h # None /\ h.pc = "answered" /\ h.status = status
<1>1. CASE error = "upstream_connect" /\ status = 502
  BY <1>1
<1>2. CASE error = "upstream_timeout" /\ status = 504
  BY <1>2
<1>3. CASE error \in Early /\ copy = 0 /\ status # 200
  BY <1>3
<1> QED BY <1>1, <1>2, <1>3 DEF Told

LEMMA ToldAnyway ==
  ASSUME NEW error, NEW status, NEW copy, NEW h, NEW g, Told(error, status, copy, h),
         ~(copy > 0 /\ h # None /\ h.pc = "answered")
  PROVE  Told(error, status, copy, g)
BY DEF Told

LEMMA RequestMoves ==
  ASSUME GInv, NEW r \in Request, NEW q \in RequestState, Go(r, q), RequestKnown(q, handling[<<r, q.copy>>]),
         UNCHANGED <<blogVars, nonces, forgotten>>,
         request[r] = None \/
           (/\ q.input = request[r].input
            /\ request[r].copy <= q.copy
            /\ request[r].copy = 0 \/ q.user = request[r].user),
         sent' = sent \/
           (/\ q.copy \in 1 .. MaxCopies
            /\ sent' = sent \cup {<<r, q.copy>>}
            /\ request[r] # None /\ request[r].copy < q.copy)
  PROVE  GInv'
<1>1. /\ request' \in [Request -> RequestState \cup {None}]
      /\ request'[r] = q
      /\ q # None
      /\ \A x \in Request \ {r} : request'[x] = request[x]
  BY NoRequestAssumption DEF GInv, GatewayType, Go
<1>2. articles' = articles /\ handling' = handling /\ nonces' = nonces /\ forgotten' = forgotten
  BY DEF blogVars
<1>3. Published' = Published
  BY <1>2 DEF Published
<1>4. sent' \subseteq Delivery
  BY GatewayAssumption DEF GInv, GatewayType
<1>5. GatewayType'
  BY <1>1, <1>2, <1>4 DEF GInv, GatewayType, BlogType
<1>6. ASSUME NEW x \in Request, request'[x] # None
      PROVE  RequestKnown(request'[x], handling'[<<x, request'[x].copy>>])
  BY <1>1, <1>2, <1>6 DEF GInv, Current
<1>7. ASSUME NEW d \in Delivery, request[d[1]] # None, 0 < request[d[1]].copy
      PROVE  /\ request'[d[1]] # None
             /\ request'[d[1]].input = request[d[1]].input
             /\ request'[d[1]].user = request[d[1]].user
             /\ request[d[1]].copy <= request'[d[1]].copy
  <2>1. CASE d[1] = r
    BY <1>1, <1>7, <2>1
  <2>2. CASE d[1] # r
    <3>1. d[1] \in Request
      BY DeliveryType
    <3>2. request[d[1]].copy \in Nat
      BY <1>7, <3>1, InputType, GatewayAssumption DEF GInv, RequestState
    <3> QED BY <1>1, <1>7, <2>2, <3>1, <3>2
  <2> QED BY <2>1, <2>2
<1>8. ASSUME NEW d \in Delivery, d \in sent \/ handling[d] # None
      PROVE  request[d[1]] # None /\ d[2] <= request[d[1]].copy /\ 0 < request[d[1]].copy
  <2>1. request[d[1]] # None /\ d[2] <= request[d[1]].copy /\ d[1] \in Request
    BY <1>8, DeliveryType DEF GInv, DeliveriesKnown
  <2>2. request[d[1]].copy \in Nat /\ d[2] \in Nat \ {0}
    BY <2>1, DeliveryType, InputType, GatewayAssumption DEF GInv, RequestState
  <2> QED BY <2>1, <2>2
<1>9. DeliveriesKnown'
  <2> SUFFICES ASSUME NEW d \in Delivery
               PROVE  /\ d \in sent' \/ handling'[d] # None =>
                           request'[d[1]] # None /\ d[2] <= request'[d[1]].copy
                      /\ d \in sent' => handling'[d] = None
                      /\ handling'[d] # None => HandlerKnown(d, handling[d])'
    BY DEF DeliveriesKnown
  <2>1. CASE d \in sent \/ handling[d] # None
    <3>1. /\ request[d[1]] # None /\ d[2] <= request[d[1]].copy /\ 0 < request[d[1]].copy
      BY <1>8, <2>1
    <3>2. /\ request'[d[1]] # None
          /\ request'[d[1]].input = request[d[1]].input
          /\ request'[d[1]].user = request[d[1]].user
          /\ request[d[1]].copy <= request'[d[1]].copy
      BY <1>7, <3>1
    <3>3. d[1] \in Request /\ d[2] \in Nat
      BY DeliveryType, GatewayAssumption
    <3>4. request[d[1]].copy \in Nat /\ request'[d[1]].copy \in Nat
      BY <1>1, <3>1, <3>2, <3>3, GatewayAssumption DEF GInv, GatewayType, RequestState
    <3>5. d[2] <= request'[d[1]].copy
      BY <3>1, <3>2, <3>3, <3>4
    <3>6. d \in sent' => handling'[d] = None
      <4>1. CASE d \in sent
        BY <1>2, <4>1 DEF GInv, DeliveriesKnown
      <4>2. CASE d \notin sent
        <5>1. d \in sent' => d = <<r, q.copy>> /\ request[r].copy < q.copy
          BY <4>2
        <5>2. q.copy \in Nat
          BY GatewayAssumption DEF RequestState
        <5> QED BY <3>1, <3>3, <3>4, <5>1, <5>2
      <4> QED BY <4>1, <4>2
    <3>7. handling'[d] # None => HandlerKnown(d, handling[d])'
      <4>1. handling[d] # None => HandlerKnown(d, handling[d])
        BY DEF GInv, DeliveriesKnown
      <4> QED BY <1>2, <1>3, <3>2, <4>1 DEF HandlerKnown
    <3> QED BY <3>2, <3>5, <3>6, <3>7
  <2>2. CASE ~(d \in sent \/ handling[d] # None)
    <3>1. d \in sent' => d = <<r, q.copy>>
      BY <2>2
    <3>2. q.copy \in Nat
      BY GatewayAssumption DEF RequestState
    <3> QED BY <1>1, <1>2, <2>2, <3>1, <3>2
  <2> QED BY <2>1, <2>2
<1>10. AcceptedOnce'
  BY <1>2 DEF GInv, AcceptedOnce, Accepted
<1>11. ArticlesKnown'
  <2> SUFFICES ASSUME NEW s \in Slug, articles[s] # None,
                      NEW d, d = articles[s].from
               PROVE  /\ InHandler(d, "answered") /\ handling[d].status \in {200, 500}
                      /\ request'[d[1]] # None /\ articles[s].author = request'[d[1]].user
    BY <1>2 DEF ArticlesKnown, InHandler
  <2>1. /\ InHandler(d, "answered") /\ handling[d].status \in {200, 500}
        /\ request[d[1]] # None /\ articles[s].author = request[d[1]].user
    BY DEF GInv, ArticlesKnown
  <2>2. d \in Delivery
    BY DEF GInv, GatewayType, BlogType, Article
  <2>3. 0 < request[d[1]].copy
    BY <1>8, <2>1, <2>2 DEF InHandler
  <2> QED BY <1>7, <2>1, <2>2, <2>3
<1>12. IsFiniteSet(Published')
  BY <1>3 DEF GInv
<1> QED BY <1>5, <1>6, <1>9, <1>10, <1>11, <1>12 DEF GInv, Current

-----------------------------------------------------------------------------
(* A step of the plugin changes the handler of one delivery, and may write an article. *)

LEMMA PluginMoves ==
  ASSUME GInv, NEW d \in Delivery, NEW h \in Handler, Become(d, h),
         UNCHANGED <<request, forgotten>>,
         sent' \subseteq sent, d \notin sent', nonces \subseteq nonces', nonces' \subseteq Request,
         request[d[1]] # None, d[2] <= request[d[1]].copy, ~InHandler(d, "answered"),
         HandlerKnown(d, h)',
         h.status # 401 => Accepted(d) \/ d[1] \notin nonces,
         articles' = articles \/
           (\E s \in Slug, a \in Article :
              /\ articles[s] = None
              /\ articles' = [articles EXCEPT ![s] = a]
              /\ a.from = d /\ a.author = request[d[1]].user
              /\ h.pc = "answered" /\ h.status \in {200, 500})
  PROVE  GInv'
<1>1. /\ handling' \in [Delivery -> Handler \cup {None}]
      /\ handling'[d] = h
      /\ h # None
      /\ \A e \in Delivery \ {d} : handling'[e] = handling[e]
  BY NoArticleAssumption DEF GInv, GatewayType, BlogType, Become
<1>2. request' = request /\ forgotten' = forgotten
  OBVIOUS
<1>3. /\ articles' \in [Slug -> Article \cup {None}]
      /\ \A s \in Slug : articles[s] # None => articles'[s] = articles[s]
      /\ \E s : Published' \subseteq Published \cup {s}
  <2>1. articles \in [Slug -> Article \cup {None}]
    BY DEF GInv, GatewayType, BlogType
  <2>2. CASE articles' = articles
    <3>1. Published' = Published
      BY <2>2 DEF Published
    <3> QED BY <2>1, <2>2, <3>1
  <2>3. CASE \E s \in Slug, a \in Article :
               articles[s] = None /\ articles' = [articles EXCEPT ![s] = a]
    <3>1. PICK s \in Slug, a \in Article :
            articles[s] = None /\ articles' = [articles EXCEPT ![s] = a]
      BY <2>3
    <3>2. Published' \subseteq Published \cup {s}
      BY <2>1, <3>1 DEF Published
    <3> QED BY <2>1, <3>1, <3>2
  <2> QED BY <2>2, <2>3
<1>4. Published \subseteq Published'
  BY <1>3 DEF Published
<1>5. /\ IsFiniteSet(Published')
      /\ Cardinality(Published) \in Nat /\ Cardinality(Published') \in Nat
      /\ Cardinality(Published) <= Cardinality(Published')
  BY <1>3, <1>4, PublishedGrows DEF GInv
<1>6. GatewayType'
  BY <1>1, <1>2, <1>3 DEF GInv, GatewayType, BlogType
<1>7. ASSUME NEW x \in Request, request'[x] # None
      PROVE  RequestKnown(request'[x], handling'[<<x, request'[x].copy>>])
  <2>1. PICK p \in RequestState : p = request[x]
    BY <1>2, <1>7 DEF GInv, GatewayType
  <2>2. RequestKnown(p, handling[<<x, p.copy>>])
    BY <1>2, <1>7, <2>1 DEF GInv, Current
  <2>3. p.copy > 0 => <<x, p.copy>> \in Delivery
    BY GatewayAssumption DEF RequestState
  <2>4. CASE p.copy > 0 /\ <<x, p.copy>> # d
    BY <1>1, <1>2, <2>1, <2>2, <2>3, <2>4
  <2>5. CASE ~(p.copy > 0 /\ <<x, p.copy>> # d)
    <3>1. ~(/\ p.copy > 0 /\ handling[<<x, p.copy>>] # None
            /\ handling[<<x, p.copy>>].pc = "answered")
      BY <2>5 DEF InHandler
    <3>2. Told(p.error, p.status, p.copy, handling[<<x, p.copy>>])
            => Told(p.error, p.status, p.copy, handling'[<<x, p.copy>>])
      BY <3>1, ToldAnyway
    <3>3. RequestKnown(p, handling'[<<x, p.copy>>])
      BY <2>2, <3>2 DEF RequestKnown
    <3> QED BY <1>2, <2>1, <3>3
  <2> QED BY <2>4, <2>5
<1>8. DeliveriesKnown'
  <2> SUFFICES ASSUME NEW e \in Delivery
               PROVE  /\ e \in sent' \/ handling'[e] # None =>
                           request'[e[1]] # None /\ e[2] <= request'[e[1]].copy
                      /\ e \in sent' => handling'[e] = None
                      /\ handling'[e] # None => HandlerKnown(e, handling[e])'
    BY DEF DeliveriesKnown
  <2>1. CASE e = d
    <3>1. HandlerKnown(e, handling[e])'
      BY <1>1, <2>1 DEF HandlerKnown
    <3> QED BY <1>2, <2>1, <3>1
  <2>2. CASE e # d
    <3>1. /\ e \in sent \/ handling[e] # None =>
               request[e[1]] # None /\ e[2] <= request[e[1]].copy
          /\ e \in sent => handling[e] = None
          /\ handling[e] # None => HandlerKnown(e, handling[e])
      BY DEF GInv, DeliveriesKnown
    <3>2. ASSUME handling[e] # None PROVE HandlerKnown(e, handling[e])'
      <4>1. PICK g \in Handler : g = handling[e] /\ g = handling'[e] /\ HandlerKnown(e, g)
        BY <1>1, <2>2, <3>1, <3>2 DEF GInv, GatewayType, BlogType
      <4>2. g.total \in Nat
        BY DEF Handler
      <4>3. g.pc = "find" => g.total <= Cardinality(Published')
        BY <1>5, <4>1, <4>2 DEF HandlerKnown
      <4>4. e[1] \in nonces' \cup forgotten'
        BY <1>2, <4>1 DEF HandlerKnown
      <4>5. (\E s \in Slug : articles[s] # None /\ articles[s].from = e) =>
              \E s \in Slug : articles'[s] # None /\ articles'[s].from = e
        BY <1>3
      <4> QED BY <1>2, <4>1, <4>3, <4>4, <4>5 DEF HandlerKnown
    <3> QED BY <1>1, <1>2, <2>2, <3>1, <3>2
  <2> QED BY <2>1, <2>2
<1>9. AcceptedOnce'
  <2> SUFFICES ASSUME NEW e \in Delivery, NEW g \in Delivery, Accepted(e)', Accepted(g)',
                      e[1] = g[1], e[1] \notin forgotten
               PROVE  e = g
    BY <1>2 DEF AcceptedOnce
  <2>1. ASSUME NEW x \in Delivery, x # d, Accepted(x)', Accepted(d)', x[1] = d[1],
               x[1] \notin forgotten
        PROVE  FALSE
    <3>1. Accepted(x) /\ handling[x] # None
      BY <1>1, <2>1 DEF Accepted
    <3>2. x[1] \in nonces
      BY <2>1, <3>1 DEF GInv, DeliveriesKnown, HandlerKnown
    <3>3. Accepted(d)
      BY <1>1, <2>1, <3>2 DEF Accepted
    <3> QED BY <2>1, <3>1, <3>3 DEF GInv, AcceptedOnce
  <2>2. CASE e # d /\ g # d
    BY <1>1, <2>2 DEF GInv, AcceptedOnce, Accepted
  <2> QED BY <2>1, <2>2
<1>10. ArticlesKnown'
  <2> SUFFICES ASSUME NEW s \in Slug, articles'[s] # None, NEW e, e = articles'[s].from
               PROVE  /\ InHandler(e, "answered")' /\ handling'[e].status \in {200, 500}
                      /\ request[e[1]] # None /\ articles'[s].author = request[e[1]].user
    BY <1>2 DEF ArticlesKnown, InHandler
  <2>1. CASE articles[s] # None
    <3>1. articles'[s] = articles[s]
      BY <1>3, <2>1
    <3>2. /\ InHandler(e, "answered") /\ handling[e].status \in {200, 500}
          /\ request[e[1]] # None /\ articles[s].author = request[e[1]].user
      BY <2>1, <3>1 DEF GInv, ArticlesKnown
    <3>3. e \in Delivery /\ e # d
      BY <2>1, <3>1, <3>2 DEF GInv, GatewayType, BlogType, Article
    <3> QED BY <1>1, <3>1, <3>2, <3>3 DEF InHandler
  <2>2. CASE articles[s] = None
    <3>1. /\ e = d /\ articles'[s].author = request[d[1]].user
          /\ h.pc = "answered" /\ h.status \in {200, 500}
      BY <2>2 DEF GInv, GatewayType, BlogType
    <3> QED BY <1>1, <3>1 DEF InHandler
  <2> QED BY <2>1, <2>2
<1> QED BY <1>5, <1>6, <1>7, <1>8, <1>9, <1>10 DEF GInv, Current

-----------------------------------------------------------------------------
(* The steps of the gateway. *)

\* What is known of a request that came in.
LEMMA StateKnown ==
  ASSUME GInv, NEW r \in Request, request[r] # None
  PROVE  \E p \in RequestState : p = request[r] /\ RequestKnown(p, handling[<<r, p.copy>>])
<1>1. PICK p \in RequestState : p = request[r]
  BY InputType DEF GInv
<1> QED BY <1>1 DEF GInv, Current

\* The handler's own state changes, and neither its request nor its copy.
LEMMA MoveKeeps ==
  ASSUME GInv, NEW r \in Request, request[r] # None, NEW q \in RequestState, Move(r, q),
         q.input = request[r].input, q.copy = request[r].copy,
         request[r].copy = 0 \/ q.user = request[r].user,
         RequestKnown(q, handling[<<r, q.copy>>])
  PROVE  GInv'
<1>1. request[r].copy \in Nat
  BY InputType, GatewayAssumption DEF GInv, RequestState
<1>2. request[r].copy <= q.copy
  BY <1>1
<1> QED BY <1>2, RequestMoves DEF Move

\* The state with an answer.
LEMMA AnswerKeeps ==
  ASSUME GInv, NEW r \in Request, request[r] # None, NEW status \in Nat,
         NEW error \in GatewayError, Answer(r, status, error),
         Told(error, status, request[r].copy, handling[<<r, request[r].copy>>])
  PROVE  GInv'
<1>1. PICK p \in RequestState : p = request[r] /\ RequestKnown(p, handling[<<r, p.copy>>])
  BY StateKnown
<1>2. PICK q \in RequestState :
        q = [p EXCEPT !.pc = "answered", !.status = status, !.error = error]
  BY DEF RequestState, Stage
<1>3. /\ q.pc = "answered" /\ q.status = status /\ q.error = error
      /\ q.input = p.input /\ q.copy = p.copy /\ q.user = p.user
  BY <1>2 DEF RequestState
<1>4. Move(r, q)
  BY <1>1, <1>2 DEF Answer
<1>5. Told(q.error, q.status, q.copy, handling[<<r, q.copy>>])
  BY <1>1, <1>3
<1>6. RequestKnown(q, handling[<<r, q.copy>>])
  BY <1>1, <1>3, <1>5 DEF RequestKnown
<1> QED BY <1>1, <1>3, <1>4, <1>6, MoveKeeps

\* An early error: nothing was sent.
LEMMA EarlyAnswerKeeps ==
  ASSUME GInv, NEW r \in Request, request[r] # None,
         request[r].pc \in {"resolve", "authorize", "forward"},
         NEW status \in Nat \ {200}, NEW error \in Early, Answer(r, status, error)
  PROVE  GInv'
<1>1. PICK p \in RequestState : p = request[r] /\ RequestKnown(p, handling[<<r, p.copy>>])
  BY StateKnown
<1>2. p.copy = 0
  BY <1>1 DEF RequestKnown
<1>3. Told(error, status, request[r].copy, handling[<<r, request[r].copy>>])
  <2>1. Told(error, status, 0, handling[<<r, 0>>])
    BY ToldEarly
  <2>2. request[r].copy = 0
    BY <1>1, <1>2
  <2> QED BY <2>1, <2>2, Zenon
<1>4. error \in GatewayError
  BY DEF Early, GatewayError
<1> QED BY <1>3, <1>4, AnswerKeeps

LEMMA GatewayInv ==
  ASSUME GInv, NEW r \in Request, NEW i \in InputsOf[r], Gateway(r, i)
  PROVE  GInv'
<1>1. i \in Input
  BY DEF Input
<1>2. 0 \in 0 .. MaxCopies /\ 0 \in Nat
  BY GatewayAssumption
<1>3. PICK q \in RequestState : q = [pc |-> "resolve", input |-> i, user |-> None, copy |-> 0,
                                     status |-> 0, error |-> "none"]
  BY <1>1, <1>2 DEF RequestState, Stage, GatewayError
<1>4. q.pc = "resolve" /\ q.user = None /\ q.copy = 0 /\ q.error = "none"
  BY <1>3
<1>5. RequestKnown(q, handling[<<r, q.copy>>])
  BY <1>4 DEF RequestKnown
<1>6. Move(r, q) /\ request[r] = None
  BY <1>3 DEF Gateway
<1> QED BY <1>5, <1>6, RequestMoves DEF Move

LEMMA ResolveRouteInv ==
  ASSUME GInv, NEW r \in Request, ResolveRoute(r)
  PROVE  GInv'
<1>1. PICK p \in RequestState : /\ p = request[r] /\ request[r] # None /\ p.pc = "resolve"
                                  /\ RequestKnown(p, handling[<<r, p.copy>>])
  BY StateKnown DEF ResolveRoute, In
<1>2. CASE Move(r, [request[r] EXCEPT !.pc = "authorize"])
  <2>1. PICK q \in RequestState : q = [p EXCEPT !.pc = "authorize"]
    BY DEF RequestState, Stage
  <2>2. /\ q.pc = "authorize" /\ q.status = p.status /\ q.error = p.error
        /\ q.input = p.input /\ q.copy = p.copy /\ q.user = p.user
    BY <2>1 DEF RequestState
  <2>3. RequestKnown(q, handling[<<r, q.copy>>])
    BY <1>1, <2>2 DEF RequestKnown
  <2> QED BY <1>1, <1>2, <2>1, <2>2, <2>3, MoveKeeps
<1>3. CASE Answer(r, 404, "route_not_found")
  BY <1>1, <1>3, EarlyAnswerKeeps DEF Early
<1>4. CASE Answer(r, 503, "plugin_unavailable")
  BY <1>1, <1>4, EarlyAnswerKeeps DEF Early
<1>5. CASE Answer(r, 500, "resolve")
  BY <1>1, <1>5, EarlyAnswerKeeps DEF Early
<1> QED BY <1>2, <1>3, <1>4, <1>5 DEF ResolveRoute

\* Whom authorizeGateway lets pass has the roles that the policy asks for: the first role
\* that decides is a permitted one.
LEMMA DecisionEntitles ==
  ASSUME NEW i \in Input, i.token \in User, NEW failing,
         Decision(i.policy, RolesOf[i.token], failing) = "yes"
  PROVE  Entitled(i)
<1> DEFINE roles == RolesOf[i.token]
           decided == {k \in DOMAIN roles : roles[k] \in Permitted \cup {failing}}
<1>1. CASE i.policy = "admin"
  BY <1>1 DEF Decision, Entitled
<1>2. CASE i.policy = "rbac"
  <2>1. Allow(roles, failing) = "yes"
    BY <1>2 DEF Decision
  <2>2. decided # {} /\ roles[Min(decided)] # failing
    BY <2>1 DEF Allow
  <2>3. decided \in SUBSET Nat
    BY GatewayAssumption
  <2>4. Min(decided) \in decided
    BY <2>2, <2>3, LeastOf
  <2>5. PICK k \in DOMAIN roles : roles[k] \in Permitted
    BY <2>2, <2>4
  <2> QED BY <1>2, <2>5 DEF Entitled
<1>3. CASE i.policy \notin {"admin", "rbac"}
  BY <1>3 DEF Entitled
<1> QED BY <1>1, <1>2, <1>3

LEMMA AuthorizeGatewayInv ==
  ASSUME GInv, NEW r \in Request, AuthorizeGateway(r)
  PROVE  GInv'
<1>1. PICK p \in RequestState : /\ p = request[r] /\ request[r] # None /\ p.pc = "authorize"
                                  /\ RequestKnown(p, handling[<<r, p.copy>>])
  BY StateKnown DEF AuthorizeGateway, In
<1>2. p.input \in Input
  BY DEF RequestState
<1>3. p.copy = 0 /\ p.error = "none"
  BY <1>1 DEF RequestKnown
<1>4. ASSUME NEW u \in User \cup {None}, u # None => u = p.input.token /\ Entitled(p.input),
             Authorized(r, u)
      PROVE  GInv'
  <2>1. PICK q \in RequestState : q = [p EXCEPT !.pc = "forward", !.user = u]
    BY DEF RequestState, Stage
  <2>2. /\ q.pc = "forward" /\ q.status = p.status /\ q.error = p.error
        /\ q.input = p.input /\ q.copy = p.copy /\ q.user = u
    BY <2>1 DEF RequestState
  <2>3. RequestKnown(q, handling[<<r, q.copy>>])
    BY <1>3, <1>4, <2>2 DEF RequestKnown
  <2>4. Move(r, q)
    BY <1>1, <1>4, <2>1 DEF Authorized
  <2>5. q.input = request[r].input /\ q.copy = request[r].copy /\ request[r].copy = 0
    BY <1>1, <1>3, <2>2
  <2> QED BY <1>1, <2>3, <2>4, <2>5, MoveKeeps
<1>5. ASSUME NEW status \in {401, 403, 500}, Answer(r, status, "auth")
      PROVE  GInv'
  BY <1>1, <1>5, EarlyAnswerKeeps DEF Early
<1>6. ASSUME p.input.token # None,
             NEW failing \in {None} \cup {RolesOf[p.input.token][k] :
                                            k \in DOMAIN RolesOf[p.input.token]},
             Decision(p.input.policy, RolesOf[p.input.token], failing) = "yes",
             Authorized(r, p.input.token)
      PROVE  GInv'
  <2>1. p.input.token \in User
    BY <1>2, <1>6, GatewayAssumption
  <2>2. Entitled(p.input)
    BY <1>2, <1>6, <2>1, DecisionEntitles
  <2> QED BY <1>4, <1>6, <2>1, <2>2
<1>7. CASE p.input.policy = "public"
  BY <1>1, <1>4, <1>5, <1>7 DEF AuthorizeGateway
<1>8. CASE p.input.policy # "public"
  BY <1>1, <1>5, <1>6, <1>8 DEF AuthorizeGateway
<1> QED BY <1>7, <1>8

LEMMA ForwardInv ==
  ASSUME GInv, NEW r \in Request, Forward(r)
  PROVE  GInv'
<1>1. PICK p \in RequestState : /\ p = request[r] /\ request[r] # None /\ p.pc = "forward"
                                  /\ RequestKnown(p, handling[<<r, p.copy>>])
  BY StateKnown DEF Forward, In
<1>2. CASE \E status \in {400, 413, 502} : Answer(r, status, "upstream_request")
  BY <1>1, <1>2, EarlyAnswerKeeps DEF Early
<1>3. CASE /\ Go(r, [request[r] EXCEPT !.pc = "wait", !.copy = 1])
           /\ sent' = sent \cup {<<r, 1>>}
           /\ UNCHANGED <<blogVars, nonces, forgotten>>
  <2>1. 1 \in 1 .. MaxCopies /\ 1 \in 0 .. MaxCopies
    BY GatewayAssumption
  <2>2. PICK q \in RequestState : q = [p EXCEPT !.pc = "wait", !.copy = 1]
    BY <2>1 DEF RequestState, Stage
  <2>3. /\ q.pc = "wait" /\ q.status = p.status /\ q.error = p.error
        /\ q.input = p.input /\ q.copy = 1 /\ q.user = p.user
    BY <2>2 DEF RequestState
  <2>4. p.copy = 0
    BY <1>1 DEF RequestKnown
  <2>5. q.copy > 0
    BY <2>3
  <2>6. RequestKnown(q, handling[<<r, q.copy>>])
    BY <1>1, <2>3, <2>5 DEF RequestKnown
  <2>7. Go(r, q)
    BY <1>1, <1>3, <2>2
  <2> QED BY <1>1, <1>3, <2>3, <2>4, <2>6, <2>1, <2>7, RequestMoves
<1> QED BY <1>2, <1>3 DEF Forward

LEMMA ConnectionBrokenInv ==
  ASSUME GInv, NEW r \in Request, ConnectionBroken(r)
  PROVE  GInv'
<1>1. PICK p \in RequestState : /\ p = request[r] /\ request[r] # None /\ p.pc = "wait"
                                  /\ RequestKnown(p, handling[<<r, p.copy>>])
  BY StateKnown DEF ConnectionBroken, In
<1>2. CASE Answer(r, 502, "upstream_connect")
  <2>1. "upstream_connect" \in GatewayError
    BY DEF GatewayError
  <2>2. Told("upstream_connect", 502, request[r].copy, handling[<<r, request[r].copy>>])
    BY ToldWhat
  <2> QED BY <1>1, <1>2, <2>1, <2>2, AnswerKeeps
<1>3. CASE /\ p.copy < MaxCopies
           /\ Go(r, [request[r] EXCEPT !.copy = @ + 1])
           /\ sent' = sent \cup {<<r, request[r].copy + 1>>}
           /\ UNCHANGED <<blogVars, nonces, forgotten>>
  <2>1. p.copy \in Nat /\ MaxCopies \in Nat
    BY GatewayAssumption DEF RequestState
  <2>2. PICK c \in 1 .. MaxCopies : c = p.copy + 1 /\ p.copy < c
    <3>1. p.copy + 1 \in 1 .. MaxCopies /\ p.copy < p.copy + 1
      BY <1>3, <2>1
    <3> QED BY <3>1
  <2>3. PICK q \in RequestState : q = [p EXCEPT !.copy = c]
    <3>1. c \in 0 .. MaxCopies
      BY <2>1, <2>2
    <3> QED BY <3>1 DEF RequestState
  <2>4. /\ q.pc = "wait" /\ q.status = p.status /\ q.error = p.error
        /\ q.input = p.input /\ q.copy = c /\ q.user = p.user
    BY <1>1, <2>3 DEF RequestState
  <2>5. q.copy > 0
    BY <2>2, <2>4
  <2>6. RequestKnown(q, handling[<<r, q.copy>>])
    BY <1>1, <2>4, <2>5 DEF RequestKnown
  <2>7. Go(r, q)
    BY <1>1, <1>3, <2>2, <2>3
  <2>8. request[r].copy <= q.copy /\ sent' = sent \cup {<<r, q.copy>>}
    BY <1>1, <1>3, <2>1, <2>2, <2>4
  <2> QED BY <1>1, <1>3, <2>2, <2>4, <2>6, <2>7, <2>8, RequestMoves
<1> QED BY <1>1, <1>2, <1>3 DEF ConnectionBroken

LEMMA RespondInv ==
  ASSUME GInv, NEW r \in Request, Respond(r)
  PROVE  GInv'
<1>1. PICK p \in RequestState : /\ p = request[r] /\ request[r] # None /\ p.pc = "wait"
                                  /\ RequestKnown(p, handling[<<r, p.copy>>])
  BY StateKnown DEF Respond, In
<1>2. p.copy > 0 /\ p.error = "none"
  BY <1>1 DEF RequestKnown
<1>3. <<r, p.copy>> \in Delivery
  <2>1. PICK c \in 0 .. MaxCopies : c = p.copy
    BY DEF RequestState
  <2>2. c > 0
    BY <1>2, <2>1
  <2>3. c \in 1 .. MaxCopies
    BY <2>2, GatewayAssumption
  <2> QED BY <2>1, <2>3, GatewayAssumption
<1>4. PICK h \in Handler : h = handling[<<r, p.copy>>] /\ h # None /\ h.pc = "answered"
  BY <1>1, <1>3 DEF GInv, GatewayType, BlogType, Respond, Current, InHandler
<1>5. PICK q \in RequestState : q = [p EXCEPT !.pc = "copy", !.status = h.status]
  BY DEF RequestState, Stage, Handler
<1>6. /\ q.pc = "copy" /\ q.status = h.status /\ q.error = p.error
      /\ q.input = p.input /\ q.copy = p.copy /\ q.user = p.user
  BY <1>5 DEF RequestState
<1>7. Told(q.error, q.status, q.copy, handling[<<r, q.copy>>])
  <2>1. Told("none", h.status, p.copy, h)
    BY <1>2, <1>4, ToldAnswer
  <2>2. q.error = "none" /\ q.status = h.status /\ q.copy = p.copy
    BY <1>2, <1>6, Zenon
  <2>3. handling[<<r, q.copy>>] = h
    BY <1>4, <2>2
  <2> QED BY <2>1, <2>2, <2>3, ZenonT(60)
<1>8. RequestKnown(q, handling[<<r, q.copy>>])
  BY <1>1, <1>2, <1>6, <1>7 DEF RequestKnown
<1>9. Move(r, q)
  BY <1>1, <1>4, <1>5 DEF Respond, Current
<1> QED BY <1>1, <1>6, <1>8, <1>9, MoveKeeps

LEMMA CopyInv ==
  ASSUME GInv, NEW r \in Request, Copy(r)
  PROVE  GInv'
<1>1. PICK p \in RequestState : /\ p = request[r] /\ request[r] # None /\ p.pc = "copy"
                                  /\ RequestKnown(p, handling[<<r, p.copy>>])
  BY StateKnown DEF Copy, In
<1>2. p.status \in Nat /\ "none" \in GatewayError
  BY DEF RequestState, GatewayError
<1>3. p.error = "none" /\ Told(p.error, p.status, p.copy, handling[<<r, p.copy>>])
  BY <1>1 DEF RequestKnown
<1> QED BY <1>1, <1>2, <1>3, AnswerKeeps DEF Copy

LEMMA TimeoutInv ==
  ASSUME GInv, NEW r \in Request, Timeout(r)
  PROVE  GInv'
<1>1. CASE Copy(r)
  BY <1>1, CopyInv
<1>2. CASE In(r, "wait") /\ Answer(r, 504, "upstream_timeout")
  <2>1. request[r] # None
    BY <1>2 DEF In
  <2>2. "upstream_timeout" \in GatewayError
    BY DEF GatewayError
  <2>3. Told("upstream_timeout", 504, request[r].copy, handling[<<r, request[r].copy>>])
    BY ToldWhat
  <2> QED BY <1>2, <2>1, <2>2, <2>3, AnswerKeeps
<1> QED BY <1>1, <1>2 DEF Timeout

LEMMA RecordGatewayFailureInv ==
  ASSUME GInv, NEW r \in Request, RecordGatewayFailure(r)
  PROVE  GInv'
<1>1. PICK p \in RequestState : /\ p = request[r] /\ request[r] # None /\ p.pc = "answered"
                                  /\ RequestKnown(p, handling[<<r, p.copy>>])
  BY StateKnown DEF RecordGatewayFailure, In
<1>2. PICK q \in RequestState : q = [p EXCEPT !.pc = "done"]
  BY DEF RequestState, Stage
<1>3. /\ q.pc = "done" /\ q.status = p.status /\ q.error = p.error
      /\ q.input = p.input /\ q.copy = p.copy /\ q.user = p.user
  BY <1>2 DEF RequestState
<1>4. RequestKnown(q, handling[<<r, q.copy>>])
  BY <1>1, <1>3 DEF RequestKnown
<1>5. Move(r, q)
  BY <1>1, <1>2 DEF RecordGatewayFailure
<1> QED BY <1>1, <1>3, <1>4, <1>5, MoveKeeps

-----------------------------------------------------------------------------
(* The steps of the plugin. *)

\* Where a handler starts it has not succeeded, and a creation has its user.
LEMMA HandleStarts ==
  ASSUME NEW ask \in Ask, NEW user
  PROVE  /\ Handle(ask, user) \in Handler
         /\ Handle(ask, user).pc \notin {"find"}
         /\ Handle(ask, user).status # 200
         /\ Handle(ask, user).pc # "answered" => Handle(ask, user).status = 0
         /\ Handle(ask, user).pc = "create" => user # None
<1>1. ask.op \in {"create", "get", "list"}
  BY DEF Ask
<1>2. CASE ask.op = "create"
  <2>1. CASE user = None
    BY <1>2, <2>1, HandlerTypes DEF Handle
  <2>2. CASE user # None
    BY <1>2, <2>2, HandlerTypes DEF Handle
  <2> QED BY <2>1, <2>2
<1>3. CASE ask.op = "get"
  BY <1>3, HandlerTypes DEF Handle
<1>4. CASE ask.op = "list"
  BY <1>4, HandlerTypes DEF Handle
<1> QED BY <1>1, <1>2, <1>3, <1>4

\* What is known of a delivery that is on its way or in its handler.
LEMMA DeliveryKnown ==
  ASSUME GInv, NEW d \in Delivery, d \in sent \/ handling[d] # None
  PROVE  /\ d[1] \in Request /\ request[d[1]] # None /\ d[2] <= request[d[1]].copy
         /\ request[d[1]].input.ask \in Ask
         /\ request[d[1]].user \in User \cup {None}
         /\ d \in sent => handling[d] = None
         /\ handling[d] # None => handling[d] \in Handler /\ HandlerKnown(d, handling[d])
<1>1. d[1] \in Request /\ request[d[1]] # None
  BY DeliveryType DEF GInv, DeliveriesKnown
<1>2. request[d[1]] \in RequestState /\ request[d[1]].input.ask \in Ask
  BY <1>1, InputType DEF GInv
<1>3. request[d[1]].user \in User \cup {None}
  BY <1>2 DEF RequestState
<1>4. handling[d] # None => handling[d] \in Handler
  BY DEF GInv, GatewayType, BlogType
<1> QED BY <1>1, <1>2, <1>3, <1>4 DEF GInv, DeliveriesKnown

LEMMA GatewaySignatureInv ==
  ASSUME GInv, NEW d \in Delivery, GatewaySignature(d)
  PROVE  GInv'
<1> DEFINE r == d[1]
           u == UserHeader(r)
<1>1. /\ r \in Request /\ request[r] # None /\ d[2] <= request[r].copy
      /\ request[r].input.ask \in Ask
      /\ handling[d] = None
  BY DeliveryKnown DEF GatewaySignature
<1>2. /\ sent' \subseteq sent /\ d \notin sent'
      /\ articles' = articles /\ request' = request /\ forgotten' = forgotten
  BY DEF GatewaySignature
<1>3. ~InHandler(d, "answered")
  BY <1>1 DEF InHandler
<1>4. nonces \subseteq Request
  BY DEF GInv, GatewayType
<1>5. CASE r \in nonces
  <2>1. PICK h \in Handler : h = Answered(401) /\ h.pc = "answered" /\ h.status = 401
    BY HandlerTypes
  <2>2. Become(d, h) /\ nonces' = nonces
    BY <1>5, <2>1 DEF GatewaySignature, NonceUsed
  <2>3. HandlerKnown(d, h)'
    BY <1>5, <2>1, <2>2 DEF HandlerKnown
  <2> QED BY <1>1, <1>2, <1>3, <1>4, <2>1, <2>2, <2>3, PluginMoves
<1>6. CASE r \notin nonces
  <2>1. PICK h \in Handler :
          /\ h = Handle(request[r].input.ask, u)
          /\ h.pc # "find" /\ h.status # 200
          /\ h.pc # "answered" => h.status = 0
          /\ h.pc = "create" => u # None
    BY <1>1, HandleStarts
  <2>2. Become(d, h) /\ nonces' = nonces \cup {r}
    BY <1>6, <2>1 DEF GatewaySignature, NonceUsed
  <2>3. HandlerKnown(d, h)'
    BY <1>2, <2>1, <2>2 DEF HandlerKnown, UserHeader
  <2>4. nonces \subseteq nonces' /\ nonces' \subseteq Request
    BY <1>1, <1>4, <2>2
  <2> QED BY <1>1, <1>2, <1>3, <1>6, <2>2, <2>3, <2>4, PluginMoves
<1> QED BY <1>5, <1>6

\* A handler that goes on.
LEMMA StepKeeps ==
  ASSUME GInv, NEW d \in Delivery, handling[d] # None, handling[d].pc # "answered",
         NEW h \in Handler, Become(d, h), UNCHANGED gatewayVars, HandlerKnown(d, h)',
         articles' = articles \/
           (\E s \in Slug, a \in Article :
              /\ articles[s] = None
              /\ articles' = [articles EXCEPT ![s] = a]
              /\ a.from = d /\ a.author = request[d[1]].user
              /\ h.pc = "answered" /\ h.status \in {200, 500})
  PROVE  GInv'
<1>1. /\ request[d[1]] # None /\ d[2] <= request[d[1]].copy
      /\ d \notin sent
      /\ handling[d] \in Handler /\ HandlerKnown(d, handling[d])
  BY DeliveryKnown
<1>2. request' = request /\ sent' = sent /\ nonces' = nonces /\ forgotten' = forgotten
  BY DEF gatewayVars
<1>3. Accepted(d)
  BY <1>1 DEF Accepted, HandlerKnown
<1>4. nonces \subseteq Request
  BY DEF GInv, GatewayType
<1> QED BY <1>1, <1>2, <1>3, <1>4, PluginMoves DEF InHandler

\* A handler that ends without success.
LEMMA FailureKeeps ==
  ASSUME GInv, NEW d \in Delivery, handling[d] # None, handling[d].pc # "answered",
         NEW c \in Nat, c # 200, Become(d, Answered(c)), UNCHANGED <<gatewayVars>>,
         articles' = articles \/
           (/\ c = 500
            /\ \E s \in Slug, a \in Article :
                 /\ articles[s] = None
                 /\ articles' = [articles EXCEPT ![s] = a]
                 /\ a.from = d /\ a.author = request[d[1]].user)
  PROVE  GInv'
<1>1. PICK h \in Handler : h = Answered(c) /\ h.pc = "answered" /\ h.status = c
  BY HandlerTypes
<1>2. d[1] \in nonces \cup forgotten
  BY DeliveryKnown DEF HandlerKnown
<1>3. HandlerKnown(d, h)'
  BY <1>1, <1>2 DEF HandlerKnown, gatewayVars
<1> QED BY <1>1, <1>3, StepKeeps

\* The article of a creation: its author is the user of the request.
LEMMA ArticleWritten ==
  ASSUME GInv, NEW d \in Delivery, InHandler(d, "create"),
         request[d[1]].input.ask.op = "create"
  PROVE  LET ask == request[d[1]].input.ask
             u == UserHeader(d[1])
         IN  /\ ask.slug \in Slug
             /\ \E a \in Article : /\ Written(d, ask, u) = [articles EXCEPT ![ask.slug] = a]
                                   /\ a.from = d /\ a.author = request[d[1]].user
<1>1. /\ request[d[1]].input.ask \in Ask
      /\ request[d[1]].user \in User
  BY DeliveryKnown DEF InHandler, HandlerKnown
<1>2. PICK ask : ask = request[d[1]].input.ask
  OBVIOUS
<1>3. ask.slug \in Slug /\ ask.publish \in BOOLEAN
  BY <1>1, <1>2 DEF Ask
<1>4. PICK u \in User : u = request[d[1]].user
  BY <1>1
<1>5. [author |-> u, from |-> d, published |-> ask.publish] \in Article
  BY <1>3 DEF Article
<1>6. PICK a \in Article : a = [author |-> u, from |-> d, published |-> ask.publish]
  BY <1>5
<1>7. a.from = d /\ a.author = u
  BY <1>6
<1>8. Written(d, ask, u) = [articles EXCEPT ![ask.slug] = a]
  BY <1>6 DEF Written
<1> QED BY <1>2, <1>3, <1>4, <1>7, <1>8 DEF UserHeader

LEMMA CreateInv ==
  ASSUME GInv, NEW d \in Delivery, UNCHANGED gatewayVars,
         request[d[1]].input.ask.op = "create",
         Create(d, request[d[1]].input.ask, UserHeader(d[1]))
  PROVE  GInv'
<1>1. handling[d] # None /\ handling[d].pc = "create" /\ InHandler(d, "create")
  BY DEF Create, InHandler
<1>2. PICK ask : ask = request[d[1]].input.ask
  OBVIOUS
<1>3. CASE articles[ask.slug] = None
  <2>1. articles' = Written(d, ask, UserHeader(d[1])) /\ Become(d, Answered(200))
    BY <1>2, <1>3 DEF Create
  <2>2. PICK a \in Article : /\ articles' = [articles EXCEPT ![ask.slug] = a]
                             /\ a.from = d /\ a.author = request[d[1]].user
                             /\ ask.slug \in Slug
    BY <1>1, <1>2, <2>1, ArticleWritten
  <2>3. PICK h \in Handler : h = Answered(200) /\ h.pc = "answered" /\ h.status = 200
    BY HandlerTypes
  <2>4. d[1] \in nonces \cup forgotten
    BY <1>1, DeliveryKnown DEF HandlerKnown
  <2>5. articles'[ask.slug] = a /\ a # None
    BY <2>2, NoArticleAssumption DEF GInv, GatewayType, BlogType
  <2>6. request' = request /\ nonces' = nonces /\ forgotten' = forgotten
    BY DEF gatewayVars
  <2>7. HandlerKnown(d, h)'
    BY <1>2, <2>2, <2>3, <2>4, <2>5, <2>6 DEF HandlerKnown
  <2>8. Become(d, h) /\ handling[d].pc # "answered"
    BY <1>1, <2>1, <2>3
  <2>9. \E s \in Slug, b \in Article :
           /\ articles[s] = None
           /\ articles' = [articles EXCEPT ![s] = b]
           /\ b.from = d /\ b.author = request[d[1]].user
           /\ h.pc = "answered" /\ h.status \in {200, 500}
    BY <1>2, <1>3, <2>2, <2>3
  <2> QED BY <1>1, <2>7, <2>8, <2>9, StepKeeps
<1>4. CASE articles[ask.slug] # None
  <2>1. articles' = articles /\ Become(d, Answered(409))
    BY <1>2, <1>4 DEF Create
  <2> QED BY <1>1, <2>1, FailureKeeps
<1> QED BY <1>3, <1>4

LEMMA CreateFailsInv ==
  ASSUME GInv, NEW d \in Delivery, UNCHANGED gatewayVars,
         request[d[1]].input.ask.op = "create",
         CreateFails(d, request[d[1]].input.ask, UserHeader(d[1]))
  PROVE  GInv'
<1>1. handling[d] # None /\ handling[d].pc = "create" /\ InHandler(d, "create")
  BY DEF CreateFails, InHandler
<1>2. Become(d, Answered(500))
  BY DEF CreateFails
<1>3. CASE articles' = articles
  BY <1>1, <1>2, <1>3, FailureKeeps
<1>4. CASE articles' # articles
  <2>1. PICK ask : ask = request[d[1]].input.ask
    OBVIOUS
  <2>2. articles[ask.slug] = None /\ articles' = Written(d, ask, UserHeader(d[1]))
    BY <1>4, <2>1 DEF CreateFails
  <2>3. PICK a \in Article : /\ articles' = [articles EXCEPT ![ask.slug] = a]
                             /\ a.from = d /\ a.author = request[d[1]].user
                             /\ ask.slug \in Slug
    BY <1>1, <2>1, <2>2, ArticleWritten
  <2>4. \E s \in Slug, b \in Article :
          /\ articles[s] = None
          /\ articles' = [articles EXCEPT ![s] = b]
          /\ b.from = d /\ b.author = request[d[1]].user
    BY <2>2, <2>3
  <2>5. PICK c \in Nat : c = 500 /\ c # 200
    OBVIOUS
  <2>6. Become(d, Answered(c)) /\ c # 200
    BY <1>2, <2>5
  <2>7. articles' = articles \/
          (/\ c = 500
           /\ \E s \in Slug, b \in Article :
                /\ articles[s] = None
                /\ articles' = [articles EXCEPT ![s] = b]
                /\ b.from = d /\ b.author = request[d[1]].user)
    BY <2>4, <2>5
  <2> QED BY <1>1, <2>6, <2>7, FailureKeeps
<1> QED BY <1>3, <1>4

LEMMA FindPublishedByIDInv ==
  ASSUME GInv, NEW d \in Delivery, UNCHANGED gatewayVars,
         request[d[1]].input.ask.op = "get",
         FindPublishedByID(d, request[d[1]].input.ask)
  PROVE  GInv'
<1>1. handling[d] # None /\ handling[d].pc = "get" /\ articles' = articles
  BY DEF FindPublishedByID, InHandler
<1>2. PICK c \in {200, 404} : Become(d, Answered(c))
  BY DEF FindPublishedByID
<1>3. PICK h \in Handler : h = Answered(c) /\ h.pc = "answered" /\ h.status = c
  BY HandlerTypes
<1>4. d[1] \in nonces \cup forgotten
  BY <1>1, DeliveryKnown DEF HandlerKnown
<1>5. HandlerKnown(d, h)'
  BY <1>3, <1>4 DEF HandlerKnown, gatewayVars
<1> QED BY <1>1, <1>2, <1>3, <1>5, StepKeeps

LEMMA CountInv ==
  ASSUME GInv, NEW d \in Delivery, UNCHANGED gatewayVars, Count(d)
  PROVE  GInv'
<1>1. /\ handling[d] # None /\ handling[d].pc = "count" /\ articles' = articles
      /\ Published' = Published
  BY DEF Count, InHandler, Published
<1>2. PICK g \in Handler : g = handling[d] /\ HandlerKnown(d, g)
  BY <1>1, DeliveryKnown
<1>3. PICK n \in Nat : n = Cardinality(Published) /\ n <= n
  BY FS_CardinalityType DEF GInv
<1>4. PICK h \in Handler : h = [g EXCEPT !.pc = "find", !.total = n]
  BY DEF Handler
<1>5. h.pc = "find" /\ h.total = n /\ h.status = g.status
  BY <1>4 DEF Handler
<1>6. g.status = 0 /\ d[1] \in nonces \cup forgotten
  BY <1>1, <1>2 DEF HandlerKnown
<1>7. HandlerKnown(d, h)'
  BY <1>1, <1>3, <1>5, <1>6 DEF HandlerKnown, gatewayVars
<1>8. Become(d, h)
  BY <1>2, <1>3, <1>4 DEF Count
<1> QED BY <1>1, <1>7, <1>8, StepKeeps

LEMMA FindInv ==
  ASSUME GInv, NEW d \in Delivery, UNCHANGED gatewayVars,
         request[d[1]].input.ask.op = "list",
         Find(d, request[d[1]].input.ask)
  PROVE  GInv'
<1>1. handling[d] # None /\ handling[d].pc = "find" /\ articles' = articles
  BY DEF Find, InHandler
<1>2. PICK g \in Handler : g = handling[d] /\ HandlerKnown(d, g)
  BY <1>1, DeliveryKnown
<1>3. PICK n \in Nat : n = Cardinality(Published)
  BY FS_CardinalityType DEF GInv
<1>4. PICK t \in Nat : t = g.total /\ t <= n
  BY <1>1, <1>2, <1>3 DEF HandlerKnown, Handler
<1>5. PICK ask \in Ask : ask = request[d[1]].input.ask /\ ask.op = "list"
  BY <1>1, DeliveryKnown
<1>6. PICK i \in Nat : i = OnPage(ask, n) /\ OnPage(ask, t) <= i
  <2>1. OnPage(ask, n) \in Nat
    BY <1>5, OnPageGrows
  <2>2. OnPage(ask, t) <= OnPage(ask, n)
    BY <1>4, <1>5, OnPageGrows
  <2> QED BY <2>1, <2>2
<1>7. PICK h \in Handler : h = [g EXCEPT !.pc = "answered", !.status = 200, !.items = i]
  BY ZenonT(90) DEF Handler
<1>8. h.pc = "answered" /\ h.items = i /\ h.status = 200 /\ h.total = t
  BY <1>4, <1>7 DEF Handler
<1>9. d[1] \in nonces \cup forgotten
  BY <1>1, <1>2 DEF HandlerKnown
<1>10. h.items >= OnPage(ask, h.total)
  <2>1. OnPage(ask, t) \in Nat
    BY <1>5, OnPageGrows
  <2> QED BY <1>6, <1>8, <2>1
<1>11. HandlerKnown(d, h)'
  <2>1. request' = request /\ nonces' = nonces /\ forgotten' = forgotten
    BY DEF gatewayVars
  <2> QED BY <1>5, <1>8, <1>9, <1>10, <2>1 DEF HandlerKnown
<1>12. Become(d, h)
  BY <1>2, <1>3, <1>5, <1>6, <1>7 DEF Find
<1> QED BY <1>1, <1>11, <1>12, StepKeeps

LEMMA PluginStepInv ==
  ASSUME GInv, NEW d \in Delivery, PluginStep(d)
  PROVE  GInv'
<1>1. UNCHANGED gatewayVars /\ HandlerStep(d, request[d[1]].input.ask, UserHeader(d[1]))
  BY DEF PluginStep
<1>2. CASE QueryFails(d)
  BY <1>1, <1>2, FailureKeeps DEF QueryFails, InHandler
<1> QED BY <1>1, <1>2, CreateInv, CreateFailsInv, FindPublishedByIDInv, CountInv, FindInv
        DEF HandlerStep

LEMMA LoseInv ==
  ASSUME GInv, NEW d \in Delivery, Lose(d)
  PROVE  GInv'
<1>1. /\ articles' = articles /\ handling' = handling /\ request' = request
      /\ nonces' = nonces /\ forgotten' = forgotten /\ sent' \subseteq sent
  BY DEF Lose, blogVars
<1>2. Published' = Published
  BY <1>1 DEF Published
<1>3. GatewayType'
  BY <1>1 DEF GInv, GatewayType, BlogType
<1>4. \A r \in Request : request'[r] # None =>
        RequestKnown(request'[r], handling'[<<r, request'[r].copy>>])
  BY <1>1 DEF GInv, Current
<1>5. DeliveriesKnown'
  BY <1>1, <1>2 DEF GInv, DeliveriesKnown, HandlerKnown
<1>6. AcceptedOnce' /\ ArticlesKnown'
  BY <1>1 DEF GInv, AcceptedOnce, Accepted, ArticlesKnown, InHandler
<1> QED BY <1>2, <1>3, <1>4, <1>5, <1>6 DEF GInv, Current

\* The answers stay, and every nonce that was recorded is forgotten.
LEMMA PluginRestartInv ==
  ASSUME GInv, PluginRestart
  PROVE  GInv'
<1>1. /\ articles' = articles /\ request' = request /\ sent' = sent /\ nonces' = {}
      /\ forgotten' = forgotten \cup {r \in Request : request[r] # None}
  BY DEF PluginRestart
<1>2. \A d \in Delivery :
        handling'[d] = IF InHandler(d, "answered") THEN handling[d] ELSE None
  BY DEF PluginRestart, InHandler
<1>3. Published' = Published
  BY <1>1 DEF Published
<1>4. GatewayType'
  <2>1. handling' \in [Delivery -> Handler \cup {None}]
    BY DEF PluginRestart, GInv, GatewayType, BlogType
  <2> QED BY <1>1, <2>1 DEF GInv, GatewayType, BlogType
<1>5. ASSUME NEW x \in Request, request'[x] # None
      PROVE  RequestKnown(request'[x], handling'[<<x, request'[x].copy>>])
  <2>1. PICK p \in RequestState : /\ p = request[x]
                                  /\ RequestKnown(p, handling[<<x, p.copy>>])
    BY <1>1, <1>5, StateKnown
  <2>2. CASE /\ p.copy > 0 /\ handling[<<x, p.copy>>] # None
             /\ handling[<<x, p.copy>>].pc = "answered"
    <3>1. PICK c \in 0 .. MaxCopies : c = p.copy
      BY DEF RequestState
    <3>2. c > 0
      BY <2>2, <3>1
    <3>3. c \in 1 .. MaxCopies
      BY <3>2, GatewayAssumption
    <3>4. <<x, c>> \in Delivery
      BY <3>3, GatewayAssumption
    <3>5. handling'[<<x, c>>] = handling[<<x, c>>]
      BY <1>2, <2>2, <3>1, <3>4 DEF InHandler
    <3> QED BY <1>1, <2>1, <3>1, <3>5
  <2>3. CASE ~(/\ p.copy > 0 /\ handling[<<x, p.copy>>] # None
               /\ handling[<<x, p.copy>>].pc = "answered")
    <3>1. Told(p.error, p.status, p.copy, handling[<<x, p.copy>>])
            => Told(p.error, p.status, p.copy, handling'[<<x, p.copy>>])
      BY <2>3, ToldAnyway
    <3>2. RequestKnown(p, handling'[<<x, p.copy>>])
      BY <2>1, <3>1 DEF RequestKnown
    <3> QED BY <1>1, <2>1, <3>2
  <2> QED BY <2>2, <2>3
<1>6. DeliveriesKnown'
  <2> SUFFICES ASSUME NEW d \in Delivery
               PROVE  /\ d \in sent \/ handling'[d] # None =>
                           request[d[1]] # None /\ d[2] <= request[d[1]].copy
                      /\ d \in sent => handling'[d] = None
                      /\ handling'[d] # None => HandlerKnown(d, handling[d])'
    BY <1>1 DEF DeliveriesKnown
  <2>1. handling'[d] # None => handling'[d] = handling[d] /\ InHandler(d, "answered")
    BY <1>2
  <2>2. ASSUME handling'[d] # None PROVE HandlerKnown(d, handling[d])'
    <3>1. PICK h \in Handler : /\ h = handling[d] /\ h = handling'[d] /\ h.pc = "answered"
                               /\ HandlerKnown(d, h) /\ d[1] \in forgotten'
      BY <1>1, <2>1, <2>2, DeliveryKnown DEF InHandler
    <3> QED BY <1>1, <3>1 DEF HandlerKnown
  <2> QED BY <2>1, <2>2, DeliveryKnown
<1>7. AcceptedOnce'
  <2>1. \A d \in Delivery : Accepted(d)' => d[1] \in forgotten'
    BY <1>1, <1>2, DeliveryKnown DEF Accepted
  <2> QED BY <2>1 DEF AcceptedOnce
<1>8. ArticlesKnown'
  <2> SUFFICES ASSUME NEW s \in Slug, articles[s] # None, NEW d, d = articles[s].from
               PROVE  /\ InHandler(d, "answered")' /\ handling'[d].status \in {200, 500}
                      /\ request[d[1]] # None /\ articles[s].author = request[d[1]].user
    BY <1>1 DEF ArticlesKnown, InHandler
  <2>1. /\ InHandler(d, "answered") /\ handling[d].status \in {200, 500}
        /\ request[d[1]] # None /\ articles[s].author = request[d[1]].user
    BY DEF GInv, ArticlesKnown
  <2>2. d \in Delivery
    BY DEF GInv, GatewayType, BlogType, Article
  <2> QED BY <1>2, <2>1, <2>2 DEF InHandler
<1> QED BY <1>1, <1>3, <1>4, <1>5, <1>6, <1>7, <1>8 DEF GInv, Current

-----------------------------------------------------------------------------
(* The theorems. *)

LEMMA InitInv == Init => GInv
<1> SUFFICES ASSUME Init PROVE GInv
  OBVIOUS
<1>1. /\ articles = [s \in Slug |-> None] /\ handling = [d \in Delivery |-> None]
      /\ request = [r \in Request |-> None]
      /\ sent = {} /\ nonces = {} /\ forgotten = {}
  BY DEF Init, BlogInit
<1>2. Published = {}
  BY <1>1 DEF Published
<1>3. IsFiniteSet(Published)
  BY <1>2, FS_EmptySet
<1>4. GatewayType
  BY <1>1 DEF GatewayType, BlogType
<1>5. DeliveriesKnown
  BY <1>1 DEF DeliveriesKnown
<1>6. AcceptedOnce /\ ArticlesKnown
  BY <1>1 DEF AcceptedOnce, Accepted, ArticlesKnown
<1> QED BY <1>1, <1>3, <1>4, <1>5, <1>6 DEF GInv

LEMMA NextInv == GInv /\ [Next]_vars => GInv'
<1> SUFFICES ASSUME GInv, [Next]_vars PROVE GInv'
  OBVIOUS
<1>1. CASE UNCHANGED vars
  <2>1. /\ articles' = articles /\ handling' = handling /\ request' = request
        /\ sent' = sent /\ nonces' = nonces /\ forgotten' = forgotten
    BY <1>1 DEF vars, blogVars, gatewayVars
  <2>2. Published' = Published
    BY <2>1 DEF Published
  <2>3. GatewayType'
    BY <2>1 DEF GInv, GatewayType, BlogType
  <2>4. \A r \in Request : request'[r] # None =>
          RequestKnown(request'[r], handling'[<<r, request'[r].copy>>])
    BY <2>1 DEF GInv, Current
  <2>5. DeliveriesKnown'
    BY <2>1, <2>2 DEF GInv, DeliveriesKnown, HandlerKnown
  <2>6. AcceptedOnce' /\ ArticlesKnown'
    BY <2>1 DEF GInv, AcceptedOnce, Accepted, ArticlesKnown, InHandler
  <2> QED BY <2>2, <2>3, <2>4, <2>5, <2>6 DEF GInv, Current
<1>2. ASSUME NEW r \in Request, NEW i \in InputsOf[r], Gateway(r, i) PROVE GInv'
  BY <1>2, GatewayInv
<1>3. ASSUME NEW r \in Request, Proceed(r) PROVE GInv'
  BY <1>3, ResolveRouteInv, AuthorizeGatewayInv, ForwardInv, RespondInv,
     TimeoutInv, RecordGatewayFailureInv DEF Proceed
<1>4. ASSUME NEW r \in Request, ConnectionBroken(r) \/ Copy(r) PROVE GInv'
  BY <1>4, ConnectionBrokenInv, CopyInv
<1>5. ASSUME NEW d \in Delivery, GatewaySignature(d) \/ PluginStep(d) \/ Lose(d)
      PROVE  GInv'
  BY <1>5, GatewaySignatureInv, PluginStepInv, LoseInv
<1>6. CASE PluginRestart
  BY <1>6, PluginRestartInv
<1> QED BY <1>1, <1>2, <1>3, <1>4, <1>5, <1>6 DEF Next

\* The inductive invariant holds always.
THEOREM AlwaysGatewayInv == Spec => []GInv
BY InitInv, NextInv, PTL DEF Spec

\* The variables have their types.
THEOREM AlwaysGatewayType == Spec => []GatewayType
<1>1. GInv => GatewayType
  BY DEF GInv
<1> QED BY <1>1, AlwaysGatewayInv, PTL

\* The article's delivery was answered, and its author is the user of its request, whom
\* the policy let pass.
LEMMA ArticleOf ==
  ASSUME GInv, NEW r \in Request, NEW s \in CreatedBy(r)
  PROVE  \E d \in Delivery :
           /\ d = articles[s].from /\ d[1] = r
           /\ handling[d] # None /\ handling[d].pc = "answered"
           /\ handling[d].status \in {200, 500}
           /\ request[r] # None /\ articles[s].author = request[r].user
           /\ articles[s].author \in User
           /\ d[2] \in 1 .. MaxCopies /\ d[2] <= request[r].copy
<1>1. s \in Slug /\ articles[s] # None /\ articles[s].from[1] = r
  BY DEF CreatedBy
<1>2. articles[s].from \in Delivery /\ articles[s].author \in User
  BY <1>1 DEF GInv, GatewayType, BlogType, Article
<1>3. PICK d \in Delivery : d = articles[s].from
  BY <1>2
<1>4. /\ handling[d] # None /\ handling[d].pc = "answered"
      /\ handling[d].status \in {200, 500}
      /\ request[d[1]] # None /\ articles[s].author = request[d[1]].user
  BY <1>1, <1>3 DEF GInv, ArticlesKnown, InHandler
<1>5. d[2] \in 1 .. MaxCopies /\ d[2] <= request[d[1]].copy
  BY <1>4, DeliveryType, DeliveryKnown
<1> QED BY <1>1, <1>2, <1>3, <1>4, <1>5

\* The author of an article is the caller of the request that wrote it, and has the
\* roles of the route's policy.
THEOREM AlwaysAuthorIsCaller == Spec => []AuthorIsCaller
<1>1. ASSUME GInv PROVE AuthorIsCaller
  <2> SUFFICES ASSUME NEW r \in Request, NEW s \in CreatedBy(r)
               PROVE  /\ articles[s].author = request[r].input.token
                      /\ LET roles == {RolesOf[articles[s].author][k] :
                                         k \in DOMAIN RolesOf[articles[s].author]}
                         IN  /\ request[r].input.policy = "rbac" => roles \cap Permitted # {}
                             /\ request[r].input.policy = "admin" => "admin" \in roles
    BY DEF AuthorIsCaller
  <2>1. /\ request[r] # None /\ articles[s].author = request[r].user
        /\ articles[s].author \in User
    BY <1>1, ArticleOf
  <2>2. PICK p \in RequestState : /\ p = request[r]
                                  /\ RequestKnown(p, handling[<<r, p.copy>>])
    BY <1>1, <2>1, StateKnown
  <2>3. p.user # None
    BY <2>1, <2>2, BlogAssumption
  <2>4. p.user = p.input.token /\ Entitled(p.input)
    BY <2>2, <2>3 DEF RequestKnown
  <2> QED BY <2>1, <2>2, <2>4 DEF Entitled
<1> QED BY <1>1, AlwaysGatewayInv, PTL

\* The client is told the truth about its creation, however its copies overtake each
\* other, unless the plugin restarted under it.
THEOREM AlwaysAnswerTellsTruth == Spec => []AnswerTellsTruth
<1>1. ASSUME GInv PROVE AnswerTellsTruth
  <2> SUFFICES ASSUME NEW r \in Request, Creates(r),
                      request[r].pc \in {"copy", "answered", "done"}
               PROVE  /\ request[r].status = 200 => CreatedBy(r) # {}
                      /\ \/ request[r].status \in {400, 403, 404, 409, 413, 503}
                         \/ request[r].error \in {"auth", "resolve", "upstream_request"}
                         => CreatedBy(r) = {} \/ r \in forgotten
    BY DEF AnswerTellsTruth
  <2>1. PICK p \in RequestState : /\ p = request[r] /\ request[r] # None
                                  /\ RequestKnown(p, handling[<<r, p.copy>>])
    BY <1>1, StateKnown DEF Creates
  <2>2. Told(p.error, p.status, p.copy, handling[<<r, p.copy>>])
    BY <2>1 DEF RequestKnown
  <2>3. PICK c, e, n, h :
          /\ c \in 0 .. MaxCopies /\ e \in GatewayError /\ n \in Nat
          /\ c = p.copy /\ e = p.error /\ n = p.status /\ h = handling[<<r, c>>]
          /\ Told(e, n, c, h)
    <3>1. p.copy \in 0 .. MaxCopies /\ p.error \in GatewayError /\ p.status \in Nat
      BY DEF RequestState
    <3> QED BY <2>2, <3>1, Zenon
  <2>4. c > 0 => <<r, c>> \in Delivery
    <3>1. c > 0 => c \in 1 .. MaxCopies
      BY <2>3, GatewayAssumption
    <3> QED BY <3>1, GatewayAssumption
  <2>5. c \in Nat
    BY <2>3, GatewayAssumption
  <2>6. ASSUME \/ n = 200
               \/ c # 0 /\ n \in {400, 403, 404, 409, 413, 503}
               \/ c # 0 /\ e \in {"auth", "resolve", "upstream_request"}
        PROVE  e = "none" /\ c > 0 /\ h # None /\ h.pc = "answered" /\ h.status = n
    <3>1. Told(e, n, c, h)
      BY <2>3
    <3> QED BY <2>5, <2>6, <3>1, ToldByAnswer
  <2>7. ASSUME n = 200 PROVE CreatedBy(r) # {}
    <3>1. c > 0 /\ h # None /\ h.pc = "answered" /\ h.status = 200
      BY <2>7, <2>6
    <3>2. HandlerKnown(<<r, c>>, h)
      BY <1>1, <2>3, <2>4, <3>1, DeliveryKnown
    <3>3. PICK s \in Slug : articles[s] # None /\ articles[s].from = <<r, c>>
      BY <3>1, <3>2 DEF HandlerKnown, Creates
    <3> QED BY <3>3 DEF CreatedBy
  <2>8. ASSUME n \in {400, 403, 404, 409, 413, 503} \/ e \in {"auth", "resolve", "upstream_request"},
               NEW s \in CreatedBy(r), r \notin forgotten
        PROVE  FALSE
    <3>1. PICK d \in Delivery :
            /\ d[1] = r /\ handling[d] # None /\ handling[d].status \in {200, 500}
            /\ d[2] \in 1 .. MaxCopies /\ d[2] <= request[r].copy
      BY <1>1, ArticleOf
    <3>2. c # 0
      BY <2>1, <2>3, <3>1, GatewayAssumption
    <3>3. e = "none" /\ h # None /\ h.status = n
      BY <2>8, <2>6, <3>2
    <3>4. n \in {400, 403, 404, 409, 413, 503}
      BY <2>8, <3>3
    <3>5. h.status # 401 /\ handling[d].status # 401
      <4>1. n # 401
        BY <3>4
      <4>2. handling[d].status # 401
        BY <3>1
      <4> QED BY <3>3, <4>1, <4>2
    <3>6. Accepted(<<r, c>>) /\ Accepted(d)
      BY <2>3, <3>1, <3>3, <3>5 DEF Accepted
    <3>7. <<r, c>> \in Delivery
      BY <2>4, <2>5, <3>2
    <3>8. d = <<r, c>>
      BY <1>1, <2>8, <3>1, <3>6, <3>7 DEF GInv, AcceptedOnce
    <3>9. handling[d].status = n
      BY <2>3, <3>3, <3>8
    <3> QED BY <3>1, <3>4, <3>9
  <2> QED BY <2>1, <2>3, <2>7, <2>8
<1> QED BY <1>1, AlwaysGatewayInv, PTL

\* A page is as full as its total says, though it is counted before it is queried and
\* articles are created in between.
THEOREM AlwaysPageCoversTotal == Spec => []PageCoversTotal
<1>1. GInv => PageCoversTotal
  BY DEF GInv, DeliveriesKnown, HandlerKnown, PageCoversTotal, InHandler
<1> QED BY <1>1, AlwaysGatewayInv, PTL

=============================================================================
