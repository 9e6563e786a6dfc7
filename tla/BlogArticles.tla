------------------------------ MODULE BlogArticles ------------------------------
(***************************************************************************)
(* The articles of the blog plugin and the handlers that serve them.  A    *)
(* handler is called once for each delivery of a request that the plugin   *)
(* accepted, with the user that the gateway named in its header.           *)
(***************************************************************************)
EXTENDS Integers, FiniteSets, FiniteSetsExt

CONSTANTS Delivery,     \* deliveries of requests to the plugin
          User, Slug,
          DefaultSize,  \* page size when none is asked for
          MaxSize,      \* largest page size
          IntMax,       \* the largest int
          None

ASSUME BlogAssumption ==
  /\ DefaultSize \in Nat \ {0} /\ MaxSize \in Nat \ {0} /\ IntMax \in Nat \ {0}
  /\ None \notin User

VARIABLES articles,  \* articles[s]: the article whose slug is s, or None
          handling   \* handling[d]: the handler's state for delivery d, or None

blogVars == <<articles, handling>>

\* What a request asks for.  A list names a page and a size; id is FALSE when
\* the identifier is not a positive number.
Ask == [op : {"create"}, slug : Slug, valid : BOOLEAN, publish : BOOLEAN]
       \cup [op : {"get"}, slug : Slug, valid : BOOLEAN]
       \cup [op : {"list"}, page : Int, size : Int]

Article == [author : User, from : Delivery, published : BOOLEAN]

Handler == [pc : {"create", "count", "find", "get", "answered"}, status : Nat,
            total : Nat, items : Nat]

ASSUME NoArticleAssumption == None \notin Article /\ None \notin Handler

BlogType ==
  /\ articles \in [Slug -> Article \cup {None}]
  /\ handling \in [Delivery -> Handler \cup {None}]

BlogInit ==
  /\ articles = [s \in Slug |-> None]
  /\ handling = [d \in Delivery |-> None]

-----------------------------------------------------------------------------

At(pc) == [pc |-> pc, status |-> 0, total |-> 0, items |-> 0]

Answered(status) == [pc |-> "answered", status |-> status, total |-> 0, items |-> 0]

\* Where a handler starts: the author and the body are checked before anything else.
Handle(ask, user) ==
  CASE ask.op = "create" -> IF user = None THEN Answered(401)
                            ELSE IF ask.valid THEN At("create") ELSE Answered(400)
    [] ask.op = "get" -> IF ask.valid THEN At("get") ELSE Answered(400)
    [] ask.op = "list" -> At("count")

InHandler(d, pc) == handling[d] # None /\ handling[d].pc = pc

Become(d, state) == handling' = [handling EXCEPT ![d] = state]

\* Mutant: the author is left out.
WrittenUnattributed(d, ask, user) ==
  [articles EXCEPT ![ask.slug] = [author |-> None, from |-> d, published |-> ask.publish]]

Written(d, ask, user) ==
  [articles EXCEPT ![ask.slug] = [author |-> user, from |-> d, published |-> ask.publish]]

\* The transaction that inserts the article and its first revision.
Create(d, ask, user) ==
  /\ InHandler(d, "create")
  /\ \/ articles[ask.slug] = None /\ articles' = Written(d, ask, user) /\ Become(d, Answered(200))
     \/ articles[ask.slug] # None /\ Become(d, Answered(409)) /\ UNCHANGED articles

\* No identifier, or a transaction that fails or is reported as failed.
CreateFails(d, ask, user) ==
  /\ InHandler(d, "create")
  /\ \/ UNCHANGED articles
     \/ articles[ask.slug] = None /\ articles' = Written(d, ask, user)
  /\ Become(d, Answered(500))

FindPublishedByID(d, ask) ==
  /\ InHandler(d, "get")
  /\ LET x == articles[ask.slug]
     IN Become(d, Answered(IF x # None /\ x.published THEN 200 ELSE 404))
  /\ UNCHANGED articles

Published == {s \in Slug : articles[s] # None /\ articles[s].published}

\* Arithmetic on int wraps around.
Wrapped(n) == ((n + IntMax + 1) % (2 * (IntMax + 1))) - (IntMax + 1)

PageOf(ask) == IF ask.page <= 0 THEN 1 ELSE ask.page

SizeOf(ask) ==
  IF ask.size <= 0 THEN Min({DefaultSize, MaxSize}) ELSE Min({ask.size, MaxSize})

\* An offset that is not positive is left out of the query.
Offset(ask) == Max({0, Wrapped((PageOf(ask) - 1) * SizeOf(ask))})

OnPage(ask, n) == Min({SizeOf(ask), Max({0, n - Offset(ask)})})

\* ListPublished counts, and queries the page afterwards.
Count(d) ==
  /\ InHandler(d, "count")
  /\ Become(d, [handling[d] EXCEPT !.pc = "find", !.total = Cardinality(Published)])
  /\ UNCHANGED articles

\* Mutant: the page is queried before the count.
FindBefore(d, ask) ==
  /\ InHandler(d, "find")
  /\ Become(d, [handling[d] EXCEPT !.pc = "answered", !.status = 200,
                                   !.items = OnPage(ask, handling[d].total),
                                   !.total = Cardinality(Published)])
  /\ UNCHANGED articles

Find(d, ask) ==
  /\ InHandler(d, "find")
  /\ Become(d, [handling[d] EXCEPT !.pc = "answered", !.status = 200,
                                   !.items = OnPage(ask, Cardinality(Published))])
  /\ UNCHANGED articles

QueryFails(d) ==
  /\ \E pc \in {"get", "count", "find"} : InHandler(d, pc)
  /\ Become(d, Answered(500))
  /\ UNCHANGED articles

HandlerStep(d, ask, user) ==
  \/ ask.op = "create" /\ (Create(d, ask, user) \/ CreateFails(d, ask, user))
  \/ ask.op = "get" /\ FindPublishedByID(d, ask)
  \/ ask.op = "list" /\ (Count(d) \/ Find(d, ask))
  \/ QueryFails(d)

=============================================================================
