-------------------------------- MODULE Accounts --------------------------------
(***************************************************************************)
(* The requests of the IAM service, from the handler to the answer, over   *)
(* the refresh sessions: registration and login (application/auth,         *)
(* user_repository.go), refresh, logout and introspection (cmd/iam).       *)
(*                                                                         *)
(* An access token goes with the session it was issued with, and is valid  *)
(* without a look at that session.  A person stands for a password, and    *)
(* passwords differ.                                                       *)
(***************************************************************************)
EXTENDS RefreshSessions

CONSTANTS
  Person,
  NameOf, MailOf,   \* the user name and the e-mail address that a person uses
  AccessTTL         \* jwt.access_token_ttl

ASSUME AccountsAssumption ==
  /\ AccessTTL \in Nat
  /\ AccessTTL <= RefreshTTL
  /\ None \notin Person \cup User

VARIABLES
  users,     \* the users table: id -> row or None
  request,   \* thread -> the request it serves, or None
  ended      \* history: a chain -> when its user logged out, or None

accountVars == <<vars, users, request, ended>>

UserRow == [owner : Person, status : {"active", "disabled"}, updated : Nat]

\* start, had: when an introspection came in, and whether the person that logs in had
\* an active account then.
Request ==
  [op : {"register", "login", "refresh", "introspect", "logout"},
   pc : {"find", "create", "issue", "session", "active", "rotate", "revoke", "answered"},
   person : Person \cup {None}, user : User \cup {None}, session : Session \cup {None},
   start : Nat, had : BOOLEAN,
   code : {"none", "ok", "conflict", "invalid_credential", "inactive_user", "unauthorized",
           "dependency"}]

ASSUME NoUserAssumption == None \notin UserRow /\ None \notin Request

\* A thread has a call on the sessions while its request is at the session table.
AccountsType ==
  /\ TypeOK
  /\ users \in [User -> UserRow \cup {None}]
  /\ request \in [Thread -> Request \cup {None}]
  /\ ended \in [Session -> Nat \cup {None}]
  /\ \A t \in Thread : ~Idle(t) <=>
       /\ request[t] # None
       /\ \/ request[t].pc \in {"session", "rotate"}
          \/ request[t].op = "refresh" /\ request[t].pc = "active"

AccountsInit ==
  /\ Init
  /\ users = [u \in User |-> None]
  /\ request = [t \in Thread |-> None]
  /\ ended = [s \in Session |-> None]

-----------------------------------------------------------------------------
(* Requests. *)

At(t, pc) == request[t] # None /\ request[t].pc = pc

Go(t, r) == request' = [request EXCEPT ![t] = r]

Answer(t, code) == Go(t, [request[t] EXCEPT !.pc = "answered", !.code = code])

HasAccount(p) == \E u \in User : users[u] # None /\ users[u].owner = p /\ users[u].status = "active"

Arrival(op, pc, p, s) ==
  [op |-> op, pc |-> pc, person |-> p, user |-> None, session |-> s, code |-> "none",
   start |-> IF op = "introspect" THEN now ELSE 0,
   had |-> op = "login" /\ HasAccount(p)]

\* The access token that was issued with session s is valid until then.
AccessUntil(s) == sessions[s].expires - RefreshTTL + AccessTTL

\* The bearer of an access token that was issued with session s.
HasAccess(s) == Exists(s) /\ now < AccessUntil(s)

\* A thread without a request, or whose answer is on its way.
Free(t) == request[t] = None \/ At(t, "answered")

RegisterOrLogin(t, p) ==
  /\ Free(t)
  /\ \E op \in {"register", "login"} : Go(t, Arrival(op, "find", p, None))
  /\ UNCHANGED <<vars, users, ended>>

\* ParseRefreshToken of the refresh handler.
Refresh(t, s) ==
  /\ Free(t)
  /\ RefreshParse(t, s)
  /\ Go(t, Arrival("refresh", "active", None, s))
  /\ UNCHANGED <<users, ended>>

\* ParseAccessToken, of the introspection or the user's profile ...
Introspect(t, s) ==
  /\ Free(t)
  /\ HasAccess(s)
  /\ Go(t, Arrival("introspect", "active", None, s))
  /\ UNCHANGED <<vars, users, ended>>

\* ... or of the middleware before the logout.
Auth(t, s) ==
  /\ Free(t)
  /\ HasAccess(s)
  /\ Go(t, Arrival("logout", "revoke", None, s))
  /\ UNCHANGED <<vars, users, ended>>

-----------------------------------------------------------------------------
(* Registration and login. *)

Named(p) == {u \in User : users[u] # None /\ NameOf[users[u].owner] = NameOf[p]}

FindByUsername(t) ==
  /\ At(t, "find")
  /\ LET p == request[t].person
         found == Named(p)
     IN \/ /\ request[t].op = "register"
           /\ IF found # {} THEN Answer(t, "conflict")
                            ELSE Go(t, [request[t] EXCEPT !.pc = "create"])
        \/ request[t].op = "login" /\ found = {} /\ Answer(t, "invalid_credential")
        \/ /\ request[t].op = "login"
           /\ \E u \in found :
                CASE users[u].status # "active" -> Answer(t, "inactive_user")
                  [] users[u].status = "active" /\ users[u].owner # p ->
                       Answer(t, "invalid_credential")
                  [] OTHER -> Go(t, [request[t] EXCEPT !.pc = "issue", !.user = u])
  /\ UNCHANGED <<vars, users, ended>>

\* Mutant: a table whose names need not be unique.
TakenMailOnly(p) == \E u \in User : users[u] # None /\ MailOf[users[u].owner] = MailOf[p]

\* uk_users_username and uk_users_email.
Taken(p) == Named(p) # {} \/ \E u \in User : users[u] # None /\ MailOf[users[u].owner] = MailOf[p]

\* Mutant: a user without a status.
NewUserUnset(p) == [owner |-> p, status |-> "", updated |-> now]

NewUser(p) == [owner |-> p, status |-> "active", updated |-> now]

\* Any failure of Create, a duplicate too, is answered as one of a dependency.
Create(t) ==
  /\ At(t, "create")
  /\ LET p == request[t].person
     IN \/ Taken(p) /\ Answer(t, "dependency") /\ UNCHANGED users
        \/ /\ ~Taken(p)
           /\ \E u \in User :
                /\ users[u] = None
                /\ users' = [users EXCEPT ![u] = NewUser(p)]
                /\ Go(t, [request[t] EXCEPT !.pc = "issue", !.user = u])
  /\ UNCHANGED <<vars, ended>>

IssueToken(t) ==
  /\ At(t, "issue")
  /\ LoginIssue(t, request[t].user)
  /\ Go(t, [request[t] EXCEPT !.pc = "session"])
  /\ UNCHANGED <<users, ended>>

Given(t, s) == Go(t, [request[t] EXCEPT !.pc = "answered", !.code = "ok", !.session = s])

CreateRefreshSession(t) ==
  /\ At(t, "session")
  /\ LoginCreate(t)
  /\ \E s \in Session : ~Exists(s) /\ sessions'[s] # None /\ Given(t, s)
  /\ UNCHANGED <<users, ended>>

-----------------------------------------------------------------------------
(* Refresh, introspection and logout. *)

IsActive(u) == users[u].status = "active"

\* FindByID and EnsureActive, of a refresh ...
RefreshEnsureActive(t) ==
  /\ At(t, "active") /\ request[t].op = "refresh"
  /\ \/ /\ ~IsActive(sessions[request[t].session].user)
        /\ Answer(t, "inactive_user") /\ Become(t, IdleCall)
     \/ /\ IsActive(sessions[request[t].session].user)
        /\ Go(t, [request[t] EXCEPT !.pc = "rotate"]) /\ UNCHANGED call
  /\ UNCHANGED <<sessions, now, login, over, users, ended>>

\* ... and of an introspection.
EnsureActive(t) ==
  /\ At(t, "active") /\ request[t].op = "introspect"
  /\ Answer(t, IF IsActive(sessions[request[t].session].user) THEN "ok" ELSE "inactive_user")
  /\ UNCHANGED <<vars, users, ended>>

RotateRefreshToken(t) ==
  /\ At(t, "rotate")
  /\ \/ /\ RefreshCommit(t)
        /\ \E s \in Session : ~Exists(s) /\ sessions'[s] # None /\ Given(t, s)
     \/ RefreshRefused(t) /\ Answer(t, "unauthorized")
  /\ UNCHANGED <<users, ended>>

LogoutUser(t) ==
  /\ At(t, "revoke")
  /\ Logout(sessions[request[t].session].user)
  /\ ended' = [l \in Session |-> IF l \in over' \ over THEN now ELSE ended[l]]
  /\ Answer(t, "ok")
  /\ UNCHANGED users

\* A statement fails; the refresh handler answers any failure of its rotation alike.
RequestFails(t) ==
  /\ ~Free(t)
  /\ IF Idle(t) THEN UNCHANGED vars ELSE CallFails(t)
  /\ Answer(t, IF At(t, "rotate") THEN "unauthorized" ELSE "dependency")
  /\ UNCHANGED <<users, ended>>

\* The status of a user is changed in the database; the service has no call for it.
Disable(u) ==
  /\ users[u] # None /\ IsActive(u)
  /\ users' = [users EXCEPT ![u].status = "disabled", ![u].updated = now]
  /\ UNCHANGED <<vars, request, ended>>

AccountStep(t) ==
  \/ \E p \in Person : RegisterOrLogin(t, p)
  \/ \E s \in Session : Refresh(t, s) \/ Introspect(t, s) \/ Auth(t, s)
  \/ FindByUsername(t) \/ Create(t) \/ IssueToken(t) \/ CreateRefreshSession(t)
  \/ RefreshEnsureActive(t) \/ EnsureActive(t) \/ RotateRefreshToken(t) \/ LogoutUser(t)
  \/ RequestFails(t)

AccountsNext ==
  \/ \E t \in Thread : AccountStep(t)
  \/ \E u \in User : Disable(u)
  \/ Tick /\ UNCHANGED <<users, request, ended>>

AccountsSpec == AccountsInit /\ [][AccountsNext]_accountVars

-----------------------------------------------------------------------------
(* Properties. *)

\* Whoever registers or logs in gets a session of an account of his own, although
\* Register looks a name up before it creates the user; and a login is not refused
\* to whom an active account belongs, be it one whose registration was answered
\* with an error after the user was created.
AnswersOwner ==
  \A t \in Thread : At(t, "answered") =>
    LET r == request[t]
    IN  /\ r.op \in {"register", "login"} /\ r.code = "ok" =>
             users[sessions[r.session].user].owner = r.person
        /\ r.op = "login" /\ r.code = "invalid_credential" => ~r.had
        /\ r.code = "conflict" => Named(r.person) # {}

\* An access token is not asked about its session: it is accepted after a logout,
\* by AccessTTL at most, whatever refresh was under way at the logout; and not
\* from a request that came in after the user was disabled.
AccessEnds ==
  \A t \in Thread : At(t, "answered") =>
    LET r == request[t]
        l == login[r.session]
        row == users[sessions[r.session].user]
    IN  r.op = "introspect" /\ r.code = "ok" =>
          /\ l \in over => r.start < ended[l] + AccessTTL
          /\ row.status = "active" \/ r.start <= row.updated

=============================================================================
