---------------------------- MODULE RefreshSessions ---------------------------
(***************************************************************************)
(* The refresh sessions of the IAM service (cmd/iam/main.go, the domain's  *)
(* RefreshSession and iam_session_repository.go).  A login creates a       *)
(* session; a refresh replaces the session of the refresh token it was     *)
(* given, in one transaction that locks its row; a logout revokes all      *)
(* active sessions of the user with one statement.                         *)
(*                                                                         *)
(* A refresh token stands for its session: the row of a token is found by  *)
(* the token's id.  A client can present any token it was ever given, a    *)
(* stale one too, and twice at a time.  What a login or a registration     *)
(* does before it issues a token concerns passwords and accounts; no       *)
(* operation disables a user.                                              *)
(***************************************************************************)
EXTENDS Integers

CONSTANTS
  User,
  Session,      \* session rows, by id
  Thread,       \* HTTP handler threads
  RefreshTTL,   \* jwt.refresh_token_ttl
  MaxTime,      \* bound on the clock
  None          \* no row, no session

ASSUME SessionsAssumption ==
  /\ RefreshTTL \in Nat
  /\ MaxTime \in Nat
  /\ None \notin Session

SessionRow == [user : User, status : {"active", "rotated", "revoked"},
               next : Session \cup {None}, expires : Nat]

ASSUME NoRowAssumption == None \notin SessionRow

VARIABLES
  sessions,   \* iam_refresh_sessions: session -> row or None
  now,        \* the clock
  call,       \* thread -> the call it serves
  login,      \* history: session -> the session its chain began with
  over        \* history: the chains that existed when their user logged out

vars == <<sessions, now, call, login, over>>

IdleCall == [phase |-> "idle"]

\* A login under way has its token pair and with it the session's expiry; a
\* refresh has found its token valid.
Call ==
  {IdleCall}
    \cup [phase : {"login"}, user : User, expires : Nat]
    \cup [phase : {"refresh"}, session : Session, start : Nat]

TypeOK ==
  /\ sessions \in [Session -> SessionRow \cup {None}]
  /\ now \in Nat
  /\ call \in [Thread -> Call]
  /\ login \in [Session -> Session \cup {None}]
  /\ over \subseteq Session

Init ==
  /\ sessions = [s \in Session |-> None]
  /\ now = 0
  /\ call = [t \in Thread |-> IdleCall]
  /\ login = [s \in Session |-> None]
  /\ over = {}

-----------------------------------------------------------------------------
(* Rows. *)

Exists(s) == sessions[s] # None

Active(s) == Exists(s) /\ sessions[s].status = "active"

\* A new session without a status.
NewRefreshSessionUnset(u, expires) ==
  [user |-> u, status |-> "", next |-> None, expires |-> expires]

NewRefreshSession(u, expires) ==
  [user |-> u, status |-> "active", next |-> None, expires |-> expires]

\* Usable, without its check of the status.
UsableAnyStatus(s, at) == at < sessions[s].expires

\* Usable, without its check of the expiry.
UsableForever(s, at) == sessions[s].status = "active"

Usable(s, at) == sessions[s].status = "active" /\ at < sessions[s].expires

-----------------------------------------------------------------------------
(* Calls. *)

Idle(t) == call[t].phase = "idle"

Become(t, c) == call' = [call EXCEPT ![t] = c]

\* Register or Login of auth.Service up to IssueToken's newTokenPair.
LoginIssue(t, u) ==
  /\ Idle(t)
  /\ Become(t, [phase |-> "login", user |-> u, expires |-> now + RefreshTTL])
  /\ UNCHANGED <<sessions, now, login, over>>

\* CreateRefreshSession, under an id that the generator has not given before.
LoginCreate(t) ==
  /\ call[t].phase = "login"
  /\ \E s \in Session :
       /\ ~Exists(s)
       /\ sessions' = [sessions EXCEPT ![s] = NewRefreshSession(call[t].user, call[t].expires)]
       /\ login' = [login EXCEPT ![s] = s]
  /\ Become(t, IdleCall)
  /\ UNCHANGED <<now, over>>

\* ParseRefreshToken: a token that was issued, before it expires.
RefreshParse(t, s) ==
  /\ Idle(t)
  /\ Exists(s)
  /\ now < sessions[s].expires
  /\ Become(t, [phase |-> "refresh", session |-> s, start |-> now])
  /\ UNCHANGED <<sessions, now, login, over>>

\* A rotation that leaves the status of the old session as it is.
RotateKeepsOld(s, n, issued) ==
  sessions' = [sessions EXCEPT
    ![s].next = n,
    ![n] = NewRefreshSession(sessions[s].user, issued + RefreshTTL)]

\* The writes of RotateRefreshSession: the next session, and its replacement
\* of the current one.
Rotate(s, n, issued) ==
  sessions' = [sessions EXCEPT
    ![s].status = "rotated",
    ![s].next = n,
    ![n] = NewRefreshSession(sessions[s].user, issued + RefreshTTL)]

\* The transaction, with the current session's row locked.  The clock was read
\* twice since the call began: for the new pair, and for Usable.
RefreshCommit(t) ==
  /\ call[t].phase = "refresh"
  /\ \E issued, at \in call[t].start .. now, n \in Session :
       /\ issued <= at
       /\ Usable(call[t].session, at)
       /\ ~Exists(n)
       /\ Rotate(call[t].session, n, issued)
       /\ login' = [login EXCEPT ![n] = login[call[t].session]]
  /\ Become(t, IdleCall)
  /\ UNCHANGED <<now, over>>

RefreshRefused(t) ==
  /\ call[t].phase = "refresh"
  /\ \E at \in call[t].start .. now : ~Usable(call[t].session, at)
  /\ Become(t, IdleCall)
  /\ UNCHANGED <<sessions, now, login, over>>

\* A statement fails, a deadlock's victim is rolled back, the client's context
\* ends, or the server dies.
CallFails(t) ==
  /\ ~Idle(t)
  /\ Become(t, IdleCall)
  /\ UNCHANGED <<sessions, now, login, over>>

OfUser(u) == {s \in Session : Exists(s) /\ sessions[s].user = u}

\* A revocation that stops at one session of the user.
RevokeOne(u) ==
  \E one \in {s \in OfUser(u) : Active(s)} :
    sessions' = [sessions EXCEPT ![one].status = "revoked"]

\* RevokeActiveRefreshSessionsByUser.
RevokeAll(u) ==
  sessions' = [s \in Session |->
    IF s \in OfUser(u) /\ Active(s) THEN [sessions[s] EXCEPT !.status = "revoked"]
                                    ELSE sessions[s]]

\* Logout, with an access token: some login or refresh of the user got one.
Logout(u) ==
  /\ OfUser(u) # {}
  /\ RevokeAll(u)
  /\ over' = over \cup {login[s] : s \in OfUser(u)}
  /\ UNCHANGED <<now, call, login>>

Tick ==
  /\ now < MaxTime
  /\ now' = now + 1
  /\ UNCHANGED <<sessions, call, login, over>>

Serve(t) ==
  \/ \E u \in User : LoginIssue(t, u)
  \/ LoginCreate(t)
  \/ \E s \in Session : RefreshParse(t, s)
  \/ RefreshCommit(t)
  \/ RefreshRefused(t)
  \/ CallFails(t)

Next ==
  \/ \E t \in Thread : Serve(t)
  \/ \E u \in User : Logout(u)
  \/ Tick

Spec == Init /\ [][Next]_vars

-----------------------------------------------------------------------------
(* Properties. *)

\* At most one session of a login can be refreshed, however often and at how
\* many threads at a time the client presents its tokens: the check of the
\* status is made under the row's lock.
OneActivePerLogin ==
  \A s, d \in Session : Active(s) /\ Active(d) /\ login[s] = login[d] => s = d

\* A logout ends every login of the user: a refresh it overtook cannot bring
\* one back.
LogoutEnds == \A s \in Session : Active(s) => login[s] \notin over

\* A refresh replaces a session before it expires, although it reads the clock
\* several times and commits later: a client that stays away for RefreshTTL
\* has to log in again.
RefreshedInTime ==
  \A s \in Session : Exists(s) /\ sessions[s].next # None =>
    /\ Exists(sessions[s].next)
    /\ sessions[s].user = sessions[sessions[s].next].user
    /\ sessions[sessions[s].next].expires < sessions[s].expires + RefreshTTL

\* The sessions of a login that can be refreshed.
Refreshable(l) == {s \in Session : Active(s) /\ login[s] = l}

Tip ==
  [l \in Session |-> IF Refreshable(l) = {} THEN None ELSE CHOOSE s \in Refreshable(l) : TRUE]

Chains == INSTANCE SessionChains WITH used <- {s \in Session : Exists(s)}, tip <- Tip

\* Rows and transactions do what SessionChains promises: a chain moves on from
\* its tip only, and never comes back once it lost it.
ChainsSpec == Chains!Spec

=============================================================================
