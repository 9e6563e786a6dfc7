---------------------------- MODULE AccountsProofs ----------------------------
(***************************************************************************)
(* Theorems about the IAM service, for any users, sessions, threads, clock *)
(* and lifetimes of the tokens: first of RefreshSessions by itself, then   *)
(* of Accounts, whose steps are steps of RefreshSessions or leave the      *)
(* sessions alone.                                                         *)
(***************************************************************************)
EXTENDS Accounts, TLAPS

-----------------------------------------------------------------------------
(* The sessions: the inductive invariant. *)

\* A session that exists has a login, which exists too and is of its user; a
\* chain that ended exists; and a refresh under way is of a session that exists.
LoginsExist ==
  /\ \A s \in Session : Exists(s) =>
       /\ login[s] \in Session
       /\ Exists(login[s])
       /\ sessions[login[s]].user = sessions[s].user
  /\ \A l \in over : Exists(l)
  /\ \A t \in Thread : call[t].phase = "refresh" => Exists(call[t].session)

Inv == TypeOK /\ LoginsExist /\ OneActivePerLogin /\ LogoutEnds /\ RefreshedInTime

\* A call in a phase has the fields of that phase.
LEMMA CallKinds ==
  ASSUME call \in [Thread -> Call], NEW t \in Thread
  PROVE  /\ call[t].phase = "login" => call[t].user \in User /\ call[t].expires \in Nat
         /\ call[t].phase = "refresh" => call[t].session \in Session /\ call[t].start \in Nat
BY DEF Call, IdleCall

\* A thread that turns to a call leaves the calls well typed, and the others alone.
LEMMA BecomeCalls ==
  ASSUME call \in [Thread -> Call], NEW t \in Thread, NEW c \in Call, Become(t, c)
  PROVE  /\ call' \in [Thread -> Call]
         /\ call'[t] = c
         /\ \A r \in Thread \ {t} : call'[r] = call[r]
BY DEF Become

\* What a session that exists looks like.
LEMMA RowType ==
  ASSUME TypeOK, NEW s \in Session, Exists(s)
  PROVE  sessions[s] \in SessionRow
BY DEF TypeOK, Exists

\* A new session is a row, and none that is not there.
LEMMA NewRow ==
  ASSUME NEW u \in User, NEW e \in Nat
  PROVE  /\ NewRefreshSession(u, e) \in SessionRow
         /\ NewRefreshSession(u, e) # None
BY NoRowAssumption DEF NewRefreshSession, SessionRow

\* The invariant speaks of nothing but the rows, the two histories and which
\* sessions are being refreshed: a call that ends leaves it alone.
LEMMA CallKeepsInv ==
  ASSUME Inv, NEW t \in Thread, NEW c \in Call, Become(t, c),
         c.phase = "refresh" => Exists(c.session),
         UNCHANGED <<sessions, now, login, over>>
  PROVE  Inv'
<1>1. /\ call' \in [Thread -> Call]
      /\ call'[t] = c
      /\ \A r \in Thread \ {t} : call'[r] = call[r]
  BY BecomeCalls DEF Inv, TypeOK
<1>2. TypeOK'
  BY <1>1 DEF Inv, TypeOK
<1>3. LoginsExist'
  BY <1>1 DEF Inv, LoginsExist, Exists
<1>4. OneActivePerLogin' /\ LogoutEnds' /\ RefreshedInTime'
  BY DEF Inv, OneActivePerLogin, LogoutEnds, RefreshedInTime, Active, Exists
<1> QED BY <1>2, <1>3, <1>4 DEF Inv

\* Idle is a call.
LEMMA IdleIsCall == IdleCall \in Call /\ IdleCall.phase # "refresh"
BY DEF IdleCall, Call

-----------------------------------------------------------------------------
(* The effects of the steps that write rows. *)

\* The creation of a session by a login: one row more, the rest as before.
LEMMA CreateEffect ==
  ASSUME Inv, NEW t \in Thread, LoginCreate(t)
  PROVE  \E s \in Session :
           /\ ~Exists(s)
           /\ sessions'[s] \in SessionRow
           /\ sessions'[s].status = "active"
           /\ sessions'[s].next = None
           /\ sessions'[s].user = call[t].user
           /\ sessions'[s].expires = call[t].expires
           /\ login'[s] = s
           /\ \A d \in Session \ {s} : sessions'[d] = sessions[d] /\ login'[d] = login[d]
           /\ sessions' \in [Session -> SessionRow \cup {None}]
           /\ login' \in [Session -> Session \cup {None}]
<1>1. call[t].user \in User /\ call[t].expires \in Nat
  BY CallKinds DEF LoginCreate, Inv, TypeOK
<1> DEFINE row == NewRefreshSession(call[t].user, call[t].expires)
<1>2. /\ row \in SessionRow /\ row.status = "active" /\ row.next = None
      /\ row.user = call[t].user /\ row.expires = call[t].expires
  BY <1>1, NewRow DEF NewRefreshSession
<1> HIDE DEF row
<1>3. PICK s \in Session :
        /\ ~Exists(s)
        /\ sessions' = [sessions EXCEPT ![s] = row]
        /\ login' = [login EXCEPT ![s] = s]
  BY DEF LoginCreate, row
<1>4. sessions \in [Session -> SessionRow \cup {None}] /\ login \in [Session -> Session \cup {None}]
  BY DEF Inv, TypeOK
<1>5. sessions'[s] = row /\ login'[s] = s
  BY <1>3, <1>4
<1> QED BY <1>2, <1>3, <1>4, <1>5

\* The transaction of a refresh: the session it replaces was active, and one
\* row more takes its place in the chain, to expire in time.
LEMMA RotateEffect ==
  ASSUME Inv, NEW t \in Thread, RefreshCommit(t)
  PROVE  \E s, n \in Session :
           /\ s = call[t].session
           /\ Active(s)
           /\ ~Exists(n)
           /\ sessions'[s] \in SessionRow
           /\ sessions'[s].status = "rotated"
           /\ sessions'[s].next = n
           /\ sessions'[s].user = sessions[s].user
           /\ sessions'[s].expires = sessions[s].expires
           /\ sessions'[n] \in SessionRow
           /\ sessions'[n].status = "active"
           /\ sessions'[n].next = None
           /\ sessions'[n].user = sessions[s].user
           /\ sessions'[n].expires < sessions[s].expires + RefreshTTL
           /\ sessions'[n].expires <= now + RefreshTTL
           /\ login'[n] = login[s]
           /\ \A d \in Session \ {s, n} : sessions'[d] = sessions[d]
           /\ \A d \in Session \ {n} : login'[d] = login[d]
           /\ sessions' \in [Session -> SessionRow \cup {None}]
           /\ login' \in [Session -> Session \cup {None}]
<1> DEFINE s == call[t].session
<1>1. s \in Session /\ call[t].start \in Nat /\ now \in Nat
  BY CallKinds DEF RefreshCommit, Inv, TypeOK
<1>2. Exists(s) /\ sessions[s] \in SessionRow
  BY <1>1, RowType DEF RefreshCommit, Inv, LoginsExist
<1> HIDE DEF s
<1>3. PICK issued \in call[t].start .. now, at \in call[t].start .. now, n \in Session :
        /\ issued <= at
        /\ Usable(s, at)
        /\ ~Exists(n)
        /\ Rotate(s, n, issued)
        /\ login' = [login EXCEPT ![n] = login[s]]
  BY DEF RefreshCommit, s
<1>4. s # n
  BY <1>2, <1>3
<1>5. issued \in Nat /\ at \in Nat /\ issued + RefreshTTL \in Nat
  BY <1>1, SessionsAssumption
<1> DEFINE row == NewRefreshSession(sessions[s].user, issued + RefreshTTL)
<1>6. row \in SessionRow /\ row.status = "active" /\ row.next = None
      /\ row.user = sessions[s].user /\ row.expires = issued + RefreshTTL
  BY <1>2, <1>5, NewRow DEF NewRefreshSession, SessionRow
<1> DEFINE old == [sessions[s] EXCEPT !.status = "rotated", !.next = n]
<1>7. old \in SessionRow /\ old.status = "rotated" /\ old.next = n
      /\ old.user = sessions[s].user /\ old.expires = sessions[s].expires
  BY <1>2 DEF SessionRow
<1>8. sessions \in [Session -> SessionRow \cup {None}] /\ login \in [Session -> Session \cup {None}]
  BY DEF Inv, TypeOK
<1>9. sessions' = [[sessions EXCEPT ![s] = old] EXCEPT ![n] = row]
  BY <1>1, <1>3, <1>8 DEF Rotate
<1> HIDE DEF row, old
<1>10. /\ sessions'[s] = old
       /\ sessions'[n] = row
       /\ \A d \in Session \ {s, n} : sessions'[d] = sessions[d]
       /\ sessions' \in [Session -> SessionRow \cup {None}]
  BY <1>1, <1>4, <1>6, <1>7, <1>8, <1>9
<1>11. /\ login'[n] = login[s]
       /\ \A d \in Session \ {n} : login'[d] = login[d]
       /\ login' \in [Session -> Session \cup {None}]
  BY <1>1, <1>3, <1>8
<1>12. Active(s)
  BY <1>2, <1>3 DEF Usable, Active
<1>13. row.expires < sessions[s].expires + RefreshTTL
  <2>1. at < sessions[s].expires
    BY <1>3 DEF Usable
  <2>2. sessions[s].expires \in Nat
    BY <1>2 DEF SessionRow
  <2> QED BY <1>3, <1>5, <1>6, <2>1, <2>2, SessionsAssumption
<1>14. row.expires <= now + RefreshTTL
  BY <1>1, <1>3, <1>5, <1>6, SessionsAssumption
<1> QED BY <1>1, <1>3, <1>6, <1>7, <1>10, <1>11, <1>12, <1>13, <1>14 DEF s

\* A logout: the rows of the user's active sessions change their status only.
LEMMA LogoutEffect ==
  ASSUME Inv, NEW u \in User, Logout(u)
  PROVE  /\ sessions' \in [Session -> SessionRow \cup {None}]
         /\ \A s \in Session :
              /\ Exists(s)' <=> Exists(s)
              /\ Exists(s) => /\ sessions'[s].user = sessions[s].user
                              /\ sessions'[s].next = sessions[s].next
                              /\ sessions'[s].expires = sessions[s].expires
              /\ Active(s)' <=> Active(s) /\ sessions[s].user # u
<1> SUFFICES ASSUME NEW s \in Session
             PROVE  /\ sessions'[s] \in SessionRow \cup {None}
                    /\ Exists(s)' <=> Exists(s)
                    /\ Exists(s) => /\ sessions'[s].user = sessions[s].user
                                    /\ sessions'[s].next = sessions[s].next
                                    /\ sessions'[s].expires = sessions[s].expires
                    /\ Active(s)' <=> Active(s) /\ sessions[s].user # u
  BY DEF Logout, RevokeAll
<1>1. sessions[s] \in SessionRow \cup {None}
  BY DEF Inv, TypeOK
<1>2. CASE s \in OfUser(u) /\ Active(s)
  <2> DEFINE row == [sessions[s] EXCEPT !.status = "revoked"]
  <2>1. sessions[s] \in SessionRow /\ sessions[s].user = u
    BY <1>1, <1>2 DEF OfUser, Exists
  <2>2. row \in SessionRow /\ row.status = "revoked" /\ row.user = sessions[s].user
        /\ row.next = sessions[s].next /\ row.expires = sessions[s].expires
    BY <2>1 DEF SessionRow
  <2>3. sessions'[s] = row
    BY <1>2 DEF Logout, RevokeAll
  <2> HIDE DEF row
  <2>4. row # None
    BY <2>2, NoRowAssumption
  <2>5. "revoked" # "active"
    OBVIOUS
  <2> QED BY <1>2, <2>1, <2>2, <2>3, <2>4, <2>5 DEF Exists, Active
<1>3. CASE ~(s \in OfUser(u) /\ Active(s))
  <2>1. sessions'[s] = sessions[s]
    BY <1>3 DEF Logout, RevokeAll
  <2> QED BY <1>1, <1>3, <2>1 DEF Exists, Active, OfUser
<1> QED BY <1>2, <1>3

-----------------------------------------------------------------------------
(* The invariant is inductive. *)

\* The login creates a chain of its own, which nothing else belongs to.
LEMMA CreateKeepsInv ==
  ASSUME Inv, NEW t \in Thread, LoginCreate(t)
  PROVE  Inv'
<1>1. PICK s \in Session :
        /\ ~Exists(s)
        /\ sessions'[s] \in SessionRow
        /\ sessions'[s].status = "active"
        /\ sessions'[s].next = None
        /\ login'[s] = s
        /\ \A d \in Session \ {s} : sessions'[d] = sessions[d] /\ login'[d] = login[d]
        /\ sessions' \in [Session -> SessionRow \cup {None}]
        /\ login' \in [Session -> Session \cup {None}]
  BY CreateEffect
<1>2. /\ call' \in [Thread -> Call]
      /\ call'[t] = IdleCall
      /\ \A r \in Thread \ {t} : call'[r] = call[r]
      /\ UNCHANGED <<now, over>>
  BY BecomeCalls, IdleIsCall DEF LoginCreate, Inv, TypeOK
<1>3. Exists(s)' /\ Active(s)'
  BY <1>1, NoRowAssumption DEF Exists, Active
<1>4. \A d \in Session \ {s} : (Exists(d)' <=> Exists(d)) /\ (Active(d)' <=> Active(d))
  BY <1>1 DEF Exists, Active
<1>5. TypeOK'
  BY <1>1, <1>2 DEF Inv, TypeOK
<1>6. LoginsExist'
  <2>1. ASSUME NEW d \in Session, Exists(d)'
        PROVE  login'[d] \in Session /\ Exists(login[d])' /\ sessions'[login'[d]].user = sessions'[d].user
    <3>1. CASE d = s
      BY <1>1, <1>3, <3>1
    <3>2. CASE d # s
      <4>1. login[d] \in Session /\ Exists(login[d]) /\ sessions[login[d]].user = sessions[d].user
        BY <1>4, <2>1, <3>2 DEF Inv, LoginsExist
      <4>2. login[d] # s /\ login'[d] = login[d]
        BY <1>1, <3>2, <4>1
      <4> QED BY <1>1, <1>4, <3>2, <4>1, <4>2 DEF Exists
    <3> QED BY <3>1, <3>2
  <2>2. \A l \in over' : Exists(l)'
    BY <1>1, <1>2, <1>4 DEF Inv, TypeOK, LoginsExist
  <2>3. \A r \in Thread : call'[r].phase = "refresh" => Exists(call[r].session)'
    BY <1>1, <1>2, <1>3, <1>4, IdleIsCall, CallKinds DEF Inv, TypeOK, LoginsExist, Exists
  <2> QED BY <2>1, <2>2, <2>3 DEF LoginsExist
<1>7. OneActivePerLogin'
  <2>1. \A d \in Session \ {s} : Active(d)' => login'[d] # s
    BY <1>1, <1>4 DEF Inv, LoginsExist, Active
  <2> QED BY <1>1, <1>4, <2>1 DEF Inv, OneActivePerLogin
<1>8. LogoutEnds'
  BY <1>1, <1>2, <1>4 DEF Inv, LoginsExist, LogoutEnds
<1>9. RefreshedInTime'
  <2>1. ASSUME NEW d \in Session, Exists(d)', sessions'[d].next # None
        PROVE  /\ Exists(sessions[d].next)'
               /\ sessions'[d].user = sessions'[sessions'[d].next].user
               /\ sessions'[sessions'[d].next].expires < sessions'[d].expires + RefreshTTL
    <3>1. d # s /\ sessions'[d] = sessions[d] /\ Exists(d)
      BY <1>1, <1>4, <2>1
    <3>2. Exists(sessions[d].next) /\ sessions[d].next \in Session
      BY <2>1, <3>1, RowType DEF Inv, RefreshedInTime, SessionRow
    <3>3. sessions[d].next # s
      BY <1>1, <3>2
    <3> QED BY <1>1, <1>4, <2>1, <3>1, <3>2, <3>3 DEF Inv, RefreshedInTime, Exists
  <2> QED BY <2>1 DEF RefreshedInTime
<1> QED BY <1>5, <1>6, <1>7, <1>8, <1>9 DEF Inv

\* A refresh takes the tip of a chain away and puts another one in its place.
LEMMA RotateKeepsInv ==
  ASSUME Inv, NEW t \in Thread, RefreshCommit(t)
  PROVE  Inv'
<1>1. PICK s, n \in Session :
        /\ s = call[t].session
        /\ Active(s)
        /\ ~Exists(n)
        /\ sessions'[s] \in SessionRow
        /\ sessions'[s].status = "rotated"
        /\ sessions'[s].next = n
        /\ sessions'[s].user = sessions[s].user
        /\ sessions'[s].expires = sessions[s].expires
        /\ sessions'[n] \in SessionRow
        /\ sessions'[n].status = "active"
        /\ sessions'[n].next = None
        /\ sessions'[n].user = sessions[s].user
        /\ sessions'[n].expires < sessions[s].expires + RefreshTTL
        /\ login'[n] = login[s]
        /\ \A d \in Session \ {s, n} : sessions'[d] = sessions[d]
        /\ \A d \in Session \ {n} : login'[d] = login[d]
        /\ sessions' \in [Session -> SessionRow \cup {None}]
        /\ login' \in [Session -> Session \cup {None}]
  BY RotateEffect
<1>2. /\ call' \in [Thread -> Call]
      /\ call'[t] = IdleCall
      /\ \A r \in Thread \ {t} : call'[r] = call[r]
      /\ UNCHANGED <<now, over>>
  BY BecomeCalls, IdleIsCall DEF RefreshCommit, Inv, TypeOK
<1>3. s # n /\ Exists(s) /\ Exists(s)' /\ ~Active(s)' /\ Exists(n)' /\ Active(n)'
  BY <1>1, NoRowAssumption DEF Exists, Active
<1>4. \A d \in Session \ {s, n} : (Exists(d)' <=> Exists(d)) /\ (Active(d)' <=> Active(d))
  BY <1>1 DEF Exists, Active
<1>5. \A d \in Session : Exists(d) => /\ d # n
                                      /\ Exists(d)'
                                      /\ sessions'[d].user = sessions[d].user
                                      /\ sessions'[d].expires = sessions[d].expires
  BY <1>1, <1>3, <1>4
<1>6. TypeOK'
  BY <1>1, <1>2 DEF Inv, TypeOK
<1>7. LoginsExist'
  <2>1. ASSUME NEW d \in Session, Exists(d)'
        PROVE  login'[d] \in Session /\ Exists(login[d])' /\ sessions'[login'[d]].user = sessions'[d].user
    <3>1. CASE d = n
      <4>1. login[s] \in Session /\ Exists(login[s]) /\ sessions[login[s]].user = sessions[s].user
        BY <1>3 DEF Inv, LoginsExist
      <4>2. login'[d] = login[s]
        BY <1>1, <3>1
      <4>3. Exists(login[s])' /\ sessions'[login[s]].user = sessions[s].user
        BY <1>1, <1>3, <1>5, <4>1 DEF Exists
      <4> QED BY <1>1, <3>1, <4>1, <4>2, <4>3 DEF Exists
    <3>2. CASE d # n
      <4>1. Exists(d)
        BY <1>3, <1>4, <2>1, <3>2
      <4>2. login[d] \in Session /\ Exists(login[d]) /\ sessions[login[d]].user = sessions[d].user
        BY <4>1 DEF Inv, LoginsExist
      <4>3. login'[d] = login[d]
        BY <1>1, <3>2
      <4> QED BY <1>5, <4>1, <4>2, <4>3 DEF Exists
    <3> QED BY <3>1, <3>2
  <2>2. \A l \in over' : Exists(l)'
    BY <1>2, <1>5 DEF Inv, TypeOK, LoginsExist
  <2>3. \A r \in Thread : call'[r].phase = "refresh" => Exists(call[r].session)'
    BY <1>2, <1>5, IdleIsCall, CallKinds DEF Inv, TypeOK, LoginsExist, Exists
  <2> QED BY <2>1, <2>2, <2>3 DEF LoginsExist
<1>8. OneActivePerLogin'
  <2>1. \A d \in Session \ {s, n} : Active(d)' => login'[d] # login[s]
    BY <1>1, <1>4 DEF Inv, OneActivePerLogin
  <2> QED BY <1>1, <1>3, <1>4, <2>1 DEF Inv, OneActivePerLogin
<1>9. LogoutEnds'
  BY <1>1, <1>2, <1>3, <1>4 DEF Inv, LogoutEnds
<1>10. RefreshedInTime'
  <2>1. ASSUME NEW d \in Session, Exists(d)', sessions'[d].next # None
        PROVE  /\ Exists(sessions[d].next)'
               /\ sessions'[d].user = sessions'[sessions'[d].next].user
               /\ sessions'[sessions'[d].next].expires < sessions'[d].expires + RefreshTTL
    <3>1. CASE d = s
      BY <1>1, <1>3, <3>1 DEF Exists
    <3>2. CASE d # s
      <4>1. d # n /\ sessions'[d] = sessions[d] /\ Exists(d)
        BY <1>1, <1>4, <2>1, <3>2
      <4>2. Exists(sessions[d].next) /\ sessions[d].next \in Session
        BY <2>1, <4>1, RowType DEF Inv, RefreshedInTime, SessionRow
      <4> QED BY <1>5, <2>1, <4>1, <4>2 DEF Inv, RefreshedInTime, Exists
    <3> QED BY <3>1, <3>2
  <2> QED BY <2>1 DEF RefreshedInTime
<1> QED BY <1>6, <1>7, <1>8, <1>9, <1>10 DEF Inv

\* A logout ends the chains of the user, since all sessions of a chain are of
\* one user, and no other chain.
LEMMA LogoutKeepsInv ==
  ASSUME Inv, NEW u \in User, Logout(u)
  PROVE  Inv'
<1>1. /\ sessions' \in [Session -> SessionRow \cup {None}]
      /\ \A s \in Session :
           /\ Exists(s)' <=> Exists(s)
           /\ Exists(s) => /\ sessions'[s].user = sessions[s].user
                           /\ sessions'[s].next = sessions[s].next
                           /\ sessions'[s].expires = sessions[s].expires
           /\ Active(s)' <=> Active(s) /\ sessions[s].user # u
  BY LogoutEffect
<1>2. UNCHANGED <<now, call, login>> /\ over' = over \cup {login[s] : s \in OfUser(u)}
  BY DEF Logout
<1>3. \A s \in OfUser(u) : /\ s \in Session /\ Exists(s) /\ login[s] \in Session
                           /\ Exists(login[s]) /\ sessions[login[s]].user = u
  BY DEF OfUser, Inv, LoginsExist
<1>4. TypeOK'
  BY <1>1, <1>2, <1>3 DEF Inv, TypeOK
<1>5. LoginsExist'
  <2>1. \A s \in Session : Exists(s)' =>
          login'[s] \in Session /\ Exists(login[s])' /\ sessions'[login'[s]].user = sessions'[s].user
    BY <1>1, <1>2 DEF Inv, LoginsExist, Exists
  <2>2. \A l \in over' : Exists(l)'
    BY <1>1, <1>2, <1>3 DEF Inv, TypeOK, LoginsExist
  <2>3. \A r \in Thread : call'[r].phase = "refresh" => Exists(call[r].session)'
    BY <1>1, <1>2, CallKinds DEF Inv, TypeOK, LoginsExist, Exists
  <2> QED BY <2>1, <2>2, <2>3 DEF LoginsExist
<1>6. OneActivePerLogin'
  BY <1>1, <1>2 DEF Inv, OneActivePerLogin
<1>7. LogoutEnds'
  <2> SUFFICES ASSUME NEW s \in Session, Active(s)' PROVE login[s] \notin over'
    BY <1>2 DEF LogoutEnds
  <2>1. Active(s) /\ Exists(s) /\ sessions[s].user # u
    BY <1>1 DEF Active
  <2>2. login[s] \notin over /\ sessions[login[s]].user = sessions[s].user
    BY <2>1 DEF Inv, LogoutEnds, LoginsExist
  <2> QED BY <1>2, <1>3, <2>1, <2>2
<1>8. RefreshedInTime'
  <2> SUFFICES ASSUME NEW s \in Session, Exists(s)', sessions'[s].next # None
               PROVE  /\ Exists(sessions[s].next)'
                      /\ sessions'[s].user = sessions'[sessions'[s].next].user
                      /\ sessions'[sessions'[s].next].expires < sessions'[s].expires + RefreshTTL
    BY DEF RefreshedInTime
  <2>1. Exists(s) /\ sessions[s].next # None /\ sessions[s].next \in Session
    BY <1>1, RowType DEF Inv, SessionRow
  <2>2. Exists(sessions[s].next)
    BY <2>1 DEF Inv, RefreshedInTime
  <2> QED BY <1>1, <2>1, <2>2 DEF Inv, RefreshedInTime, Exists
<1> QED BY <1>4, <1>5, <1>6, <1>7, <1>8 DEF Inv

\* The initial state satisfies the invariant.
LEMMA InitInv == Init => Inv
BY NoRowAssumption, IdleIsCall, SessionsAssumption
   DEF Init, Inv, TypeOK, LoginsExist, OneActivePerLogin, LogoutEnds, RefreshedInTime, Active, Exists

\* Every step keeps the invariant.
LEMMA NextInv == Inv /\ [Next]_vars => Inv'
<1> SUFFICES ASSUME Inv, [Next]_vars PROVE Inv'
  OBVIOUS
<1>1. ASSUME NEW t \in Thread, NEW u \in User, LoginIssue(t, u) PROVE Inv'
  <2>1. [phase |-> "login", user |-> u, expires |-> now + RefreshTTL] \in Call
    BY SessionsAssumption DEF Call, Inv, TypeOK
  <2> QED BY <1>1, <2>1, CallKeepsInv DEF LoginIssue
<1>2. ASSUME NEW t \in Thread, LoginCreate(t) PROVE Inv'
  BY <1>2, CreateKeepsInv
<1>3. ASSUME NEW t \in Thread, NEW s \in Session, RefreshParse(t, s) PROVE Inv'
  <2>1. [phase |-> "refresh", session |-> s, start |-> now] \in Call
    BY DEF Call, Inv, TypeOK
  <2> QED BY <1>3, <2>1, CallKeepsInv DEF RefreshParse
<1>4. ASSUME NEW t \in Thread, RefreshCommit(t) PROVE Inv'
  BY <1>4, RotateKeepsInv
<1>5. ASSUME NEW t \in Thread, RefreshRefused(t) \/ CallFails(t) PROVE Inv'
  BY <1>5, IdleIsCall, CallKeepsInv DEF RefreshRefused, CallFails
<1>6. ASSUME NEW u \in User, Logout(u) PROVE Inv'
  BY <1>6, LogoutKeepsInv
<1>7. CASE Tick \/ UNCHANGED vars
  BY <1>7 DEF Tick, vars, Inv, TypeOK, LoginsExist, OneActivePerLogin, LogoutEnds,
              RefreshedInTime, Active, Exists
<1> QED BY <1>1, <1>2, <1>3, <1>4, <1>5, <1>6, <1>7 DEF Next, Serve

\* The invariant holds of every state, for any constants.
THEOREM AlwaysInv == Spec => []Inv
<1> QED BY InitInv, NextInv, PTL DEF Spec

\* However many threads refresh the tokens of a login at a time, at most one of
\* its sessions can be refreshed (RotateRefreshSession).
THEOREM AlwaysOneActivePerLogin == Spec => []OneActivePerLogin
<1>1. Inv => OneActivePerLogin
  BY DEF Inv
<1> QED BY <1>1, AlwaysInv, PTL

\* No refresh brings back a login that RevokeActiveRefreshSessionsByUser ended.
THEOREM AlwaysLogoutEnds == Spec => []LogoutEnds
<1>1. Inv => LogoutEnds
  BY DEF Inv
<1> QED BY <1>1, AlwaysInv, PTL

\* A session is replaced before it expires, by one of the same user, whenever
\* the clock was read.
THEOREM AlwaysRefreshedInTime == Spec => []RefreshedInTime
<1>1. Inv => RefreshedInTime
  BY DEF Inv
<1> QED BY <1>1, AlwaysInv, PTL

-----------------------------------------------------------------------------
(* RefreshSessions implements SessionChains. *)

\* The tip of a chain is its only refreshable session, when it has one.
LEMMA TipOf ==
  ASSUME NEW l \in Session
  PROVE  /\ Refreshable(l) = {} => Tip[l] = None
         /\ \A s \in Session : Refreshable(l) = {s} => Tip[l] = s
BY DEF Tip

\* The same of the next state, which a proof cannot cite TipOf for.
LEMMA TipOfNext ==
  ASSUME NEW l \in Session
  PROVE  /\ Refreshable(l)' = {} => Tip'[l] = None
         /\ \A s \in Session : Refreshable(l)' = {s} => Tip'[l] = s
         /\ Refreshable(l)' = Refreshable(l) => Tip'[l] = Tip[l]
<1>1. Tip[l] = IF Refreshable(l) = {} THEN None ELSE CHOOSE s \in Refreshable(l) : TRUE
  BY DEF Tip
<1>2. Tip'[l] = IF Refreshable(l)' = {} THEN None ELSE CHOOSE s \in Refreshable(l)' : TRUE
  BY DEF Tip
<1>3. Refreshable(l)' = Refreshable(l) => Tip'[l] = Tip[l]
  BY <1>1, <1>2
<1>4. Refreshable(l)' = {} => Tip'[l] = None
  BY <1>2
<1>5. ASSUME NEW s \in Session, Refreshable(l)' = {s} PROVE Tip'[l] = s
  BY <1>2, <1>5
<1> QED BY <1>3, <1>4, <1>5

\* With its tip active, a chain has no other refreshable session.
LEMMA TipAlone ==
  ASSUME OneActivePerLogin, NEW s \in Session, Active(s)
  PROVE  Refreshable(login[s]) = {s}
BY DEF OneActivePerLogin, Refreshable

\* The tips are a function of the chains, in the next state too.
LEMMA TipType ==
  /\ Tip = [l \in Session |-> Tip[l]]
  /\ Tip' = [l \in Session |-> Tip'[l]]
BY DEF Tip

\* A login begins a chain.
LEMMA CreateBegins ==
  ASSUME Inv, NEW t \in Thread, LoginCreate(t)
  PROVE  \E l \in Session : Chains!Begin(l)
<1>1. PICK s \in Session :
        /\ ~Exists(s)
        /\ sessions'[s] \in SessionRow
        /\ sessions'[s].status = "active"
        /\ login'[s] = s
        /\ \A d \in Session \ {s} : sessions'[d] = sessions[d] /\ login'[d] = login[d]
  BY CreateEffect
<1>2. Exists(s)' /\ Active(s)' /\ ~Active(s)
  BY <1>1, NoRowAssumption DEF Exists, Active
<1>3. \A d \in Session \ {s} : (Exists(d)' <=> Exists(d)) /\ (Active(d)' <=> Active(d))
  BY <1>1 DEF Exists, Active
<1>4. \A d \in Session : Active(d) => login[d] # s
  BY <1>1 DEF Inv, LoginsExist, Active
<1>5. Refreshable(s)' = {s}
  BY <1>1, <1>2, <1>3, <1>4 DEF Refreshable
<1>6. \A l \in Session \ {s} : Refreshable(l)' = Refreshable(l)
  BY <1>1, <1>2, <1>3 DEF Refreshable
<1>7. Tip'[s] = s
  BY <1>5, TipOfNext
<1>8. \A l \in Session \ {s} : Tip'[l] = Tip[l]
  BY <1>6, TipOfNext
<1>9. Tip' = [Tip EXCEPT ![s] = s]
  BY <1>7, <1>8, TipType
<1>10. {d \in Session : Exists(d)}' = {d \in Session : Exists(d)} \cup {s}
  BY <1>2, <1>3
<1> QED BY <1>1, <1>9, <1>10 DEF Chains!Begin

\* A refresh advances a chain.
LEMMA CommitAdvances ==
  ASSUME Inv, NEW t \in Thread, RefreshCommit(t)
  PROVE  \E l, n \in Session : Chains!Advance(l, n)
<1>1. PICK s, n \in Session :
        /\ Active(s)
        /\ ~Exists(n)
        /\ sessions'[s] \in SessionRow
        /\ sessions'[s].status = "rotated"
        /\ sessions'[n] \in SessionRow
        /\ sessions'[n].status = "active"
        /\ login'[n] = login[s]
        /\ \A d \in Session \ {s, n} : sessions'[d] = sessions[d]
        /\ \A d \in Session \ {n} : login'[d] = login[d]
  BY RotateEffect
<1>2. /\ s # n /\ Exists(s) /\ Exists(s)' /\ ~Active(s)'
      /\ Exists(n)' /\ Active(n)' /\ ~Active(n)
  BY <1>1, NoRowAssumption DEF Exists, Active
<1>3. \A d \in Session \ {s, n} : (Exists(d)' <=> Exists(d)) /\ (Active(d)' <=> Active(d))
  BY <1>1 DEF Exists, Active
<1>4. PICK l \in Session : l = login[s]
  BY <1>2 DEF Inv, LoginsExist
<1>5. Refreshable(l) = {s}
  BY <1>1, <1>4, TipAlone DEF Inv
<1>6. Refreshable(l)' = {n}
  BY <1>1, <1>2, <1>3, <1>4, <1>5 DEF Refreshable
<1>7. \A k \in Session \ {l} : Refreshable(k)' = Refreshable(k)
  BY <1>1, <1>2, <1>3, <1>4 DEF Refreshable
<1>8. Tip[l] = s /\ Tip'[l] = n
  BY <1>4, <1>5, <1>6, TipOf, TipOfNext
<1>9. \A k \in Session \ {l} : Tip'[k] = Tip[k]
  BY <1>7, TipOfNext
<1>10. Tip' = [Tip EXCEPT ![l] = n]
  BY <1>8, <1>9, TipType
<1>11. {d \in Session : Exists(d)}' = {d \in Session : Exists(d)} \cup {n}
  BY <1>2, <1>3
<1>12. Tip[l] # None
  BY <1>8, SessionsAssumption
<1> QED BY <1>1, <1>4, <1>10, <1>11, <1>12 DEF Chains!Advance

\* A logout ends the chains of the user's active sessions.
LEMMA LogoutEndsChains ==
  ASSUME Inv, NEW u \in User, Logout(u)
  PROVE  \E L \in SUBSET Session : Chains!End(L)
<1> DEFINE L == {l \in Session : \E s \in Refreshable(l) : sessions[s].user = u}
<1>1. \A s \in Session : /\ Exists(s)' <=> Exists(s)
                         /\ Active(s)' <=> Active(s) /\ sessions[s].user # u
  BY LogoutEffect
<1>2. login' = login
  BY DEF Logout
<1>3. \A l \in L : Refreshable(l)' = {}
  <2> SUFFICES ASSUME NEW l \in Session, NEW s \in Refreshable(l), sessions[s].user = u
               PROVE  Refreshable(l)' = {}
    OBVIOUS
  <2>1. s \in Session /\ Active(s) /\ login[s] = l
    BY DEF Refreshable
  <2>2. \A d \in Session : Active(d) /\ login[d] = l => d = s
    BY <2>1 DEF Inv, OneActivePerLogin
  <2>3. \A d \in Session : ~(Active(d)' /\ login'[d] = l)
    BY <1>1, <1>2, <2>1, <2>2 DEF Active, Exists
  <2> QED BY <2>3 DEF Refreshable
<1>4. \A l \in Session \ L : Refreshable(l)' = Refreshable(l)
  <2> SUFFICES ASSUME NEW l \in Session, l \notin L
               PROVE  Refreshable(l)' = Refreshable(l)
    OBVIOUS
  <2>1. \A d \in Session : Active(d)' /\ login'[d] = l <=> Active(d) /\ login[d] = l
    BY <1>1, <1>2 DEF Refreshable, Active, Exists
  <2> QED BY <2>1 DEF Refreshable
<1>5. \A l \in Session : l \in L => Tip'[l] = None
  BY <1>3, TipOfNext
<1>6. \A l \in Session : l \notin L => Tip'[l] = Tip[l]
  BY <1>4, TipOfNext
<1>7. L \in SUBSET Session
  OBVIOUS
<1> HIDE DEF L
<1>8. Tip' = [l \in Session |-> IF l \in L THEN None ELSE Tip[l]]
  BY <1>5, <1>6, TipType
<1>9. {d \in Session : Exists(d)}' = {d \in Session : Exists(d)}
  <2>1. \A d \in Session : Exists(d)' <=> Exists(d)
    BY <1>1 DEF Exists
  <2> QED BY <2>1
<1> QED BY <1>7, <1>8, <1>9 DEF Chains!End

\* A step that writes no row leaves the chains alone.
LEMMA ChainsStutter ==
  ASSUME UNCHANGED <<sessions, login>>
  PROVE  UNCHANGED Chains!chains
BY DEF Chains!chains, Tip, Refreshable, Active, Exists

\* Every step begins a chain, advances one, ends some or leaves them all alone.
LEMMA StepChains == Inv /\ [Next]_vars => [Chains!Next]_(Chains!chains)
<1> SUFFICES ASSUME Inv, [Next]_vars PROVE Chains!Next \/ UNCHANGED Chains!chains
  OBVIOUS
<1>1. ASSUME NEW t \in Thread, LoginCreate(t) PROVE Chains!Next
  BY <1>1, CreateBegins DEF Chains!Next
<1>2. ASSUME NEW t \in Thread, RefreshCommit(t) PROVE Chains!Next
  BY <1>2, CommitAdvances DEF Chains!Next
<1>3. ASSUME NEW u \in User, Logout(u) PROVE Chains!Next
  BY <1>3, LogoutEndsChains DEF Chains!Next
<1>4. ASSUME NEW t \in Thread, NEW u \in User, LoginIssue(t, u) PROVE UNCHANGED Chains!chains
  BY <1>4, ChainsStutter DEF LoginIssue
<1>5. ASSUME NEW t \in Thread, NEW s \in Session, RefreshParse(t, s)
      PROVE  UNCHANGED Chains!chains
  BY <1>5, ChainsStutter DEF RefreshParse
<1>6. ASSUME NEW t \in Thread, RefreshRefused(t) \/ CallFails(t) PROVE UNCHANGED Chains!chains
  BY <1>6, ChainsStutter DEF RefreshRefused, CallFails
<1>7. CASE Tick \/ UNCHANGED vars
  BY <1>7, ChainsStutter DEF Tick, vars
<1> QED BY <1>1, <1>2, <1>3, <1>4, <1>5, <1>6, <1>7 DEF Next, Serve

\* At first there is no chain.
LEMMA InitChains == Init => Chains!Init
BY DEF Init, Chains!Init, Tip, Refreshable, Active, Exists

\* The sessions of cmd/iam implement SessionChains: a chain moves on from its
\* tip only, and one that a logout ended never comes back.
THEOREM ImplementsChains == Spec => ChainsSpec
<1> QED BY InitChains, StepChains, AlwaysInv, PTL DEF Spec, ChainsSpec, Chains!Spec

-----------------------------------------------------------------------------
(* The accounts: the inductive invariant. *)

\* No two users go by the same name (uk_users_username).
NamesUnique ==
  \A u, v \in User :
    /\ users[u] # None
    /\ users[v] # None
    /\ NameOf[users[u].owner] = NameOf[users[v].owner]
    => u = v

\* A session is of a user that exists, and lives for RefreshTTL from a moment that
\* has been: when its chain ended, for one of an ended chain.
IssuedBefore ==
  /\ \A s \in Session : Exists(s) =>
       /\ users[sessions[s].user] # None
       /\ sessions[s].expires <= now + RefreshTTL
       /\ login[s] \in over =>
            /\ ended[login[s]] \in Nat
            /\ sessions[s].expires <= ended[login[s]] + RefreshTTL
  /\ \A t \in Thread : call[t].phase = "login" =>
       /\ users[call[t].user] # None
       /\ call[t].expires <= now + RefreshTTL

\* A user of the request's person.
Owns(r) == r.user \in User /\ users[r.user] # None /\ users[r.user].owner = r.person

\* What is known of a registration or login r.
EntryKnows(r) ==
  /\ r.person \in Person
  /\ r.pc \in {"find", "create", "issue", "session", "answered"}
  /\ r.pc \in {"issue", "session"} => Owns(r)
  /\ r.op = "login" /\ r.had => \E u \in User : users[u] # None /\ users[u].owner = r.person
  /\ r.pc = "answered" =>
       /\ r.code = "ok" =>
            /\ r.session \in Session /\ Exists(r.session)
            /\ users[sessions[r.session].user].owner = r.person
       /\ r.op = "login" /\ r.code = "invalid_credential" => ~r.had
       /\ r.code = "conflict" => Named(r.person) # {}

\* What is known of a request r with a token: its session exists, and an
\* introspection came in while the access token was valid.
TokenKnows(r) ==
  /\ r.session \in Session /\ Exists(r.session)
  /\ r.pc \in {"active", "rotate", "revoke", "answered"}
  /\ r.pc = "rotate" => r.op = "refresh"
  /\ r.pc = "revoke" => r.op = "logout"
  /\ r.code # "conflict"
  /\ r.op = "introspect" =>
       /\ r.start <= now
       /\ r.start + RefreshTTL < sessions[r.session].expires + AccessTTL
       /\ r.pc = "answered" /\ r.code = "ok" =>
            \/ users[sessions[r.session].user].status = "active"
            \/ r.start <= users[sessions[r.session].user].updated

Knows(r) ==
  /\ r.op \in {"register", "login"} => EntryKnows(r)
  /\ r.op \in {"refresh", "introspect", "logout"} => TokenKnows(r)

RequestsKnow ==
  \A t \in Thread : request[t] # None =>
    /\ Knows(request[t])
    /\ request[t].pc = "session" => call[t].phase = "login" /\ call[t].user = request[t].user

AccountsInv ==
  /\ Inv
  /\ AccountsType
  /\ NamesUnique
  /\ IssuedBefore
  /\ RequestsKnow

-----------------------------------------------------------------------------
(* What the requests rest on stays as it is. *)

\* No user is removed or passed on, and one that is changed is changed now; no session
\* is removed, passed on or prolonged.
RowsKept ==
  /\ \A u \in User : users[u] # None =>
       /\ users'[u] # None
       /\ users'[u].owner = users[u].owner
       /\ users'[u] = users[u] \/ users'[u].updated = now
  /\ \A s \in Session : Exists(s) =>
       /\ Exists(s)'
       /\ sessions'[s].user = sessions[s].user
       /\ sessions'[s].expires = sessions[s].expires
  /\ now' \in Nat
  /\ now <= now'

\* What is known of a request does not pass.
LEMMA KnowsKept ==
  ASSUME AccountsInv, RowsKept, NEW r \in Request, Knows(r)
  PROVE  Knows(r)'
<1>1. ASSUME EntryKnows(r) PROVE EntryKnows(r)'
  <2>1. r.pc \in {"issue", "session"} => Owns(r)'
    BY <1>1 DEF RowsKept, EntryKnows, Owns
  <2>2. r.op = "login" /\ r.had => \E u \in User : users'[u] # None /\ users'[u].owner = r.person
    BY <1>1 DEF RowsKept, EntryKnows
  <2>3. ASSUME r.pc = "answered", r.code = "ok"
        PROVE  Exists(r.session)' /\ users'[sessions'[r.session].user].owner = r.person
    <3>1. /\ r.session \in Session /\ Exists(r.session)
          /\ users[sessions[r.session].user].owner = r.person
      BY <1>1, <2>3 DEF EntryKnows
    <3>2. sessions[r.session].user \in User /\ users[sessions[r.session].user] # None
      BY <3>1, RowType DEF AccountsInv, Inv, IssuedBefore, SessionRow
    <3> QED BY <3>1, <3>2 DEF RowsKept
  <2>4. Named(r.person) # {} => Named(r.person)' # {}
    BY DEF RowsKept, Named
  <2> QED BY <1>1, <2>1, <2>2, <2>3, <2>4 DEF EntryKnows
<1>2. ASSUME TokenKnows(r) PROVE TokenKnows(r)'
  <2>1. /\ r.session \in Session /\ Exists(r.session) /\ Exists(r.session)'
        /\ sessions'[r.session].user = sessions[r.session].user
        /\ sessions'[r.session].expires = sessions[r.session].expires
    BY <1>2 DEF RowsKept, TokenKnows
  <2>2. sessions[r.session].user \in User /\ users[sessions[r.session].user] # None
    BY <2>1, RowType DEF AccountsInv, Inv, IssuedBefore, SessionRow
  <2>3. PICK u \in User : u = sessions[r.session].user
    BY <2>2
  <2>4. users'[u] = users[u] \/ users'[u].updated = now
    BY <2>2, <2>3 DEF RowsKept
  <2>5. r.start \in Nat /\ now \in Nat /\ now' \in Nat /\ now <= now'
    BY DEF RowsKept, Request, AccountsInv, Inv, TypeOK
  <2>6. ASSUME r.op = "introspect"
        PROVE  /\ r.start <= now'
               /\ r.start + RefreshTTL < sessions'[r.session].expires + AccessTTL
               /\ r.pc = "answered" /\ r.code = "ok" =>
                    users'[u].status = "active" \/ r.start <= users'[u].updated
    <3>1. /\ r.start <= now
          /\ r.start + RefreshTTL < sessions[r.session].expires + AccessTTL
          /\ r.pc = "answered" /\ r.code = "ok" =>
               users[u].status = "active" \/ r.start <= users[u].updated
      BY <1>2, <2>3, <2>6 DEF TokenKnows
    <3>2. r.start <= now'
      BY <2>5, <3>1
    <3>3. r.pc = "answered" /\ r.code = "ok" =>
               users'[u].status = "active" \/ r.start <= users'[u].updated
      BY <2>4, <3>1
    <3> QED BY <2>1, <3>1, <3>2, <3>3
  <2> QED BY <1>2, <2>1, <2>3, <2>6 DEF TokenKnows
<1> QED BY <1>1, <1>2 DEF Knows

\* A request of a thread that serves one.
LEMMA RequestType ==
  ASSUME AccountsInv, NEW t \in Thread, request[t] # None
  PROVE  request[t] \in Request /\ Knows(request[t])
BY DEF AccountsInv, AccountsType, RequestsKnow

\* The other threads' requests stay as they are while one thread goes on to r.
LEMMA ServedStep ==
  ASSUME AccountsInv, RowsKept, TypeOK',
         users' \in [User -> UserRow \cup {None}],
         ended' \in [Session -> Nat \cup {None}],
         NEW t \in Thread, NEW r \in Request, Go(t, r), Knows(r)',
         \A o \in Thread \ {t} : call'[o] = call[o],
         call'[t].phase # "idle" <=>
           r.pc \in {"session", "rotate"} \/ (r.op = "refresh" /\ r.pc = "active"),
         r.pc = "session" => call'[t].phase = "login" /\ call'[t].user = r.user
  PROVE  AccountsType' /\ RequestsKnow'
<1>1. /\ request' \in [Thread -> Request \cup {None}]
      /\ request'[t] = r
      /\ \A o \in Thread \ {t} : request'[o] = request[o]
  BY DEF AccountsInv, AccountsType, Go
<1>2. r # None
  BY NoUserAssumption
<1>3. ASSUME NEW o \in Thread
      PROVE ~Idle(o)' <=> /\ request'[o] # None
                          /\ \/ request'[o].pc \in {"session", "rotate"}
                             \/ request'[o].op = "refresh" /\ request'[o].pc = "active"
  <2>1. CASE o = t
    BY <1>1, <1>2, <2>1 DEF Idle
  <2>2. CASE o # t
    <3>1. request'[o] = request[o] /\ call'[o] = call[o]
      BY <1>1, <2>2
    <3>2. ~Idle(o) <=> /\ request[o] # None
                       /\ \/ request[o].pc \in {"session", "rotate"}
                          \/ request[o].op = "refresh" /\ request[o].pc = "active"
      BY DEF AccountsInv, AccountsType
    <3> QED BY <3>1, <3>2 DEF Idle
  <2> QED BY <2>1, <2>2
<1>4. AccountsType'
  BY <1>1, <1>3 DEF AccountsType
<1>5. ASSUME NEW o \in Thread, request'[o] # None
      PROVE  /\ Knows(request[o])'
             /\ request'[o].pc = "session" =>
                  call'[o].phase = "login" /\ call'[o].user = request'[o].user
  <2>1. CASE o = t
    BY <1>1, <2>1 DEF Knows, EntryKnows, TokenKnows, Owns, Named, Exists
  <2>2. CASE o # t
    <3>1. request'[o] = request[o] /\ call'[o] = call[o] /\ request[o] # None
      BY <1>1, <1>5, <2>2
    <3>2. PICK q \in Request : q = request[o] /\ Knows(q)
      BY <3>1, RequestType
    <3>3. Knows(q)'
      BY <3>2, KnowsKept
    <3>4. Knows(request[o])'
      BY <3>1, <3>2, <3>3 DEF Knows, EntryKnows, TokenKnows, Owns, Named, Exists
    <3> QED BY <3>1, <3>4 DEF AccountsInv, RequestsKnow
  <2> QED BY <2>1, <2>2
<1> QED BY <1>4, <1>5 DEF RequestsKnow

-----------------------------------------------------------------------------
(* Every step is one of RefreshSessions. *)

\* A step of the service does one thing to the sessions, or nothing.
LEMMA ThreadSteps ==
  ASSUME AccountsInv, NEW t \in Thread, AccountStep(t)
  PROVE  [Next]_vars
<1>1. ASSUME NEW p \in Person, RegisterOrLogin(t, p) PROVE UNCHANGED vars
  BY <1>1 DEF RegisterOrLogin
<1>2. ASSUME NEW s \in Session, Refresh(t, s) PROVE Next
  BY <1>2 DEF Refresh, Next, Serve
<1>3. ASSUME NEW s \in Session, Introspect(t, s) \/ Auth(t, s) PROVE UNCHANGED vars
  BY <1>3, Zenon DEF Introspect, Auth
<1>4. CASE FindByUsername(t) \/ Create(t) \/ EnsureActive(t)
  BY <1>4 DEF FindByUsername, Create, EnsureActive
<1>5. CASE IssueToken(t)
  <2>1. request[t] # None /\ request[t].pc = "issue"
    BY <1>5 DEF IssueToken, At
  <2>2. request[t] \in Request /\ Knows(request[t])
    BY <2>1, RequestType
  <2>3. request[t].user \in User
    BY <2>1, <2>2 DEF Knows, EntryKnows, TokenKnows, Owns, Request
  <2> QED BY <1>5, <2>3 DEF IssueToken, Next, Serve
<1>6. CASE CreateRefreshSession(t)
  BY <1>6 DEF CreateRefreshSession, Next, Serve
<1>7. CASE RefreshEnsureActive(t)
  <2>1. request[t] # None /\ request[t].op = "refresh" /\ request[t].pc = "active"
    BY <1>7 DEF RefreshEnsureActive, At
  <2>2. ~Idle(t)
    BY <2>1 DEF AccountsInv, AccountsType
  <2>3. CASE Become(t, IdleCall)
    <3>1. CallFails(t)
      BY <1>7, <2>2, <2>3 DEF RefreshEnsureActive, CallFails
    <3> QED BY <3>1 DEF Next, Serve
  <2>4. CASE UNCHANGED call
    BY <1>7, <2>4 DEF RefreshEnsureActive, vars
  <2> QED BY <1>7, <2>3, <2>4 DEF RefreshEnsureActive
<1>8. CASE RotateRefreshToken(t)
  BY <1>8 DEF RotateRefreshToken, Next, Serve
<1>9. CASE LogoutUser(t)
  <2>1. request[t] # None /\ request[t].pc = "revoke"
    BY <1>9 DEF LogoutUser, At
  <2>2. request[t] \in Request /\ Knows(request[t])
    BY <2>1, RequestType
  <2>3. request[t].session \in Session /\ Exists(request[t].session)
    BY <2>1, <2>2 DEF Knows, EntryKnows, TokenKnows, Request
  <2>4. sessions[request[t].session].user \in User
    BY <2>3, RowType DEF AccountsInv, Inv, SessionRow
  <2> QED BY <1>9, <2>4 DEF LogoutUser, Next
<1>10. CASE RequestFails(t)
  BY <1>10 DEF RequestFails, Next, Serve
<1> QED BY <1>1, <1>2, <1>3, <1>4, <1>5, <1>6, <1>7, <1>8, <1>9, <1>10 DEF AccountStep

LEMMA AccountsSteps ==
  ASSUME AccountsInv, [AccountsNext]_accountVars
  PROVE  [Next]_vars
<1>1. ASSUME NEW t \in Thread, AccountStep(t) PROVE [Next]_vars
  BY <1>1, ThreadSteps
<1>2. ASSUME NEW u \in User, Disable(u) PROVE [Next]_vars
  BY <1>2 DEF Disable
<1>3. CASE Tick
  BY <1>3 DEF Next
<1>4. CASE UNCHANGED accountVars
  BY <1>4 DEF accountVars
<1> QED BY <1>1, <1>2, <1>3, <1>4 DEF AccountsNext

-----------------------------------------------------------------------------
(* The rows are kept. *)

\* A step on the sessions removes none, passes none on and prolongs none.
LEMMA SessionsKept ==
  ASSUME Inv, [Next]_vars
  PROVE  /\ \A s \in Session : Exists(s) =>
              /\ Exists(s)'
              /\ sessions'[s].user = sessions[s].user
              /\ sessions'[s].expires = sessions[s].expires
         /\ now' \in Nat
         /\ now <= now'
<1>1. ASSUME NEW t \in Thread, NEW u \in User, LoginIssue(t, u)
      PROVE  UNCHANGED <<sessions, now>>
  BY <1>1 DEF LoginIssue
<1>2. ASSUME NEW t \in Thread, NEW s \in Session, RefreshParse(t, s)
      PROVE  UNCHANGED <<sessions, now>>
  BY <1>2 DEF RefreshParse
<1>3. ASSUME NEW t \in Thread, RefreshRefused(t) \/ CallFails(t)
      PROVE  UNCHANGED <<sessions, now>>
  BY <1>3 DEF RefreshRefused, CallFails
<1>4. CASE UNCHANGED <<sessions, now>>
  BY <1>4 DEF Inv, TypeOK, Exists
<1>5. ASSUME NEW t \in Thread, LoginCreate(t)
      PROVE  /\ \A s \in Session : Exists(s) =>
                  /\ Exists(s)'
                  /\ sessions'[s].user = sessions[s].user
                  /\ sessions'[s].expires = sessions[s].expires
             /\ now' = now
  <2>1. PICK n \in Session :
          ~Exists(n) /\ \A d \in Session \ {n} : sessions'[d] = sessions[d]
    BY <1>5, CreateEffect
  <2> QED BY <1>5, <2>1 DEF LoginCreate, Exists
<1>6. ASSUME NEW t \in Thread, RefreshCommit(t)
      PROVE  /\ \A s \in Session : Exists(s) =>
                  /\ Exists(s)'
                  /\ sessions'[s].user = sessions[s].user
                  /\ sessions'[s].expires = sessions[s].expires
             /\ now' = now
  <2>1. PICK o, n \in Session :
          /\ ~Exists(n)
          /\ sessions'[o] \in SessionRow
          /\ sessions'[o].user = sessions[o].user
          /\ sessions'[o].expires = sessions[o].expires
          /\ \A d \in Session \ {o, n} : sessions'[d] = sessions[d]
    BY <1>6, RotateEffect
  <2> QED BY <1>6, <2>1, NoRowAssumption DEF RefreshCommit, Exists
<1>7. ASSUME NEW u \in User, Logout(u)
      PROVE  /\ \A s \in Session : Exists(s) =>
                  /\ Exists(s)'
                  /\ sessions'[s].user = sessions[s].user
                  /\ sessions'[s].expires = sessions[s].expires
             /\ now' = now
  BY <1>7, LogoutEffect DEF Logout
<1>8. CASE Tick
  BY <1>8 DEF Tick, Inv, TypeOK, Exists
<1>9. now \in Nat
  BY DEF Inv, TypeOK
<1> QED BY <1>1, <1>2, <1>3, <1>4, <1>5, <1>6, <1>7, <1>8, <1>9 DEF Next, Serve, vars

\* A user is created active, under a name that no user has.
LEMMA CreateUser ==
  ASSUME AccountsInv, NEW t \in Thread, Create(t), users' # users
  PROVE  \E u \in User :
           /\ users[u] = None
           /\ users'[u] \in UserRow
           /\ users'[u].owner = request[t].person
           /\ \A v \in User \ {u} : users'[v] = users[v]
           /\ users' \in [User -> UserRow \cup {None}]
           /\ Named(request[t].person) = {}
           /\ Go(t, [request[t] EXCEPT !.pc = "issue", !.user = u])
<1>1. request[t] # None /\ request[t].pc = "create"
  BY DEF Create, At
<1>2. request[t] \in Request /\ Knows(request[t])
  BY <1>1, RequestType
<1>3. request[t].person \in Person
  BY <1>1, <1>2 DEF Knows, EntryKnows, TokenKnows, Request
<1>4. PICK p \in Person : p = request[t].person
  BY <1>3
<1>5. NewUser(p) \in UserRow /\ NewUser(p).owner = p
  BY DEF NewUser, UserRow, AccountsInv, Inv, TypeOK
<1>6. PICK row \in UserRow : row = NewUser(p)
  BY <1>5
<1>7. PICK u \in User :
        /\ users[u] = None
        /\ users' = [users EXCEPT ![u] = row]
        /\ Go(t, [request[t] EXCEPT !.pc = "issue", !.user = u])
        /\ ~Taken(p)
  BY <1>4, <1>6 DEF Create
<1>8. users \in [User -> UserRow \cup {None}]
  BY DEF AccountsInv, AccountsType
<1>9. Named(p) = {}
  BY <1>7 DEF Taken
<1> QED BY <1>4, <1>5, <1>6, <1>7, <1>8, <1>9

\* The only other step that changes users disables one, now.
LEMMA DisableUser ==
  ASSUME AccountsInv, NEW u \in User, Disable(u)
  PROVE  /\ users[u] # None
         /\ users'[u] \in UserRow
         /\ users'[u].owner = users[u].owner
         /\ users'[u].updated = now
         /\ \A v \in User \ {u} : users'[v] = users[v]
         /\ users' \in [User -> UserRow \cup {None}]
<1>1. users \in [User -> UserRow \cup {None}] /\ now \in Nat
  BY DEF AccountsInv, AccountsType, Inv, TypeOK
<1>2. users[u] \in UserRow /\ users[u] # None
  BY <1>1 DEF Disable
<1> DEFINE row == [users[u] EXCEPT !.status = "disabled", !.updated = now]
<1>3. row \in UserRow /\ row.owner = users[u].owner /\ row.updated = now
  BY <1>1, <1>2 DEF UserRow
<1>4. users' = [users EXCEPT ![u] = row]
  BY <1>1 DEF Disable
<1> HIDE DEF row
<1> QED BY <1>1, <1>2, <1>3, <1>4

\* Only these two steps change users.
LEMMA OtherSteps ==
  ASSUME [AccountsNext]_accountVars,
         \A t \in Thread : ~Create(t), \A u \in User : ~Disable(u)
  PROVE  users' = users
BY DEF AccountsNext, AccountStep, accountVars, RegisterOrLogin, Refresh, Introspect, Auth,
       FindByUsername, IssueToken, CreateRefreshSession, RefreshEnsureActive, EnsureActive,
       RotateRefreshToken, LogoutUser, RequestFails

\* The users' part of RowsKept, and unique names.
LEMMA UsersKept ==
  ASSUME AccountsInv, [AccountsNext]_accountVars
  PROVE  /\ \A u \in User : users[u] # None =>
              /\ users'[u] # None
              /\ users'[u].owner = users[u].owner
              /\ users'[u] = users[u] \/ users'[u].updated = now
         /\ users' \in [User -> UserRow \cup {None}]
         /\ NamesUnique'
<1>1. CASE users' = users
  BY <1>1 DEF AccountsInv, AccountsType, NamesUnique
<1>2. ASSUME users' # users, NEW t \in Thread, Create(t)
      PROVE  /\ \A u \in User : users[u] # None =>
                  /\ users'[u] # None
                  /\ users'[u].owner = users[u].owner
                  /\ users'[u] = users[u] \/ users'[u].updated = now
             /\ users' \in [User -> UserRow \cup {None}]
             /\ NamesUnique'
  <2>1. PICK u \in User :
          /\ users[u] = None
          /\ users'[u] \in UserRow
          /\ users'[u].owner = request[t].person
          /\ \A v \in User \ {u} : users'[v] = users[v]
          /\ users' \in [User -> UserRow \cup {None}]
          /\ Named(request[t].person) = {}
    BY <1>2, CreateUser
  <2>2. \A v \in User \ {u} : users'[v] # None => NameOf[users'[v].owner] # NameOf[users'[u].owner]
    BY <2>1 DEF Named
  <2>3. NamesUnique'
    BY <2>1, <2>2 DEF AccountsInv, NamesUnique
  <2> QED BY <2>1, <2>3
<1>3. ASSUME NEW u \in User, Disable(u)
      PROVE  /\ \A v \in User : users[v] # None =>
                  /\ users'[v] # None
                  /\ users'[v].owner = users[v].owner
                  /\ users'[v] = users[v] \/ users'[v].updated = now
             /\ users' \in [User -> UserRow \cup {None}]
             /\ NamesUnique'
  <2>1. /\ users[u] # None
        /\ users'[u] \in UserRow
        /\ users'[u].owner = users[u].owner
        /\ users'[u].updated = now
        /\ \A v \in User \ {u} : users'[v] = users[v]
        /\ users' \in [User -> UserRow \cup {None}]
    BY <1>3, DisableUser
  <2>2. \A v \in User : /\ users'[v] # None <=> users[v] # None
                        /\ users[v] # None => users'[v].owner = users[v].owner
    BY <2>1, NoUserAssumption
  <2>3. NamesUnique'
    BY <2>2 DEF AccountsInv, NamesUnique
  <2> QED BY <2>1, <2>2, <2>3
<1> QED BY <1>1, <1>2, <1>3, OtherSteps

LEMMA AllRowsKept ==
  ASSUME AccountsInv, [AccountsNext]_accountVars
  PROVE  RowsKept
BY SessionsKept, UsersKept, AccountsSteps DEF AccountsInv, RowsKept

-----------------------------------------------------------------------------
(* The clock and the sessions. *)

\* A thread that turns to another call has no influence on the sessions.
LEMMA IssuedStays ==
  ASSUME AccountsInv, RowsKept, UNCHANGED <<sessions, login, over, ended>>,
         NEW t \in Thread, NEW c \in Call,
         c.phase = "login" =>
           c.user \in User /\ users[c.user] # None /\ c.expires = now + RefreshTTL,
         \/ UNCHANGED call
         \/ Become(t, c)
  PROVE  IssuedBefore'
<1>1. /\ now \in Nat /\ now' \in Nat /\ now <= now' /\ RefreshTTL \in Nat
      /\ call \in [Thread -> Call]
      /\ \A u \in User : users[u] # None => users'[u] # None
  BY SessionsAssumption DEF RowsKept, AccountsInv, Inv, TypeOK
<1>2. ASSUME NEW s \in Session, Exists(s)'
      PROVE  /\ users'[sessions'[s].user] # None
             /\ sessions'[s].expires <= now' + RefreshTTL
             /\ login'[s] \in over' =>
                  /\ ended'[login'[s]] \in Nat
                  /\ sessions'[s].expires <= ended'[login'[s]] + RefreshTTL
  <2>1. Exists(s) /\ sessions[s] \in SessionRow
    BY <1>2, RowType DEF Exists, AccountsInv, Inv
  <2>2. sessions[s].user \in User /\ sessions[s].expires \in Nat
    BY <2>1 DEF SessionRow
  <2>3. /\ users[sessions[s].user] # None
        /\ sessions[s].expires <= now + RefreshTTL
        /\ login[s] \in over =>
             /\ ended[login[s]] \in Nat
             /\ sessions[s].expires <= ended[login[s]] + RefreshTTL
    BY <2>1 DEF AccountsInv, IssuedBefore
  <2> QED BY <1>1, <2>2, <2>3
<1>3. ASSUME NEW o \in Thread, call'[o].phase = "login"
      PROVE  users'[call'[o].user] # None /\ call'[o].expires <= now' + RefreshTTL
  <2>1. CASE call'[o] = call[o]
    <3>1. /\ users[call[o].user] # None /\ call[o].user \in User
          /\ call[o].expires <= now + RefreshTTL /\ call[o].expires \in Nat
      BY <1>1, <1>3, <2>1, CallKinds DEF AccountsInv, IssuedBefore
    <3> QED BY <1>1, <2>1, <3>1
  <2>2. CASE call'[o] = c
    BY <1>1, <1>3, <2>2
  <2> QED BY <1>1, <2>1, <2>2 DEF Become
<1> QED BY <1>2, <1>3 DEF IssuedBefore

\* Every session and every login under way is of a user, and as old as it looks; those
\* of an ended chain are older than its end.
LEMMA CreateIssued ==
  ASSUME AccountsInv, RowsKept, NEW t \in Thread, LoginCreate(t), UNCHANGED ended
  PROVE  IssuedBefore'
<1>1. PICK n \in Session :
        /\ ~Exists(n)
        /\ sessions'[n] \in SessionRow
        /\ sessions'[n].user = call[t].user
        /\ sessions'[n].expires = call[t].expires
        /\ login'[n] = n
        /\ \A d \in Session \ {n} : sessions'[d] = sessions[d] /\ login'[d] = login[d]
  BY CreateEffect DEF AccountsInv
<1>2. /\ call[t].phase = "login" /\ call[t].user \in User
      /\ users[call[t].user] # None /\ call[t].expires <= now + RefreshTTL
  BY CallKinds DEF LoginCreate, AccountsInv, IssuedBefore, Inv, TypeOK
<1>3. now' = now /\ over' = over /\ ended' = ended
  BY DEF LoginCreate
<1>4. \A u \in User : users[u] # None => users'[u] # None
  BY DEF RowsKept
<1>5. n \notin over
  BY <1>1 DEF AccountsInv, Inv, LoginsExist
<1>6. ASSUME NEW s \in Session, Exists(s)'
      PROVE  /\ users'[sessions'[s].user] # None
             /\ sessions'[s].expires <= now' + RefreshTTL
             /\ login'[s] \in over' =>
                  /\ ended'[login'[s]] \in Nat
                  /\ sessions'[s].expires <= ended'[login'[s]] + RefreshTTL
  <2>1. CASE s = n
    BY <1>1, <1>2, <1>3, <1>4, <1>5, <2>1
  <2>2. CASE s # n
    <3>1. /\ Exists(s) /\ sessions'[s] = sessions[s] /\ login'[s] = login[s]
          /\ sessions[s].user \in User
      BY <1>1, <1>6, <2>2, RowType DEF Exists, AccountsInv, Inv, SessionRow
    <3> QED BY <1>3, <1>4, <3>1 DEF AccountsInv, IssuedBefore
  <2> QED BY <2>1, <2>2
<1>7. ASSUME NEW o \in Thread, call'[o].phase = "login"
      PROVE  users'[call'[o].user] # None /\ call'[o].expires <= now' + RefreshTTL
  <2>1. call'[o] = call[o]
    BY <1>7, IdleIsCall DEF LoginCreate, Become, AccountsInv, Inv, TypeOK, IdleCall
  <2>2. call[o].user \in User
    BY <1>7, <2>1, CallKinds DEF AccountsInv, Inv, TypeOK
  <2> QED BY <1>3, <1>4, <1>7, <2>1, <2>2 DEF AccountsInv, IssuedBefore
<1> QED BY <1>6, <1>7 DEF IssuedBefore

LEMMA RotateIssued ==
  ASSUME AccountsInv, RowsKept, NEW t \in Thread, RefreshCommit(t), UNCHANGED ended
  PROVE  IssuedBefore'
<1>1. PICK o, n \in Session :
        /\ Active(o)
        /\ ~Exists(n)
        /\ sessions'[o] \in SessionRow
        /\ sessions'[o].user = sessions[o].user
        /\ sessions'[o].expires = sessions[o].expires
        /\ sessions'[n] \in SessionRow
        /\ sessions'[n].user = sessions[o].user
        /\ sessions'[n].expires <= now + RefreshTTL
        /\ login'[n] = login[o]
        /\ \A d \in Session \ {o, n} : sessions'[d] = sessions[d]
        /\ \A d \in Session \ {n} : login'[d] = login[d]
  BY RotateEffect DEF AccountsInv
<1>2. /\ Exists(o) /\ sessions[o].user \in User /\ users[sessions[o].user] # None
      /\ login[o] \notin over
  BY <1>1, RowType DEF Active, AccountsInv, Inv, LogoutEnds, IssuedBefore, SessionRow
<1>3. now' = now /\ over' = over /\ ended' = ended
  BY DEF RefreshCommit
<1>4. \A u \in User : users[u] # None => users'[u] # None
  BY DEF RowsKept
<1>5. ASSUME NEW s \in Session, Exists(s)'
      PROVE  /\ users'[sessions'[s].user] # None
             /\ sessions'[s].expires <= now' + RefreshTTL
             /\ login'[s] \in over' =>
                  /\ ended'[login'[s]] \in Nat
                  /\ sessions'[s].expires <= ended'[login'[s]] + RefreshTTL
  <2>1. CASE s = n
    BY <1>1, <1>2, <1>3, <1>4, <2>1
  <2>2. CASE s # n
    <3>1. /\ Exists(s) /\ login'[s] = login[s] /\ sessions[s].user \in User
          /\ sessions'[s].user = sessions[s].user /\ sessions'[s].expires = sessions[s].expires
      BY <1>1, <1>2, <1>5, <2>2, RowType DEF Exists, AccountsInv, Inv, SessionRow
    <3> QED BY <1>3, <1>4, <3>1 DEF AccountsInv, IssuedBefore
  <2> QED BY <2>1, <2>2
<1>6. ASSUME NEW r \in Thread, call'[r].phase = "login"
      PROVE  users'[call'[r].user] # None /\ call'[r].expires <= now' + RefreshTTL
  <2>1. call'[r] = call[r]
    BY <1>6, IdleIsCall DEF RefreshCommit, Become, AccountsInv, Inv, TypeOK, IdleCall
  <2>2. call[r].user \in User
    BY <1>6, <2>1, CallKinds DEF AccountsInv, Inv, TypeOK
  <2> QED BY <1>3, <1>4, <1>6, <2>1, <2>2 DEF AccountsInv, IssuedBefore
<1> QED BY <1>5, <1>6 DEF IssuedBefore

\* At a logout the sessions of the chains it ends are no older than now.
LEMMA LogoutIssued ==
  ASSUME AccountsInv, RowsKept, NEW u \in User, Logout(u),
         ended' = [l \in Session |-> IF l \in over' \ over THEN now ELSE ended[l]]
  PROVE  IssuedBefore' /\ ended' \in [Session -> Nat \cup {None}]
<1>1. /\ now' = now /\ call' = call /\ login' = login
      /\ over' = over \cup {login[s] : s \in OfUser(u)}
      /\ now \in Nat
      /\ ended \in [Session -> Nat \cup {None}]
  BY DEF Logout, AccountsInv, AccountsType, Inv, TypeOK
<1>2. \A s \in Session : /\ Exists(s)' <=> Exists(s)
                         /\ Exists(s) => /\ sessions'[s].user = sessions[s].user
                                         /\ sessions'[s].expires = sessions[s].expires
  BY LogoutEffect DEF AccountsInv
<1>3. \A v \in User : users[v] # None => users'[v] # None
  BY DEF RowsKept
<1>4. ASSUME NEW s \in Session, Exists(s)'
      PROVE  /\ users'[sessions'[s].user] # None
             /\ sessions'[s].expires <= now' + RefreshTTL
             /\ login'[s] \in over' =>
                  /\ ended'[login'[s]] \in Nat
                  /\ sessions'[s].expires <= ended'[login'[s]] + RefreshTTL
  <2>1. /\ Exists(s) /\ sessions'[s].user = sessions[s].user /\ sessions[s].user \in User
        /\ sessions'[s].expires = sessions[s].expires
        /\ login[s] \in Session
    BY <1>2, <1>4, RowType DEF AccountsInv, Inv, LoginsExist, SessionRow
  <2>2. /\ users[sessions[s].user] # None
        /\ sessions[s].expires <= now + RefreshTTL
        /\ login[s] \in over =>
             /\ ended[login[s]] \in Nat
             /\ sessions[s].expires <= ended[login[s]] + RefreshTTL
    BY <2>1 DEF AccountsInv, IssuedBefore
  <2>3. ended'[login[s]] = IF login[s] \in over' \ over THEN now ELSE ended[login[s]]
    BY <2>1
  <2> QED BY <1>1, <1>3, <2>1, <2>2, <2>3
<1>5. ASSUME NEW r \in Thread, call'[r].phase = "login"
      PROVE  users'[call'[r].user] # None /\ call'[r].expires <= now' + RefreshTTL
  <2>1. call'[r] = call[r]
    BY <1>1
  <2>2. call[r].user \in User
    BY <1>5, <2>1, CallKinds DEF AccountsInv, Inv, TypeOK
  <2> QED BY <1>1, <1>3, <1>5, <2>1, <2>2 DEF AccountsInv, IssuedBefore
<1>6. ended' \in [Session -> Nat \cup {None}]
  BY <1>1
<1> QED BY <1>4, <1>5, <1>6 DEF IssuedBefore

-----------------------------------------------------------------------------
(* The requests. *)

\* What every step of a thread leaves, for the lemmas below.
LEMMA ThreadKept ==
  ASSUME AccountsInv, NEW t \in Thread, AccountStep(t)
  PROVE  /\ RowsKept
         /\ Inv'
         /\ TypeOK'
         /\ users' \in [User -> UserRow \cup {None}]
         /\ NamesUnique'
<1>1. [AccountsNext]_accountVars
  BY DEF AccountsNext
<1>2. Inv'
  BY <1>1, AccountsSteps, NextInv DEF AccountsInv
<1> QED BY <1>1, <1>2, AllRowsKept, UsersKept DEF Inv

\* A thread has a call exactly while its request is at the session table.
LEMMA BusyWhen ==
  ASSUME AccountsInv, NEW t \in Thread
  PROVE  /\ Free(t) => call[t].phase = "idle"
         /\ request[t] # None =>
              (call[t].phase # "idle" <=>
                 request[t].pc \in {"session", "rotate"}
                   \/ (request[t].op = "refresh" /\ request[t].pc = "active"))
BY DEF AccountsInv, AccountsType, Free, At, Idle

\* A request that came in.
LEMMA ArrivalType ==
  ASSUME AccountsInv, NEW op \in {"register", "login", "refresh", "introspect", "logout"},
         NEW pc \in {"find", "active", "revoke"}, NEW p \in Person \cup {None},
         NEW s \in Session \cup {None}
  PROVE  Arrival(op, pc, p, s) \in Request
<1>1. (IF op = "introspect" THEN now ELSE 0) \in Nat
  BY DEF AccountsInv, Inv, TypeOK
<1>2. (op = "login" /\ HasAccount(p)) \in BOOLEAN
  OBVIOUS
<1> QED BY <1>1, <1>2 DEF Arrival, Request

\* r is the request of thread t, but for its progress.
Continues(t, r) ==
  /\ r.op = request[t].op
  /\ r.person = request[t].person
  /\ r.start = request[t].start
  /\ r.had = request[t].had

\* An answer to a request.
LEMMA AnswerType ==
  ASSUME AccountsInv, NEW t \in Thread, request[t] # None,
         NEW c \in {"ok", "conflict", "invalid_credential", "inactive_user", "unauthorized",
                    "dependency"},
         Answer(t, c)
  PROVE  \E r \in Request :
           /\ Go(t, r) /\ Continues(t, r)
           /\ r.session = request[t].session /\ r.pc = "answered" /\ r.code = c
<1>1. request[t] \in Request
  BY RequestType
<1>2. PICK r : r = [request[t] EXCEPT !.pc = "answered", !.code = c]
  OBVIOUS
<1>3. r \in Request
  BY <1>1, <1>2 DEF Request
<1>4. Go(t, r)
  BY <1>2 DEF Answer
<1>5. /\ r.session = request[t].session /\ r.pc = "answered" /\ r.code = c
      /\ Continues(t, r)
  BY <1>1, <1>2, SMTT(30) DEF Request, Continues
<1> QED BY <1>3, <1>4, <1>5

\* An answer with a new session.
LEMMA GivenType ==
  ASSUME AccountsInv, NEW t \in Thread, request[t] # None, NEW s \in Session, Given(t, s)
  PROVE  \E r \in Request :
           /\ Go(t, r) /\ Continues(t, r)
           /\ r.session = s /\ r.pc = "answered" /\ r.code = "ok"
<1>1. request[t] \in Request
  BY RequestType
<1>2. PICK r : r = [request[t] EXCEPT !.pc = "answered", !.code = "ok", !.session = s]
  OBVIOUS
<1>3. r \in Request
  BY <1>1, <1>2 DEF Request
<1>4. Go(t, r)
  BY <1>2 DEF Given
<1>5. r.session = s /\ r.pc = "answered" /\ r.code = "ok" /\ Continues(t, r)
  BY <1>1, <1>2, SMTT(30) DEF Request, Continues
<1> QED BY <1>3, <1>4, <1>5

\* A request comes in: with a person, or with a token that is valid now.
LEMMA ArrivalKeeps ==
  ASSUME AccountsInv, NEW t \in Thread,
         \/ \E p \in Person : RegisterOrLogin(t, p)
         \/ \E s \in Session : Introspect(t, s) \/ Auth(t, s)
  PROVE  IssuedBefore' /\ AccountsType' /\ RequestsKnow'
<1>1. AccountStep(t)
  BY DEF AccountStep
<1>2. /\ RowsKept /\ TypeOK' /\ users' \in [User -> UserRow \cup {None}]
  BY <1>1, ThreadKept
<1>3. UNCHANGED <<vars, users, ended>> /\ Free(t)
  BY DEF RegisterOrLogin, Introspect, Auth
<1>4. IssuedBefore'
  BY <1>2, <1>3, IssuedStays, IdleIsCall DEF vars, IdleCall
<1>5. call'[t].phase = "idle" /\ \A o \in Thread \ {t} : call'[o] = call[o]
  BY <1>3, BusyWhen DEF vars
<1>6. ended' \in [Session -> Nat \cup {None}]
  BY <1>3 DEF AccountsInv, AccountsType
<1>7. ASSUME NEW p \in Person, RegisterOrLogin(t, p)
      PROVE  AccountsType' /\ RequestsKnow'
  <2>1. PICK op \in {"register", "login"} : Go(t, Arrival(op, "find", p, None))
    BY <1>7 DEF RegisterOrLogin
  <2>2. PICK r \in Request :
          /\ r = Arrival(op, "find", p, None)
          /\ r.op = op /\ r.pc = "find" /\ r.person = p /\ r.code = "none"
          /\ r.had = (op = "login" /\ HasAccount(p))
    <3>1. Arrival(op, "find", p, None) \in Request
      BY ArrivalType
    <3> QED BY <3>1 DEF Arrival
  <2>3. Go(t, r)
    BY <2>1, <2>2
  <2>4. Knows(r)'
    BY <1>3, <2>2 DEF Knows, EntryKnows, HasAccount
  <2> QED BY <1>2, <1>5, <1>6, <2>2, <2>3, <2>4, ServedStep
<1>8. ASSUME NEW s \in Session, NEW op \in {"introspect", "logout"},
             NEW pc \in {"active", "revoke"}, pc = "revoke" => op = "logout",
             HasAccess(s), Go(t, Arrival(op, pc, None, s))
      PROVE  AccountsType' /\ RequestsKnow'
  <2>1. PICK r \in Request :
          /\ r = Arrival(op, pc, None, s)
          /\ r.op = op /\ r.pc = pc /\ r.session = s /\ r.code = "none"
          /\ r.start = IF op = "introspect" THEN now ELSE 0
    <3>1. Arrival(op, pc, None, s) \in Request
      BY ArrivalType
    <3> QED BY <3>1 DEF Arrival
  <2>2. Go(t, r)
    BY <1>8, <2>1
  <2>3. /\ Exists(s) /\ now < sessions[s].expires - RefreshTTL + AccessTTL
        /\ sessions[s].expires \in Nat /\ now \in Nat
    BY <1>8, RowType DEF HasAccess, AccessUntil, AccountsInv, Inv, TypeOK, SessionRow
  <2>4. now + RefreshTTL < sessions[s].expires + AccessTTL
    BY <2>3, SessionsAssumption, AccountsAssumption
  <2>5. now <= now
    BY <2>3
  <2>6. Knows(r)'
    BY <1>3, <1>8, <2>1, <2>3, <2>4, <2>5 DEF Knows, TokenKnows, vars, Exists
  <2> QED BY <1>2, <1>5, <1>6, <2>1, <2>2, <2>6, ServedStep
<1>9. ASSUME NEW s \in Session, Introspect(t, s) \/ Auth(t, s)
      PROVE  AccountsType' /\ RequestsKnow'
  BY <1>8, <1>9 DEF Introspect, Auth
<1> QED BY <1>4, <1>7, <1>9

\* A refresh comes in.
LEMMA RefreshKeeps ==
  ASSUME AccountsInv, NEW t \in Thread, NEW s \in Session, Refresh(t, s)
  PROVE  IssuedBefore' /\ AccountsType' /\ RequestsKnow'
<1>1. /\ RowsKept /\ TypeOK' /\ users' \in [User -> UserRow \cup {None}]
  BY ThreadKept DEF AccountStep
<1>2. UNCHANGED <<sessions, now, login, over, users, ended>> /\ Exists(s)
  BY DEF Refresh, RefreshParse
<1>3. PICK c \in Call : c = [phase |-> "refresh", session |-> s, start |-> now]
  BY DEF Call, AccountsInv, Inv, TypeOK
<1>4. Become(t, c) /\ c.phase = "refresh"
  BY <1>3 DEF Refresh, RefreshParse
<1>5. IssuedBefore'
  BY <1>1, <1>2, <1>4, IssuedStays
<1>6. call'[t].phase = "refresh" /\ \A o \in Thread \ {t} : call'[o] = call[o]
  BY <1>4, BecomeCalls DEF AccountsInv, Inv, TypeOK
<1>7. ended' \in [Session -> Nat \cup {None}]
  BY <1>2 DEF AccountsInv, AccountsType
<1>8. PICK r \in Request :
        /\ r = Arrival("refresh", "active", None, s)
        /\ r.op = "refresh" /\ r.pc = "active" /\ r.session = s /\ r.code = "none"
  <2>1. Arrival("refresh", "active", None, s) \in Request
    BY ArrivalType
  <2> QED BY <2>1 DEF Arrival
<1>9. Go(t, r)
  BY <1>8 DEF Refresh
<1>10. Knows(r)'
  BY <1>2, <1>8 DEF Knows, TokenKnows, Exists
<1> QED BY <1>1, <1>5, <1>6, <1>7, <1>8, <1>9, <1>10, ServedStep

\* The look at the users' names.  A login that is refused is not of a person with an
\* account: the account would be the one that was found.
LEMMA FindKeeps ==
  ASSUME AccountsInv, NEW t \in Thread, FindByUsername(t)
  PROVE  IssuedBefore' /\ AccountsType' /\ RequestsKnow'
<1>1. /\ RowsKept /\ TypeOK' /\ users' \in [User -> UserRow \cup {None}]
  BY ThreadKept DEF AccountStep
<1>2. UNCHANGED <<vars, users, ended>>
  BY DEF FindByUsername
<1>3. IssuedBefore'
  <2>1. IdleCall.phase # "login"
    BY DEF IdleCall
  <2>2. UNCHANGED vars /\ UNCHANGED ended
    BY <1>2
  <2>3. UNCHANGED <<sessions, login, over, ended>> /\ UNCHANGED call
    BY <2>2 DEF vars
  <2> QED BY <1>1, <2>1, <2>3, IssuedStays, IdleIsCall
<1> SUFFICES AccountsType' /\ RequestsKnow'
  BY <1>3
<1>4. /\ request[t] # None /\ request[t].pc = "find"
      /\ request[t] \in Request /\ Knows(request[t])
      /\ request[t].op \in {"register", "login"}
  BY RequestType DEF FindByUsername, At
<1>5. PICK p \in Person : p = request[t].person
  BY <1>4 DEF Knows, EntryKnows
<1>6. call'[t].phase = "idle" /\ \A o \in Thread \ {t} : call'[o] = call[o]
  BY <1>2, <1>4, BusyWhen DEF vars
<1>7. ended' \in [Session -> Nat \cup {None}]
  BY <1>2 DEF AccountsInv, AccountsType
<1>8. request[t].op = "login" /\ request[t].had =>
        \E u \in User : users[u] # None /\ users[u].owner = p
  BY <1>4, <1>5 DEF Knows, EntryKnows
<1>9. ASSUME NEW c \in {"conflict", "invalid_credential", "inactive_user"}, Answer(t, c),
             c = "conflict" => Named(p) # {},
             request[t].op = "login" /\ c = "invalid_credential" => ~request[t].had
      PROVE  AccountsType' /\ RequestsKnow'
  <2>1. PICK r \in Request :
          /\ Go(t, r) /\ Continues(t, r)
          /\ r.session = request[t].session /\ r.pc = "answered" /\ r.code = c
    BY <1>4, <1>9, AnswerType
  <2>2. Knows(r)'
    BY <1>2, <1>4, <1>5, <1>8, <1>9, <2>1 DEF Knows, EntryKnows, Continues, Named
  <2> QED BY <1>1, <1>6, <1>7, <2>1, <2>2, ServedStep
<1>10. CASE request[t].op = "register" /\ Named(p) # {} /\ Answer(t, "conflict")
  BY <1>9, <1>10
<1>11. CASE request[t].op = "login" /\ Named(p) = {} /\ Answer(t, "invalid_credential")
  <2>1. ~request[t].had
    BY <1>8, <1>11 DEF Named
  <2> QED BY <1>9, <1>11, <2>1
<1>12. CASE request[t].op = "register" /\ Go(t, [request[t] EXCEPT !.pc = "create"])
  <2>1. PICK r : r = [request[t] EXCEPT !.pc = "create"]
    OBVIOUS
  <2>2. /\ r \in Request /\ r.op = "register" /\ r.person = p /\ r.pc = "create"
    BY <1>4, <1>5, <1>12, <2>1 DEF Request
  <2>3. Knows(r)'
    BY <2>2 DEF Knows, EntryKnows
  <2> QED BY <1>1, <1>6, <1>7, <1>12, <2>1, <2>2, <2>3, ServedStep
<1>13. ASSUME request[t].op = "login", NEW u \in Named(p), users[u].status # "active",
              Answer(t, "inactive_user")
       PROVE  AccountsType' /\ RequestsKnow'
  BY <1>9, <1>13
<1>14. ASSUME request[t].op = "login", NEW u \in Named(p), users[u].owner # p,
              Answer(t, "invalid_credential")
       PROVE  AccountsType' /\ RequestsKnow'
  <2>1. ~request[t].had
    BY <1>8, <1>14 DEF Named, AccountsInv, NamesUnique
  <2> QED BY <1>9, <1>14, <2>1
<1>15. ASSUME request[t].op = "login", NEW u \in Named(p), users[u].owner = p,
              Go(t, [request[t] EXCEPT !.pc = "issue", !.user = u])
       PROVE  AccountsType' /\ RequestsKnow'
  <2>1. PICK r : r = [request[t] EXCEPT !.pc = "issue", !.user = u]
    OBVIOUS
  <2>2. u \in User /\ users[u] # None
    BY DEF Named
  <2>3. r \in Request /\ Continues(t, r) /\ r.user = u /\ r.pc = "issue"
    BY <1>4, <2>1, <2>2 DEF Request, Continues
  <2>4. Knows(r)'
    BY <1>2, <1>5, <1>8, <1>15, <2>2, <2>3 DEF Knows, EntryKnows, Continues, Owns
  <2> QED BY <1>1, <1>6, <1>7, <1>15, <2>1, <2>3, <2>4, ServedStep
<1>16. AccountsType' /\ RequestsKnow'
  <2>1. ASSUME request[t].op = "login", NEW u \in Named(p),
               CASE users[u].status # "active" -> Answer(t, "inactive_user")
                 [] users[u].status = "active" /\ users[u].owner # p ->
                      Answer(t, "invalid_credential")
                 [] OTHER -> Go(t, [request[t] EXCEPT !.pc = "issue", !.user = u])
        PROVE  AccountsType' /\ RequestsKnow'
    <3>1. CASE users[u].status # "active"
      BY <1>13, <2>1, <3>1
    <3>2. CASE users[u].status = "active" /\ users[u].owner # p
      BY <1>14, <2>1, <3>2
    <3>3. CASE users[u].status = "active" /\ users[u].owner = p
      BY <1>15, <2>1, <3>3
    <3> QED BY <3>1, <3>2, <3>3
  <2> QED BY <1>5, <1>10, <1>11, <1>12, <2>1 DEF FindByUsername
<1> QED BY <1>16

\* The user is created, or his name or address is taken.
LEMMA CreateUserKeeps ==
  ASSUME AccountsInv, NEW t \in Thread, Create(t)
  PROVE  IssuedBefore' /\ AccountsType' /\ RequestsKnow'
<1>1. /\ RowsKept /\ TypeOK' /\ users' \in [User -> UserRow \cup {None}]
  BY ThreadKept DEF AccountStep
<1>2. UNCHANGED <<vars, ended>>
  BY DEF Create
<1>3. IssuedBefore'
  <2>1. IdleCall.phase # "login"
    BY DEF IdleCall
  <2>2. UNCHANGED vars /\ UNCHANGED ended
    BY <1>2
  <2>3. UNCHANGED <<sessions, login, over, ended>> /\ UNCHANGED call
    BY <2>2 DEF vars
  <2> QED BY <1>1, <2>1, <2>3, IssuedStays, IdleIsCall
<1> SUFFICES AccountsType' /\ RequestsKnow'
  BY <1>3
<1>4. /\ request[t] # None /\ request[t].pc = "create"
      /\ request[t] \in Request /\ Knows(request[t])
      /\ request[t].op \in {"register", "login"}
  BY RequestType DEF Create, At, Knows, TokenKnows, Request
<1>5. PICK q \in Request : q = request[t] /\ Knows(q)'
  BY <1>1, <1>4, KnowsKept
<1>6. call'[t].phase = "idle" /\ \A o \in Thread \ {t} : call'[o] = call[o]
  BY <1>2, <1>4, BusyWhen DEF vars
<1>7. ended' \in [Session -> Nat \cup {None}]
  BY <1>2 DEF AccountsInv, AccountsType
<1>8. CASE Answer(t, "dependency")
  <2>1. PICK r \in Request :
          /\ Go(t, r) /\ Continues(t, r)
          /\ r.session = request[t].session /\ r.pc = "answered" /\ r.code = "dependency"
    BY <1>4, <1>8, AnswerType
  <2>2. Knows(r)'
    BY <1>4, <1>5, <2>1 DEF Knows, EntryKnows, Continues
  <2> QED BY <1>1, <1>6, <1>7, <2>1, <2>2, ServedStep
<1>9. CASE ~Answer(t, "dependency")
  <2>1. PICK u \in User :
          /\ users[u] = None
          /\ users' = [users EXCEPT ![u] = NewUser(request[t].person)]
          /\ Go(t, [request[t] EXCEPT !.pc = "issue", !.user = u])
    BY <1>9 DEF Create
  <2>2. users'[u] = NewUser(request[t].person)
    BY <2>1 DEF AccountsInv, AccountsType
  <2>3. users'[u] # None /\ users'[u].owner = request[t].person
    <3>1. request[t].person \in Person /\ now \in Nat
      BY <1>4 DEF Knows, EntryKnows, AccountsInv, Inv, TypeOK
    <3> QED BY <2>2, <3>1, NoUserAssumption DEF NewUser, UserRow
  <2>4. PICK r : r = [request[t] EXCEPT !.pc = "issue", !.user = u]
    OBVIOUS
  <2>5. r \in Request /\ Continues(t, r) /\ r.user = u /\ r.pc = "issue"
    BY <1>4, <2>4 DEF Request, Continues
  <2>6. Knows(r)'
    BY <1>4, <1>5, <2>3, <2>5 DEF Knows, EntryKnows, Continues, Owns
  <2> QED BY <1>1, <1>6, <1>7, <2>1, <2>4, <2>5, <2>6, ServedStep
<1> QED BY <1>8, <1>9

\* A token pair is issued to the user that was found or created.
LEMMA IssueKeeps ==
  ASSUME AccountsInv, NEW t \in Thread, IssueToken(t)
  PROVE  IssuedBefore' /\ AccountsType' /\ RequestsKnow'
<1>1. /\ RowsKept /\ TypeOK' /\ users' \in [User -> UserRow \cup {None}]
  BY ThreadKept DEF AccountStep
<1>2. UNCHANGED <<sessions, now, login, over, users, ended>>
  BY DEF IssueToken, LoginIssue
<1>3. /\ request[t] # None /\ request[t].pc = "issue"
      /\ request[t] \in Request /\ Knows(request[t])
      /\ request[t].op \in {"register", "login"}
  BY RequestType DEF IssueToken, At, Knows, TokenKnows, Request
<1>4. PICK u \in User : u = request[t].user /\ users[u] # None
  BY <1>3 DEF Knows, EntryKnows, Owns
<1>5. PICK c \in Call : c = [phase |-> "login", user |-> u, expires |-> now + RefreshTTL]
  <2>1. now \in Nat
    BY DEF AccountsInv, Inv, TypeOK
  <2>2. [phase |-> "login", user |-> u, expires |-> now + RefreshTTL] \in Call
    BY <2>1, SessionsAssumption DEF Call
  <2> QED BY <2>2
<1>6. Become(t, c)
  BY <1>4, <1>5 DEF IssueToken, LoginIssue
<1>7. IssuedBefore'
  BY <1>1, <1>2, <1>4, <1>5, <1>6, IssuedStays
<1>8. /\ call'[t].phase = "login" /\ call'[t].user = u
      /\ \A o \in Thread \ {t} : call'[o] = call[o]
  BY <1>5, <1>6, BecomeCalls DEF AccountsInv, Inv, TypeOK
<1>9. ended' \in [Session -> Nat \cup {None}]
  BY <1>2 DEF AccountsInv, AccountsType
<1>10. PICK r : r = [request[t] EXCEPT !.pc = "session"]
  OBVIOUS
<1>11. r \in Request /\ Continues(t, r) /\ r.user = u /\ r.pc = "session"
  BY <1>3, <1>4, <1>10 DEF Request, Continues
<1>12. Go(t, r)
  BY <1>10 DEF IssueToken
<1>13. PICK q \in Request : q = request[t] /\ Knows(q)'
  BY <1>1, <1>3, KnowsKept
<1>14. Knows(r)'
  BY <1>3, <1>4, <1>11, <1>13 DEF Knows, EntryKnows, Continues, Owns
<1> QED BY <1>1, <1>7, <1>8, <1>9, <1>11, <1>12, <1>14, ServedStep

\* The session is created, and the answer is a session of the person's user.
LEMMA SessionKeeps ==
  ASSUME AccountsInv, NEW t \in Thread, CreateRefreshSession(t)
  PROVE  IssuedBefore' /\ AccountsType' /\ RequestsKnow'
<1>1. /\ RowsKept /\ TypeOK' /\ users' \in [User -> UserRow \cup {None}]
  BY ThreadKept DEF AccountStep
<1>2. LoginCreate(t) /\ UNCHANGED <<users, ended>>
  BY DEF CreateRefreshSession
<1>3. IssuedBefore'
  BY <1>1, <1>2, CreateIssued
<1>4. PICK n \in Session :
        /\ ~Exists(n)
        /\ sessions'[n] \in SessionRow
        /\ sessions'[n].user = call[t].user
        /\ \A d \in Session \ {n} : sessions'[d] = sessions[d]
  BY <1>2, CreateEffect DEF AccountsInv
<1>5. PICK s \in Session : ~Exists(s) /\ sessions'[s] # None /\ Given(t, s)
  BY DEF CreateRefreshSession
<1>6. s = n
  BY <1>4, <1>5 DEF Exists
<1>7. /\ request[t] # None /\ request[t].pc = "session"
      /\ request[t] \in Request /\ Knows(request[t])
      /\ request[t].op \in {"register", "login"}
      /\ call[t].user = request[t].user
  BY RequestType DEF CreateRefreshSession, At, Knows, TokenKnows, Request, AccountsInv, RequestsKnow
<1>8. PICK r \in Request :
        /\ Go(t, r) /\ Continues(t, r)
        /\ r.session = s /\ r.pc = "answered" /\ r.code = "ok"
  BY <1>5, <1>7, GivenType
<1>9. PICK q \in Request : q = request[t] /\ Knows(q)'
  BY <1>1, <1>7, KnowsKept
<1>10. users'[sessions'[s].user].owner = r.person
  BY <1>2, <1>4, <1>6, <1>7, <1>8 DEF Knows, EntryKnows, Owns, Continues
<1>11. Exists(s)'
  BY <1>5 DEF Exists
<1>12. Knows(r)'
  BY <1>7, <1>8, <1>9, <1>10, <1>11 DEF Knows, EntryKnows, Continues
<1>13. call'[t].phase = "idle" /\ \A o \in Thread \ {t} : call'[o] = call[o]
  BY <1>2, IdleIsCall, BecomeCalls DEF LoginCreate, AccountsInv, Inv, TypeOK, IdleCall
<1>14. ended' \in [Session -> Nat \cup {None}]
  BY <1>2 DEF AccountsInv, AccountsType
<1> QED BY <1>1, <1>3, <1>8, <1>12, <1>13, <1>14, ServedStep

\* The user of a refresh is looked up.
LEMMA ActiveKeeps ==
  ASSUME AccountsInv, NEW t \in Thread, RefreshEnsureActive(t)
  PROVE  IssuedBefore' /\ AccountsType' /\ RequestsKnow'
<1>1. /\ RowsKept /\ TypeOK' /\ users' \in [User -> UserRow \cup {None}]
  BY ThreadKept DEF AccountStep
<1>2. /\ UNCHANGED <<sessions, now, login, over, users, ended>>
      /\ UNCHANGED call \/ Become(t, IdleCall)
  BY DEF RefreshEnsureActive
<1>3. IssuedBefore'
  BY <1>1, <1>2, IssuedStays, IdleIsCall DEF IdleCall
<1>4. /\ request[t] # None /\ request[t].pc = "active" /\ request[t].op = "refresh"
      /\ request[t] \in Request /\ Knows(request[t])
  BY RequestType DEF RefreshEnsureActive, At
<1>5. ended' \in [Session -> Nat \cup {None}]
  BY <1>2 DEF AccountsInv, AccountsType
<1>6. PICK q \in Request : q = request[t] /\ Knows(q)'
  BY <1>1, <1>4, KnowsKept
<1>7. ASSUME Answer(t, "inactive_user"), Become(t, IdleCall)
      PROVE  AccountsType' /\ RequestsKnow'
  <2>1. PICK r \in Request :
          /\ Go(t, r) /\ Continues(t, r)
          /\ r.session = request[t].session /\ r.pc = "answered" /\ r.code = "inactive_user"
    BY <1>4, <1>7, AnswerType
  <2>2. Knows(r)'
    BY <1>4, <1>6, <2>1 DEF Knows, TokenKnows, Continues
  <2>3. call'[t].phase = "idle" /\ \A o \in Thread \ {t} : call'[o] = call[o]
    BY <1>7, IdleIsCall, BecomeCalls DEF AccountsInv, Inv, TypeOK, IdleCall
  <2> QED BY <1>1, <1>5, <2>1, <2>2, <2>3, ServedStep
<1>8. ASSUME Go(t, [request[t] EXCEPT !.pc = "rotate"]), UNCHANGED call
      PROVE  AccountsType' /\ RequestsKnow'
  <2>1. PICK r : r = [request[t] EXCEPT !.pc = "rotate"]
    OBVIOUS
  <2>2. /\ r \in Request /\ Continues(t, r) /\ r.session = request[t].session
        /\ r.pc = "rotate" /\ r.code = request[t].code
    BY <1>4, <2>1 DEF Request, Continues
  <2>3. Knows(r)'
    BY <1>4, <1>6, <2>2 DEF Knows, TokenKnows, Continues
  <2>4. call'[t].phase # "idle" /\ \A o \in Thread \ {t} : call'[o] = call[o]
    BY <1>4, <1>8, BusyWhen
  <2> QED BY <1>1, <1>5, <1>8, <2>1, <2>2, <2>3, <2>4, ServedStep
<1> QED BY <1>3, <1>7, <1>8 DEF RefreshEnsureActive

\* The user of an introspection is looked up: he is active now.
LEMMA IntrospectKeeps ==
  ASSUME AccountsInv, NEW t \in Thread, EnsureActive(t)
  PROVE  IssuedBefore' /\ AccountsType' /\ RequestsKnow'
<1>1. /\ RowsKept /\ TypeOK' /\ users' \in [User -> UserRow \cup {None}]
  BY ThreadKept DEF AccountStep
<1>2. UNCHANGED <<vars, users, ended>>
  BY DEF EnsureActive
<1>3. IssuedBefore'
  <2>1. IdleCall.phase # "login"
    BY DEF IdleCall
  <2>2. UNCHANGED vars /\ UNCHANGED ended
    BY <1>2
  <2>3. UNCHANGED <<sessions, login, over, ended>> /\ UNCHANGED call
    BY <2>2 DEF vars
  <2> QED BY <1>1, <2>1, <2>3, IssuedStays, IdleIsCall
<1>4. /\ request[t] # None /\ request[t].pc = "active" /\ request[t].op = "introspect"
      /\ request[t] \in Request /\ Knows(request[t])
  BY RequestType DEF EnsureActive, At
<1>5. PICK q \in Request : q = request[t] /\ Knows(q)'
  BY <1>1, <1>4, KnowsKept
<1>6. PICK c \in {"ok", "inactive_user"} :
        /\ Answer(t, c)
        /\ c = "ok" => users[sessions[request[t].session].user].status = "active"
  BY DEF EnsureActive, IsActive
<1>7. PICK r \in Request :
        /\ Go(t, r) /\ Continues(t, r)
        /\ r.session = request[t].session /\ r.pc = "answered" /\ r.code = c
  BY <1>4, <1>6, AnswerType
<1>8. Knows(r)'
  BY <1>2, <1>4, <1>5, <1>6, <1>7 DEF Knows, TokenKnows, Continues, vars
<1>9. call'[t].phase = "idle" /\ \A o \in Thread \ {t} : call'[o] = call[o]
  BY <1>2, <1>4, BusyWhen DEF vars
<1>10. ended' \in [Session -> Nat \cup {None}]
  BY <1>2 DEF AccountsInv, AccountsType
<1> QED BY <1>1, <1>3, <1>7, <1>8, <1>9, <1>10, ServedStep

\* The rotation commits or is refused.
LEMMA RotateKeeps ==
  ASSUME AccountsInv, NEW t \in Thread, RotateRefreshToken(t)
  PROVE  IssuedBefore' /\ AccountsType' /\ RequestsKnow'
<1>1. /\ RowsKept /\ TypeOK' /\ users' \in [User -> UserRow \cup {None}]
  BY ThreadKept DEF AccountStep
<1>2. UNCHANGED <<users, ended>> /\ Become(t, IdleCall)
  BY DEF RotateRefreshToken, RefreshCommit, RefreshRefused
<1>3. IssuedBefore'
  <2>1. CASE RefreshCommit(t)
    BY <1>1, <1>2, <2>1, RotateIssued
  <2>2. CASE RefreshRefused(t)
    BY <1>1, <1>2, <2>2, IssuedStays, IdleIsCall DEF RefreshRefused, IdleCall
  <2> QED BY <2>1, <2>2 DEF RotateRefreshToken
<1>4. /\ request[t] # None /\ request[t].pc = "rotate"
      /\ request[t] \in Request /\ Knows(request[t])
  BY RequestType DEF RotateRefreshToken, At
<1>5. request[t].op = "refresh"
  BY <1>4 DEF Knows, EntryKnows, TokenKnows, Request
<1>6. PICK q \in Request : q = request[t] /\ Knows(q)'
  BY <1>1, <1>4, KnowsKept
<1>7. call'[t].phase = "idle" /\ \A o \in Thread \ {t} : call'[o] = call[o]
  BY <1>2, IdleIsCall, BecomeCalls DEF AccountsInv, Inv, TypeOK, IdleCall
<1>8. ended' \in [Session -> Nat \cup {None}]
  BY <1>2 DEF AccountsInv, AccountsType
<1>9. ASSUME NEW s \in Session, sessions'[s] # None, Given(t, s)
      PROVE  AccountsType' /\ RequestsKnow'
  <2>1. PICK r \in Request :
          /\ Go(t, r) /\ Continues(t, r)
          /\ r.session = s /\ r.pc = "answered" /\ r.code = "ok"
    BY <1>4, <1>9, GivenType
  <2>2. Knows(r)'
    BY <1>5, <1>9, <2>1 DEF Knows, TokenKnows, Continues, Exists
  <2> QED BY <1>1, <1>7, <1>8, <2>1, <2>2, ServedStep
<1>10. ASSUME Answer(t, "unauthorized") PROVE AccountsType' /\ RequestsKnow'
  <2>1. PICK r \in Request :
          /\ Go(t, r) /\ Continues(t, r)
          /\ r.session = request[t].session /\ r.pc = "answered" /\ r.code = "unauthorized"
    BY <1>4, <1>10, AnswerType
  <2>2. Knows(r)'
    BY <1>5, <1>6, <2>1 DEF Knows, TokenKnows, Continues
  <2> QED BY <1>1, <1>7, <1>8, <2>1, <2>2, ServedStep
<1> QED BY <1>3, <1>9, <1>10 DEF RotateRefreshToken

\* A logout: the chains it ends are as old as now.
LEMMA LogoutKeeps ==
  ASSUME AccountsInv, NEW t \in Thread, LogoutUser(t)
  PROVE  IssuedBefore' /\ AccountsType' /\ RequestsKnow'
<1>1. /\ RowsKept /\ TypeOK' /\ users' \in [User -> UserRow \cup {None}]
  BY ThreadKept DEF AccountStep
<1>2. /\ request[t] # None /\ request[t].pc = "revoke"
      /\ request[t] \in Request /\ Knows(request[t])
  BY RequestType DEF LogoutUser, At
<1>3. request[t].op \in {"refresh", "introspect", "logout"} /\ request[t].session \in Session
      /\ Exists(request[t].session)
  BY <1>2 DEF Knows, EntryKnows, TokenKnows, Request
<1>4. PICK u \in User : u = sessions[request[t].session].user
  BY <1>3, RowType DEF AccountsInv, Inv, SessionRow
<1>5. Logout(u) /\ call' = call
  BY <1>4 DEF LogoutUser, Logout
<1>6. IssuedBefore' /\ ended' \in [Session -> Nat \cup {None}]
  BY <1>1, <1>5, LogoutIssued DEF LogoutUser
<1>7. PICK q \in Request : q = request[t] /\ Knows(q)'
  BY <1>1, <1>2, KnowsKept
<1>8. PICK r \in Request :
        /\ Go(t, r) /\ Continues(t, r)
        /\ r.session = request[t].session /\ r.pc = "answered" /\ r.code = "ok"
  <2>1. Answer(t, "ok")
    BY DEF LogoutUser
  <2> QED BY <1>2, <2>1, AnswerType
<1>9. Knows(r)'
  BY <1>2, <1>3, <1>7, <1>8 DEF Knows, TokenKnows, Continues
<1>10. call'[t].phase = "idle" /\ \A o \in Thread \ {t} : call'[o] = call[o]
  BY <1>2, <1>5, BusyWhen
<1> QED BY <1>1, <1>6, <1>8, <1>9, <1>10, ServedStep

\* A request that fails says nothing but that.
LEMMA FailKeeps ==
  ASSUME AccountsInv, NEW t \in Thread, RequestFails(t)
  PROVE  IssuedBefore' /\ AccountsType' /\ RequestsKnow'
<1>1. /\ RowsKept /\ TypeOK' /\ users' \in [User -> UserRow \cup {None}]
  BY ThreadKept DEF AccountStep
<1>2. /\ UNCHANGED <<sessions, now, login, over, users, ended>>
      /\ (Idle(t) /\ UNCHANGED call) \/ Become(t, IdleCall)
  BY DEF RequestFails, CallFails, vars
<1>3. IssuedBefore'
  BY <1>1, <1>2, IssuedStays, IdleIsCall DEF IdleCall
<1>4. /\ request[t] # None
      /\ request[t] \in Request /\ Knows(request[t])
  BY RequestType DEF RequestFails, Free
<1>5. PICK q \in Request : q = request[t] /\ Knows(q)'
  BY <1>1, <1>4, KnowsKept
<1>6. PICK c \in {"unauthorized", "dependency"} : Answer(t, c)
  BY DEF RequestFails
<1>7. PICK r \in Request :
        /\ Go(t, r) /\ Continues(t, r)
        /\ r.session = request[t].session /\ r.pc = "answered" /\ r.code = c
  BY <1>4, <1>6, AnswerType
<1>8. Knows(r)'
  BY <1>4, <1>5, <1>7 DEF Knows, EntryKnows, TokenKnows, Continues
<1>9. call'[t].phase = "idle" /\ \A o \in Thread \ {t} : call'[o] = call[o]
  BY <1>2, IdleIsCall, BecomeCalls DEF AccountsInv, Inv, TypeOK, IdleCall, Idle
<1>10. ended' \in [Session -> Nat \cup {None}]
  BY <1>2 DEF AccountsInv, AccountsType
<1> QED BY <1>1, <1>3, <1>7, <1>8, <1>9, <1>10, ServedStep

-----------------------------------------------------------------------------
(* The theorems. *)

\* At first there are no users and no requests.
LEMMA InitAccounts == AccountsInit => AccountsInv
<1> SUFFICES ASSUME AccountsInit PROVE AccountsInv
  OBVIOUS
<1>1. Inv /\ sessions = [s \in Session |-> None] /\ \A t \in Thread : call[t].phase = "idle"
  BY InitInv DEF AccountsInit, Init, IdleCall
<1>2. AccountsType
  BY <1>1 DEF AccountsInit, AccountsType, Inv, Idle
<1>3. NamesUnique /\ IssuedBefore /\ RequestsKnow
  BY <1>1 DEF AccountsInit, NamesUnique, IssuedBefore, RequestsKnow, Exists
<1> QED BY <1>1, <1>2, <1>3 DEF AccountsInv

\* A step that is not a request's: a user is disabled, or time passes.
LEMMA WorldKeeps ==
  ASSUME AccountsInv, [AccountsNext]_accountVars,
         UNCHANGED <<sessions, call, login, over, request, ended>>
  PROVE  IssuedBefore' /\ AccountsType' /\ RequestsKnow'
<1>1. /\ RowsKept /\ users' \in [User -> UserRow \cup {None}]
  BY AllRowsKept, UsersKept
<1>2. TypeOK'
  BY AccountsSteps, NextInv DEF AccountsInv, Inv
<1>3. IssuedBefore'
  <2>1. /\ now \in Nat /\ now' \in Nat /\ now <= now' /\ RefreshTTL \in Nat
        /\ \A u \in User : users[u] # None => users'[u] # None
    BY <1>1, SessionsAssumption DEF RowsKept, AccountsInv, Inv, TypeOK
  <2>2. ASSUME NEW s \in Session, Exists(s)
        PROVE  /\ users'[sessions[s].user] # None
               /\ sessions[s].expires <= now' + RefreshTTL
               /\ login[s] \in over =>
                    /\ ended[login[s]] \in Nat
                    /\ sessions[s].expires <= ended[login[s]] + RefreshTTL
    <3>1. sessions[s].user \in User /\ sessions[s].expires \in Nat
      BY <2>2, RowType DEF AccountsInv, Inv, SessionRow
    <3>2. /\ users[sessions[s].user] # None
          /\ sessions[s].expires <= now + RefreshTTL
          /\ login[s] \in over =>
               /\ ended[login[s]] \in Nat
               /\ sessions[s].expires <= ended[login[s]] + RefreshTTL
      BY <2>2 DEF AccountsInv, IssuedBefore
    <3> QED BY <2>1, <3>1, <3>2
  <2>3. ASSUME NEW t \in Thread, call[t].phase = "login"
        PROVE  users'[call[t].user] # None /\ call[t].expires <= now' + RefreshTTL
    <3>1. call[t].user \in User /\ call[t].expires \in Nat
      BY <2>3, CallKinds DEF AccountsInv, Inv, TypeOK
    <3>2. users[call[t].user] # None /\ call[t].expires <= now + RefreshTTL
      BY <2>3 DEF AccountsInv, IssuedBefore
    <3> QED BY <2>1, <3>1, <3>2
  <2> QED BY <2>2, <2>3 DEF IssuedBefore, Exists
<1>4. AccountsType'
  BY <1>1, <1>2 DEF AccountsInv, AccountsType, Idle
<1>5. RequestsKnow'
  <2> SUFFICES ASSUME NEW t \in Thread, request'[t] # None
               PROVE  /\ Knows(request[t])'
                      /\ request'[t].pc = "session" =>
                           call'[t].phase = "login" /\ call'[t].user = request'[t].user
    BY DEF RequestsKnow
  <2>1. PICK q \in Request : q = request[t] /\ Knows(q)
    BY RequestType
  <2>2. Knows(q)' /\ q = request'[t]
    BY <1>1, <2>1, KnowsKept
  <2>3. Knows(request[t])'
    BY <2>2 DEF Knows, EntryKnows, TokenKnows, Owns, Named, Exists
  <2> QED BY <2>3 DEF AccountsInv, RequestsKnow
<1> QED BY <1>3, <1>4, <1>5

\* Every step of the service keeps its invariant.
LEMMA AccountsStep == AccountsInv /\ [AccountsNext]_accountVars => AccountsInv'
<1> SUFFICES ASSUME AccountsInv, [AccountsNext]_accountVars PROVE AccountsInv'
  OBVIOUS
<1>1. Inv' /\ NamesUnique'
  BY AccountsSteps, NextInv, UsersKept DEF AccountsInv
<1>2. ASSUME NEW t \in Thread, AccountStep(t)
      PROVE  IssuedBefore' /\ AccountsType' /\ RequestsKnow'
  <2>1. CASE (\E p \in Person : RegisterOrLogin(t, p))
                 \/ (\E s \in Session : Introspect(t, s) \/ Auth(t, s))
    BY <2>1, ArrivalKeeps
  <2>2. CASE \E s \in Session : Refresh(t, s)
    BY <2>2, RefreshKeeps
  <2>3. CASE FindByUsername(t) \/ Create(t) \/ IssueToken(t) \/ CreateRefreshSession(t)
    BY <2>3, FindKeeps, CreateUserKeeps, IssueKeeps, SessionKeeps
  <2>4. CASE RefreshEnsureActive(t) \/ EnsureActive(t) \/ RotateRefreshToken(t)
               \/ LogoutUser(t) \/ RequestFails(t)
    BY <2>4, ActiveKeeps, IntrospectKeeps, RotateKeeps, LogoutKeeps, FailKeeps
  <2> QED BY <1>2, <2>1, <2>2, <2>3, <2>4 DEF AccountStep
<1>3. ASSUME UNCHANGED <<sessions, call, login, over, request, ended>>
      PROVE  IssuedBefore' /\ AccountsType' /\ RequestsKnow'
  BY <1>3, WorldKeeps
<1>4. ASSUME NEW u \in User, Disable(u)
      PROVE  UNCHANGED <<sessions, call, login, over, request, ended>>
  BY <1>4 DEF Disable, vars
<1>5. Tick /\ UNCHANGED <<users, request, ended>> =>
        UNCHANGED <<sessions, call, login, over, request, ended>>
  BY DEF Tick
<1>6. UNCHANGED accountVars => UNCHANGED <<sessions, call, login, over, request, ended>>
  BY DEF accountVars, vars
<1>7. IssuedBefore' /\ AccountsType' /\ RequestsKnow'
  <2>1. CASE AccountsNext
    BY <1>2, <1>3, <1>4, <1>5, <2>1 DEF AccountsNext
  <2>2. CASE UNCHANGED accountVars
    BY <1>3, <1>6, <2>2
  <2> QED BY <2>1, <2>2
<1> QED BY <1>1, <1>7 DEF AccountsInv

\* The invariant holds of every state of the service, for any constants.
THEOREM AlwaysAccountsInv == AccountsSpec => []AccountsInv
<1> QED BY InitAccounts, AccountsStep, PTL DEF AccountsSpec

\* The tables, the calls and the requests are well typed, and a thread has a call at the
\* session table exactly while its request is there.
THEOREM AlwaysAccountsType == AccountsSpec => []AccountsType
<1>1. AccountsInv => AccountsType
  BY DEF AccountsInv
<1> QED BY <1>1, AlwaysAccountsInv, PTL

\* Whoever registers or logs in gets a session of an account of his own, and a login is
\* not refused to whom an active account belongs (Register and Login of auth.Service).
THEOREM AlwaysAnswersOwner == AccountsSpec => []AnswersOwner
<1>1. AccountsInv => AnswersOwner
  <2> SUFFICES ASSUME AccountsInv, NEW t \in Thread, At(t, "answered")
               PROVE  LET r == request[t]
                      IN  /\ r.op \in {"register", "login"} /\ r.code = "ok" =>
                               users[sessions[r.session].user].owner = r.person
                          /\ r.op = "login" /\ r.code = "invalid_credential" => ~r.had
                          /\ r.code = "conflict" => Named(r.person) # {}
    BY DEF AnswersOwner
  <2>1. request[t] \in Request /\ Knows(request[t]) /\ request[t].pc = "answered"
    BY RequestType DEF At
  <2> QED BY <2>1 DEF Knows, EntryKnows, TokenKnows, Request
<1> QED BY <1>1, AlwaysAccountsInv, PTL

\* An access token is accepted for AccessTTL at most after its login was ended, and not
\* in a request that came in after its user was disabled (Introspect of cmd/iam).
THEOREM AlwaysAccessEnds == AccountsSpec => []AccessEnds
<1>1. AccountsInv => AccessEnds
  <2> SUFFICES ASSUME AccountsInv, NEW t \in Thread, At(t, "answered"),
                      request[t].op = "introspect", request[t].code = "ok"
               PROVE  LET r == request[t]
                          l == login[r.session]
                          row == users[sessions[r.session].user]
                      IN  /\ l \in over => r.start < ended[l] + AccessTTL
                          /\ row.status = "active" \/ r.start <= row.updated
    BY DEF AccessEnds
  <2>1. /\ request[t] \in Request /\ Knows(request[t]) /\ request[t].pc = "answered"
    BY RequestType DEF At
  <2>2. PICK s \in Session : s = request[t].session
    BY <2>1 DEF Knows, TokenKnows
  <2>3. /\ Exists(s)
        /\ request[t].start + RefreshTTL < sessions[s].expires + AccessTTL
        /\ users[sessions[s].user].status = "active"
             \/ request[t].start <= users[sessions[s].user].updated
    BY <2>1, <2>2 DEF Knows, TokenKnows
  <2>4. sessions[s].expires \in Nat /\ request[t].start \in Nat
    BY <2>1, <2>3, RowType DEF AccountsInv, Inv, SessionRow, Request
  <2>5. ASSUME login[s] \in over PROVE request[t].start < ended[login[s]] + AccessTTL
    <3>1. ended[login[s]] \in Nat /\ sessions[s].expires <= ended[login[s]] + RefreshTTL
      BY <2>3, <2>5 DEF AccountsInv, IssuedBefore
    <3> QED BY <2>3, <2>4, <3>1, SessionsAssumption, AccountsAssumption
  <2> QED BY <2>2, <2>3, <2>5
<1> QED BY <1>1, AlwaysAccountsInv, PTL

\* Whatever the requests do around them, the sessions behave as RefreshSessions says:
\* its theorems hold of the whole service.
THEOREM ImplementsSessions == AccountsSpec => Spec
<1>1. AccountsInit => Init
  BY DEF AccountsInit
<1>2. AccountsInv /\ [AccountsNext]_accountVars => [Next]_vars
  BY AccountsSteps
<1> QED BY <1>1, <1>2, AlwaysAccountsInv, PTL DEF AccountsSpec, Spec

\* At most one session of a login can be refreshed and a logout ends every login of the
\* user, also among registrations, logins and introspections; and the service implements
\* SessionChains.
THEOREM ServiceSessions ==
  AccountsSpec => [](OneActivePerLogin /\ LogoutEnds /\ RefreshedInTime) /\ ChainsSpec
<1>1. Inv => OneActivePerLogin /\ LogoutEnds /\ RefreshedInTime
  BY DEF Inv
<1> QED BY <1>1, ImplementsSessions, AlwaysInv, ImplementsChains, PTL

=============================================================================
