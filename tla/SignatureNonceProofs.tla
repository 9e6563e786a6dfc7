------------------------- MODULE SignatureNonceProofs -------------------------
(***************************************************************************)
(* Theorems about SignatureNonce for any calls, threads and bounds.        *)
(***************************************************************************)
EXTENDS SignatureNonce, TLAPS

\* Only a signed call is accepted.
Signed == \A c \in Call : accepted[c] > 0 => timestamp[c] # None

\* A delivery under verification is of a signed call, was read under a past clock,
\* and keeps its nonce for no less than the window.
AttemptsSound ==
  \A t \in Thread : attempt[t] # None =>
    /\ timestamp[attempt[t].call] # None
    /\ attempt[t].at <= clock
    /\ attempt[t].pc = "use" => timestamp[attempt[t].call] + Skew <= attempt[t].expires

MaintainPast == maintain # None => maintain <= clock

\* The inductive invariant: the nonce of an accepted call cannot be pruned under any
\* reading that some step still holds while the window is open.
IInv == TypeOK /\ Signed /\ AttemptsSound /\ MaintainPast /\ KeptWhileFresh /\ AcceptedOnce

-----------------------------------------------------------------------------

LEMMA InitIInv == Init => IInv
  BY NonceAssumption
     DEF Init, IInv, TypeOK, Signed, AttemptsSound, MaintainPast, KeptWhileFresh, AcceptedOnce

\* Pruning under a past reading keeps what is not expired, and nothing else appears.
LEMMA PrunedKeeps ==
  ASSUME TypeOK, NEW now \in Nat, now <= clock, NEW store
  PROVE  /\ Pruned(now, store) \in [Call -> Nat \cup {None}]
         /\ \A c \in Call : nonces[c] # None /\ clock <= nonces[c] => Pruned(now, store)[c] = nonces[c]
  BY NonceAssumption DEF TypeOK, Pruned

\* How long a nonce is kept covers the window of its call.
LEMMA RetentionCovers ==
  ASSUME TypeOK, NEW c \in Call, timestamp[c] # None
  PROVE  Retention(c, clock) \in Nat /\ timestamp[c] + Skew <= Retention(c, clock)
  BY NonceAssumption DEF TypeOK, Retention

\* A step that changes no more than the clock, forwards, or forgets attempts.
LEMMA QuietStep ==
  ASSUME IInv, UNCHANGED <<timestamp, accepted>>,
         clock' \in Nat, clock <= clock',
         nonces' \in [Call -> Nat \cup {None}],
         \A c \in Call : nonces[c] # None /\ clock <= nonces[c] => nonces'[c] = nonces[c],
         attempt' \in [Thread -> Attempt \cup {None}],
         \A t \in Thread : attempt'[t] \in {attempt[t], None},
         maintain' \in {maintain, clock, None}
  PROVE  IInv'
<1>1. TypeOK'
  BY NonceAssumption DEF IInv, TypeOK
<1>2. Signed' /\ AcceptedOnce'
  BY DEF IInv, Signed, AcceptedOnce
<1>3. AttemptsSound'
  <2>1. SUFFICES ASSUME NEW t \in Thread, attempt'[t] # None
                 PROVE  attempt'[t] = attempt[t] /\ attempt[t].at <= clock'
    BY DEF IInv, AttemptsSound
  <2>2. attempt[t] \in Attempt /\ attempt'[t] = attempt[t]
    BY <2>1 DEF IInv, TypeOK
  <2>3. attempt[t].at \in Nat /\ attempt[t].at <= clock
    BY <2>1, <2>2 DEF IInv, AttemptsSound, Attempt
  <2> QED BY <2>2, <2>3 DEF IInv, TypeOK
<1>4. MaintainPast'
  BY DEF IInv, TypeOK, MaintainPast
<1>5. KeptWhileFresh'
  <2>1. SUFFICES ASSUME NEW c \in Call, accepted[c] > 0, clock' <= timestamp[c] + Skew
                 PROVE  nonces'[c] # None /\ timestamp[c] + Skew <= nonces'[c]
    BY DEF KeptWhileFresh
  <2>2. timestamp[c] \in Nat /\ nonces[c] \in Nat \cup {None} /\ clock \in Nat
    BY <2>1 DEF IInv, TypeOK, Signed
  <2>3. clock <= timestamp[c] + Skew
    BY <2>1, <2>2, NonceAssumption
  <2>4. nonces[c] # None /\ timestamp[c] + Skew <= nonces[c]
    BY <2>1, <2>3 DEF IInv, KeptWhileFresh
  <2>5. clock <= nonces[c]
    BY <2>2, <2>3, <2>4, NonceAssumption
  <2> QED BY <2>4, <2>5
<1> QED BY <1>1, <1>2, <1>3, <1>4, <1>5 DEF IInv

\* A step that verifies a delivery, or sets its expiry.
LEMMA AttemptStep ==
  ASSUME IInv, UNCHANGED <<clock, timestamp, nonces, maintain, accepted>>,
         NEW t \in Thread, NEW a \in Attempt,
         attempt' = [attempt EXCEPT ![t] = a],
         timestamp[a.call] # None, a.at <= clock,
         a.pc = "use" => timestamp[a.call] + Skew <= a.expires
  PROVE  IInv'
  BY DEF IInv, TypeOK, Signed, AttemptsSound, MaintainPast, KeptWhileFresh, AcceptedOnce

\* The heart of the matter: a store that has no nonce of the call has accepted none
\* of its deliveries while the window is open.
LEMMA AcceptStep ==
  ASSUME IInv, UNCHANGED <<clock, timestamp, maintain>>,
         NEW t \in Thread, attempt[t] # None, attempt[t].pc = "use",
         attempt' = [attempt EXCEPT ![t] = None],
         NEW now \in Nat, now <= clock, NEW store,
         Pruned(now, store)[attempt[t].call] = None,
         Accept(attempt[t].call, Pruned(now, store), attempt[t].expires)
  PROVE  IInv'
<1> DEFINE d == attempt[t].call
           kept == Pruned(now, store)
<1>0. d \in Call /\ attempt[t].expires \in Nat /\ timestamp[d] \in Nat
      /\ timestamp[d] + Skew <= attempt[t].expires
  BY DEF IInv, TypeOK, AttemptsSound, Attempt
<1>1. /\ kept \in [Call -> Nat \cup {None}]
      /\ \A c \in Call : nonces[c] # None /\ clock <= nonces[c] => kept[c] = nonces[c]
  BY PrunedKeeps DEF IInv
<1>2. clock <= timestamp[d] + Skew => accepted[d] = 0
  <2>1. SUFFICES ASSUME clock <= timestamp[d] + Skew, accepted[d] > 0
                 PROVE  FALSE
    BY <1>0 DEF IInv, TypeOK
  <2>2. nonces[d] # None /\ timestamp[d] + Skew <= nonces[d]
    BY <1>0, <2>1 DEF IInv, KeptWhileFresh
  <2>3. nonces[d] \in Nat /\ clock \in Nat
    BY <1>0, <2>2 DEF IInv, TypeOK
  <2>4. kept[d] = nonces[d]
    BY <1>0, <1>1, <2>1, <2>2, <2>3, NonceAssumption
  <2> QED BY <2>2, <2>4
<1>3. nonces' = [kept EXCEPT ![d] = attempt[t].expires]
  BY DEF Accept
<1>4. accepted' = [accepted EXCEPT ![d] = IF clock <= timestamp[d] + Skew THEN accepted[d] + 1
                                                                          ELSE accepted[d]]
  BY DEF Accept
<1>5. TypeOK'
  BY <1>0, <1>1, <1>3, <1>4 DEF IInv, TypeOK
<1>6. Signed'
  BY <1>0, <1>4, NonceAssumption DEF IInv, TypeOK, Signed
<1>7. AttemptsSound' /\ MaintainPast'
  BY DEF IInv, TypeOK, AttemptsSound, MaintainPast
<1>8. KeptWhileFresh'
  <2>1. SUFFICES ASSUME NEW c \in Call, accepted'[c] > 0, clock <= timestamp[c] + Skew
                 PROVE  nonces'[c] # None /\ timestamp[c] + Skew <= nonces'[c]
    BY DEF KeptWhileFresh
  <2>2. CASE c = d
    BY <2>2, <1>0, <1>1, <1>3, NonceAssumption
  <2>3. CASE c # d
    <3>1. accepted[c] > 0
      BY <2>1, <2>3, <1>4 DEF IInv, TypeOK
    <3>2. nonces[c] # None /\ timestamp[c] + Skew <= nonces[c]
      BY <2>1, <3>1 DEF IInv, KeptWhileFresh
    <3>3. nonces[c] \in Nat /\ clock \in Nat /\ timestamp[c] \in Nat
      BY <3>1, <3>2 DEF IInv, TypeOK, Signed
    <3>4. kept[c] = nonces[c]
      BY <1>1, <2>1, <3>2, <3>3, NonceAssumption
    <3> QED BY <2>3, <3>2, <3>4, <1>0, <1>1, <1>3
  <2> QED BY <2>2, <2>3
<1>9. AcceptedOnce'
  BY <1>0, <1>2, <1>4 DEF IInv, TypeOK, AcceptedOnce
<1> QED BY <1>5, <1>6, <1>7, <1>8, <1>9 DEF IInv

-----------------------------------------------------------------------------

LEMMA NextIInv == IInv /\ [Next]_vars => IInv'
<1> SUFFICES ASSUME IInv, [Next]_vars PROVE IInv'
  OBVIOUS
<1> USE NonceAssumption
<1>0. TypeOK
  BY DEF IInv
<1>1. ASSUME NEW c \in Call, NEW ts \in 0 .. MaxTime, SignRequest(c, ts) PROVE IInv'
  BY <1>1 DEF SignRequest, IInv, TypeOK, Signed, AttemptsSound, MaintainPast, KeptWhileFresh, AcceptedOnce, Attempt
<1>2. ASSUME NEW t \in Thread, NEW c \in Call, Verify(t, c) PROVE IInv'
  <2> DEFINE a == [call |-> c, at |-> clock, expires |-> 0, pc |-> "expiry"]
  <2>1. a \in Attempt
    BY <1>0 DEF TypeOK, Attempt
  <2>2. attempt' = [attempt EXCEPT ![t] = a] /\ timestamp[a.call] # None /\ a.at <= clock
    BY <1>2, <1>0 DEF Verify, TypeOK
  <2>3. UNCHANGED <<clock, timestamp, nonces, maintain, accepted>>
    BY <1>2 DEF Verify
  <2>4. a.pc # "use"
    OBVIOUS
  <2> HIDE DEF a
  <2> QED BY <2>1, <2>2, <2>3, <2>4, AttemptStep
<1>3. ASSUME NEW t \in Thread, NEW c \in Call, VerifySignedRequest(t, c) PROVE IInv'
  <2> DEFINE a == [call |-> c, at |-> clock, expires |-> Retention(c, clock), pc |-> "use"]
  <2>1. timestamp[c] # None /\ UNCHANGED <<clock, timestamp, nonces, maintain, accepted>>
        /\ attempt' = [attempt EXCEPT ![t] = a]
    BY <1>3 DEF VerifySignedRequest
  <2>2. Retention(c, clock) \in Nat /\ timestamp[c] + Skew <= Retention(c, clock)
    BY <1>0, <2>1, RetentionCovers
  <2>3. a \in Attempt /\ a.call = c /\ a.at <= clock /\ a.expires = Retention(c, clock)
    BY <1>0, <2>2 DEF TypeOK, Attempt
  <2> HIDE DEF a
  <2> QED BY <2>1, <2>2, <2>3, AttemptStep
<1>4. ASSUME NEW t \in Thread, ExpiresAt(t) PROVE IInv'
  <2> DEFINE d == attempt[t].call
             a == [call |-> d, at |-> clock, expires |-> Retention(d, clock), pc |-> "use"]
  <2>1. attempt[t] \in Attempt /\ d \in Call /\ timestamp[d] # None /\ attempt[t].at <= clock
    BY <1>0, <1>4 DEF ExpiresAt, TypeOK, IInv, AttemptsSound, Attempt
  <2>2. Retention(d, clock) \in Nat /\ timestamp[d] + Skew <= Retention(d, clock)
    BY <1>0, <2>1, RetentionCovers
  <2>3. a \in Attempt /\ a.call = d /\ a.at <= clock /\ a.expires = Retention(d, clock)
    BY <1>0, <2>1, <2>2 DEF TypeOK, Attempt
  <2>4. attempt' = [attempt EXCEPT ![t] = a] /\ UNCHANGED <<clock, timestamp, nonces, maintain, accepted>>
    BY <1>4, <1>0 DEF ExpiresAt, TypeOK
  <2> HIDE DEF a
  <2> QED BY <2>1, <2>2, <2>3, <2>4, AttemptStep
<1>5. ASSUME NEW t \in Thread, attempt[t] # None
      PROVE  /\ attempt[t].at \in Nat /\ attempt[t].at <= clock
             /\ attempt[t].call \in Call /\ attempt[t].expires \in Nat
             /\ [attempt EXCEPT ![t] = None] \in [Thread -> Attempt \cup {None}]
  BY <1>5, <1>0 DEF IInv, TypeOK, AttemptsSound, Attempt
<1>6. ASSUME NEW t \in Thread, UseSignatureNonce(t) PROVE IInv'
  <2> DEFINE d == attempt[t].call
  <2>0. PICK now \in attempt[t].at .. clock :
          LET kept == Pruned(now, Call \ ToPlugin)
          IN \/ kept[d] = None /\ Accept(d, kept, attempt[t].expires)
             \/ kept[d] # None /\ UNCHANGED <<nonces, accepted>>
    BY <1>6 DEF UseSignatureNonce
  <2> DEFINE kept == Pruned(now, Call \ ToPlugin)
  <2>4. now \in Nat /\ now <= clock
    BY <1>6, <1>0, <1>5 DEF UseSignatureNonce, TypeOK
  <2>1. clock \in Nat /\ attempt[t] # None /\ attempt[t].pc = "use"
        /\ attempt' = [attempt EXCEPT ![t] = None] /\ UNCHANGED <<clock, timestamp, maintain>>
    BY <1>6, <1>0 DEF UseSignatureNonce, TypeOK
  <2>2. CASE kept[d] = None /\ Accept(d, kept, attempt[t].expires)
    BY <2>1, <2>2, <2>4, AcceptStep
  <2>3. CASE UNCHANGED <<nonces, accepted>>
    BY <2>1, <2>3, <1>0, <1>5, QuietStep DEF TypeOK
  <2> QED BY <2>0, <2>2, <2>3
<1>7. ASSUME NEW t \in Thread, UseFails(t) PROVE IInv'
  <2> DEFINE d == attempt[t].call
  <2>0. PICK now \in attempt[t].at .. clock :
          LET kept == Pruned(now, Call \ ToPlugin)
          IN \/ UNCHANGED nonces
             \/ kept[d] = None /\ nonces' = [kept EXCEPT ![d] = attempt[t].expires]
    BY <1>7 DEF UseFails
  <2> DEFINE kept == Pruned(now, Call \ ToPlugin)
  <2>4. now \in Nat /\ now <= clock
    BY <1>7, <1>0, <1>5 DEF UseFails, TypeOK
  <2>1. clock \in Nat /\ attempt[t] # None /\ UNCHANGED <<clock, timestamp, maintain, accepted>>
        /\ attempt' = [attempt EXCEPT ![t] = None]
    BY <1>7, <1>0 DEF UseFails, TypeOK
  <2>2. CASE UNCHANGED nonces
    BY <2>1, <2>2, <1>0, <1>5, QuietStep DEF TypeOK
  <2>3. CASE kept[d] = None /\ nonces' = [kept EXCEPT ![d] = attempt[t].expires]
    <3>1. /\ kept \in [Call -> Nat \cup {None}]
          /\ \A c \in Call : nonces[c] # None /\ clock <= nonces[c] => kept[c] = nonces[c]
      BY <2>4, <1>0, PrunedKeeps
    <3>2. nonces' \in [Call -> Nat \cup {None}]
      BY <2>1, <2>3, <3>1, <1>5
    <3>3. \A c \in Call : nonces[c] # None /\ clock <= nonces[c] => nonces'[c] = nonces[c]
      BY <2>3, <3>1
    <3> HIDE DEF kept
    <3> QED BY <2>1, <3>2, <3>3, <1>0, <1>5, QuietStep DEF TypeOK
  <2> QED BY <2>0, <2>2, <2>3
<1>8. ASSUME NEW t \in Thread, UseNonce(t) PROVE IInv'
  <2> DEFINE d == attempt[t].call
             kept == Pruned(attempt[t].at, ToPlugin)
  <2>1. attempt[t] # None /\ attempt[t].pc = "use" /\ clock \in Nat
        /\ attempt' = [attempt EXCEPT ![t] = None] /\ UNCHANGED <<clock, timestamp, maintain>>
    BY <1>8, <1>0 DEF UseNonce, TypeOK
  <2>2. CASE kept[d] = None /\ Accept(d, kept, attempt[t].expires)
    BY <2>1, <2>2, <1>5, AcceptStep
  <2>3. CASE nonces' = kept /\ UNCHANGED accepted
    BY <2>1, <2>3, <1>0, <1>5, PrunedKeeps, QuietStep
  <2> QED BY <1>8, <2>2, <2>3 DEF UseNonce
<1>9. CASE MaintainBegin
  BY <1>9, <1>0, QuietStep DEF MaintainBegin, TypeOK
<1>10. CASE PruneSignatureNonces
  <2>1. maintain \in Nat /\ maintain <= clock /\ clock \in Nat
        /\ maintain' = None /\ UNCHANGED <<clock, timestamp, attempt, accepted>>
    BY <1>10, <1>0 DEF PruneSignatureNonces, TypeOK, IInv, MaintainPast
  <2>2. nonces' = Pruned(maintain, Call \ ToPlugin)
    BY <1>10 DEF PruneSignatureNonces
  <2>3. attempt' \in [Thread -> Attempt \cup {None}]
    BY <2>1, <1>0 DEF TypeOK
  <2> QED BY <2>1, <2>2, <2>3, <1>0, PrunedKeeps, QuietStep
<1>11. CASE ServerRestart
  BY <1>11, <1>0, QuietStep DEF ServerRestart, AttemptsAt, TypeOK
<1>12. CASE PluginRestart
  <2>1. TypeOK'
    BY <1>12, <1>0 DEF PluginRestart, AttemptsAt, TypeOK
  <2>2. \A t \in Thread : attempt'[t] \in {attempt[t], None}
    BY <1>12 DEF PluginRestart, AttemptsAt
  <2>3. \A c \in Call : \/ accepted'[c] = 0
                        \/ accepted'[c] = accepted[c] /\ nonces'[c] = nonces[c]
    BY <1>12, <1>0 DEF PluginRestart, TypeOK
  <2>4. UNCHANGED <<clock, timestamp, maintain>>
    BY <1>12 DEF PluginRestart
  <2>5. Signed' /\ AcceptedOnce' /\ KeptWhileFresh'
    BY <2>3, <2>4 DEF IInv, Signed, AcceptedOnce, KeptWhileFresh
  <2>6. AttemptsSound' /\ MaintainPast'
    BY <2>2, <2>4 DEF IInv, AttemptsSound, MaintainPast
  <2> QED BY <2>1, <2>5, <2>6 DEF IInv
<1>13. CASE Tick
  BY <1>13, <1>0, QuietStep DEF Tick, TypeOK
<1>14. CASE UNCHANGED vars
  BY <1>14, <1>0, QuietStep DEF vars, TypeOK
<1> QED
  BY <1>1, <1>2, <1>3, <1>4, <1>6, <1>7, <1>8, <1>9, <1>10, <1>11, <1>12, <1>13, <1>14 DEF Next

-----------------------------------------------------------------------------

\* The inductive invariant holds throughout.
THEOREM Invariance == Spec => []IInv
<1>1. Init => IInv
  BY InitIInv
<1>2. IInv /\ [Next]_vars => IInv'
  BY NextIInv
<1> QED BY <1>1, <1>2, PTL DEF Spec

\* Every variable keeps its type.
THEOREM NonceTypes == Spec => []TypeOK
<1>1. IInv => TypeOK
  BY DEF IInv
<1> QED BY <1>1, Invariance, PTL

\* A verifier accepts a signed call at most once while its window is open
\* (UseSignatureNonce, UseNonce and the prunings).
THEOREM Once == Spec => []AcceptedOnce
<1>1. IInv => AcceptedOnce
  BY DEF IInv
<1> QED BY <1>1, Invariance, PTL

\* The nonce of an accepted call stays on record for as long as its window is open.
THEOREM Kept == Spec => []KeptWhileFresh
<1>1. IInv => KeptWhileFresh
  BY DEF IInv
<1> QED BY <1>1, Invariance, PTL

=============================================================================
