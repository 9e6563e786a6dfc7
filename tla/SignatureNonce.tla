---------------------------- MODULE SignatureNonce ----------------------------
(***************************************************************************)
(* Signed calls and the nonces that make each of them good for one use.    *)
(* A plugin signs its calls of the control plane, whose nonces the main    *)
(* service keeps in a table; the gateway signs the requests it forwards,   *)
(* whose nonces a plugin keeps in memory.  The network may deliver a call  *)
(* late or twice.  Each verifier checks the timestamp against one reading  *)
(* of its clock and records the nonce later, under another reading (the    *)
(* main service) or under the same one (a plugin).                         *)
(***************************************************************************)
EXTENDS Integers

CONSTANTS Call,       \* calls, each signed with a nonce of its own
          ToPlugin,   \* those that the gateway sends to a plugin
          Thread,     \* handler threads of the two verifiers
          Skew,       \* how far a timestamp may be from the verifier's clock
          Grace,      \* the minute that a late nonce is kept
          MaxTime,    \* bound of the clock
          None

ASSUME NonceAssumption ==
  /\ ToPlugin \subseteq Call
  /\ Skew \in Nat /\ Grace \in Nat /\ MaxTime \in Nat
  /\ None \notin Nat /\ None \notin Call

VARIABLES clock,      \* the clock that the verifiers read
          timestamp,  \* timestamp[c]: what call c was signed with, or None
          attempt,    \* attempt[t]: the delivery that thread t verifies
          nonces,     \* nonces[c]: when the recorded nonce of c expires, or None
          maintain,   \* the reading that a running maintenance works with
          accepted    \* history: deliveries accepted inside the window

vars == <<clock, timestamp, attempt, nonces, maintain, accepted>>

-----------------------------------------------------------------------------

Attempt == [call : Call, at : Nat, expires : Nat, pc : {"expiry", "use"}]

TypeOK ==
  /\ clock \in Nat
  /\ timestamp \in [Call -> Nat \cup {None}]
  /\ attempt \in [Thread -> Attempt \cup {None}]
  /\ nonces \in [Call -> Nat \cup {None}]
  /\ maintain \in Nat \cup {None}
  /\ accepted \in [Call -> Nat]

Init ==
  /\ clock = 0
  /\ timestamp = [c \in Call |-> None]
  /\ attempt = [t \in Thread |-> None]
  /\ nonces = [c \in Call |-> None]
  /\ maintain = None
  /\ accepted = [c \in Call |-> 0]

-----------------------------------------------------------------------------

InWindow(c, now) == timestamp[c] - Skew <= now /\ now <= timestamp[c] + Skew

\* Mutant: the skew forgotten.
RetentionUnskewed(c, now) == IF timestamp[c] < now THEN now + Grace ELSE timestamp[c]

\* How long the nonce of c is kept, decided under the reading now.
Retention(c, now) ==
  IF timestamp[c] + Skew < now THEN now + Grace ELSE timestamp[c] + Skew

\* The signer's clock is not the verifier's.
SignRequest(c, ts) ==
  /\ timestamp[c] = None
  /\ timestamp' = [timestamp EXCEPT ![c] = ts]
  /\ UNCHANGED <<clock, attempt, nonces, maintain, accepted>>

\* The main service checks the timestamp and goes on to the expiry.
Verify(t, c) ==
  /\ c \notin ToPlugin
  /\ attempt[t] = None
  /\ timestamp[c] # None /\ InWindow(c, clock)
  /\ attempt' = [attempt EXCEPT ![t] = [call |-> c, at |-> clock, expires |-> 0, pc |-> "expiry"]]
  /\ UNCHANGED <<clock, timestamp, nonces, maintain, accepted>>

ExpiresAt(t) ==
  /\ attempt[t] # None /\ attempt[t].pc = "expiry"
  /\ LET c == attempt[t].call
     IN attempt' = [attempt EXCEPT ![t] = [call |-> c, at |-> clock,
                                           expires |-> Retention(c, clock), pc |-> "use"]]
  /\ UNCHANGED <<clock, timestamp, nonces, maintain, accepted>>

\* A plugin checks the timestamp and computes the expiry under one reading.
VerifySignedRequest(t, c) ==
  /\ c \in ToPlugin
  /\ attempt[t] = None
  /\ timestamp[c] # None /\ InWindow(c, clock)
  /\ attempt' = [attempt EXCEPT ![t] = [call |-> c, at |-> clock,
                                        expires |-> Retention(c, clock), pc |-> "use"]]
  /\ UNCHANGED <<clock, timestamp, nonces, maintain, accepted>>

\* Mutant: a nonce is deleted in the last moment of its window.
PrunedAtExpiry(now, store) ==
  [c \in Call |-> IF c \in store /\ nonces[c] # None /\ nonces[c] <= now THEN None ELSE nonces[c]]

\* The nonces of one store, without those that expired before now.
Pruned(now, store) ==
  [c \in Call |-> IF c \in store /\ nonces[c] # None /\ nonces[c] < now THEN None ELSE nonces[c]]

Accept(c, kept, expires) ==
  /\ nonces' = [kept EXCEPT ![c] = expires]
  /\ accepted' = [accepted EXCEPT ![c] = IF clock <= timestamp[c] + Skew THEN @ + 1 ELSE @]

\* The transaction of the main service prunes under a clock that was read before
\* it began; a duplicate rolls the pruning back.
UseSignatureNonce(t) ==
  /\ attempt[t] # None /\ attempt[t].pc = "use" /\ attempt[t].call \notin ToPlugin
  /\ \E now \in attempt[t].at .. clock :
       LET c == attempt[t].call
           kept == Pruned(now, Call \ ToPlugin)
       IN \/ kept[c] = None /\ Accept(c, kept, attempt[t].expires)
          \/ kept[c] # None /\ UNCHANGED <<nonces, accepted>>
  /\ attempt' = [attempt EXCEPT ![t] = None]
  /\ UNCHANGED <<clock, timestamp, maintain>>

\* The transaction fails, or its commit is reported as failed: the call is refused.
UseFails(t) ==
  /\ attempt[t] # None /\ attempt[t].pc = "use" /\ attempt[t].call \notin ToPlugin
  /\ \E now \in attempt[t].at .. clock :
       LET c == attempt[t].call
           kept == Pruned(now, Call \ ToPlugin)
       IN \/ UNCHANGED nonces
          \/ kept[c] = None /\ nonces' = [kept EXCEPT ![c] = attempt[t].expires]
  /\ attempt' = [attempt EXCEPT ![t] = None]
  /\ UNCHANGED <<clock, timestamp, maintain, accepted>>

\* The memory of a plugin, under its mutex: the pruning stays.
UseNonce(t) ==
  /\ attempt[t] # None /\ attempt[t].pc = "use" /\ attempt[t].call \in ToPlugin
  /\ LET c == attempt[t].call
         kept == Pruned(attempt[t].at, ToPlugin)
     IN \/ kept[c] = None /\ Accept(c, kept, attempt[t].expires)
        \/ kept[c] # None /\ nonces' = kept /\ UNCHANGED accepted
  /\ attempt' = [attempt EXCEPT ![t] = None]
  /\ UNCHANGED <<clock, timestamp, maintain>>

\* The maintenance of the main service reads the clock, and prunes with it later.
MaintainBegin ==
  /\ maintain = None
  /\ maintain' = clock
  /\ UNCHANGED <<clock, timestamp, attempt, nonces, accepted>>

\* Mutant: the maintenance prunes under an older cutoff.
PruneSignatureNoncesLate ==
  /\ maintain # None
  /\ nonces' = Pruned(maintain - Grace, Call \ ToPlugin)
  /\ maintain' = None
  /\ UNCHANGED <<clock, timestamp, attempt, accepted>>

PruneSignatureNonces ==
  /\ maintain # None
  /\ nonces' = Pruned(maintain, Call \ ToPlugin)
  /\ maintain' = None
  /\ UNCHANGED <<clock, timestamp, attempt, accepted>>

AttemptsAt(calls) == [t \in Thread |->
  IF attempt[t] # None /\ attempt[t].call \in calls THEN None ELSE attempt[t]]

\* The table outlives the main service.
ServerRestart ==
  /\ attempt' = AttemptsAt(Call \ ToPlugin)
  /\ maintain' = None
  /\ UNCHANGED <<clock, timestamp, nonces, accepted>>

\* A plugin forgets its nonces; accepted counts from its last start.
PluginRestart ==
  /\ attempt' = AttemptsAt(ToPlugin)
  /\ nonces' = [c \in Call |-> IF c \in ToPlugin THEN None ELSE nonces[c]]
  /\ accepted' = [c \in Call |-> IF c \in ToPlugin THEN 0 ELSE accepted[c]]
  /\ UNCHANGED <<clock, timestamp, maintain>>

Tick ==
  /\ clock < MaxTime
  /\ clock' = clock + 1
  /\ UNCHANGED <<timestamp, attempt, nonces, maintain, accepted>>

Next ==
  \/ \E c \in Call, ts \in 0 .. MaxTime : SignRequest(c, ts)
  \/ \E t \in Thread, c \in Call : Verify(t, c) \/ VerifySignedRequest(t, c)
  \/ \E t \in Thread : ExpiresAt(t) \/ UseSignatureNonce(t) \/ UseFails(t) \/ UseNonce(t)
  \/ MaintainBegin \/ PruneSignatureNonces
  \/ ServerRestart \/ PluginRestart
  \/ Tick

Spec == Init /\ [][Next]_vars

\* The maintenance loop ticks for as long as the main service runs, and restarts
\* do not end every maintenance before it prunes.
Maintained == WF_vars(MaintainBegin) /\ SF_vars(PruneSignatureNonces)

FairSpec == Spec /\ Maintained

-----------------------------------------------------------------------------

\* A verifier accepts a signed call once while the call's window is open, however
\* its deliveries, the pruning and, at the main service, restarts interleave.
AcceptedOnce == \A c \in Call : accepted[c] <= 1

\* A nonce that was accepted is on record for as long as its timestamp would pass
\* (expiresAt of validateControlSignature and VerifySignedRequest against the
\* pruning in three places).
KeptWhileFresh ==
  \A c \in Call :
    accepted[c] > 0 /\ clock <= timestamp[c] + Skew =>
      nonces[c] # None /\ timestamp[c] + Skew <= nonces[c]

\* A row of the nonce table that has expired does not stay: the next use of a nonce
\* deletes it, or the maintenance does.
Expired(c) == nonces[c] # None /\ nonces[c] < clock

ExpiredPruned == \A c \in Call \ ToPlugin : Expired(c) ~> ~Expired(c)

=============================================================================
