------------------------ MODULE LifecycleRunnerProofs ------------------------
(***************************************************************************)
(* Theorems about LifecycleRunner, for any runners, plugins, manifests,    *)
(* threads and bounds.                                                     *)
(***************************************************************************)
EXTENDS LifecycleRunner, ControlPlaneProofs

-----------------------------------------------------------------------------
(* What the server does to a call and to the rows. *)

\* A call under way goes on as it was, ends, or was written: a registration
\* with its row.
Continues(t) ==
  \/ call'[t] = call[t]
  \/ call'[t].phase = "idle"
  \/ /\ call[t].phase = "register"
     /\ call'[t].phase = "register"
     /\ call'[t].manifest = call[t].manifest
     /\ call'[t].instance = call[t].instance
  \/ /\ call[t].phase = "register"
     /\ call'[t].phase = "invalidate"
     /\ instance'[PluginOf[call[t].manifest]][call[t].instance] # None
  \/ call[t].phase = "touch" /\ call'[t].phase = "invalidate"

\* No row is ever removed.
RowsStay == \A p \in Plugin, i \in Instance : HasRow(p, i) => instance'[p][i] # None

\* A written row is a row.
LEMMA WriteStays ==
  ASSUME TypeOK, NEW p \in Plugin, NEW i \in Instance, NEW row \in InstanceRow,
         WriteInstance(p, i, row)
  PROVE  RowsStay
BY NoneAssumption DEF TypeOK, TablesType, WriteInstance, RowsStay, HasRow

\* The transaction of a registration keeps the rows and has one for its instance.
LEMMA UpsertStays ==
  ASSUME TypeOK, NEW i \in Instance, NEW m \in Manifest, NEW at \in Nat,
         UpsertRegistration(i, m, at)
  PROVE  RowsStay /\ instance'[PluginOf[m]][i] # None
<1> DEFINE p == PluginOf[m]
<1>1. p \in Plugin
  BY TablesAssumption
<1>2. FreshRow(m, at) \in InstanceRow
  BY TablesAssumption DEF FreshRow, InstanceRow
<1>3. \A j \in Superseded(p, i, m) :
        [instance[p][j] EXCEPT !.status = "incompatible"] \in InstanceRow
  <2> TAKE j \in Superseded(p, i, m)
  <2>1. instance[p][j] \in InstanceRow
    BY <1>1, RowType DEF Superseded, TypeOK
  <2> QED BY <2>1 DEF InstanceRow
<1>4. /\ instance'[p][i] = FreshRow(m, at)
      /\ \A j \in Instance \ {i} :
           instance'[p][j] \in {[instance[p][j] EXCEPT !.status = "incompatible"], instance[p][j]}
      /\ \A j \in Instance \ {i} :
           j \notin Superseded(p, i, m) => instance'[p][j] = instance[p][j]
  BY <1>1 DEF UpsertRegistration, UpsertInstances, TypeOK, TablesType, Superseded
<1>5. \A q \in Plugin \ {p} : instance'[q] = instance[q]
  BY <1>1 DEF UpsertRegistration, UpsertInstances, TypeOK, TablesType
<1>6. instance'[p][i] # None
  BY <1>2, <1>4, NoneAssumption
<1>7. ASSUME NEW j \in Instance, HasRow(p, j)
      PROVE  instance'[p][j] # None
  <2>1. CASE j = i
    BY <1>6, <2>1
  <2>2. CASE j # i /\ j \in Superseded(p, i, m)
    BY <1>3, <1>4, <1>7, <2>2, NoneAssumption DEF HasRow
  <2>3. CASE j # i /\ j \notin Superseded(p, i, m)
    BY <1>4, <1>7, <2>3 DEF HasRow
  <2> QED BY <2>1, <2>2, <2>3
<1> QED BY <1>5, <1>6, <1>7 DEF RowsStay, HasRow

\* A step of one handler thread: rows stay, the other calls are left alone, and
\* its own continues.
LEMMA HandlesEffect ==
  ASSUME TypeOK, NEW t \in Thread, Handles(t)
  PROVE  /\ RowsStay
         /\ \A u \in Thread \ {t} : call'[u] = call[u]
         /\ Idle(t) \/ Continues(t)
<1> USE DEF Idle
<1>0. call \in [Thread -> Call]
  BY DEF TypeOK
<1>a. ASSUME UNCHANGED tables
      PROVE  RowsStay
  BY <1>a DEF tables, RowsStay, HasRow
<1>b. ASSUME NEW c, Become(t, c)
      PROVE  call'[t] = c /\ \A u \in Thread \ {t} : call'[u] = call[u]
  BY <1>0, <1>b DEF Become
<1>c. ASSUME AfterWrite(t)
      PROVE  /\ call'[t].phase \in {"idle", "invalidate"}
             /\ \A u \in Thread \ {t} : call'[u] = call[u]
  BY <1>0, <1>c DEF AfterWrite, Become, IdleCall, InvalidateCall
<1>1. ASSUME NEW m \in Manifest, NEW i \in Instance, Register(t, m, i)
      PROVE  RowsStay /\ (\A u \in Thread \ {t} : call'[u] = call[u]) /\ Idle(t)
  BY <1>0, <1>1, <1>a DEF Register, Become
<1>2. CASE RegisterCheck(t)
  <2>1. PICK r \in call[t].left : Become(t, [call[t] EXCEPT !.left = @ \ {r}])
    BY <1>2 DEF RegisterCheck
  <2>2. call[t] \in RegisterCall
    BY <1>0, <1>2, CallKinds DEF RegisterCheck
  <2>3. /\ call'[t] = [call[t] EXCEPT !.left = @ \ {r}]
        /\ \A u \in Thread \ {t} : call'[u] = call[u]
    BY <1>b, <2>1
  <2>4. /\ call'[t].phase = call[t].phase
        /\ call'[t].manifest = call[t].manifest
        /\ call'[t].instance = call[t].instance
    BY <2>2, <2>3 DEF RegisterCall
  <2>5. RowsStay
    BY <1>2, <1>a DEF RegisterCheck
  <2> QED BY <1>2, <2>3, <2>4, <2>5 DEF RegisterCheck, Continues
<1>3. CASE RegisterRefused(t) \/ RegisterRollback(t) \/ CallFails(t)
  <2>1. Become(t, IdleCall) /\ UNCHANGED tables
    BY <1>3 DEF RegisterRefused, RegisterRollback, CallFails
  <2> QED BY <1>a, <1>b, <2>1 DEF IdleCall, Continues
<1>4. CASE RegisterCommit(t)
  <2>1. call[t] \in RegisterCall /\ call[t].phase = "register"
    BY <1>0, <1>4, CallKinds DEF RegisterCommit, Checked
  <2>2. RowsStay /\ instance'[PluginOf[call[t].manifest]][call[t].instance] # None
    BY <1>4, <2>1, UpsertStays DEF RegisterCommit, RegisterCall
  <2> QED BY <1>4, <1>c, <2>1, <2>2 DEF RegisterCommit, Continues
<1>5. ASSUME NEW p \in Plugin, NEW i \in Instance, HeartbeatRead(t, p, i)
      PROVE  RowsStay /\ (\A u \in Thread \ {t} : call'[u] = call[u]) /\ Idle(t)
  BY <1>0, <1>5, <1>a DEF HeartbeatRead, Become
<1>6. CASE HeartbeatSave(t)
  <2>1. call[t] \in TouchCall /\ call[t].phase = "touch"
    BY <1>0, <1>6, CallKinds DEF HeartbeatSave
  <2>2. TouchedRow(call[t].row, call[t].at) \in InstanceRow
    BY <2>1, TouchedRowType DEF TouchCall
  <2>3. RowsStay
    BY <1>6, <2>1, <2>2, WriteStays DEF HeartbeatSave, TouchSave, TouchCall
  <2> QED BY <1>6, <1>c, <2>1, <2>3 DEF HeartbeatSave, Continues
<1>7. ASSUME NEW p \in Plugin, NEW i \in Instance, NEW s \in {"active", "disabled"},
             SetInstanceStatus(p, i, s)
      PROVE  RowsStay
  <2>1. instance[p][i] \in InstanceRow
    BY <1>7, RowType DEF SetInstanceStatus, TypeOK
  <2>2. [instance[p][i] EXCEPT !.status = s] \in InstanceRow
    BY <2>1 DEF InstanceRow
  <2> QED BY <1>7, <2>2, WriteStays DEF SetInstanceStatus
<1>8. ASSUME NEW p \in Plugin, NEW i \in Instance, Unregister(t, p, i)
      PROVE  RowsStay /\ (\A u \in Thread \ {t} : call'[u] = call[u]) /\ Idle(t)
  BY <1>7, <1>8, <1>c DEF Unregister
<1>9. ASSUME NEW p \in Plugin, NEW i \in Instance, NEW s \in {"active", "disabled"},
             AdminSetInstance(t, p, i, s)
      PROVE  RowsStay /\ (\A u \in Thread \ {t} : call'[u] = call[u]) /\ Idle(t)
  BY <1>7, <1>9, <1>c DEF AdminSetInstance
<1>10. ASSUME NEW p \in Plugin, NEW s \in {"active", "disabled"}, AdminSetService(t, p, s)
       PROVE  RowsStay /\ (\A u \in Thread \ {t} : call'[u] = call[u]) /\ Idle(t)
  BY <1>10, <1>c DEF AdminSetService, SetServiceStatus, RowsStay, HasRow
<1> QED
  BY <1>1, <1>2, <1>3, <1>4, <1>5, <1>6, <1>8, <1>9, <1>10 DEF Handles

\* A step of the server, whatever Operation leaves out: rows stay, and calls
\* under way continue.
LEMMA ServerEffect ==
  ASSUME TypeOK, Next \/ UNCHANGED vars
  PROVE  RowsStay /\ \A t \in Thread : Idle(t) \/ Continues(t)
<1>0. call \in [Thread -> Call]
  BY DEF TypeOK
<1>1. ASSUME NEW t \in Thread, Serve(t)
      PROVE  RowsStay /\ \A u \in Thread : Idle(u) \/ Continues(u)
  BY <1>1, ServeHandles, HandlesEffect DEF Continues
<1>2. ASSUME UNCHANGED <<instance, call>>
      PROVE  RowsStay /\ \A u \in Thread : Idle(u) \/ Continues(u)
  BY <1>2 DEF RowsStay, HasRow, Continues
<1>3. CASE HealthStep
  <2>1. ASSUME NEW x \in sweep.targets, NEW ok \in BOOLEAN, HealthProbe(x, ok)
        PROVE  RowsStay /\ UNCHANGED call
    <3>1. x \in Target
      BY <2>1 DEF TypeOK, Sweep
    <3>2. /\ NextFailures(x, ok) \in Nat
          /\ NextHealth(x, ok) \in {"unknown", "healthy", "unhealthy"}
      BY <3>1 DEF NextFailures, NextHealth, Target
    <3>3. x.plugin \in Plugin /\ x.instance \in Instance /\ HasRow(x.plugin, x.instance)
      BY <2>1, <3>1 DEF HealthProbe, UpdateInstanceHealth, Target
    <3>4. CheckedRow(instance[x.plugin][x.instance], NextHealth(x, ok), NextFailures(x, ok))
            \in InstanceRow
      BY <3>2, <3>3, RowType, CheckedRowType DEF TypeOK
    <3> QED BY <2>1, <3>3, <3>4, WriteStays DEF HealthProbe, UpdateInstanceHealth
  <2>2. HealthList \/ (\E x \in sweep.targets : HealthUpdateFails(x)) \/ HealthReload
          => UNCHANGED <<instance, call>>
    BY DEF HealthList, HealthUpdateFails, HealthReload, tables
  <2> QED BY <1>2, <1>3, <2>1, <2>2 DEF HealthStep, ProbeOutcome, Continues
<1>4. CASE MaintainDisableStale
  <2>1. PICK at \in 0 .. now : DisableStalePluginInstances(at)
    BY <1>4 DEF MaintainDisableStale
  <2>2. ASSUME NEW p \in Plugin, NEW i \in Instance, HasRow(p, i)
        PROVE  instance'[p][i] # None
    <3>1. instance[p][i] \in InstanceRow
      BY <2>2, RowType DEF TypeOK
    <3>2. [instance[p][i] EXCEPT !.status = "disabled"] \in InstanceRow
      BY <3>1 DEF InstanceRow
    <3> QED BY <2>1, <2>2, <3>2, NoneAssumption DEF DisableStalePluginInstances, HasRow
  <2> QED BY <1>4, <2>2 DEF MaintainDisableStale, RowsStay, Continues
<1>5. CASE Tick \/ HealthInvalidate \/ MaintainInvalidate \/ UNCHANGED vars
  BY <1>2, <1>5 DEF Tick, HealthInvalidate, MaintainInvalidate, vars, tables
<1>6. ASSUME NEW t \in Thread, Return(t)
      PROVE  RowsStay /\ \A u \in Thread : Idle(u) \/ Continues(u)
  BY <1>0, <1>6 DEF Return, Become, IdleCall, tables, RowsStay, HasRow, Continues
<1>7. CASE ServerRestart
  BY <1>7 DEF ServerRestart, IdleCall, tables, RowsStay, HasRow, Continues
<1> QED
  BY <1>1, <1>3, <1>4, <1>5, <1>6, <1>7 DEF Next, Proceed, Invalidate, Restart

-----------------------------------------------------------------------------
(* The inductive invariant. *)

\* The call of a runner's first registration is still the one it made, or it was
\* written and the runner has its row.
FirstCalls ==
  \A r \in Runner : runner[r].phase = "registering" =>
    \/ Serves(runner[r].thread, r)
    \/ /\ call[runner[r].thread].phase = "invalidate"
       /\ HasRow(PluginKey(r), InstanceOf[r])

RunnerInv == RunnerType /\ FirstCalls /\ RunningHasRow

\* The phases of a runner, with and without a thread.
LEMMA Phases ==
  ASSUME runner \in [Runner -> RunnerState], NEW r \in Runner
  PROVE  /\ runner[r].phase \in Waiting => runner[r].thread \in Thread
         /\ runner[r].phase \in Waiting \cup {"stopped", "start", "ticking", "backoff", "leaving"}
BY DEF RunnerState, At, Waiting

\* Where a call leads is a state of a runner that waits for nothing.
LEMMA AfterCallType ==
  ASSUME NEW r \in Runner, NEW ok \in BOOLEAN, runner[r].phase \in Waiting
  PROVE  /\ AfterCall(r, ok) \in RunnerState
         /\ AfterCall(r, ok).phase \in {"ticking", "stopped"}
         /\ runner[r].phase = "registering" /\ ~ok => AfterCall(r, ok).phase = "stopped"
BY DEF AfterCall, RunnerState, At, Waiting

\* The key of a runner's row.
LEMMA Keys ==
  ASSUME NEW r \in Runner
  PROVE  PluginKey(r) \in Plugin /\ InstanceOf[r] \in Instance
BY RunnerAssumption, TablesAssumption DEF PluginKey

\* Rows that stay are rows after the step.
LEMMA RowStays ==
  ASSUME RowsStay, NEW r \in Runner, HasRow(PluginKey(r), InstanceOf[r])
  PROVE  HasRow(PluginKey(r), InstanceOf[r])'
BY Keys DEF RowsStay, HasRow, PluginKey

\* A step of the server that answers who waits for a thread in T keeps the
\* invariant, when no other call ended and only written ones succeed.
LEMMA AnswerKeepsInv ==
  ASSUME RunnerInv, TypeOK', RowsStay, \A t \in Thread : Idle(t) \/ Continues(t),
         NEW T \in SUBSET Thread, NEW ok \in BOOLEAN, Answer(T, ok),
         \A t \in Thread \ T : ~Idle(t) => call'[t].phase # "idle",
         ok => \A t \in T : call[t].phase = "invalidate"
  PROVE  RunnerInv'
<1> DEFINE Answered(r) == runner[r].phase \in Waiting /\ runner[r].thread \in T
<1>1. runner \in [Runner -> RunnerState]
  BY DEF RunnerInv, RunnerType
<1>2. \A r \in Runner : runner'[r] = IF Answered(r) THEN AfterCall(r, ok) ELSE runner[r]
  BY DEF Answer
<1>3. runner' \in [Runner -> RunnerState]
  BY <1>1, AfterCallType DEF Answer
<1>4. ASSUME NEW r \in Runner
      PROVE  /\ runner'[r].phase \in Waiting => call'[runner'[r].thread].phase # "idle"
             /\ runner'[r].phase = "registering" =>
                  \/ Serves(runner[r].thread, r)'
                  \/ /\ call'[runner'[r].thread].phase = "invalidate"
                     /\ HasRow(PluginKey(r), InstanceOf[r])'
             /\ runner'[r].phase \in Looping \cup {"leaving", "unregistering"} =>
                  HasRow(PluginKey(r), InstanceOf[r])'
  <2>1. CASE Answered(r)
    <3>1. /\ runner'[r] = AfterCall(r, ok)
          /\ runner'[r].phase \in {"ticking", "stopped"}
          /\ runner[r].phase = "registering" /\ ~ok => runner'[r].phase = "stopped"
      BY <1>2, <2>1, AfterCallType
    <3>2. runner'[r].phase \notin Waiting /\ runner'[r].phase # "registering"
      BY <3>1 DEF Waiting
    <3>3. ASSUME runner'[r].phase = "ticking"
          PROVE  HasRow(PluginKey(r), InstanceOf[r])
      <4>1. CASE runner[r].phase = "registering"
        BY <2>1, <3>1, <3>3, <4>1 DEF RunnerInv, FirstCalls, Serves
      <4>2. CASE runner[r].phase # "registering"
        BY <2>1, <4>2 DEF RunnerInv, RunningHasRow, Waiting, Looping
      <4> QED BY <4>1, <4>2
    <3> QED BY <3>1, <3>2, <3>3, RowStays DEF Looping
  <2>2. CASE ~Answered(r)
    <3>1. runner'[r] = runner[r]
      BY <1>2, <2>2
    <3>2. ASSUME runner[r].phase \in Waiting
          PROVE  /\ runner[r].thread \in Thread
                 /\ ~Idle(runner[r].thread)
                 /\ call'[runner[r].thread].phase # "idle"
                 /\ Continues(runner[r].thread)
      <4>1. runner[r].thread \in Thread
        BY <1>1, <3>2, Phases
      <4> QED BY <2>2, <3>2, <4>1 DEF RunnerInv, RunnerType
    <3>3. ASSUME runner[r].phase = "registering"
          PROVE  \/ Serves(runner[r].thread, r)'
                 \/ /\ call'[runner'[r].thread].phase = "invalidate"
                    /\ HasRow(PluginKey(r), InstanceOf[r])'
      <4> DEFINE t == runner[r].thread
      <4>1. Continues(t) /\ call'[t].phase # "idle"
        BY <3>2, <3>3 DEF Waiting
      <4>2. CASE Serves(t, r)
        BY <3>1, <4>1, <4>2 DEF Continues, Serves, HasRow, PluginKey
      <4>3. CASE call[t].phase = "invalidate" /\ HasRow(PluginKey(r), InstanceOf[r])
        <5>1. call'[t] = call[t]
          BY <4>1, <4>3 DEF Continues
        <5> QED BY <3>1, <4>3, <5>1, RowStays
      <4> QED BY <3>3, <4>2, <4>3 DEF RunnerInv, FirstCalls
    <3> QED BY <3>1, <3>2, <3>3, RowStays DEF RunnerInv, RunningHasRow
  <2> QED BY <2>1, <2>2
<1> QED
  BY <1>3, <1>4 DEF RunnerInv, RunnerType, FirstCalls, RunningHasRow, Idle

\* A step of one runner keeps the invariant, if the new state has what the
\* invariant asks for and no call under way is disturbed.
LEMMA GotoKeepsInv ==
  ASSUME RunnerInv, TypeOK', RowsStay,
         \A t \in Thread : ~Idle(t) => call'[t] = call[t],
         NEW r \in Runner, NEW state \in RunnerState, Goto(r, state),
         state.phase \in Waiting => call'[state.thread].phase # "idle",
         state.phase = "registering" =>
           /\ call'[state.thread].phase = "register"
           /\ call'[state.thread].manifest = ManifestOf[r]
           /\ call'[state.thread].instance = InstanceOf[r],
         state.phase \in Looping \cup {"leaving", "unregistering"} =>
           HasRow(PluginKey(r), InstanceOf[r])
  PROVE  RunnerInv'
<1>1. runner \in [Runner -> RunnerState]
  BY DEF RunnerInv, RunnerType
<1>2. /\ runner' \in [Runner -> RunnerState]
      /\ runner'[r] = state
      /\ \A s \in Runner \ {r} : runner'[s] = runner[s]
  BY <1>1 DEF Goto
<1>3. ASSUME NEW s \in Runner \ {r}
      PROVE  runner[s].phase \in Waiting => /\ ~Idle(runner[s].thread)
                                            /\ call'[runner[s].thread] = call[runner[s].thread]
  BY <1>1, Phases DEF RunnerInv, RunnerType
<1>4. \A s \in Runner :
        runner'[s].phase \in Waiting => call'[runner'[s].thread].phase # "idle"
  BY <1>2, <1>3 DEF Idle
<1>5. ASSUME NEW s \in Runner, runner'[s].phase = "registering"
      PROVE  \/ Serves(runner[s].thread, s)'
             \/ /\ call'[runner'[s].thread].phase = "invalidate"
                /\ HasRow(PluginKey(s), InstanceOf[s])'
  <2>1. CASE s = r
    BY <1>2, <1>5, <2>1 DEF Serves
  <2>2. CASE s # r
    <3>1. runner'[s] = runner[s] /\ call'[runner[s].thread] = call[runner[s].thread]
      BY <1>2, <1>3, <1>5, <2>2 DEF Waiting
    <3> QED BY <1>5, <3>1, RowStays DEF RunnerInv, FirstCalls, Serves
  <2> QED BY <2>1, <2>2
<1>6. ASSUME NEW s \in Runner, runner'[s].phase \in Looping \cup {"leaving", "unregistering"}
      PROVE  HasRow(PluginKey(s), InstanceOf[s])'
  BY <1>2, <1>6, RowStays DEF RunnerInv, RunningHasRow
<1> QED
  BY <1>2, <1>4, <1>5, <1>6 DEF RunnerInv, RunnerType, FirstCalls, RunningHasRow, Idle

\* A runner's step that the server has no part in.
LEMMA MoveKeepsInv ==
  ASSUME RunnerInv, UNCHANGED vars, NEW r \in Runner, NEW state \in RunnerState, Goto(r, state),
         state.phase \notin Waiting,
         state.phase \in {"ticking", "backoff", "leaving"} => HasRow(PluginKey(r), InstanceOf[r])
  PROVE  RunnerInv'
<1>1. TypeOK /\ UNCHANGED <<call, instance>>
  BY DEF RunnerInv, RunnerType, vars, tables
<1>2. TypeOK' /\ RowsStay
  BY <1>1, TypeInductive, ServerEffect
<1>3. state.phase \in Looping \cup {"leaving", "unregistering"} =>
        state.phase \in {"ticking", "backoff", "leaving"}
  BY DEF Waiting, Looping
<1>4. state.phase # "registering"
  BY DEF Waiting
<1> QED BY <1>1, <1>2, <1>3, <1>4, GotoKeepsInv

\* A step of the server keeps the invariant.
LEMMA ServerKeepsInv ==
  ASSUME RunnerInv, ServerStep
  PROVE  RunnerInv'
<1>1. TypeOK /\ call \in [Thread -> Call]
  BY DEF RunnerInv, RunnerType, TypeOK
<1>2. Next
  BY DEF ServerStep, Next, Invalidate
<1>3. TypeOK' /\ RowsStay /\ \A t \in Thread : Idle(t) \/ Continues(t)
  BY <1>1, <1>2, TypeInductive, ServerEffect
<1>4. ASSUME NEW t \in Thread, Return(t), Answer({t}, TRUE)
      PROVE  RunnerInv'
  <2>1. /\ call[t].phase = "invalidate"
        /\ \A u \in Thread \ {t} : call'[u] = call[u]
    BY <1>1, <1>4 DEF Return, Become
  <2> QED BY <1>3, <1>4, <2>1, AnswerKeepsInv DEF Idle
<1>5. CASE Answer(Released, FALSE)
  <2>1. Released \in SUBSET Thread /\ \A t \in Thread \ Released : ~Idle(t) => call'[t].phase # "idle"
    BY DEF Released
  <2> QED BY <1>3, <1>5, <2>1, AnswerKeepsInv
<1> QED BY <1>4, <1>5 DEF ServerStep

\* A runner's calls keep the invariant.
LEMMA RunKeepsInv ==
  ASSUME RunnerInv, NEW r \in Runner, Run(r)
  PROVE  RunnerInv'
<1>1. TypeOK /\ runner \in [Runner -> RunnerState] /\ call \in [Thread -> Call]
  BY DEF RunnerInv, RunnerType, TypeOK
<1>2. ManifestOf[r] \in Manifest /\ InstanceOf[r] \in Instance /\ PluginKey(r) \in Plugin
  BY RunnerAssumption, Keys
<1>3. ASSUME NEW t \in Thread, Handles(t), Idle(t)
      PROVE  /\ TypeOK'
             /\ RowsStay
             /\ \A u \in Thread : ~Idle(u) => call'[u] = call[u]
  BY <1>1, <1>3, ServeType, HandlesEffect
<1>4. CASE SendRegister(r)
  <2>1. PICK t \in Thread :
          /\ Register(t, ManifestOf[r], InstanceOf[r])
          /\ Goto(r, WaitingOn(IF runner[r].phase = "start" THEN "registering"
                                                            ELSE "reregistering", t))
    BY <1>4 DEF SendRegister
  <2>2. Handles(t) /\ Idle(t)
    BY <1>2, <2>1 DEF Handles, Register
  <2>3. /\ call'[t].phase = "register"
        /\ call'[t].manifest = ManifestOf[r]
        /\ call'[t].instance = InstanceOf[r]
    BY <1>1, <2>1 DEF Register, Become
  <2>4. runner[r].phase = "start" \/ HasRow(PluginKey(r), InstanceOf[r])
    BY <1>4 DEF SendRegister, RunnerInv, RunningHasRow, Looping
  <2> DEFINE phase == IF runner[r].phase = "start" THEN "registering" ELSE "reregistering"
             state == WaitingOn(phase, t)
  <2>5. /\ state \in RunnerState
        /\ state.thread = t
        /\ state.phase = "registering" \/ HasRow(PluginKey(r), InstanceOf[r])
        /\ state.phase \in {"registering", "reregistering"}
    BY <2>4 DEF WaitingOn, RunnerState, Waiting
  <2>6. "registering" \notin Looping \cup {"leaving", "unregistering"}
    BY DEF Looping
  <2> HIDE DEF state
  <2>7. Goto(r, state)
    BY <2>1 DEF state
  <2> QED BY <1>3, <2>2, <2>3, <2>5, <2>6, <2>7, GotoKeepsInv
<1>5. CASE SendHeartbeat(r)
  <2>1. PICK t \in Thread :
          /\ HeartbeatRead(t, PluginKey(r), InstanceOf[r])
          /\ Goto(r, WaitingOn("beating", t))
    BY <1>5 DEF SendHeartbeat
  <2>2. Handles(t) /\ Idle(t)
    BY <1>2, <2>1 DEF Handles, HeartbeatRead
  <2>3. call'[t].phase = "touch" /\ HasRow(PluginKey(r), InstanceOf[r])
    BY <1>1, <2>1 DEF HeartbeatRead, Become
  <2>4. WaitingOn("beating", t) \in RunnerState
    BY DEF WaitingOn, RunnerState, Waiting
  <2>5. WaitingOn("beating", t).phase = "beating" /\ WaitingOn("beating", t).thread = t
    BY DEF WaitingOn
  <2> QED BY <1>3, <2>1, <2>2, <2>3, <2>4, <2>5, GotoKeepsInv
<1>6. CASE HeartbeatRefused(r)
  <2>1. HasRow(PluginKey(r), InstanceOf[r])
    BY <1>6 DEF HeartbeatRefused, RunnerInv, RunningHasRow, Looping
  <2>2. At("backoff") \in RunnerState /\ At("backoff").phase \notin Waiting
    BY DEF At, RunnerState, Waiting
  <2> QED BY <1>6, <2>1, <2>2, MoveKeepsInv DEF HeartbeatRefused
<1>7. CASE SendUnregister(r)
  <2>1. PICK t \in Thread :
          /\ Unregister(t, PluginKey(r), InstanceOf[r])
          /\ Goto(r, IF call'[t].phase = "idle" THEN At("stopped")
                                                ELSE WaitingOn("unregistering", t))
    BY <1>7 DEF SendUnregister
  <2>2. Handles(t) /\ Idle(t)
    BY <1>2, <2>1 DEF Handles, Unregister
  <2>3. HasRow(PluginKey(r), InstanceOf[r])
    BY <2>1 DEF Unregister, SetInstanceStatus
  <2>4. CASE call'[t].phase = "idle"
    <3>1. /\ At("stopped") \in RunnerState
          /\ At("stopped").phase = "stopped"
          /\ "stopped" \notin Waiting
      BY DEF At, RunnerState, Waiting
    <3> QED BY <1>3, <2>1, <2>2, <2>3, <2>4, <3>1, GotoKeepsInv
  <2>5. CASE call'[t].phase # "idle"
    <3>1. /\ WaitingOn("unregistering", t) \in RunnerState
          /\ WaitingOn("unregistering", t).phase = "unregistering"
          /\ WaitingOn("unregistering", t).thread = t
      BY DEF WaitingOn, RunnerState, Waiting
    <3> QED BY <1>3, <2>1, <2>2, <2>3, <2>5, <3>1, GotoKeepsInv
  <2> QED BY <2>4, <2>5
<1> QED BY <1>4, <1>5, <1>6, <1>7 DEF Run, Beat

\* Whatever disturbs a runner keeps the invariant.
LEMMA DisturbKeepsInv ==
  ASSUME RunnerInv, NEW r \in Runner, Disturb(r)
  PROVE  RunnerInv'
<1>1. \A phase \in {"stopped", "start", "ticking", "backoff", "leaving"} :
        At(phase) \in RunnerState /\ At(phase).phase = phase /\ phase \notin Waiting
  BY DEF At, RunnerState, Waiting
<1>2. runner[r].phase \in {"backoff"} \cup Looping => HasRow(PluginKey(r), InstanceOf[r])
  BY DEF RunnerInv, RunningHasRow, Looping
<1>3. CASE GiveUp(r)
  <2>1. /\ AfterCall(r, FALSE) \in RunnerState
        /\ AfterCall(r, FALSE).phase \in {"ticking", "stopped"}
        /\ runner[r].phase = "registering" => AfterCall(r, FALSE).phase = "stopped"
    BY <1>3, AfterCallType DEF GiveUp
  <2>2. AfterCall(r, FALSE).phase = "ticking" => HasRow(PluginKey(r), InstanceOf[r])
    BY <1>3, <2>1 DEF GiveUp, RunnerInv, RunningHasRow, Waiting, Looping
  <2> QED BY <1>1, <1>3, <2>1, <2>2, MoveKeepsInv DEF GiveUp
<1>4. CASE RegisterLost(r)
  BY <1>1, <1>2, <1>4, MoveKeepsInv DEF RegisterLost
<1>5. CASE Cancel(r)
  BY <1>1, <1>2, <1>5, MoveKeepsInv DEF Cancel
<1>6. CASE Exit(r) \/ Launch(r)
  BY <1>1, <1>6, MoveKeepsInv DEF Exit, Launch
<1> QED BY <1>3, <1>4, <1>5, <1>6 DEF Disturb

\* The invariant holds at first and every step keeps it.
THEOREM RunnerInductive ==
  /\ RunnerInit => RunnerInv
  /\ RunnerInv /\ [RunnerNext]_rvars => RunnerInv'
<1>1. ASSUME RunnerInit
      PROVE  RunnerInv
  <2>1. TypeOK
    BY <1>1, TypeInductive DEF RunnerInit
  <2>2. At("start") \in RunnerState /\ At("start").phase = "start"
    BY DEF At, RunnerState
  <2>3. /\ runner \in [Runner -> RunnerState]
        /\ \A r \in Runner : runner[r].phase = "start"
    BY <1>1, <2>2 DEF RunnerInit
  <2> QED
    BY <2>1, <2>3 DEF RunnerInv, RunnerType, FirstCalls, RunningHasRow, Waiting, Looping
<1>2. ASSUME RunnerInv, [RunnerNext]_rvars
      PROVE  RunnerInv'
  <2>1. CASE UNCHANGED rvars
    <3>1. UNCHANGED vars /\ UNCHANGED <<instance, call, runner>>
      BY <2>1 DEF rvars, vars, tables
    <3>2. TypeOK'
      BY <1>2, <3>1, TypeInductive DEF RunnerInv, RunnerType
    <3> QED
      BY <1>2, <3>1, <3>2 DEF RunnerInv, RunnerType, FirstCalls, RunningHasRow, HasRow,
                              PluginKey, Serves, Idle
  <2> QED BY <1>2, <2>1, ServerKeepsInv, RunKeepsInv, DisturbKeepsInv DEF RunnerNext
<1> QED BY <1>1, <1>2

\* A runner never waits for a call that nobody serves, whatever fails, restarts
\* or is given up.
THEOREM AlwaysRunnerType == RunnerSpec => []RunnerType
<1>1. RunnerInv => RunnerType
  BY DEF RunnerInv
<1> QED BY <1>1, RunnerInductive, PTL DEF RunnerSpec

\* A runner beyond its first registration has a row: only an answer that says
\* the row was written lets it into its loop, and no call of anybody removes it.
THEOREM AlwaysRunningHasRow == RunnerSpec => []RunningHasRow
<1>1. RunnerInv => RunningHasRow
  BY DEF RunnerInv
<1> QED BY <1>1, RunnerInductive, PTL DEF RunnerSpec

-----------------------------------------------------------------------------
(* The composition. *)

\* A call that a runner sends is one that some client sends.
LEMMA RunIsClient ==
  ASSUME {"register", "heartbeat", "unregister"} \subseteq Operation, NEW r \in Runner, Run(r)
  PROVE  [Next]_vars
<1>1. ManifestOf[r] \in Manifest /\ InstanceOf[r] \in Instance /\ PluginKey(r) \in Plugin
  BY RunnerAssumption, Keys
<1>2. ASSUME NEW t \in Thread, ClientCall(t)
      PROVE  Next
  BY <1>2 DEF Next, Proceed, Serve
<1>3. CASE SendRegister(r)
  <2>1. PICK t \in Thread : Register(t, ManifestOf[r], InstanceOf[r])
    BY <1>3 DEF SendRegister
  <2> QED BY <1>1, <1>2, <2>1 DEF ClientCall
<1>4. CASE SendHeartbeat(r)
  <2>1. PICK t \in Thread : HeartbeatRead(t, PluginKey(r), InstanceOf[r])
    BY <1>4 DEF SendHeartbeat
  <2> QED BY <1>1, <1>2, <2>1 DEF ClientCall
<1>5. CASE HeartbeatRefused(r)
  BY <1>5 DEF HeartbeatRefused
<1>6. CASE SendUnregister(r)
  <2>1. PICK t \in Thread : Unregister(t, PluginKey(r), InstanceOf[r])
    BY <1>6 DEF SendUnregister
  <2> QED BY <1>1, <1>2, <2>1 DEF ClientCall
<1> QED BY <1>3, <1>4, <1>5, <1>6 DEF Run, Beat

\* Runners that lose answers, give up, end and start again ask nothing of the
\* server that clients could not: where clients may register, send heartbeats and
\* unregister at all (Operation only says what else than the runners calls), every
\* behaviour of the runners is one of the control plane.
THEOREM RunnersAreClients ==
  ASSUME {"register", "heartbeat", "unregister"} \subseteq Operation
  PROVE  RunnerSpec => Spec
<1>1. RunnerInit => Init
  BY DEF RunnerInit
<1>2. [RunnerNext]_rvars => [Next]_vars
  <2> SUFFICES ASSUME [RunnerNext]_rvars
               PROVE  [Next]_vars
    OBVIOUS
  <2>1. CASE ServerStep
    BY <2>1 DEF ServerStep, Next, Invalidate
  <2>2. ASSUME NEW r \in Runner, Run(r)
        PROVE  [Next]_vars
    BY <2>2, RunIsClient
  <2>3. ASSUME NEW r \in Runner, Disturb(r)
        PROVE  [Next]_vars
    BY <2>3 DEF Disturb, GiveUp, RegisterLost, Cancel, Exit, Launch
  <2>4. CASE UNCHANGED rvars
    BY <2>4 DEF rvars
  <2> QED BY <2>1, <2>2, <2>3, <2>4 DEF RunnerNext
<1> QED BY <1>1, <1>2, PTL DEF RunnerSpec, Spec

\* So the calls that a runner gave up, and those that a process before it sent,
\* leave the ownership of routes exclusive and the leases bounded, and bring nobody
\* back who was disabled or superseded.
THEOREM RunnersKeepOwnership ==
  ASSUME {"register", "heartbeat", "unregister"} \subseteq Operation
  PROVE  RunnerSpec => /\ [](SingleOwner /\ RoutesFollowService /\ LeaseFollowsContact)
                        /\ ShutOutUntilReadmitted
BY RunnersAreClients, AlwaysSingleOwner, RoutesAlwaysFollowService,
   AlwaysLeaseFollowsContact, AlwaysShutOutUntilReadmitted, PTL

=============================================================================
