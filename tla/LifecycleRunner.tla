---------------------------- MODULE LifecycleRunner ----------------------------
(***************************************************************************)
(* The plugin's side of the contract (pkg/plugin/runner.go), composed with *)
(* the control plane it calls.  A runner registers, sends heartbeats, and  *)
(* registers again when a heartbeat is refused for a row that is missing   *)
(* or was marked incompatible; it unregisters when its context ends.  It   *)
(* has one call under way at a time, but a call it gave up goes on at the  *)
(* server.                                                                 *)
(*                                                                         *)
(* A call that the server refuses at its first query is one step.  The     *)
(* process that hosts a runner can end at any time, and is started again.  *)
(***************************************************************************)
EXTENDS ControlPlane

CONSTANTS
  Runner,        \* plugin processes with a LifecycleRunner
  ManifestOf,    \* runner -> the manifest it registers
  InstanceOf     \* runner -> the instance id in that manifest

ASSUME RunnerAssumption ==
  /\ ManifestOf \in [Runner -> Manifest]
  /\ InstanceOf \in [Runner -> Instance]

VARIABLE runner    \* runner -> where its Run is

rvars == <<vars, runner>>

Waiting == {"registering", "beating", "reregistering", "unregistering"}

\* The phases with a call under way are Waiting; those in the loop of Run:
Looping == {"ticking", "beating", "backoff", "reregistering"}

At(phase) == [phase |-> phase, thread |-> None]

WaitingOn(phase, t) == [phase |-> phase, thread |-> t]

RunnerState ==
  {At(phase) : phase \in {"stopped", "start", "ticking", "backoff", "leaving"}}
    \cup [phase : Waiting, thread : Thread]

RunnerInit == Init /\ runner = [r \in Runner |-> At("start")]

PluginKey(r) == PluginOf[ManifestOf[r]]

Row(r) == instance[PluginKey(r)][InstanceOf[r]]

Goto(r, state) == runner' = [runner EXCEPT ![r] = state]

-----------------------------------------------------------------------------
(* Answers. *)

\* Where Run goes on after a call that succeeded or failed, its refusals by
\* status aside.
AfterCall(r, ok) ==
  CASE runner[r].phase = "registering" -> At(IF ok THEN "ticking" ELSE "stopped")
    [] runner[r].phase \in {"beating", "reregistering"} -> At("ticking")
    [] runner[r].phase = "unregistering" -> At("stopped")

\* A server that drops the connection of a call that fails, and a client without
\* a timeout of its own.
AnswerSuccess(T, ok) ==
  runner' = [r \in Runner |->
    IF ok /\ runner[r].phase \in Waiting /\ runner[r].thread \in T THEN AfterCall(r, ok)
                                                                   ELSE runner[r]]

\* The threads in T are done with their calls: who still waits for one of them
\* has its answer.
Answer(T, ok) ==
  runner' = [r \in Runner |->
    IF runner[r].phase \in Waiting /\ runner[r].thread \in T THEN AfterCall(r, ok)
                                                             ELSE runner[r]]

\* The threads that a step leaves idle.
Released == {t \in Thread : ~Idle(t) /\ call'[t].phase = "idle"}

-----------------------------------------------------------------------------
(* Calls. *)

SendRegister(r) ==
  /\ runner[r].phase \in {"start", "backoff"}
  /\ \E t \in Thread :
       /\ Register(t, ManifestOf[r], InstanceOf[r])
       /\ Goto(r, WaitingOn(IF runner[r].phase = "start" THEN "registering"
                                                         ELSE "reregistering", t))

\* The statuses that shouldReregister looks for, 404 and 409, without 409.
ShouldReregisterMissing(r) == ~HasRow(PluginKey(r), InstanceOf[r])

ShouldReregister(r) ==
  HasRow(PluginKey(r), InstanceOf[r]) => Row(r).status = "incompatible"

\* The ticker fires, and the heartbeat finds an active row.
SendHeartbeat(r) ==
  /\ runner[r].phase = "ticking"
  /\ \E t \in Thread :
       /\ HeartbeatRead(t, PluginKey(r), InstanceOf[r])
       /\ Goto(r, WaitingOn("beating", t))

\* The ticker fires, and the heartbeat is refused.
HeartbeatRefused(r) ==
  /\ runner[r].phase = "ticking"
  /\ ShouldReregister(r)
  /\ Goto(r, At("backoff"))
  /\ UNCHANGED vars

SendUnregister(r) ==
  /\ runner[r].phase = "leaving"
  /\ \E t \in Thread :
       /\ Unregister(t, PluginKey(r), InstanceOf[r])
       /\ Goto(r, IF call'[t].phase = "idle" THEN At("stopped")
                                             ELSE WaitingOn("unregistering", t))

\* The call times out at the client, or its answer is lost.
GiveUp(r) ==
  /\ runner[r].phase \in Waiting
  /\ Goto(r, AfterCall(r, FALSE))
  /\ UNCHANGED vars

\* A registration that the server could serve does not reach it.
RegisterLost(r) ==
  /\ \E t \in Thread : Idle(t)
  /\ \/ runner[r].phase = "start" /\ Goto(r, At("stopped"))
     \/ runner[r].phase = "backoff" /\ Goto(r, At("ticking"))
  /\ UNCHANGED vars

\* The context ends.  Run returns, from the loop through its deferred
\* unregister.
Cancel(r) ==
  /\ \/ runner[r].phase \in Looping /\ Goto(r, At("leaving"))
     \/ runner[r].phase \in {"start", "registering"} /\ Goto(r, At("stopped"))
  /\ UNCHANGED vars

\* The process ends: nobody waits for the deferred unregister.
Exit(r) ==
  /\ runner[r].phase # "stopped"
  /\ Goto(r, At("stopped"))
  /\ UNCHANGED vars

Launch(r) ==
  /\ runner[r].phase = "stopped"
  /\ Goto(r, At("start"))
  /\ UNCHANGED vars

Beat(r) == SendHeartbeat(r) \/ HeartbeatRefused(r)

Run(r) == SendRegister(r) \/ Beat(r) \/ SendUnregister(r)

Disturb(r) == GiveUp(r) \/ RegisterLost(r) \/ Cancel(r) \/ Exit(r) \/ Launch(r)

\* A step of the server.  Only a call that gets as far as Return succeeds.
ServerStep ==
  \/ \E t \in Thread : Return(t) /\ Answer({t}, TRUE)
  \/ (Proceed \/ HealthInvalidate \/ MaintainInvalidate \/ Restart) /\ Answer(Released, FALSE)

RunnerNext == ServerStep \/ \E r \in Runner : Run(r) \/ Disturb(r)

-----------------------------------------------------------------------------
(* Fairness. *)

\* The steps of a thread that end its call.
Finish(t) ==
  \/ Return(t) /\ Answer({t}, TRUE)
  \/ /\ RegisterRefused(t) \/ RegisterRollback(t) \/ RegisterCommit(t) \/ HeartbeatSave(t)
     /\ Answer(Released, FALSE)

Check(t) == RegisterCheck(t) /\ Answer(Released, FALSE)

\* Thread t serves a registration of runner r.
Serves(t, r) ==
  /\ call[t].phase = "register"
  /\ call[t].manifest = ManifestOf[r]
  /\ call[t].instance = InstanceOf[r]

CheckFor(r) == \E t \in Thread : Serves(t, r) /\ Check(t)

CommitFor(r) == \E t \in Thread : Serves(t, r) /\ RegisterCommit(t) /\ Answer(Released, FALSE)

\* Handlers and tickers do not stall.  Messages and statements may fail, but
\* not every attempt of one runner fails forever at the same point.
Fairness ==
  /\ \A t \in Thread : WF_rvars(Finish(t)) /\ WF_rvars(Check(t))
  /\ \A r \in Runner :
       /\ WF_rvars(Beat(r))
       /\ SF_rvars(SendRegister(r))
       /\ SF_rvars(CheckFor(r))
       /\ SF_rvars(CommitFor(r))

RunnerSpec == RunnerInit /\ [][RunnerNext]_rvars /\ Fairness

-----------------------------------------------------------------------------
(* Properties. *)

\* A runner that waits for an answer waits for a call that a thread serves, and
\* so does not wait for nothing.
RunnerType ==
  /\ TypeOK
  /\ runner \in [Runner -> RunnerState]
  /\ \A r \in Runner : runner[r].phase \in Waiting => ~Idle(runner[r].thread)

\* A runner beyond its first registration has a row, however its calls were
\* timed out, lost or overtaken: its heartbeats are never answered with 404, and
\* its unregister has something to disable.
RunningHasRow ==
  \A r \in Runner : runner[r].phase \in Looping \cup {"leaving", "unregistering"} =>
    HasRow(PluginKey(r), InstanceOf[r])

Marked(r) == HasRow(PluginKey(r), InstanceOf[r]) /\ Row(r).status = "incompatible"

\* A running plugin whose row was marked incompatible registers again, whatever
\* times out or fails on the way, unless somebody else changed its status or the
\* runner left.
Reregisters ==
  \A r \in Runner :
    (runner[r].phase \in Looping /\ Marked(r)) ~> (~Marked(r) \/ runner[r].phase \notin Looping)

Outdated(r) ==
  /\ HasRow(PluginKey(r), InstanceOf[r])
  /\ Row(r).manifest # service[PluginKey(r)].manifest

\* A running plugin whose manifest is no longer the one of its service registers
\* again.
ReregistersOnMismatch ==
  \A r \in Runner :
    (runner[r].phase \in Looping /\ Outdated(r)) ~> (~Outdated(r) \/ runner[r].phase \notin Looping)

=============================================================================
