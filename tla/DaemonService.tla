---------------------------- MODULE DaemonService ----------------------------
(***************************************************************************)
(* The session service of tuiboxd (internal/daemon/service.go) on top of   *)
(* the core runner.  A capacity-one channel, the gate, serialises Connect, *)
(* Disconnect, Status, Health, Close and the final part of each session    *)
(* monitor.  What still interleaves while the gate is held is modelled     *)
(* step by step: core processes exit, monitors collect them, contexts of   *)
(* queued and running calls expire, timers fire.                           *)
(*                                                                         *)
(* A session is named by its generation; `active = 0` is a nil session.    *)
(* The pair (mode, route) of a request is one profile.  A time-out is a    *)
(* step that is enabled whenever the code waits for it.                    *)
(***************************************************************************)
EXTENDS CoreRunner

CONSTANTS Clients,    \* concurrent callers (RPC connections)
          Profiles,   \* (mode, route) pairs of requests
          NoProfile   \* the empty mode and route

ASSUME ProfileAssumption == NoProfile \notin Profiles

VARIABLES
    gate,         \* who holds the gate token
    closed,       \* Service.closed
    generation,   \* Service.generation
    active,       \* Service.active
    status,       \* Service.status
    sessions,     \* the session objects, by generation
    monitor,      \* where the monitor goroutine of each session is
    call,         \* what each client is doing
    expired,      \* the call's context is done
    frame,        \* local variables of the operation that holds the gate
    closer        \* where Service.Close is

serviceVars == <<closed, generation, active, status, sessions>>
callVars == <<call, expired>>
vars == <<gate, closed, generation, active, status, sessions, monitor, call,
          expired, frame, closer, prepares, prepared, onDisk, removeFailed,
          runnerClosed, starts, proc>>

Generations == 1..MaxStarts
Errors == {"context", "unavailable", "stuck", "validation", "process", "rollback"}

StatusOf(state, profile) == [state |-> state, profile |-> profile]
Disconnected == StatusOf("disconnected", NoProfile)
Status == [state : {"disconnected", "connecting", "connected", "disconnecting", "failed"},
           profile : Profiles \cup {NoProfile}]

Session == [profile : Profiles, prepared : Configs, process : Processes,
            stopping : BOOLEAN, rollbackPrevious : 0..MaxStarts,
            rollbackStatus : Status, failedOnExit : BOOLEAN]

\* Place-holder for generations that have not been installed.
NoSession == [profile |-> NoProfile, prepared |-> 0, process |-> 0,
              stopping |-> FALSE, rollbackPrevious |-> 0,
              rollbackStatus |-> Disconnected, failedOnExit |-> FALSE]

\* The frame of the operation inside the gate: the next statement, the reason
\* for a running stopSession, the locals old, oldStatus and prepared, and the
\* errors collected so far.
Steps == {"none", "entered", "check", "start", "grace", "kill", "rollback", "return"}
Purposes == {"none", "replace", "abort", "disconnect", "close"}
Frame == [step : Steps, purpose : Purposes, old : 0..MaxStarts, oldStatus : Status,
          prepared : 0..MaxPrepares, errs : SUBSET Errors]
NoFrame == [step |-> "none", purpose |-> "none", old |-> 0,
            oldStatus |-> Disconnected, prepared |-> 0, errs |-> {}]

CallRecord == [op : {"none", "connect", "disconnect", "query"},
               profile : Profiles \cup {NoProfile},
               pc : {"idle", "acquire", "holding"}]
NoCall == [op |-> "none", profile |-> NoProfile, pc |-> "idle"]

TypeOK ==
    /\ RunnerTypeOK
    /\ gate \in {"free", "client", "monitor", "closer"}
    /\ closed \in BOOLEAN
    /\ generation \in 0..MaxStarts
    /\ active \in 0..generation
    /\ status \in Status
    /\ sessions \in [Generations -> Session \cup {NoSession}]
    /\ monitor \in [Generations -> {"none", "wait", "acquire", "holding", "finished"}]
    /\ call \in [Clients -> CallRecord]
    /\ expired \in [Clients -> BOOLEAN]
    /\ frame \in Frame
    /\ closer \in {"idle", "acquire", "holding", "waitMonitors", "deferred", "done"}

Init ==
    /\ RunnerInit
    /\ gate = "free"
    /\ closed = FALSE
    /\ generation = 0
    /\ active = 0
    /\ status = Disconnected
    /\ sessions = [g \in Generations |-> NoSession]
    /\ monitor = [g \in Generations |-> "none"]
    /\ call = [c \in Clients |-> NoCall]
    /\ expired = [c \in Clients |-> FALSE]
    /\ frame = NoFrame
    /\ closer = "idle"

-----------------------------------------------------------------------------
(* The gate *)

Holds(c) == gate = "client" /\ call[c].pc = "holding"

\* What an operation inside the gate leaves alone unless it says otherwise.
InGate == UNCHANGED <<gate, closed, call, expired, closer>>

\* The function returns: its results are computed, the gate is still held.
Return(errs) == frame' = [frame EXCEPT !.step = "return", !.errs = errs]

\* The context of the operation inside the gate is done.  Close and the
\* monitors run under context.Background().
CtxDone == \E c \in Clients : call[c].pc = "holding" /\ expired[c]
CtxErr == IF CtxDone THEN {"context"} ELSE {}

\* A client calls an operation of the service.
Call(c, op, profile) ==
    /\ call[c].pc = "idle"
    /\ call' = [call EXCEPT ![c] = [op |-> op, pc |-> "acquire",
                   profile |-> IF op = "connect" THEN profile ELSE NoProfile]]
    /\ expired' = [expired EXCEPT ![c] = FALSE]
    /\ UNCHANGED <<gate, serviceVars, monitor, frame, closer, runnerVars>>

\* The context of a call is cancelled or passes its deadline.
Expire(c) ==
    /\ call[c].pc # "idle" /\ ~expired[c]
    /\ expired' = [expired EXCEPT ![c] = TRUE]
    /\ UNCHANGED <<gate, serviceVars, monitor, call, frame, closer, runnerVars>>

\* acquire: the select takes ctx.Done().
AcquireExpired(c) ==
    /\ call[c].pc = "acquire" /\ expired[c]
    /\ call' = [call EXCEPT ![c] = NoCall]
    /\ expired' = [expired EXCEPT ![c] = FALSE]
    /\ UNCHANGED <<gate, serviceVars, monitor, frame, closer, runnerVars>>

\* Mutant: the gate channel has room for more than one token.
Acquire_NoToken(c) ==
    /\ call[c].pc = "acquire"
    /\ gate' = "client"
    /\ call' = [call EXCEPT ![c].pc = "holding"]
    /\ frame' = [NoFrame EXCEPT !.step = "entered"]
    /\ UNCHANGED <<serviceVars, expired, monitor, closer, runnerVars>>

\* acquire: the select takes the token, which it may do although ctx is done.
Acquire(c) ==
    /\ call[c].pc = "acquire" /\ gate = "free"
    /\ gate' = "client"
    /\ call' = [call EXCEPT ![c].pc = "holding"]
    /\ frame' = [NoFrame EXCEPT !.step = "entered"]
    /\ UNCHANGED <<serviceVars, expired, monitor, closer, runnerVars>>

\* The statements after the select and the early returns of each operation.
Refused(c) ==
    /\ Holds(c) /\ frame.step = "entered"
    /\ \/ expired[c] /\ Return({"context"})
       \/ ~expired[c] /\ closed /\ Return({"unavailable"})
       \/ /\ ~expired[c] /\ ~closed
          /\ call[c].op \in {"connect", "disconnect"}
          /\ active # 0 /\ sessions[active].stopping
          /\ Return({"stuck"})
    /\ InGate /\ UNCHANGED <<generation, active, status, sessions, monitor, runnerVars>>

\* Mutant: the closed flag is not looked at.
Admitted_AfterClose(c, op) ==
    /\ Holds(c) /\ frame.step = "entered" /\ call[c].op = op /\ ~expired[c]
    /\ op \in {"connect", "disconnect"} /\ active # 0 => ~sessions[active].stopping

\* The operation c may go on: acquire succeeded and no early return applies.
Admitted(c, op) ==
    /\ Holds(c) /\ frame.step = "entered" /\ call[c].op = op
    /\ ~expired[c] /\ ~closed
    /\ op \in {"connect", "disconnect"} /\ active # 0 => ~sessions[active].stopping

\* Status and Health, which look at the same state.
Query(c) ==
    /\ Admitted(c, "query")
    /\ Return({})
    /\ InGate /\ UNCHANGED <<generation, active, status, sessions, monitor, runnerVars>>

\* The deferred release of a client's operation.
Release(c) ==
    /\ Holds(c) /\ frame.step = "return"
    /\ gate' = "free"
    /\ frame' = NoFrame
    /\ call' = [call EXCEPT ![c] = NoCall]
    /\ expired' = [expired EXCEPT ![c] = FALSE]
    /\ UNCHANGED <<serviceVars, monitor, closer, runnerVars>>

-----------------------------------------------------------------------------
(* Sessions *)

\* installSessionLocked for the process that runner.Start has just returned.
\* The last four arguments are the fields the caller sets on service.active
\* before it gives up the gate.
Install(profile, p, stat, stopping, failedOnExit, previous, previousStatus) ==
    /\ generation' = generation + 1
    /\ sessions' = [sessions EXCEPT ![generation + 1] =
           [profile |-> profile, prepared |-> p, process |-> starts + 1,
            stopping |-> stopping, rollbackPrevious |-> previous,
            rollbackStatus |-> previousStatus, failedOnExit |-> failedOnExit]]
    /\ active' = generation + 1
    /\ status' = stat
    /\ monitor' = [monitor EXCEPT ![generation + 1] = "wait"]

\* Mutant: the status is overwritten although a session works.
RecordConnectFailure_Always(old, profile) == status' = StatusOf("failed", profile)

\* recordConnectFailureLocked: a working session keeps its status.
RecordConnectFailure(old, profile) ==
    status' = IF old = 0 THEN StatusOf("failed", profile) ELSE status

ActiveProcess == sessions[active].process

\* Process.Signal and Process.Kill fail only while the process is not reaped.
SignalErrs == IF proc[ActiveProcess] = "reaped" THEN {{}} ELSE {{}, {"process"}}

-----------------------------------------------------------------------------
(* Connect *)

ConnectPrepare(c) ==
    /\ Admitted(c, "connect")
    /\ \/ /\ PrepareOK
          /\ frame' = [frame EXCEPT !.step = "check", !.old = active,
                                    !.oldStatus = status, !.prepared = prepares + 1]
          /\ UNCHANGED status
       \/ /\ PrepareFails
          /\ RecordConnectFailure(active, call[c].profile)
          /\ frame' = [frame EXCEPT !.step = "return", !.errs = {"validation"},
                                    !.old = active, !.oldStatus = status]
    /\ InGate /\ UNCHANGED <<generation, active, sessions, monitor>>

\* runner.Check rejects the configuration, or the context is done by the time
\* Check has returned.
ConnectRejected(c) ==
    /\ Holds(c) /\ frame.step = "check"
    /\ ClosePrepared(frame.prepared)
    /\ \/ expired[c] /\ Return({"context"}) /\ UNCHANGED status
       \/ /\ ~expired[c]
          /\ RecordConnectFailure(frame.old, call[c].profile)
          /\ Return({"validation"})
    /\ InGate /\ UNCHANGED <<generation, active, sessions, monitor, procVars>>

\* Check passes.  Without a session the start comes next; otherwise the old
\* session is marked for a roll-back and gets SIGTERM.
ConnectChecked(c) ==
    /\ Holds(c) /\ frame.step = "check" /\ ~expired[c]
    /\ CheckOK(frame.prepared)
    /\ \/ /\ frame.old = 0
          /\ status' = StatusOf("connecting", call[c].profile)
          /\ frame' = [frame EXCEPT !.step = "start"]
          /\ UNCHANGED sessions
       \/ /\ frame.old # 0
          /\ sessions' = [sessions EXCEPT ![frame.old].stopping = TRUE,
                                          ![frame.old].rollbackPrevious = frame.old,
                                          ![frame.old].rollbackStatus = frame.oldStatus]
          /\ status' = [status EXCEPT !.state = "disconnecting"]
          /\ \E errs \in SignalErrs :
               frame' = [frame EXCEPT !.step = "grace", !.purpose = "replace", !.errs = errs]
    /\ InGate /\ UNCHANGED <<generation, active, monitor>>

\* The context is done when Connect looks at it before runner.Start.
ConnectExpired(c) ==
    /\ Holds(c) /\ frame.step = "start" /\ frame.old # 0 /\ expired[c]
    /\ ClosePrepared(frame.prepared)
    /\ frame' = [frame EXCEPT !.step = "rollback", !.errs = {"context"}]
    /\ InGate /\ UNCHANGED <<generation, active, status, sessions, monitor, procVars>>

ConnectStartFails(c) ==
    /\ Holds(c) /\ frame.step = "start"
    /\ ClosePrepared(frame.prepared)
    /\ LET startErr == IF expired[c] THEN {"context"} ELSE {"process"}
       IN \/ /\ frame.old # 0
             /\ frame' = [frame EXCEPT !.step = "rollback", !.errs = startErr]
             /\ UNCHANGED status
          \/ /\ frame.old = 0
             /\ status' = StatusOf("failed", call[c].profile)
             /\ Return(startErr)
    /\ InGate /\ UNCHANGED <<generation, active, sessions, monitor, procVars>>

\* runner.Start succeeds in time: the new session replaces the old one.
ConnectStarted(c) ==
    /\ Holds(c) /\ frame.step = "start" /\ ~expired[c]
    /\ StartOK(frame.prepared, "running")
    /\ Install(call[c].profile, frame.prepared, StatusOf("connected", call[c].profile),
               FALSE, FALSE, 0, Disconnected)
    /\ IF frame.old = 0 THEN UNCHANGED configVars
                        ELSE ClosePrepared(sessions[frame.old].prepared)
    /\ Return({})
    /\ InGate

\* runner.Start succeeds after the context is done: the new process is
\* tracked as a session that stops and rolls back to the old one.
ConnectStartedLate(c) ==
    /\ Holds(c) /\ frame.step = "start" /\ expired[c]
    /\ StartOK(frame.prepared, "running")
    /\ Install(call[c].profile, frame.prepared, StatusOf("disconnecting", call[c].profile),
               TRUE, FALSE, frame.old, frame.oldStatus)
    /\ \E errs \in {{}, {"process"}} :
         frame' = [frame EXCEPT !.step = "grace", !.purpose = "abort", !.errs = errs]
    /\ InGate /\ UNCHANGED configVars

-----------------------------------------------------------------------------
(* stopSession on the active session, for each of its callers *)

\* SIGTERM did not end the process within the grace period, or the context is
\* done: SIGKILL.
StopKill ==
    /\ frame.step = "grace"
    /\ \/ KillOK(ActiveProcess) /\ frame' = [frame EXCEPT !.step = "kill"]
       \/ /\ proc[ActiveProcess] # "reaped"
          /\ frame' = [frame EXCEPT !.step = "kill", !.errs = @ \cup {"process"}]
          /\ UNCHANGED proc
    /\ InGate
    /\ UNCHANGED <<generation, active, status, sessions, monitor, starts, configVars>>

StopErrs == frame.errs \cup CtxErr

\* Mutant: the process counts as reaped once it was told to stop.
Reaped_NoWait(purpose) == frame.step \in {"grace", "kill"} /\ frame.purpose = purpose

\* stopSession returns (true, StopErrs) to the caller that stops for `purpose`.
Reaped(purpose) ==
    /\ frame.step \in {"grace", "kill"} /\ frame.purpose = purpose
    /\ proc[ActiveProcess] = "reaped"

\* Mutant: no deadline after SIGKILL.
Stuck_NoDeadline(purpose) == FALSE

\* stopSession returns (false, ErrProcessStuck): the deadline timer fired,
\* possibly together with the exit.
Stuck(purpose) == frame.step = "kill" /\ frame.purpose = purpose

\* The old session is gone: go on to the start, or roll back after an error.
ReplaceReaped(c) ==
    /\ Holds(c) /\ Reaped("replace")
    /\ active' = 0
    /\ sessions' = [sessions EXCEPT ![frame.old].rollbackPrevious = 0]
    /\ \/ /\ StopErrs # {}
          /\ ClosePrepared(frame.prepared)
          /\ frame' = [frame EXCEPT !.step = "rollback", !.errs = StopErrs]
          /\ UNCHANGED status
       \/ /\ StopErrs = {}
          /\ status' = StatusOf("connecting", call[c].profile)
          /\ frame' = [frame EXCEPT !.step = "start"]
          /\ UNCHANGED configVars
    /\ InGate /\ UNCHANGED <<generation, monitor, procVars>>

\* Mutant: the unused configuration is not closed.
ReplaceStuck_Leaks(c) ==
    /\ Holds(c) /\ Stuck("replace")
    /\ Return(StopErrs \cup {"stuck"})
    /\ InGate /\ UNCHANGED <<generation, active, status, sessions, monitor, runnerVars>>

ReplaceStuck(c) ==
    /\ Holds(c) /\ Stuck("replace")
    /\ ClosePrepared(frame.prepared)
    /\ Return(StopErrs \cup {"stuck"})
    /\ InGate /\ UNCHANGED <<generation, active, status, sessions, monitor, procVars>>

\* The late session of an expired Connect is gone.
AbortReaped(c) ==
    /\ Holds(c) /\ Reaped("abort")
    /\ active' = 0
    /\ sessions' = [sessions EXCEPT ![active].rollbackPrevious = 0]
    /\ ClosePrepared(sessions[active].prepared)
    /\ \/ /\ frame.old # 0
          /\ frame' = [frame EXCEPT !.step = "rollback", !.errs = StopErrs]
          /\ UNCHANGED status
       \/ /\ frame.old = 0
          /\ status' = Disconnected
          /\ Return(StopErrs)
    /\ InGate /\ UNCHANGED <<generation, monitor, procVars>>

\* The session cannot be stopped now: it stays active and stopping.
StopStuck(c) ==
    /\ Holds(c) /\ (Stuck("abort") \/ Stuck("disconnect"))
    /\ Return(StopErrs \cup {"stuck"})
    /\ InGate /\ UNCHANGED <<generation, active, status, sessions, monitor, runnerVars>>

-----------------------------------------------------------------------------
(* rollbackLocked(frame.old, frame.oldStatus), inside a Connect or a monitor *)

InRollback == gate \in {"client", "monitor"} /\ frame.step = "rollback"

\* runner.Start brings the previous configuration back in time.
RollbackStarted ==
    /\ InRollback
    /\ LET previous == sessions[frame.old]
       IN /\ StartOK(previous.prepared, "running")
          /\ Install(previous.profile, previous.prepared, frame.oldStatus,
                     FALSE, FALSE, 0, Disconnected)
    /\ Return(frame.errs)
    /\ InGate /\ UNCHANGED configVars

\* The timer fired before Start returned a process: the process gets SIGKILL,
\* which may fail, and stays tracked as the active session until its Wait returns.
RollbackLate ==
    /\ InRollback
    /\ LET previous == sessions[frame.old]
       IN /\ \E state \in {"running", "killed"} : StartOK(previous.prepared, state)
          /\ Install(previous.profile, previous.prepared,
                     StatusOf("disconnecting", previous.profile),
                     TRUE, TRUE, 0, Disconnected)
    /\ Return(frame.errs \cup {"rollback", "stuck"})
    /\ InGate /\ UNCHANGED configVars

\* Mutant: the caller is not told that the roll-back failed.
RollbackFails_Silent ==
    /\ InRollback
    /\ ClosePrepared(sessions[frame.old].prepared)
    /\ status' = StatusOf("failed", sessions[frame.old].profile)
    /\ Return(frame.errs)
    /\ InGate /\ UNCHANGED <<generation, active, sessions, monitor, procVars>>

RollbackFails ==
    /\ InRollback
    /\ ClosePrepared(sessions[frame.old].prepared)
    /\ status' = StatusOf("failed", sessions[frame.old].profile)
    /\ Return(frame.errs \cup {"rollback"})
    /\ InGate /\ UNCHANGED <<generation, active, sessions, monitor, procVars>>

-----------------------------------------------------------------------------
(* Disconnect *)

Disconnect(c) ==
    /\ Admitted(c, "disconnect")
    /\ \/ /\ active = 0
          /\ status' = Disconnected
          /\ Return({})
          /\ UNCHANGED sessions
       \/ /\ active # 0
          /\ sessions' = [sessions EXCEPT ![active].stopping = TRUE]
          /\ status' = [status EXCEPT !.state = "disconnecting"]
          /\ \E errs \in SignalErrs :
               frame' = [frame EXCEPT !.step = "grace", !.purpose = "disconnect", !.errs = errs]
    /\ InGate /\ UNCHANGED <<generation, active, monitor, runnerVars>>

DisconnectReaped(c) ==
    /\ Holds(c) /\ Reaped("disconnect")
    /\ active' = 0
    /\ ClosePrepared(sessions[active].prepared)
    /\ status' = Disconnected
    /\ Return(StopErrs)
    /\ InGate /\ UNCHANGED <<generation, sessions, monitor, procVars>>

-----------------------------------------------------------------------------
(* The monitor goroutine of session g *)

\* process.Wait returns and session.done is closed; this needs no gate.
MonitorWait(g) ==
    /\ monitor[g] = "wait"
    /\ WaitReturns(sessions[g].process)
    /\ monitor' = [monitor EXCEPT ![g] = "acquire"]
    /\ UNCHANGED <<gate, serviceVars, callVars, frame, closer>>

MonitorAcquire(g) ==
    /\ monitor[g] = "acquire" /\ gate = "free"
    /\ gate' = "monitor"
    /\ monitor' = [monitor EXCEPT ![g] = "holding"]
    /\ frame' = [NoFrame EXCEPT !.step = "entered"]
    /\ UNCHANGED <<serviceVars, callVars, closer, runnerVars>>

MonitorHolds(g) == gate = "monitor" /\ monitor[g] = "holding"

\* Mutant: a stopping session is left to whoever stops it.
Superseded_Stopping(g) == active # g \/ generation # g \/ sessions[g].stopping

Superseded(g) == active # g \/ generation # g

\* The session was retired or replaced by whoever stopped it.
MonitorSuperseded(g) ==
    /\ MonitorHolds(g) /\ frame.step = "entered"
    /\ Superseded(g)
    /\ Return({})
    /\ InGate /\ UNCHANGED <<generation, active, status, sessions, monitor, runnerVars>>

Current(g) == MonitorHolds(g) /\ frame.step = "entered" /\ ~Superseded(g)

RollbackOnExit(g) == sessions[g].stopping /\ sessions[g].rollbackPrevious # 0 /\ ~closed

\* Mutant: the configuration is closed also when it is the one to go back to.
CloseSuperseded_Always(g, previous) == ClosePrepared(sessions[g].prepared)

CloseSuperseded(g, previous) ==
    IF previous = g THEN UNCHANGED configVars ELSE ClosePrepared(sessions[g].prepared)

\* A session that a Connect could not stop in time has exited at last: bring
\* the previous session back.
MonitorRollback(g) ==
    /\ Current(g) /\ RollbackOnExit(g)
    /\ active' = 0
    /\ LET previous == sessions[g].rollbackPrevious
       IN /\ CloseSuperseded(g, previous)
          /\ frame' = [frame EXCEPT !.step = "rollback", !.old = previous,
                                    !.oldStatus = sessions[g].rollbackStatus]
    /\ sessions' = [sessions EXCEPT ![g].rollbackPrevious = 0]
    /\ InGate /\ UNCHANGED <<generation, status, monitor, procVars>>

\* Otherwise the session is over.
MonitorRetire(g) ==
    /\ Current(g) /\ ~RollbackOnExit(g)
    /\ active' = 0
    /\ status' = IF sessions[g].failedOnExit \/ ~(closed \/ sessions[g].stopping)
                 THEN StatusOf("failed", sessions[g].profile)
                 ELSE Disconnected
    /\ ClosePrepared(sessions[g].prepared)
    /\ Return({})
    /\ InGate /\ UNCHANGED <<generation, sessions, monitor, procVars>>

MonitorRelease(g) ==
    /\ MonitorHolds(g) /\ frame.step = "return"
    /\ gate' = "free"
    /\ monitor' = [monitor EXCEPT ![g] = "finished"]
    /\ frame' = NoFrame
    /\ UNCHANGED <<serviceVars, callVars, closer, runnerVars>>

-----------------------------------------------------------------------------
(* Close *)

CloseCall ==
    /\ closer = "idle"
    /\ closer' = "acquire"
    /\ UNCHANGED <<gate, serviceVars, monitor, callVars, frame, runnerVars>>

\* Close takes the gate, refuses later calls and signals the active session,
\* whose roll-back is called off.
CloseBegin ==
    /\ closer = "acquire" /\ gate = "free"
    /\ gate' = "closer"
    /\ closer' = "holding"
    /\ closed' = TRUE
    /\ \/ /\ active = 0
          /\ frame' = [NoFrame EXCEPT !.step = "return"]
          /\ UNCHANGED <<sessions, status>>
       \/ /\ active # 0
          /\ sessions' = [sessions EXCEPT ![active].stopping = TRUE,
                                          ![active].rollbackPrevious = 0]
          /\ status' = [status EXCEPT !.state = "disconnecting"]
          /\ \E errs \in SignalErrs :
               frame' = [NoFrame EXCEPT !.step = "grace", !.purpose = "close", !.errs = errs]
    /\ UNCHANGED <<generation, active, monitor, callVars, runnerVars>>

CloseReaped ==
    /\ closer = "holding" /\ Reaped("close")
    /\ active' = 0
    /\ ClosePrepared(sessions[active].prepared)
    /\ status' = Disconnected
    /\ Return(StopErrs)
    /\ InGate /\ UNCHANGED <<generation, sessions, monitor, procVars>>

CloseStuck ==
    /\ closer = "holding" /\ Stuck("close")
    /\ Return(StopErrs \cup {"stuck"})
    /\ InGate /\ UNCHANGED <<generation, active, status, sessions, monitor, runnerVars>>

\* service.cancel() and release().
CloseRelease ==
    /\ closer = "holding" /\ frame.step = "return"
    /\ gate' = "free"
    /\ frame' = NoFrame
    /\ closer' = "waitMonitors"
    /\ UNCHANGED <<serviceVars, monitor, callVars, runnerVars>>

\* Mutant: monitorWait is not waited for.
MonitorsDone_Skipped == TRUE

MonitorsDone == \A g \in Generations : monitor[g] \in {"none", "finished"}

\* Mutant: Close waits for the monitors without a deadline.
CloseTimeout_Never == FALSE /\ UNCHANGED vars

\* The deadline passes first: Close reports ErrProcessStuck and leaves the
\* runner to a goroutine.
CloseTimeout ==
    /\ closer = "waitMonitors"
    /\ closer' = "deferred"
    /\ UNCHANGED <<gate, serviceVars, monitor, callVars, frame, runnerVars>>

\* closeRunner, in Close itself or in the goroutine it left behind.
CloseRunner ==
    /\ closer \in {"waitMonitors", "deferred"} /\ MonitorsDone
    /\ RunnerClose
    /\ closer' = "done"
    /\ UNCHANGED <<gate, serviceVars, monitor, callVars, frame>>

\* os/exec kills a process whose context is cancelled: the lifetime of the
\* service by Close, or the context of a roll-back that came too late.  The
\* signal may fail.
ContextKills(g) ==
    /\ closer \in {"waitMonitors", "deferred"} \/ sessions[g].failedOnExit
    /\ proc[sessions[g].process] = "running"
    /\ KillOK(sessions[g].process)
    /\ UNCHANGED <<gate, serviceVars, monitor, callVars, frame, closer, starts, configVars>>

Exit(q) ==
    /\ ProcessExit(q)
    /\ UNCHANGED <<gate, serviceVars, monitor, callVars, frame, closer>>

-----------------------------------------------------------------------------
ConnectStep(c) ==
    \/ ConnectPrepare(c) \/ ConnectRejected(c) \/ ConnectChecked(c)
    \/ ConnectExpired(c) \/ ConnectStartFails(c) \/ ConnectStarted(c)
    \/ ConnectStartedLate(c) \/ ReplaceReaped(c) \/ ReplaceStuck(c) \/ AbortReaped(c)

ClientStep(c) ==
    \/ Refused(c) \/ Query(c) \/ Disconnect(c) \/ DisconnectReaped(c)
    \/ ConnectStep(c) \/ StopStuck(c) \/ Release(c)

RollbackStep == RollbackStarted \/ RollbackLate \/ RollbackFails

MonitorStep(g) ==
    MonitorSuperseded(g) \/ MonitorRollback(g) \/ MonitorRetire(g) \/ MonitorRelease(g)

CloserStep == CloseReaped \/ CloseStuck \/ CloseRelease

\* The next statement of whoever holds the gate.
GateStep ==
    \/ \E c \in Clients : ClientStep(c)
    \/ \E g \in Generations : MonitorStep(g)
    \/ StopKill \/ RollbackStep \/ CloserStep

Next ==
    \/ GateStep
    \/ \E c \in Clients :
         \/ \E op \in {"connect", "disconnect", "query"}, p \in Profiles : Call(c, op, p)
         \/ Expire(c) \/ AcquireExpired(c) \/ Acquire(c)
    \/ \E g \in Generations : MonitorWait(g) \/ MonitorAcquire(g)
    \/ CloseCall \/ CloseBegin \/ CloseTimeout \/ CloseRunner
    \/ \E g \in 1..generation : ContextKills(g)
    \/ \E q \in Processes : Exit(q)

Spec == Init /\ [][Next]_vars

\* What happens at most once to a process, its monitor or Close: a fair choice
\* among these steps is fair to each of them.
HappensOnce ==
    \/ \E g \in Generations : MonitorWait(g)
    \/ \E q \in Processes : proc[q] = "killed" /\ Exit(q)
    \/ CloseTimeout

\* Code that holds the gate runs on, and every wait inside it is bounded by a
\* timer; a goroutine that can run runs; receivers on the gate channel queue in
\* order; the kernel ends a process that got SIGKILL.  Nothing is assumed about
\* a process that was only sent SIGTERM, about callers, or about the goroutine
\* that Close leaves behind, which ends with the program.
Fairness ==
    /\ WF_vars(GateStep)
    /\ \A c \in Clients : SF_vars(Acquire(c))
    /\ \A g \in Generations : SF_vars(MonitorAcquire(g))
    /\ SF_vars(CloseBegin)
    /\ WF_vars(HappensOnce)

FairSpec == Spec /\ Fairness

-----------------------------------------------------------------------------
(* Properties *)

\* Every core process whose exit has not been collected is the process of the
\* active session: there is at most one, and the service never loses track of
\* one, whatever start, stop and roll-back outcomes are combined.
SingleCore ==
    \A q \in Unreaped : active # 0 /\ sessions[active].process = q

\* The gate has one holder, and the frame is in use exactly while it is held.
GateInv ==
    /\ gate = "free" <=> frame.step = "none"
    /\ gate = "closer" <=> closer = "holding"
    /\ closed <=> closer \notin {"idle", "acquire"}
    /\ \A c \in Clients : call[c].pc = "holding" => gate = "client"
    /\ \A c, d \in Clients : call[c].pc = "holding" /\ call[d].pc = "holding" => c = d
    /\ \A g \in Generations : monitor[g] = "holding" => gate = "monitor"
    /\ \A g, h \in Generations : monitor[g] = "holding" /\ monitor[h] = "holding" => g = h
    /\ \A c \in Clients : call[c].op = "connect" => call[c].profile \in Profiles
    /\ \A c \in Clients : call[c].pc = "holding" /\ frame.step \in {"check", "start"} =>
           call[c].op = "connect"

\* Every started process became a session, and a session's monitor leaves
\* Wait only when the process is collected.
SessionInv ==
    /\ generation = starts
    /\ \A g \in 1..generation :
           /\ sessions[g] \in Session
           /\ sessions[g].process = g /\ sessions[g].rollbackPrevious \in 0..generation
    /\ \A g \in Generations : monitor[g] = "none" <=> g > generation
    /\ \A g \in Generations : monitor[g] \in {"acquire", "holding", "finished"} =>
           proc[g] = "reaped"
    /\ \A q \in Processes : q > starts => proc[q] = "unstarted"

\* The operation that holds the gate stops a session, is replacing one that it
\* has checked a configuration for, or starts a core while there is none and
\* the service is open.
FrameInv ==
    /\ frame.old <= generation
    /\ frame.step \in {"check", "start"} => frame.prepared # 0
    /\ frame.step = "check" => frame.old = active
    /\ frame.step \in {"start", "rollback"} => active = 0
    /\ frame.step = "rollback" => frame.old # 0
    /\ frame.step \in {"grace", "kill"} => active # 0
    /\ frame.step \in {"grace", "kill"} /\ frame.purpose = "replace" =>
           frame.old = active /\ frame.prepared # 0
    /\ frame.step \in {"check", "start", "rollback"} => ~closed
    /\ frame.step \in {"grace", "kill"} /\ frame.purpose \in {"replace", "abort"} =>
           /\ ~closed
           /\ \A c \in Clients : call[c].pc = "holding" => call[c].op = "connect"

\* Together with the type, these make SingleCore inductive: what the gate, the
\* frame of its holder and the sessions have in common.
CoreInv == GateInv /\ SessionInv /\ FrameInv /\ SingleCore

\* The inductive invariant: at every step there is one core at most, the gate
\* has one holder, and what Service and execRunner record agrees with the
\* processes there are.
IInv == TypeOK /\ CoreInv

\* What Status reports between operations is what there is: connected with
\* the profile of an active session that nobody is stopping, disconnecting
\* while a session refuses to stop, and idle states without a session.
StatusMatchesSession ==
    gate = "free" =>
        IF active = 0
        THEN status.state \in {"disconnected", "failed"}
        ELSE status = StatusOf(IF sessions[active].stopping THEN "disconnecting" ELSE "connected",
                               sessions[active].profile)

\* Between operations of an open service, every registered configuration file
\* belongs to the active session or to the one it would roll back to, except
\* where a removal failed: no path forgets prepared.Close().
ConfigsAccounted ==
    gate = "free" /\ ~closed =>
        \A p \in Registered \ removeFailed :
            /\ active # 0
            /\ \/ p = sessions[active].prepared
               \/ /\ sessions[active].rollbackPrevious # 0
                  /\ p = sessions[sessions[active].rollbackPrevious].prepared

\* Session g's configuration can be started again.
Usable(g) == prepared[sessions[g].prepared] = "checked" /\ sessions[g].prepared \in onDisk

\* Wherever a roll-back may still be needed, the configuration to roll back to
\* is registered, checked and on disk: nobody closes it too early.
RollbackUsable ==
    /\ frame.step = "rollback" => Usable(frame.old)
    /\ frame.step \in {"check", "start", "grace", "kill"} /\ frame.old # 0 => Usable(frame.old)
    /\ active # 0 => Usable(active)
    /\ active # 0 /\ sessions[active].rollbackPrevious # 0 =>
           Usable(sessions[active].rollbackPrevious)

\* The answer of Connect is the truth.  Success: the new configuration is
\* active and connected.  Failure over a working session, unless the error
\* admits a failed roll-back or a stuck process: the old configuration is
\* active again with its old status.
ConnectOutcome ==
    \A c \in Clients :
        Holds(c) /\ call[c].op = "connect" /\ frame.step = "return" =>
            /\ frame.errs = {} =>
                 /\ active # 0 /\ sessions[active].prepared = frame.prepared
                 /\ status = StatusOf("connected", call[c].profile)
            /\ frame.errs # {} /\ frame.old # 0 /\ frame.errs \cap {"rollback", "stuck"} = {} =>
                 /\ active # 0 /\ ~sessions[active].stopping
                 /\ sessions[active].prepared = sessions[frame.old].prepared
                 /\ status = frame.oldStatus

\* The runner is closed last: by then no session is active, every process has
\* been collected, and only files whose removal failed are left.
RunnerClosedLast ==
    runnerClosed =>
        /\ active = 0 /\ Unreaped = {} /\ MonitorsDone
        /\ onDisk \subseteq removeFailed

\* As long as the runner is open, a file whose entry was deleted is gone: where
\* the removal failed, the entry stays for the next Close to try again.
RetryPossible == ~runnerClosed => \A p \in onDisk : prepared[p] # "closed"

\* Configuration files are accounted for as long as the service is open and
\* after it was closed, on every path of Connect, stopSession and Close.
FilesAccounted == ConfigsAccounted /\ RetryPossible /\ RunnerClosedLast

\* A working session is told to stop only by a Disconnect, by Close, or by a
\* Connect whose replacement configuration has passed `sing-box check`.
StopsForAReason ==
    [][\A g \in 1..generation : ~sessions[g].stopping /\ sessions'[g].stopping =>
         \/ closed'
         \/ \E c \in Clients : Holds(c) /\ call[c].op = "disconnect"
         \/ frame'.prepared # 0 /\ prepared'[frame'.prepared] = "checked"]_vars

Slot == INSTANCE CoreSlot WITH cores <- Unreaped, launched <- starts,
                               halted <- closed, MaxLaunches <- MaxStarts

\* The service implements the one-slot specification: no overlap of cores, and
\* none is started once Close has begun.
ImplementsSlot == Slot!SlotSpec

\* Every call gets its answer, whatever processes, timers and other callers do.
CallsReturn == \A c \in Clients : call[c].pc = "acquire" ~> call[c].pc = "idle"

\* A session whose process was killed is retired in the end, also when the
\* caller that wanted it stopped has given up on it.  Only a Close that has
\* returned early, after which tuiboxd exits, leaves one behind.
KilledIsRetired ==
    \A g \in Generations :
        (active = g /\ proc[sessions[g].process] = "killed") ~> (active # g \/ closer = "deferred")

\* Close, once called, returns, although signals fail and monitors hang: either
\* every core has been collected and the runner is closed, or it reports
\* ErrProcessStuck and leaves the runner to a goroutine.
CloseCompletes ==
    (closer = "acquire") ~>
        (closer = "deferred" \/ (closer = "done" /\ runnerClosed /\ Unreaped = {}))

=============================================================================
