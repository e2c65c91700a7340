------------------------ MODULE DaemonOutcomeProofs ------------------------
(***************************************************************************)
(* Proofs about what DaemonService promises its callers: the status it     *)
(* reports, the answer of Connect, the configuration a roll-back needs and *)
(* the configuration files it leaves, for every set of callers and         *)
(* profiles and every bound on configurations and starts.                  *)
(*                                                                         *)
(* On top of IInv: where the holder of the gate and the active session     *)
(* stand (PlaceInv), what the status is at each statement (StatusInv), who *)
(* needs which configuration (FilesInv), which errors have been collected  *)
(* (AnswerInv), and what is left once the runner is closed (EndInv).       *)
(***************************************************************************)
EXTENDS DaemonServiceProofs

Stopping == frame.step \in {"grace", "kill"}

\* Connect has a configuration of its own that no session uses yet.
Fresh == frame.step \in {"check", "start"} \/ (Stopping /\ frame.purpose = "replace")

\* The active session is the last one, its monitor has work left to do, and the
\* runner is closed only after Close has waited for the monitors.
ActiveInv ==
    /\ active # 0 => active = generation /\ monitor[active] # "finished"
    /\ gate = "monitor" /\ frame.step \in {"return", "rollback"} =>
         \A g \in Generations : monitor[g] = "holding" => active # g
    /\ active # 0 /\ ~sessions[active].stopping => sessions[active].rollbackPrevious = 0
    /\ runnerClosed => closer = "done"

\* The locals of whoever stops a session agree with that session.
StopInv ==
    /\ frame.step = "entered" => frame.old = 0
    /\ Stopping => frame.purpose # "none"
    /\ Stopping /\ frame.purpose \in {"disconnect", "close"} =>
         frame.old = 0 /\ sessions[active].rollbackPrevious = 0
    /\ Stopping /\ frame.purpose = "disconnect" =>
         \A c \in Clients : call[c].pc = "holding" => call[c].op = "disconnect"
    /\ Stopping /\ frame.purpose = "replace" => sessions[active].rollbackPrevious = active
    /\ Stopping /\ frame.purpose = "abort" =>
         sessions[active].rollbackPrevious = frame.old /\ frame.old # active

PlaceInv == ActiveInv /\ StopInv

\* The status says what there is.
StatusFits ==
    IF active = 0
    THEN status.state \in {"disconnected", "failed"}
    ELSE status = StatusOf(IF sessions[active].stopping THEN "disconnecting" ELSE "connected",
                           sessions[active].profile)

\* A session to go back to was connected when it was left.
OldFits == frame.old # 0 => frame.oldStatus = StatusOf("connected", sessions[frame.old].profile)

\* What the status is at every statement inside the gate and outside.
StatusInv ==
    /\ frame.step \in {"none", "entered", "check", "return"} => StatusFits
    /\ frame.step = "check" =>
         /\ frame.oldStatus = status
         /\ frame.old # 0 => ~sessions[frame.old].stopping
    /\ Stopping => /\ sessions[active].stopping
                   /\ status = StatusOf("disconnecting", sessions[active].profile)
    /\ frame.step \in {"start", "rollback"} \/ Stopping => OldFits
    /\ active # 0 /\ sessions[active].rollbackPrevious # 0 =>
         sessions[active].rollbackStatus =
             StatusOf("connected", sessions[sessions[active].rollbackPrevious].profile)

\* The sessions whose configuration is in use or may be needed again.
Kept ==
    {g \in 1..generation :
        \/ g = active
        \/ active # 0 /\ g = sessions[active].rollbackPrevious
        \/ frame.step \in {"start", "rollback"} /\ g = frame.old}

\* Every kept session can be started again, a fresh configuration is newer than
\* all of them, and every other file is gone or could not be removed.
FilesInv ==
    /\ \A g \in 1..generation : sessions[g].prepared <= prepares
    /\ onDisk \subseteq Registered \cup removeFailed
    /\ Fresh => /\ frame.prepared \in Registered /\ frame.prepared \in onDisk
                /\ frame.prepared <= prepares
                /\ \A g \in 1..generation : sessions[g].prepared < frame.prepared
    /\ \A g \in Kept : Usable(g)
    /\ active # 0 /\ sessions[active].rollbackPrevious \notin {0, active} =>
         sessions[sessions[active].rollbackPrevious].prepared # sessions[active].prepared
    /\ ~closed =>
         \A p \in Registered \ removeFailed :
            \/ Fresh /\ p = frame.prepared
            \/ \E g \in Kept : p = sessions[g].prepared

\* An abort and a roll-back inside a Connect have an error to report.
AnswerInv ==
    /\ Stopping /\ frame.purpose = "abort" => CtxDone
    /\ gate = "client" /\ frame.step = "rollback" => frame.errs # {}
    /\ ConnectOutcome

\* A closed runner has nothing registered and nobody to serve.
EndInv == runnerClosed => active = 0 /\ MonitorsDone /\ Registered = {}

OutInv == PlaceInv /\ StatusInv /\ FilesInv /\ AnswerInv /\ EndInv

-----------------------------------------------------------------------------
(* What the steps do, field by field *)

\* The frame goes to `step` and keeps the locals of Connect.
FrameTo(step) ==
    /\ frame'.step = step /\ frame'.old = frame.old /\ frame'.oldStatus = frame.oldStatus
    /\ frame'.prepared = frame.prepared

\* Nobody has touched a session, its monitor or the status.
SameSessions == UNCHANGED <<generation, active, status, sessions, monitor>>

\* Only session g has changed, and neither its profile nor its configuration.
OnlySession(g) ==
    /\ \A h \in 1..generation : /\ sessions'[h].prepared = sessions[h].prepared
                                /\ sessions'[h].profile = sessions[h].profile
    /\ \A h \in 1..generation : h # g => sessions'[h] = sessions[h]

\* A function that returns keeps its locals.
LEMMA ReturnTo ==
    ASSUME frame \in Frame, NEW errs, Return(errs)
    PROVE  FrameTo("return") /\ frame'.errs = errs
  BY Zenon DEF Frame, Return, FrameTo

\* The same for the step to rollbackLocked.
LEMMA RollbackTo ==
    ASSUME frame \in Frame, NEW errs, frame' = [frame EXCEPT !.step = "rollback", !.errs = errs]
    PROVE  FrameTo("rollback") /\ frame'.errs = errs
  BY Zenon DEF Frame, FrameTo

\* The same for the step into stopSession.
LEMMA GraceTo ==
    ASSUME frame \in Frame, NEW errs, NEW why,
           frame' = [frame EXCEPT !.step = "grace", !.purpose = why, !.errs = errs]
    PROVE  FrameTo("grace") /\ frame'.purpose = why
  BY Zenon DEF Frame, FrameTo

\* Going on to the start of the core keeps the locals of Connect.
LEMMA StartTo ==
    ASSUME frame \in Frame, frame' = [frame EXCEPT !.step = "start"]
    PROVE  FrameTo("start")
  BY Zenon DEF Frame, FrameTo

\* StopKill goes on to wait for the process.
LEMMA KillTo ==
    ASSUME IInv, StopKill
    PROVE  /\ FrameTo("kill") /\ frame'.purpose = frame.purpose /\ frame.step = "grace"
           /\ SameSessions /\ InGate /\ UNCHANGED configVars
<1>1. frame \in Frame BY Zenon, Facts
<1>2. CASE frame' = [frame EXCEPT !.step = "kill"]
  BY Zenon, <1>1, <1>2 DEF StopKill, Frame, FrameTo, SameSessions
<1>3. CASE frame' = [frame EXCEPT !.step = "kill", !.errs = @ \cup {"process"}]
  BY Zenon, <1>1, <1>3 DEF StopKill, Frame, FrameTo, SameSessions
<1> QED BY Zenon, <1>2, <1>3 DEF StopKill

\* A session that is told to stop keeps everything else.
LEMMA StoppingMarked ==
    ASSUME IInv, NEW g \in 1..generation, sessions' = [sessions EXCEPT ![g].stopping = TRUE]
    PROVE  /\ OnlySession(g) /\ sessions'[g].stopping
           /\ sessions'[g].rollbackPrevious = sessions[g].rollbackPrevious
           /\ sessions'[g].rollbackStatus = sessions[g].rollbackStatus
<1>1. sessions[g] \in Session /\ g \in Generations
  BY Zenon, Facts
<1>2. sessions'[g] = [sessions[g] EXCEPT !.stopping = TRUE]
  BY Zenon, <1>1, Facts
<1>3. \A h \in 1..generation : h # g => sessions'[h] = sessions[h]
  BY Zenon, Facts
<1>4. /\ sessions'[g].stopping
      /\ sessions'[g].prepared = sessions[g].prepared /\ sessions'[g].profile = sessions[g].profile
      /\ sessions'[g].rollbackPrevious = sessions[g].rollbackPrevious
      /\ sessions'[g].rollbackStatus = sessions[g].rollbackStatus
  BY <1>1, <1>2 DEF Session
<1> QED BY Zenon, <1>3, <1>4 DEF OnlySession

\* A session that Connect replaces may be brought back itself.
LEMMA ReplacedMarked ==
    ASSUME IInv, NEW g \in 1..generation, NEW stat,
           sessions' = [sessions EXCEPT ![g].stopping = TRUE, ![g].rollbackPrevious = g,
                                        ![g].rollbackStatus = stat]
    PROVE  /\ OnlySession(g) /\ sessions'[g].stopping
           /\ sessions'[g].rollbackPrevious = g /\ sessions'[g].rollbackStatus = stat
  BY Zenon, Facts DEF OnlySession, Session

\* Nothing is left to go back to from session g.
LEMMA ForgetPrevious ==
    ASSUME IInv, NEW g \in 1..generation, sessions' = [sessions EXCEPT ![g].rollbackPrevious = 0]
    PROVE  OnlySession(g)
  BY Zenon, Facts DEF OnlySession, Session

\* Close calls off the roll-back.
LEMMA ClosedMarked ==
    ASSUME IInv, NEW g \in 1..generation,
           sessions' = [sessions EXCEPT ![g].stopping = TRUE, ![g].rollbackPrevious = 0]
    PROVE  OnlySession(g) /\ sessions'[g].stopping /\ sessions'[g].rollbackPrevious = 0
  BY Zenon, Facts DEF OnlySession, Session

\* A new session, the last one, was installed; the others are as they were.
NewSession(p, stopping, previous) ==
    /\ generation' = generation + 1 /\ active' = generation + 1 /\ generation + 1 \in Generations
    /\ \A h \in 1..generation : sessions'[h] = sessions[h]
    /\ sessions'[active'].prepared = p /\ prepared[p] = "checked"
    /\ sessions'[active'].stopping = stopping
    /\ sessions'[active'].rollbackPrevious = previous
    /\ monitor' = [monitor EXCEPT ![generation + 1] = "wait"]

\* installSessionLocked adds a session and leaves the others alone.
LEMMA Installed ==
    ASSUME IInv, NEW profile, NEW p, NEW stat, NEW stopping, NEW failedOnExit, NEW previous,
           NEW previousStatus, NEW state, StartOK(p, state),
           Install(profile, p, stat, stopping, failedOnExit, previous, previousStatus)
    PROVE  /\ NewSession(p, stopping, previous) /\ status' = stat
           /\ sessions'[active'].profile = profile
           /\ sessions'[active'].rollbackStatus = previousStatus
<1>1. generation = starts /\ generation \in Nat /\ starts < MaxStarts /\ MaxStarts \in Nat
  BY Bounds DEF IInv, CoreInv, SessionInv, StartOK, Startable
<1>2. generation + 1 \in Generations
  BY <1>1 DEF Generations
<1>3. /\ generation' = generation + 1 /\ active' = generation + 1 /\ status' = stat
      /\ monitor' = [monitor EXCEPT ![generation + 1] = "wait"]
      /\ sessions' = [sessions EXCEPT ![generation + 1] =
           [profile |-> profile, prepared |-> p, process |-> starts + 1,
            stopping |-> stopping, rollbackPrevious |-> previous,
            rollbackStatus |-> previousStatus, failedOnExit |-> failedOnExit]]
  BY Zenon DEF Install
<1>4. \A h \in 1..generation : sessions'[h] = sessions[h]
  BY <1>1, <1>3, Facts
<1> QED BY <1>1, <1>2, <1>3, <1>4, Facts DEF StartOK, Startable, NewSession

\* closePrepared touches one configuration, which is then gone or has resisted.
LEMMA ClosedOne ==
    ASSUME RunnerTypeOK, NEW p \in Configs, ClosePrepared(p)
    PROVE  /\ UNCHANGED <<prepares, runnerClosed>> /\ removeFailed \subseteq removeFailed'
           /\ \A q \in Configs : q # p => prepared'[q] = prepared[q] /\ (q \in onDisk' <=> q \in onDisk)
           /\ Registered' \subseteq Registered
           /\ ~runnerClosed => (p \in Registered' => p \in removeFailed')
           /\ p \in onDisk' => p \in onDisk /\ (p \in Registered => p \in Registered')
  BY Zenon DEF ClosePrepared, RunnerTypeOK, RemoveFails, configVars, Registered, InMap

\* The early returns change nothing but the frame.
LEMMA RefusedDoes ==
    ASSUME IInv, NEW c \in Clients, Refused(c)
    PROVE  /\ Holds(c) /\ frame.step = "entered" /\ FrameTo("return") /\ frame'.errs # {}
           /\ SameSessions /\ InGate /\ UNCHANGED runnerVars
<1>1. PICK errs \in {{"context"}, {"unavailable"}, {"stuck"}} : Return(errs)
  BY Zenon DEF Refused
<1> QED BY <1>1, ReturnTo, Facts DEF Refused, SameSessions

\* Status and Health only read.
LEMMA QueryDoes ==
    ASSUME IInv, NEW c \in Clients, Query(c)
    PROVE  /\ Holds(c) /\ call[c].op = "query" /\ frame.step = "entered" /\ FrameTo("return")
           /\ SameSessions /\ InGate /\ UNCHANGED runnerVars
  BY ReturnTo, Facts DEF Query, Admitted, SameSessions

\* A monitor whose session is no longer the active one only returns.
LEMMA SupersededDoes ==
    ASSUME IInv, NEW g \in Generations, MonitorSuperseded(g)
    PROVE  /\ MonitorHolds(g) /\ Superseded(g) /\ frame.step = "entered" /\ FrameTo("return")
           /\ SameSessions /\ InGate /\ UNCHANGED runnerVars
  BY ReturnTo, Facts DEF MonitorSuperseded, SameSessions

\* A stop that gives up leaves the session to its monitor.
LEMMA StopStuckDoes ==
    ASSUME IInv, NEW c \in Clients, StopStuck(c)
    PROVE  /\ Holds(c) /\ frame.step = "kill" /\ frame.purpose \in {"abort", "disconnect"}
           /\ FrameTo("return") /\ "stuck" \in frame'.errs
           /\ SameSessions /\ InGate /\ UNCHANGED runnerVars
  BY ReturnTo, Facts DEF StopStuck, Stuck, SameSessions

\* Close gives up waiting for a core and leaves it to its monitor.
LEMMA CloseStuckDoes ==
    ASSUME IInv, CloseStuck
    PROVE  /\ closer = "holding" /\ frame.step = "kill" /\ frame.purpose = "close"
           /\ FrameTo("return") /\ SameSessions /\ InGate /\ UNCHANGED runnerVars
  BY Zenon, ReturnTo, Facts DEF CloseStuck, Stuck, SameSessions

\* Connect gives up waiting for the old core and drops its new configuration.
LEMMA ReplaceStuckDoes ==
    ASSUME IInv, NEW c \in Clients, ReplaceStuck(c)
    PROVE  /\ Holds(c) /\ frame.step = "kill" /\ frame.purpose = "replace"
           /\ FrameTo("return") /\ "stuck" \in frame'.errs
           /\ SameSessions /\ InGate /\ ClosePrepared(frame.prepared)
  BY ReturnTo, Facts DEF ReplaceStuck, Stuck, SameSessions

\* Disconnect has nothing to stop, or marks the session and begins to stop it.
LEMMA DisconnectDoes ==
    ASSUME IInv, NEW c \in Clients, Disconnect(c)
    PROVE  /\ Holds(c) /\ frame.step = "entered" /\ call[c].op = "disconnect" /\ ~closed
           /\ InGate /\ UNCHANGED <<generation, active, monitor>> /\ UNCHANGED runnerVars
           /\ \/ /\ active = 0 /\ sessions' = sessions /\ status' = Disconnected
                 /\ FrameTo("return")
              \/ /\ active # 0 /\ ~sessions[active].stopping /\ OnlySession(active)
                 /\ sessions'[active].stopping
                 /\ sessions'[active].rollbackPrevious = sessions[active].rollbackPrevious
                 /\ sessions'[active].rollbackStatus = sessions[active].rollbackStatus
                 /\ status' = [status EXCEPT !.state = "disconnecting"]
                 /\ FrameTo("grace") /\ frame'.purpose = "disconnect"
<1>1. /\ Holds(c) /\ frame.step = "entered" /\ call[c].op = "disconnect" /\ ~closed
      /\ InGate /\ UNCHANGED <<generation, active, monitor>> /\ UNCHANGED runnerVars
      /\ active # 0 => ~sessions[active].stopping
  BY Zenon DEF Disconnect, Admitted
<1>2. CASE active = 0
  <2>1. sessions' = sessions /\ status' = Disconnected /\ Return({})
    BY Zenon, <1>2 DEF Disconnect
  <2> QED BY <1>1, <1>2, <2>1, ReturnTo, Facts
<1>3. CASE active # 0
  <2>1. /\ sessions' = [sessions EXCEPT ![active].stopping = TRUE]
        /\ status' = [status EXCEPT !.state = "disconnecting"]
        /\ \E errs : frame' = [frame EXCEPT !.step = "grace", !.purpose = "disconnect", !.errs = errs]
    BY Zenon, <1>3 DEF Disconnect
  <2>2. FrameTo("grace") /\ frame'.purpose = "disconnect"
    BY Zenon, <2>1, GraceTo, Facts
  <2>3. active \in 1..generation
    BY Zenon, <1>3, Bounds
  <2> QED BY Zenon, <1>1, <1>3, <2>1, <2>2, <2>3, StoppingMarked
<1> QED BY Zenon, <1>2, <1>3

\* A session that was stopped for a Disconnect or for Close is over.
LEMMA StoppedDoes ==
    ASSUME IInv, (\E c \in Clients : DisconnectReaped(c)) \/ CloseReaped
    PROVE  /\ Stopping /\ frame.purpose \in {"disconnect", "close"} /\ gate # "free"
           /\ gate # "monitor" /\ \A c \in Clients : Holds(c) => frame.purpose = "disconnect"
           /\ active' = 0 /\ status' = Disconnected /\ FrameTo("return")
           /\ ClosePrepared(sessions[active].prepared)
           /\ InGate /\ UNCHANGED <<generation, sessions, monitor>>
<1>1. /\ Stopping /\ frame.purpose \in {"disconnect", "close"}
      /\ active' = 0 /\ status' = Disconnected /\ Return(StopErrs)
      /\ ClosePrepared(sessions[active].prepared)
      /\ InGate /\ UNCHANGED <<generation, sessions, monitor>>
  BY Zenon DEF DisconnectReaped, CloseReaped, Reaped, Stopping
<1>2. /\ gate # "free" /\ gate # "monitor"
      /\ \A c \in Clients : Holds(c) => frame.purpose = "disconnect"
  BY Zenon DEF DisconnectReaped, CloseReaped, Reaped, Holds, IInv, CoreInv, GateInv
<1> QED BY Zenon, <1>1, <1>2, ReturnTo, Facts

\* Prepare gives Connect a fresh configuration, or Connect returns.
LEMMA PrepareDoes ==
    ASSUME IInv, NEW c \in Clients, ConnectPrepare(c)
    PROVE  /\ Holds(c) /\ frame.step = "entered" /\ call[c].op = "connect" /\ ~closed
           /\ InGate /\ UNCHANGED <<generation, active, sessions, monitor>>
           /\ active # 0 => ~sessions[active].stopping
           /\ frame'.old = active /\ frame'.oldStatus = status
           /\ \/ /\ PrepareOK /\ frame'.step = "check" /\ frame'.prepared = prepares + 1
                 /\ status' = status
              \/ /\ PrepareFails /\ frame'.step = "return" /\ frame'.errs = {"validation"}
                 /\ status' = IF active = 0 THEN StatusOf("failed", call[c].profile) ELSE status
<1>1. /\ Holds(c) /\ frame.step = "entered" /\ call[c].op = "connect" /\ ~closed
      /\ InGate /\ UNCHANGED <<generation, active, sessions, monitor>>
      /\ active # 0 => ~sessions[active].stopping
  BY Zenon DEF ConnectPrepare, Admitted
<1>2. CASE /\ PrepareOK /\ status' = status
           /\ frame' = [frame EXCEPT !.step = "check", !.old = active,
                                     !.oldStatus = status, !.prepared = prepares + 1]
  BY Zenon, <1>1, <1>2, Facts DEF Frame
<1>3. CASE /\ PrepareFails /\ RecordConnectFailure(active, call[c].profile)
           /\ frame' = [frame EXCEPT !.step = "return", !.errs = {"validation"},
                                     !.old = active, !.oldStatus = status]
  BY Zenon, <1>1, <1>3, Facts DEF Frame, RecordConnectFailure
<1> QED BY Zenon, <1>2, <1>3 DEF ConnectPrepare

\* A configuration that the check rejects is dropped; an old session keeps its status.
LEMMA RejectedDoes ==
    ASSUME IInv, NEW c \in Clients, ConnectRejected(c)
    PROVE  /\ Holds(c) /\ frame.step = "check" /\ ClosePrepared(frame.prepared)
           /\ InGate /\ UNCHANGED <<generation, active, sessions, monitor>>
           /\ FrameTo("return") /\ frame'.errs # {}
           /\ frame.old # 0 => status' = status
           /\ frame.old = 0 => status' \in {status, StatusOf("failed", call[c].profile)}
<1>1. /\ Holds(c) /\ frame.step = "check" /\ ClosePrepared(frame.prepared)
      /\ InGate /\ UNCHANGED <<generation, active, sessions, monitor>>
      /\ frame.old # 0 => status' = status
      /\ frame.old = 0 => status' \in {status, StatusOf("failed", call[c].profile)}
  BY Zenon DEF ConnectRejected, RecordConnectFailure
<1>2. PICK errs \in {{"context"}, {"validation"}} : Return(errs)
  BY Zenon DEF ConnectRejected
<1> QED BY <1>1, <1>2, ReturnTo, Facts

\* After the check Connect starts, or first stops the session it replaces.
LEMMA CheckedDoes ==
    ASSUME IInv, NEW c \in Clients, ConnectChecked(c)
    PROVE  /\ Holds(c) /\ frame.step = "check" /\ CheckOK(frame.prepared) /\ frame.old = active
           /\ InGate /\ UNCHANGED <<generation, active, monitor>>
           /\ \/ /\ frame.old = 0 /\ FrameTo("start") /\ sessions' = sessions
              \/ /\ frame.old # 0 /\ FrameTo("grace") /\ frame'.purpose = "replace"
                 /\ OnlySession(active) /\ sessions'[active].stopping
                 /\ sessions'[active].rollbackPrevious = active
                 /\ sessions'[active].rollbackStatus = frame.oldStatus
                 /\ status' = [status EXCEPT !.state = "disconnecting"]
<1>1. /\ Holds(c) /\ frame.step = "check" /\ CheckOK(frame.prepared)
      /\ InGate /\ UNCHANGED <<generation, active, monitor>>
  BY Zenon DEF ConnectChecked
<1>2. frame.old = active
  BY Zenon, <1>1 DEF IInv, CoreInv, FrameInv
<1>3. CASE frame.old = 0
  <2>1. frame' = [frame EXCEPT !.step = "start"] /\ sessions' = sessions
    BY Zenon, <1>3 DEF ConnectChecked
  <2> QED BY Zenon, <1>1, <1>2, <1>3, <2>1, StartTo, Facts
<1>4. CASE frame.old # 0
  <2>1. /\ sessions' = [sessions EXCEPT ![frame.old].stopping = TRUE,
                                        ![frame.old].rollbackPrevious = frame.old,
                                        ![frame.old].rollbackStatus = frame.oldStatus]
        /\ status' = [status EXCEPT !.state = "disconnecting"]
        /\ \E errs : frame' = [frame EXCEPT !.step = "grace", !.purpose = "replace", !.errs = errs]
    BY ZenonT(30), <1>4 DEF ConnectChecked
  <2>2. FrameTo("grace") /\ frame'.purpose = "replace"
    BY Zenon, <2>1, GraceTo, Facts
  <2>3. frame.old \in 1..generation
    BY Zenon, <1>4, Bounds
  <2>4. /\ OnlySession(frame.old) /\ sessions'[frame.old].stopping
        /\ sessions'[frame.old].rollbackPrevious = frame.old
        /\ sessions'[frame.old].rollbackStatus = frame.oldStatus
    BY Zenon, <2>1, <2>3, ReplacedMarked
  <2> QED BY Zenon, <1>1, <1>2, <1>4, <2>1, <2>2, <2>4
<1> QED BY Zenon, <1>3, <1>4

\* Without a start, a Connect goes back to the old session or returns.
LEMMA NotStartedDoes ==
    ASSUME IInv, NEW c \in Clients, ConnectExpired(c) \/ ConnectStartFails(c)
    PROVE  /\ Holds(c) /\ frame.step = "start" /\ ClosePrepared(frame.prepared)
           /\ InGate /\ UNCHANGED <<generation, active, sessions, monitor>> /\ frame'.errs # {}
           /\ \/ frame.old # 0 /\ FrameTo("rollback") /\ status' = status
              \/ /\ frame.old = 0 /\ FrameTo("return")
                 /\ status' = StatusOf("failed", call[c].profile)
<1>1. CASE ConnectExpired(c)
  <2>1. frame' = [frame EXCEPT !.step = "rollback", !.errs = {"context"}]
    BY Zenon, <1>1 DEF ConnectExpired
  <2> QED BY Zenon, <1>1, <2>1, RollbackTo, Facts DEF ConnectExpired
<1>2. CASE ConnectStartFails(c)
  <2> DEFINE startErr == IF expired[c] THEN {"context"} ELSE {"process"}
  <2>1. /\ Holds(c) /\ frame.step = "start" /\ ClosePrepared(frame.prepared)
        /\ InGate /\ UNCHANGED <<generation, active, sessions, monitor>>
        /\ \/ /\ frame.old # 0 /\ frame' = [frame EXCEPT !.step = "rollback", !.errs = startErr]
              /\ status' = status
           \/ /\ frame.old = 0 /\ Return(startErr) /\ status' = StatusOf("failed", call[c].profile)
    BY Zenon, <1>2 DEF ConnectStartFails
  <2>2. startErr # {}
    OBVIOUS
  <2> HIDE DEF startErr
  <2> QED BY Zenon, <2>1, <2>2, RollbackTo, ReturnTo, Facts
<1> QED BY Zenon, <1>1, <1>2

\* A started core becomes the active session, and the old configuration is dropped.
LEMMA StartedDoes ==
    ASSUME IInv, NEW c \in Clients, ConnectStarted(c)
    PROVE  /\ Holds(c) /\ frame.step = "start" /\ InGate
           /\ NewSession(frame.prepared, FALSE, 0)
           /\ sessions'[active'].profile = call[c].profile
           /\ status' = StatusOf("connected", call[c].profile)
           /\ IF frame.old = 0 THEN UNCHANGED configVars
                               ELSE ClosePrepared(sessions[frame.old].prepared)
           /\ FrameTo("return") /\ frame'.errs = {}
<1>1. /\ Holds(c) /\ frame.step = "start" /\ InGate /\ StartOK(frame.prepared, "running")
      /\ Install(call[c].profile, frame.prepared, StatusOf("connected", call[c].profile),
                 FALSE, FALSE, 0, Disconnected)
      /\ IF frame.old = 0 THEN UNCHANGED configVars
                          ELSE ClosePrepared(sessions[frame.old].prepared)
      /\ Return({})
  BY Zenon DEF ConnectStarted
<1>2. FrameTo("return") /\ frame'.errs = {}
  BY Zenon, <1>1, ReturnTo, Facts
<1>3. /\ NewSession(frame.prepared, FALSE, 0) /\ sessions'[active'].profile = call[c].profile
      /\ status' = StatusOf("connected", call[c].profile)
  BY Zenon, <1>1, Installed
<1> QED BY Zenon, <1>1, <1>2, <1>3

\* A core started for a caller who is gone becomes a session that is stopped at once.
LEMMA StartedLateDoes ==
    ASSUME IInv, NEW c \in Clients, ConnectStartedLate(c)
    PROVE  /\ Holds(c) /\ expired[c] /\ frame.step = "start" /\ InGate
           /\ NewSession(frame.prepared, TRUE, frame.old)
           /\ sessions'[active'].profile = call[c].profile
           /\ sessions'[active'].rollbackStatus = frame.oldStatus
           /\ status' = StatusOf("disconnecting", call[c].profile)
           /\ UNCHANGED configVars
           /\ FrameTo("grace") /\ frame'.purpose = "abort"
<1>1. /\ Holds(c) /\ expired[c] /\ frame.step = "start" /\ InGate /\ UNCHANGED configVars
  BY Zenon DEF ConnectStartedLate
<1>2. \E errs : frame' = [frame EXCEPT !.step = "grace", !.purpose = "abort", !.errs = errs]
  BY Zenon DEF ConnectStartedLate
<1>3. FrameTo("grace") /\ frame'.purpose = "abort"
  BY Zenon, <1>2, GraceTo, Facts
<1>4. /\ StartOK(frame.prepared, "running")
      /\ Install(call[c].profile, frame.prepared, StatusOf("disconnecting", call[c].profile),
                 TRUE, FALSE, frame.old, frame.oldStatus)
  BY Zenon DEF ConnectStartedLate
<1> DEFINE profile == call[c].profile
           stat == StatusOf("disconnecting", profile)
           fresh == frame.prepared
           old == frame.old
           oldStatus == frame.oldStatus
<1> HIDE DEF profile, stat, fresh, old, oldStatus
<1>5. StartOK(fresh, "running") /\ Install(profile, fresh, stat, TRUE, FALSE, old, oldStatus)
  BY Zenon, <1>4 DEF profile, stat, fresh, old, oldStatus
<1>6. /\ NewSession(fresh, TRUE, old) /\ sessions'[active'].profile = profile
      /\ sessions'[active'].rollbackStatus = oldStatus /\ status' = stat
  BY Zenon, <1>5, Installed
<1> QED BY Zenon, <1>1, <1>3, <1>6 DEF profile, stat, fresh, old, oldStatus

\* A roll-back starts the old configuration again, under the old status.
LEMMA RolledBackDoes ==
    ASSUME IInv, RollbackStarted
    PROVE  /\ InRollback /\ InGate /\ UNCHANGED configVars
           /\ NewSession(sessions[frame.old].prepared, FALSE, 0)
           /\ sessions'[active'].profile = sessions[frame.old].profile
           /\ status' = frame.oldStatus
           /\ FrameTo("return") /\ frame'.errs = frame.errs
<1>1. /\ InRollback /\ InGate /\ UNCHANGED configVars
      /\ StartOK(sessions[frame.old].prepared, "running")
      /\ Install(sessions[frame.old].profile, sessions[frame.old].prepared, frame.oldStatus,
                 FALSE, FALSE, 0, Disconnected)
      /\ Return(frame.errs)
  BY Zenon DEF RollbackStarted
<1>2. FrameTo("return") /\ frame'.errs = frame.errs
  BY Zenon, <1>1, ReturnTo, Facts
<1>3. /\ NewSession(sessions[frame.old].prepared, FALSE, 0)
      /\ sessions'[active'].profile = sessions[frame.old].profile /\ status' = frame.oldStatus
  BY Zenon, <1>1, Installed
<1> QED BY Zenon, <1>1, <1>2, <1>3

\* A roll-back that cannot be collected leaves a stopping session to its monitor.
LEMMA RolledBackLateDoes ==
    ASSUME IInv, RollbackLate
    PROVE  /\ InRollback /\ InGate /\ UNCHANGED configVars
           /\ NewSession(sessions[frame.old].prepared, TRUE, 0)
           /\ sessions'[active'].profile = sessions[frame.old].profile
           /\ status' = StatusOf("disconnecting", sessions[frame.old].profile)
           /\ FrameTo("return") /\ "stuck" \in frame'.errs
<1>1. /\ InRollback /\ InGate /\ UNCHANGED configVars
      /\ \E state \in {"running", "killed"} : StartOK(sessions[frame.old].prepared, state)
      /\ Install(sessions[frame.old].profile, sessions[frame.old].prepared,
                 StatusOf("disconnecting", sessions[frame.old].profile),
                 TRUE, TRUE, 0, Disconnected)
      /\ Return(frame.errs \cup {"rollback", "stuck"})
  BY Zenon DEF RollbackLate
<1>2. FrameTo("return") /\ "stuck" \in frame'.errs
  BY <1>1, ReturnTo, Facts
<1>3. /\ NewSession(sessions[frame.old].prepared, TRUE, 0)
      /\ sessions'[active'].profile = sessions[frame.old].profile
      /\ status' = StatusOf("disconnecting", sessions[frame.old].profile)
  BY Zenon, <1>1, Installed
<1> QED BY Zenon, <1>1, <1>2, <1>3

\* A roll-back that fails drops the old configuration and reports the failure.
LEMMA RollbackFailsDoes ==
    ASSUME IInv, RollbackFails
    PROVE  /\ InRollback /\ InGate /\ UNCHANGED <<generation, active, sessions, monitor>>
           /\ ClosePrepared(sessions[frame.old].prepared)
           /\ status' = StatusOf("failed", sessions[frame.old].profile)
           /\ FrameTo("return") /\ "rollback" \in frame'.errs
  BY ReturnTo, Facts DEF RollbackFails

\* The replaced session is gone.
LEMMA ReplaceReapedDoes ==
    ASSUME IInv, NEW c \in Clients, ReplaceReaped(c)
    PROVE  /\ Holds(c) /\ Stopping /\ frame.purpose = "replace" /\ frame.old = active
           /\ active' = 0 /\ OnlySession(active) /\ InGate /\ UNCHANGED <<generation, monitor>>
           /\ \/ /\ FrameTo("rollback") /\ frame'.errs # {} /\ ClosePrepared(frame.prepared)
              \/ /\ FrameTo("start") /\ UNCHANGED configVars
<1>1. /\ Holds(c) /\ Stopping /\ frame.purpose = "replace"
      /\ active' = 0 /\ InGate /\ UNCHANGED <<generation, monitor>>
      /\ sessions' = [sessions EXCEPT ![frame.old].rollbackPrevious = 0]
      /\ \/ /\ StopErrs # {} /\ ClosePrepared(frame.prepared)
            /\ frame' = [frame EXCEPT !.step = "rollback", !.errs = StopErrs]
         \/ frame' = [frame EXCEPT !.step = "start"] /\ UNCHANGED configVars
  BY Zenon DEF ReplaceReaped, Reaped, Stopping
<1>2. frame.old = active /\ active # 0
  BY <1>1 DEF IInv, CoreInv, FrameInv, Stopping
<1>3. OnlySession(active)
  BY Zenon, <1>1, <1>2, Bounds, ForgetPrevious
<1> QED BY Zenon, <1>1, <1>2, <1>3, RollbackTo, StartTo, Facts

\* The late session of an expired Connect is gone.
LEMMA AbortReapedDoes ==
    ASSUME IInv, NEW c \in Clients, AbortReaped(c)
    PROVE  /\ Holds(c) /\ Stopping /\ frame.purpose = "abort" /\ active # 0
           /\ active' = 0 /\ OnlySession(active) /\ InGate /\ UNCHANGED <<generation, monitor>>
           /\ ClosePrepared(sessions[active].prepared) /\ frame'.errs = StopErrs
           /\ \/ frame.old # 0 /\ FrameTo("rollback")
              \/ frame.old = 0 /\ FrameTo("return") /\ status' = Disconnected
<1>1. /\ Holds(c) /\ Stopping /\ frame.purpose = "abort"
      /\ active' = 0 /\ InGate /\ UNCHANGED <<generation, monitor>>
      /\ sessions' = [sessions EXCEPT ![active].rollbackPrevious = 0]
      /\ ClosePrepared(sessions[active].prepared)
      /\ \/ frame.old # 0 /\ frame' = [frame EXCEPT !.step = "rollback", !.errs = StopErrs]
         \/ frame.old = 0 /\ Return(StopErrs) /\ status' = Disconnected
  BY Zenon DEF AbortReaped, Reaped, Stopping
<1>2. active # 0
  BY <1>1 DEF IInv, CoreInv, FrameInv, Stopping
<1>3. OnlySession(active)
  BY Zenon, <1>1, <1>2, Bounds, ForgetPrevious
<1> QED BY Zenon, <1>1, <1>2, <1>3, RollbackTo, ReturnTo, Facts

\* A monitor that collects a session with something to go back to rolls back.
LEMMA MonitorRollbackDoes ==
    ASSUME IInv, NEW g \in Generations, MonitorRollback(g)
    PROVE  /\ MonitorHolds(g) /\ frame.step = "entered" /\ active = g /\ generation = g /\ ~closed
           /\ sessions[g].rollbackPrevious # 0
           /\ active' = 0 /\ OnlySession(g) /\ InGate /\ UNCHANGED <<generation, monitor>>
           /\ IF sessions[g].rollbackPrevious = g THEN UNCHANGED configVars
                                                  ELSE ClosePrepared(sessions[g].prepared)
           /\ frame'.step = "rollback" /\ frame'.old = sessions[g].rollbackPrevious
           /\ frame'.oldStatus = sessions[g].rollbackStatus
<1>1. /\ MonitorHolds(g) /\ frame.step = "entered" /\ active = g /\ generation = g /\ ~closed
      /\ sessions[g].rollbackPrevious # 0
      /\ active' = 0 /\ InGate /\ UNCHANGED <<generation, monitor>>
      /\ IF sessions[g].rollbackPrevious = g THEN UNCHANGED configVars
                                             ELSE ClosePrepared(sessions[g].prepared)
      /\ frame' = [frame EXCEPT !.step = "rollback", !.old = sessions[g].rollbackPrevious,
                                !.oldStatus = sessions[g].rollbackStatus]
      /\ sessions' = [sessions EXCEPT ![g].rollbackPrevious = 0]
  BY Zenon DEF MonitorRollback, Current, Superseded, RollbackOnExit, CloseSuperseded
<1>2. g \in 1..generation
  BY <1>1, Bounds DEF Generations
<1>3. OnlySession(g)
  BY Zenon, <1>1, <1>2, ForgetPrevious
<1>4. /\ frame'.step = "rollback" /\ frame'.old = sessions[g].rollbackPrevious
      /\ frame'.oldStatus = sessions[g].rollbackStatus
  BY Zenon, <1>1, Facts DEF Frame
<1> QED BY Zenon, <1>1, <1>3, <1>4

\* A monitor retires its session and drops its configuration.
LEMMA RetireDoes ==
    ASSUME IInv, NEW g \in Generations, MonitorRetire(g)
    PROVE  /\ MonitorHolds(g) /\ frame.step = "entered" /\ active = g
           /\ ~sessions[g].stopping \/ sessions[g].rollbackPrevious = 0 \/ closed
           /\ active' = 0 /\ InGate /\ UNCHANGED <<generation, sessions, monitor>>
           /\ status' \in {Disconnected, StatusOf("failed", sessions[g].profile)}
           /\ ClosePrepared(sessions[g].prepared) /\ FrameTo("return")
  BY Zenon, ReturnTo, Facts DEF MonitorRetire, Current, Superseded, RollbackOnExit

\* Close takes the gate, forbids roll-backs, and begins to stop what is active.
LEMMA CloseBeginDoes ==
    ASSUME IInv, CloseBegin
    PROVE  /\ gate = "free" /\ gate' = "closer" /\ closer = "acquire" /\ closer' = "holding" /\ closed'
           /\ UNCHANGED <<generation, active, monitor, call, expired>> /\ UNCHANGED runnerVars
           /\ frame'.old = 0
           /\ \/ /\ active = 0 /\ sessions' = sessions /\ status' = status
                 /\ frame'.step = "return"
              \/ /\ active # 0 /\ OnlySession(active) /\ sessions'[active].stopping
                 /\ sessions'[active].rollbackPrevious = 0
                 /\ status' = [status EXCEPT !.state = "disconnecting"]
                 /\ frame'.step = "grace" /\ frame'.purpose = "close"
<1>1. /\ gate = "free" /\ gate' = "closer" /\ closer = "acquire" /\ closer' = "holding" /\ closed'
      /\ UNCHANGED <<generation, active, monitor, call, expired>> /\ UNCHANGED runnerVars
  BY Zenon DEF CloseBegin, callVars
<1>2. CASE active = 0
  <2>1. sessions' = sessions /\ status' = status /\ frame' = [NoFrame EXCEPT !.step = "return"]
    BY Zenon, <1>2 DEF CloseBegin
  <2> QED BY <1>1, <1>2, <2>1 DEF NoFrame
<1>3. CASE active # 0
  <2>1. /\ sessions' = [sessions EXCEPT ![active].stopping = TRUE, ![active].rollbackPrevious = 0]
        /\ status' = [status EXCEPT !.state = "disconnecting"]
        /\ \E errs : frame' = [NoFrame EXCEPT !.step = "grace", !.purpose = "close", !.errs = errs]
    BY Zenon, <1>3 DEF CloseBegin
  <2>2. frame'.step = "grace" /\ frame'.purpose = "close" /\ frame'.old = 0
    BY Zenon, <2>1 DEF NoFrame
  <2>3. active \in 1..generation
    BY <1>3, Bounds
  <2> QED BY Zenon, <1>1, <1>3, <2>1, <2>2, <2>3, ClosedMarked
<1> QED BY Zenon, <1>2, <1>3

\* acquire opens a fresh frame.
LEMMA EnterDoes ==
    ASSUME IInv, (\E c \in Clients : Acquire(c)) \/ (\E g \in Generations : MonitorAcquire(g))
    PROVE  /\ gate = "free" /\ frame'.step = "entered" /\ frame'.old = 0 /\ frame.step = "none"
           /\ UNCHANGED <<generation, active, status, sessions, closed, closer>>
           /\ UNCHANGED runnerVars
  BY DEF Acquire, MonitorAcquire, NoFrame, serviceVars, IInv, CoreInv, GateInv

\* release leaves the gate as it found it.
LEMMA LeaveDoes ==
    ASSUME IInv, (\E c \in Clients : Release(c)) \/ (\E g \in Generations : MonitorRelease(g))
                    \/ CloseRelease
    PROVE  /\ frame.step = "return" /\ frame'.step = "none" /\ gate' = "free"
           /\ UNCHANGED <<generation, active, status, sessions, closed>>
           /\ UNCHANGED configVars
  BY DEF Release, MonitorRelease, CloseRelease, NoFrame, serviceVars, runnerVars, configVars

\* The steps outside the gate, of callers, processes, monitors and Close.
Outside ==
    \/ \E c \in Clients :
         \/ \E op \in {"connect", "disconnect", "query"}, p \in Profiles : Call(c, op, p)
         \/ Expire(c) \/ AcquireExpired(c)
    \/ \E g \in Generations : MonitorWait(g)
    \/ CloseCall \/ CloseTimeout
    \/ \E g \in 1..generation : ContextKills(g)
    \/ \E q \in Processes : Exit(q)
    \/ UNCHANGED vars

\* They touch neither the service nor the call that holds the gate.
LEMMA OutsideDoes ==
    ASSUME IInv, Outside
    PROVE  /\ UNCHANGED <<gate, closed, generation, active, status, sessions, frame>>
           /\ UNCHANGED configVars
           /\ \A g \in Generations : \/ monitor'[g] = monitor[g]
                                     \/ monitor[g] = "wait" /\ monitor'[g] = "acquire"
           /\ \A c \in Clients : /\ call'[c].pc = "holding" <=> call[c].pc = "holding"
                                 /\ call[c].pc = "holding" => call'[c] = call[c]
                                 /\ call[c].pc = "holding" /\ expired[c] => expired'[c]
           /\ closer = "done" => closer' = "done"
<1> DEFINE Service == /\ UNCHANGED <<gate, closed, generation, active, status, sessions, frame>>
                      /\ UNCHANGED configVars
           Monitors == \A g \in Generations :
                          \/ monitor'[g] = monitor[g]
                          \/ monitor[g] = "wait" /\ monitor'[g] = "acquire"
           Holder == \A d \in Clients :
                        /\ call'[d].pc = "holding" <=> call[d].pc = "holding"
                        /\ call[d].pc = "holding" => call'[d] = call[d]
                        /\ call[d].pc = "holding" /\ expired[d] => expired'[d]
           Closer == closer = "done" => closer' = "done"
<1>0. call \in [Clients -> CallRecord] /\ expired \in [Clients -> BOOLEAN]
  BY DEF IInv, TypeOK
<1>1. ASSUME NEW c \in Clients, NEW op \in {"connect", "disconnect", "query"}, NEW p \in Profiles,
             Call(c, op, p)
      PROVE  Service /\ Monitors /\ Holder /\ Closer
  BY <1>0, <1>1 DEF Call, serviceVars, runnerVars, configVars, CallRecord
<1>2. ASSUME NEW c \in Clients, Expire(c)
      PROVE  Service /\ Monitors /\ Holder /\ Closer
  BY <1>0, <1>2 DEF Expire, serviceVars, runnerVars, configVars
<1>3. ASSUME NEW c \in Clients, AcquireExpired(c)
      PROVE  Service /\ Monitors /\ Holder /\ Closer
  <2>1. call'[c].pc = "idle" /\ \A d \in Clients : d # c => call'[d] = call[d] /\ expired'[d] = expired[d]
    BY Zenon, <1>0, <1>3 DEF AcquireExpired, NoCall
  <2>2. Holder
    BY <1>3, <2>1 DEF AcquireExpired
  <2> QED BY <1>3, <2>2 DEF AcquireExpired, serviceVars, runnerVars, configVars
<1>4. ASSUME NEW g \in Generations, MonitorWait(g)
      PROVE  Service /\ Monitors /\ Holder /\ Closer
  <2>1. Monitors
    BY Zenon, <1>4, Facts DEF MonitorWait
  <2> QED BY Zenon, <1>4, <2>1 DEF MonitorWait, WaitReturns, serviceVars, callVars, configVars
<1>5. ASSUME \/ CloseCall \/ CloseTimeout \/ UNCHANGED vars
             \/ \E g \in 1..generation : ContextKills(g)
             \/ \E q \in Processes : Exit(q)
      PROVE  Service /\ Monitors /\ Holder /\ Closer
  BY Zenon, <1>5 DEF CloseCall, CloseTimeout, ContextKills, Exit, ProcessExit, serviceVars, callVars,
              runnerVars, configVars, vars
<1> HIDE DEF Service, Monitors, Holder, Closer
<1>6. Service /\ Monitors /\ Holder /\ Closer
  BY <1>1, <1>2, <1>3, <1>4, <1>5 DEF Outside
<1> QED BY <1>6 DEF Service, Monitors, Holder, Closer

-----------------------------------------------------------------------------
(* PlaceInv *)

\* closePrepared never closes the runner.
LEMMA CloseKeepsRunner ==
    ASSUME NEW p, ClosePrepared(p)
    PROVE  runnerClosed' = runnerClosed
  BY Zenon DEF ClosePrepared, configVars

\* Without a session in front there is nothing to say about it.
LEMMA PlaceNone ==
    ASSUME PlaceInv, active' = 0, frame'.step \in {"start", "rollback", "return"},
           InGate, runnerClosed' = runnerClosed
    PROVE  PlaceInv'
  BY DEF PlaceInv, ActiveInv, StopInv, Stopping, InGate, Generations

\* Nothing happens to the sessions, and whoever holds the gate stops none.
LEMMA PlaceSame ==
    ASSUME PlaceInv, UNCHANGED <<generation, active, sessions, monitor>>,
           frame'.step \in {"check", "start", "rollback", "return"}, InGate,
           runnerClosed' = runnerClosed,
           gate = "monitor" => active = 0 \/ \A g \in Generations : monitor[g] = "holding" => active # g
    PROVE  PlaceInv'
  BY DEF PlaceInv, ActiveInv, StopInv, Stopping, InGate, Generations

\* A new session is the last one; nobody monitors it yet.
LEMMA PlaceNew ==
    ASSUME IInv, PlaceInv, InGate, runnerClosed' = runnerClosed,
           NEW p, NEW stopping \in BOOLEAN, NEW previous, NewSession(p, stopping, previous),
           stopping \/ previous = 0,
           \/ frame'.step = "return"
           \/ /\ frame'.step = "grace" /\ frame'.purpose = "abort"
              /\ frame'.old = previous /\ frame'.old <= generation
    PROVE  PlaceInv'
<1>1. monitor'[generation + 1] = "wait" /\ generation \in Nat
  BY Facts, Bounds DEF NewSession
<1>2. active' = generation + 1 /\ generation' = generation + 1 /\ active' # 0
  BY <1>1 DEF NewSession
<1>3. ActiveInv'
  BY Zenon, <1>1, <1>2 DEF NewSession, PlaceInv, ActiveInv, InGate
<1>4. frame'.old # active' \/ frame'.step = "return"
  BY <1>1, <1>2, Bounds
<1>5. StopInv'
  BY <1>2, <1>4 DEF NewSession, StopInv, Stopping
<1> QED BY <1>3, <1>5 DEF PlaceInv

\* A stop of the active session for Disconnect, Connect or Close begins.
LEMMA PlaceStopBegins ==
    ASSUME IInv, PlaceInv,
           \/ \E c \in Clients : Disconnect(c) \/ ConnectChecked(c)
           \/ CloseBegin
    PROVE  PlaceInv'
<1>1. ASSUME NEW c \in Clients, Disconnect(c) PROVE PlaceInv'
  <2>1. runnerClosed' = runnerClosed
    BY <1>1, DisconnectDoes DEF runnerVars
  <2>2. CASE active = 0
    BY <1>1, <2>1, <2>2, DisconnectDoes, PlaceSame DEF FrameTo
  <2>3. CASE active # 0
    <3>1. ActiveInv'
      BY <1>1, <2>1, <2>3, DisconnectDoes DEF PlaceInv, ActiveInv, InGate, FrameTo
    <3>2. StopInv'
      BY <1>1, <2>3, DisconnectDoes
         DEF PlaceInv, ActiveInv, StopInv, Stopping, InGate, FrameTo, Holds, IInv, CoreInv, GateInv
    <3> QED BY <3>1, <3>2 DEF PlaceInv
  <2> QED BY <2>2, <2>3
<1>2. ASSUME NEW c \in Clients, ConnectChecked(c) PROVE PlaceInv'
  <2>1. runnerClosed' = runnerClosed /\ frame.step = "check"
    BY Zenon, <1>2, CheckedDoes DEF CheckOK
  <2>2. CASE frame.old = 0
    BY <1>2, <2>1, <2>2, CheckedDoes, PlaceNone DEF FrameTo
  <2>3. CASE frame.old # 0
    <3>1. ActiveInv'
      BY Zenon, <1>2, <2>1, <2>3, CheckedDoes DEF PlaceInv, ActiveInv, InGate, FrameTo
    <3>2. StopInv'
      BY Zenon, <1>2, <2>3, CheckedDoes DEF StopInv, Stopping, FrameTo
    <3> QED BY <3>1, <3>2 DEF PlaceInv
  <2> QED BY Zenon, <2>2, <2>3
<1>3. ASSUME CloseBegin PROVE PlaceInv'
  <2>1. ActiveInv'
    BY <1>3, CloseBeginDoes DEF PlaceInv, ActiveInv, runnerVars
  <2>2. StopInv'
    BY Zenon, <1>3, CloseBeginDoes DEF StopInv, Stopping
  <2> QED BY Zenon, <2>1, <2>2 DEF PlaceInv
<1> QED BY <1>1, <1>2, <1>3

\* A holder of the gate other than a monitor.
LEMMA ClientHasGate ==
    ASSUME NEW c \in Clients, Holds(c)
    PROVE  gate # "monitor"
  BY Zenon DEF Holds

\* Every step of the service preserves PlaceInv.
LEMMA PlaceStep ==
    ASSUME IInv, PlaceInv, Next \/ UNCHANGED vars
    PROVE  PlaceInv'
<1>1. ASSUME NEW c \in Clients, Refused(c) \/ Query(c) \/ StopStuck(c) PROVE PlaceInv'
  BY <1>1, RefusedDoes, QueryDoes, StopStuckDoes, ClientHasGate, PlaceSame
     DEF FrameTo, SameSessions, runnerVars
<1>2. ASSUME NEW c \in Clients, DisconnectReaped(c) PROVE PlaceInv'
  BY Zenon, <1>2, StoppedDoes, CloseKeepsRunner, PlaceNone DEF FrameTo
<1>3. ASSUME NEW c \in Clients, ConnectPrepare(c) PROVE PlaceInv'
  <2>1. runnerClosed' = runnerClosed
    BY Zenon, <1>3, PrepareDoes DEF PrepareOK, PrepareFails, runnerVars
  <2> QED BY Zenon, <1>3, <2>1, PrepareDoes, ClientHasGate, PlaceSame
<1>4. ASSUME NEW c \in Clients, ConnectRejected(c) PROVE PlaceInv'
  BY Zenon, <1>4, RejectedDoes, CloseKeepsRunner, ClientHasGate, PlaceSame DEF FrameTo
<1>5. ASSUME NEW c \in Clients, ConnectExpired(c) \/ ConnectStartFails(c) PROVE PlaceInv'
  BY Zenon, <1>5, NotStartedDoes, CloseKeepsRunner, ClientHasGate, PlaceSame DEF FrameTo
<1>6. ASSUME NEW c \in Clients, ConnectStarted(c) PROVE PlaceInv'
  <2>1. runnerClosed' = runnerClosed
    BY Zenon, <1>6, StartedDoes, CloseKeepsRunner DEF configVars
  <2> QED BY Zenon, <1>6, <2>1, StartedDoes, PlaceNew DEF FrameTo
<1>7. ASSUME NEW c \in Clients, ConnectStartedLate(c) PROVE PlaceInv'
  <2>1. runnerClosed' = runnerClosed
    BY Zenon, <1>7, StartedLateDoes DEF configVars
  <2>2. frame'.step = "grace" /\ frame'.purpose = "abort" /\ frame'.old = frame.old
    BY Zenon, <1>7, StartedLateDoes DEF FrameTo
  <2>3. frame'.old <= generation
    BY <2>2, Bounds
  <2>4. NewSession(frame.prepared, TRUE, frame.old) /\ InGate
    BY Zenon, <1>7, StartedLateDoes
  <2> QED BY Zenon, <2>1, <2>2, <2>3, <2>4, PlaceNew
<1>8. ASSUME NEW c \in Clients, ReplaceReaped(c) PROVE PlaceInv'
  <2>1. runnerClosed' = runnerClosed
    BY Zenon, <1>8, ReplaceReapedDoes, CloseKeepsRunner DEF configVars
  <2> QED BY Zenon, <1>8, <2>1, ReplaceReapedDoes, PlaceNone DEF FrameTo
<1>9. ASSUME NEW c \in Clients, ReplaceStuck(c) PROVE PlaceInv'
  BY Zenon, <1>9, ReplaceStuckDoes, CloseKeepsRunner, ClientHasGate, PlaceSame DEF FrameTo, SameSessions
<1>10. ASSUME NEW c \in Clients, AbortReaped(c) PROVE PlaceInv'
  BY Zenon, <1>10, AbortReapedDoes, CloseKeepsRunner, PlaceNone DEF FrameTo
<1>11. ASSUME NEW g \in Generations, MonitorSuperseded(g) PROVE PlaceInv'
  <2>1. active # g
    BY <1>11, SupersededDoes DEF Superseded, PlaceInv, ActiveInv, Generations
  <2>2. \A h \in Generations : monitor[h] = "holding" => active # h
    BY <1>11, <2>1, SupersededDoes DEF MonitorHolds, IInv, CoreInv, GateInv
  <2> QED BY Zenon, <1>11, <2>2, SupersededDoes, PlaceSame DEF FrameTo, SameSessions, runnerVars
<1>12. ASSUME NEW g \in Generations, MonitorRollback(g) PROVE PlaceInv'
  <2>1. runnerClosed' = runnerClosed
    BY Zenon, <1>12, MonitorRollbackDoes, CloseKeepsRunner DEF configVars
  <2> QED BY Zenon, <1>12, <2>1, MonitorRollbackDoes, PlaceNone
<1>13. ASSUME NEW g \in Generations, MonitorRetire(g) PROVE PlaceInv'
  BY Zenon, <1>13, RetireDoes, CloseKeepsRunner, PlaceNone DEF FrameTo
<1>14. ASSUME StopKill PROVE PlaceInv'
  BY <1>14, KillTo DEF PlaceInv, ActiveInv, StopInv, Stopping, FrameTo, SameSessions, InGate, configVars
<1>15. ASSUME RollbackStarted \/ RollbackLate PROVE PlaceInv'
  <2>1. InGate /\ runnerClosed' = runnerClosed /\ frame'.step = "return"
    BY Zenon, <1>15, RolledBackDoes, RolledBackLateDoes DEF configVars, FrameTo
  <2>2. \E stopping \in BOOLEAN : NewSession(sessions[frame.old].prepared, stopping, 0)
    BY Zenon, <1>15, RolledBackDoes, RolledBackLateDoes
  <2> QED BY Zenon, <2>1, <2>2, PlaceNew
<1>16. ASSUME RollbackFails PROVE PlaceInv'
  <2>1. active = 0
    BY <1>16, RollbackFailsDoes DEF InRollback, IInv, CoreInv, FrameInv
  <2> QED BY Zenon, <1>16, <2>1, RollbackFailsDoes, CloseKeepsRunner, PlaceSame DEF FrameTo
<1>17. ASSUME CloseReaped PROVE PlaceInv'
  BY Zenon, <1>17, StoppedDoes, CloseKeepsRunner, PlaceNone DEF FrameTo
<1>18. ASSUME CloseStuck PROVE PlaceInv'
  <2>1. gate # "monitor"
    BY <1>18, CloseStuckDoes DEF IInv, CoreInv, GateInv
  <2> QED BY <1>18, <2>1, CloseStuckDoes, PlaceSame DEF FrameTo, SameSessions, runnerVars
<1>19. ASSUME NEW c \in Clients, Acquire(c) PROVE PlaceInv'
  BY Zenon, <1>19, EnterDoes DEF Acquire, PlaceInv, ActiveInv, StopInv, Stopping, runnerVars
<1>20. ASSUME NEW g \in Generations, MonitorAcquire(g) PROVE PlaceInv'
  <2>1. active # 0 => active \in Generations
    BY Zenon, Bounds, Facts
  <2>2. active # 0 => monitor'[active] # "finished"
    BY Zenon, <1>20, <2>1, Facts DEF MonitorAcquire, PlaceInv, ActiveInv
  <2> QED BY <1>20, <2>2, EnterDoes DEF PlaceInv, ActiveInv, StopInv, Stopping, runnerVars
<1>21. ASSUME (\E c \in Clients : Release(c)) \/ CloseRelease PROVE PlaceInv'
  <2>1. monitor' = monitor /\ (closer = "done" => closer' = "done")
    BY Zenon, <1>21 DEF Release, CloseRelease
  <2> QED BY <1>21, <2>1, LeaveDoes DEF PlaceInv, ActiveInv, StopInv, Stopping, configVars
<1>22. ASSUME NEW g \in Generations, MonitorRelease(g) PROVE PlaceInv'
  <2>1. active # g /\ closer' = closer /\ \A h \in Generations : h # g => monitor'[h] = monitor[h]
    BY Zenon, <1>22, Facts DEF MonitorRelease, MonitorHolds, PlaceInv, ActiveInv
  <2>2. active # 0 => active \in Generations
    BY Bounds, Facts
  <2>3. /\ frame'.step = "none" /\ gate' = "free" /\ runnerClosed' = runnerClosed
        /\ UNCHANGED <<generation, active, sessions>>
    BY Zenon, <1>22, LeaveDoes DEF configVars
  <2>4. ActiveInv'
    BY Zenon, <2>1, <2>2, <2>3 DEF PlaceInv, ActiveInv
  <2>5. StopInv'
    BY Zenon, <2>3 DEF StopInv, Stopping
  <2> QED BY Zenon, <2>4, <2>5 DEF PlaceInv
<1>23. ASSUME CloseRunner PROVE PlaceInv'
  BY Zenon, <1>23 DEF CloseRunner, serviceVars, callVars, PlaceInv, ActiveInv, StopInv, Stopping
<1>24. ASSUME Outside PROVE PlaceInv'
  <2>1. active # 0 => active \in Generations
    BY Zenon, Bounds, Facts
  <2>2. ActiveInv'
    BY <1>24, <2>1, OutsideDoes DEF PlaceInv, ActiveInv, configVars
  <2>3. StopInv'
    BY Zenon, <1>24, OutsideDoes DEF PlaceInv, StopInv, Stopping
  <2> QED BY Zenon, <2>2, <2>3 DEF PlaceInv
<1> QED
  BY Zenon, <1>1, <1>2, <1>3, <1>4, <1>5, <1>6, <1>7, <1>8, <1>9, <1>10, <1>11, <1>12, <1>13, <1>14,
     <1>15, <1>16, <1>17, <1>18, <1>19, <1>20, <1>21, <1>22, <1>23, <1>24, PlaceStopBegins
     DEF Next, GateStep, ClientStep, ConnectStep, MonitorStep, RollbackStep, CloserStep, Outside

-----------------------------------------------------------------------------
(* StatusInv *)

\* The status of a session is a record whose state alone is overwritten.
LEMMA StatusState ==
    ASSUME NEW old, NEW profile, NEW new, status = StatusOf(old, profile),
           status' = [status EXCEPT !.state = new]
    PROVE  status' = StatusOf(new, profile)
  BY Zenon DEF StatusOf

\* The states of the statuses that are set as a whole.
LEMMA StatusStates ==
    /\ Disconnected.state = "disconnected"
    /\ \A state, profile : StatusOf(state, profile).state = state
  BY Zenon DEF StatusOf, Disconnected

\* A function returns, and neither a session nor its status has changed.
LEMMA StatusReturns ==
    ASSUME IInv, PlaceInv, StatusInv, SameSessions, FrameTo("return")
    PROVE  frame.step \in {"entered", "kill", "grace", "check", "return"} => StatusInv'
  BY Zenon DEF StatusInv, StatusFits, Stopping, SameSessions, FrameTo, IInv, CoreInv, FrameInv

\* A function returns, and there is no session.
LEMMA StatusNone ==
    ASSUME active' = 0, status'.state \in {"disconnected", "failed"}, frame'.step = "return"
    PROVE  StatusInv'
  BY Zenon DEF StatusInv, StatusFits, Stopping

\* A new session and its status are installed.
LEMMA StatusNew ==
    ASSUME IInv, NEW p, NEW stopping \in BOOLEAN, NEW previous \in 0..generation,
           NewSession(p, stopping, previous),
           status' = StatusOf(IF stopping THEN "disconnecting" ELSE "connected",
                              sessions'[active'].profile),
           \/ frame'.step = "return" /\ previous = 0
           \/ /\ frame'.step = "grace" /\ stopping /\ frame'.old = previous
              /\ previous # 0 => /\ frame'.oldStatus = StatusOf("connected", sessions[previous].profile)
                                 /\ sessions'[active'].rollbackStatus = frame'.oldStatus
    PROVE  StatusInv'
<1>1. active' # 0 /\ active' = generation + 1
  BY Bounds DEF NewSession
<1>2. previous # 0 => sessions'[previous] = sessions[previous]
  BY Bounds DEF NewSession
<1>3. CASE frame'.step = "return" /\ previous = 0
  BY Zenon, <1>1, <1>3 DEF StatusInv, StatusFits, Stopping, NewSession
<1>4. CASE /\ frame'.step = "grace" /\ stopping /\ frame'.old = previous
           /\ previous # 0 => /\ frame'.oldStatus = StatusOf("connected", sessions[previous].profile)
                              /\ sessions'[active'].rollbackStatus = frame'.oldStatus
  BY Zenon, <1>1, <1>2, <1>4 DEF StatusInv, OldFits, Stopping, NewSession
<1> QED BY Zenon, <1>3, <1>4

\* Every step of the service preserves StatusInv.
LEMMA StatusStep ==
    ASSUME IInv, PlaceInv, StatusInv, Next \/ UNCHANGED vars
    PROVE  StatusInv'
<1>0. /\ active # 0 => active \in 1..generation
      /\ frame.old # 0 => frame.old \in 1..generation
  BY Zenon, Bounds
<1>1. ASSUME NEW c \in Clients, Refused(c) \/ Query(c) \/ StopStuck(c) PROVE StatusInv'
  BY Zenon, <1>1, RefusedDoes, QueryDoes, StopStuckDoes, StatusReturns
<1>2. ASSUME NEW c \in Clients, Disconnect(c) PROVE StatusInv'
  <2>1. CASE active = 0
    BY Zenon, <1>2, <2>1, DisconnectDoes, StatusNone, StatusStates DEF FrameTo
  <2>2. CASE active # 0
    <3>1. /\ OnlySession(active) /\ sessions'[active].stopping /\ ~sessions[active].stopping
          /\ frame'.old = 0 /\ frame'.step = "grace" /\ active' = active
          /\ sessions'[active].rollbackPrevious = 0
      BY Zenon, <1>2, <2>2, DisconnectDoes DEF FrameTo, PlaceInv, ActiveInv, StopInv
    <3>2. status = StatusOf("connected", sessions[active].profile)
      BY Zenon, <1>2, <2>2, <3>1, DisconnectDoes DEF StatusInv, StatusFits
    <3>3. status' = StatusOf("disconnecting", sessions[active].profile)
      BY <1>2, <2>2, <3>2, DisconnectDoes, StatusState
    <3> QED BY Zenon, <1>0, <2>2, <3>1, <3>3 DEF StatusInv, OldFits, Stopping, OnlySession
  <2> QED BY Zenon, <2>1, <2>2
<1>3. ASSUME NEW c \in Clients, DisconnectReaped(c) PROVE StatusInv'
  BY Zenon, <1>3, StoppedDoes, StatusNone, StatusStates DEF FrameTo
<1>4. ASSUME NEW c \in Clients, ConnectPrepare(c) PROVE StatusInv'
  <2>1. /\ StatusFits /\ UNCHANGED <<generation, active, sessions>> /\ frame'.oldStatus = status
        /\ frame'.old = active /\ (active # 0 => ~sessions[active].stopping)
        /\ active # 0 => sessions[active].rollbackPrevious = 0
    BY Zenon, <1>4, PrepareDoes DEF StatusInv, PlaceInv, ActiveInv
  <2>2. CASE frame'.step = "check"
    BY Zenon, <1>4, <2>1, <2>2, PrepareDoes DEF StatusInv, StatusFits, Stopping
  <2>3. CASE frame'.step = "return"
    BY <1>4, <2>1, <2>3, PrepareDoes, StatusStates DEF StatusInv, StatusFits, Stopping
  <2> QED BY Zenon, <1>4, <2>2, <2>3, PrepareDoes
<1>5. ASSUME NEW c \in Clients, ConnectRejected(c) PROVE StatusInv'
  <2>1. StatusFits /\ frame.old = active
    BY <1>5, RejectedDoes DEF StatusInv, IInv, CoreInv, FrameInv
  <2> QED BY <1>5, <2>1, RejectedDoes, StatusStates DEF StatusInv, StatusFits, Stopping, FrameTo
<1>6. ASSUME NEW c \in Clients, ConnectChecked(c) PROVE StatusInv'
  <2>1. /\ frame.step = "check" /\ frame.old = active /\ active' = active /\ FrameTo(frame'.step)
        /\ StatusFits /\ frame.oldStatus = status
    BY Zenon, <1>6, CheckedDoes DEF FrameTo, StatusInv
  <2>2. CASE frame.old = 0
    BY <1>6, <2>1, <2>2, CheckedDoes DEF StatusInv, OldFits, Stopping, FrameTo
  <2>3. CASE frame.old # 0
    <3>1. status = StatusOf("connected", sessions[active].profile)
      BY <2>1, <2>3 DEF StatusInv, StatusFits
    <3>2. status' = StatusOf("disconnecting", sessions[active].profile)
      BY <1>6, <2>3, <3>1, CheckedDoes, StatusState
    <3>3. /\ OnlySession(active) /\ sessions'[active].stopping /\ frame'.step = "grace"
          /\ sessions'[active].rollbackPrevious = active
          /\ sessions'[active].rollbackStatus = frame.oldStatus
      BY <1>6, <2>3, CheckedDoes DEF FrameTo
    <3> QED BY <1>0, <2>1, <2>3, <3>1, <3>2, <3>3
            DEF StatusInv, OldFits, Stopping, OnlySession, FrameTo
  <2> QED BY Zenon, <2>2, <2>3
<1>7. ASSUME NEW c \in Clients, ConnectExpired(c) \/ ConnectStartFails(c) PROVE StatusInv'
  <2>1. active' = 0 /\ frame.step = "start" /\ sessions' = sessions
    BY <1>7, NotStartedDoes DEF IInv, CoreInv, FrameInv
  <2>2. CASE frame.old = 0
    BY <1>7, <2>1, <2>2, NotStartedDoes, StatusNone, StatusStates DEF FrameTo
  <2>3. CASE frame.old # 0
    BY <1>7, <2>1, <2>3, NotStartedDoes DEF StatusInv, OldFits, Stopping, FrameTo
  <2> QED BY <2>2, <2>3
<1>8. ASSUME NEW c \in Clients, ConnectStarted(c) PROVE StatusInv'
  <2>1. /\ NewSession(frame.prepared, FALSE, 0) /\ frame'.step = "return"
        /\ status' = StatusOf("connected", sessions'[active'].profile)
    BY Zenon, <1>8, StartedDoes DEF FrameTo
  <2> QED BY Zenon, <2>1, StatusNew, Bounds
<1>9. ASSUME NEW c \in Clients, ConnectStartedLate(c) PROVE StatusInv'
  <2>1. /\ NewSession(frame.prepared, TRUE, frame.old) /\ frame'.step = "grace"
        /\ status' = StatusOf("disconnecting", sessions'[active'].profile)
        /\ frame'.old = frame.old /\ frame'.oldStatus = frame.oldStatus
        /\ sessions'[active'].rollbackStatus = frame.oldStatus /\ frame.step = "start"
    BY Zenon, <1>9, StartedLateDoes DEF FrameTo
  <2>2. frame.old # 0 => frame.oldStatus = StatusOf("connected", sessions[frame.old].profile)
    BY Zenon, <2>1 DEF StatusInv, OldFits
  <2> QED BY Zenon, <2>1, <2>2, StatusNew, Bounds
<1>10. ASSUME NEW c \in Clients, ReplaceReaped(c) PROVE StatusInv'
  <2>1. /\ active' = 0 /\ OldFits /\ OnlySession(active) /\ frame'.step \in {"start", "rollback"}
        /\ frame'.old = frame.old /\ frame'.oldStatus = frame.oldStatus
    BY Zenon, <1>10, ReplaceReapedDoes DEF StatusInv, FrameTo
  <2> QED BY Zenon, <1>0, <2>1 DEF StatusInv, OldFits, Stopping, OnlySession
<1>11. ASSUME NEW c \in Clients, ReplaceStuck(c) PROVE StatusInv'
  BY <1>11, ReplaceStuckDoes, StatusReturns
<1>12. ASSUME NEW c \in Clients, AbortReaped(c) PROVE StatusInv'
  <2>1. /\ active' = 0 /\ OldFits /\ OnlySession(active)
        /\ frame'.old = frame.old /\ frame'.oldStatus = frame.oldStatus
    BY Zenon, <1>12, AbortReapedDoes DEF StatusInv, FrameTo
  <2>2. CASE frame.old = 0
    BY <1>12, <2>1, <2>2, AbortReapedDoes, StatusNone, StatusStates DEF FrameTo
  <2>3. CASE frame.old # 0
    <3>1. frame'.step = "rollback"
      BY <1>12, <2>3, AbortReapedDoes DEF FrameTo
    <3> QED BY <1>0, <2>1, <2>3, <3>1 DEF StatusInv, OldFits, Stopping, OnlySession
  <2> QED BY <2>2, <2>3
<1>13. ASSUME NEW g \in Generations, MonitorSuperseded(g) PROVE StatusInv'
  BY <1>13, SupersededDoes, StatusReturns
<1>14. ASSUME NEW g \in Generations, MonitorRollback(g) PROVE StatusInv'
  <2>1. /\ active = g /\ active # 0 /\ sessions[g].rollbackPrevious # 0
        /\ active' = 0 /\ OnlySession(g) /\ frame'.step = "rollback"
        /\ frame'.old = sessions[g].rollbackPrevious /\ frame'.oldStatus = sessions[g].rollbackStatus
    BY <1>14, MonitorRollbackDoes DEF Generations
  <2>2. sessions[g].rollbackPrevious \in 0..generation /\ generation \in Nat
    BY <1>0, <2>1, Bounds DEF IInv, CoreInv, SessionInv
  <2>3. frame'.oldStatus = StatusOf("connected", sessions[frame'.old].profile)
    BY Zenon, <2>1 DEF StatusInv
  <2>4. frame'.old \in 1..generation
    BY <2>1, <2>2
  <2> QED BY Zenon, <2>1, <2>3, <2>4 DEF StatusInv, OldFits, Stopping, OnlySession
<1>15. ASSUME NEW g \in Generations, MonitorRetire(g) PROVE StatusInv'
  BY <1>15, RetireDoes, StatusNone, StatusStates DEF FrameTo
<1>16. ASSUME StopKill PROVE StatusInv'
  BY Zenon, <1>16, KillTo DEF StatusInv, StatusFits, OldFits, Stopping, FrameTo, SameSessions
<1>17. ASSUME RollbackStarted PROVE StatusInv'
  <2>1. /\ NewSession(sessions[frame.old].prepared, FALSE, 0) /\ frame'.step = "return"
        /\ status' = frame.oldStatus /\ frame.step = "rollback"
        /\ sessions'[active'].profile = sessions[frame.old].profile
    BY Zenon, <1>17, RolledBackDoes DEF FrameTo, InRollback
  <2>2. status' = StatusOf("connected", sessions'[active'].profile)
    BY <2>1 DEF StatusInv, OldFits, IInv, CoreInv, FrameInv
  <2> QED BY Zenon, <2>1, <2>2, StatusNew, Bounds
<1>18. ASSUME RollbackLate PROVE StatusInv'
  <2>1. /\ NewSession(sessions[frame.old].prepared, TRUE, 0) /\ frame'.step = "return"
        /\ status' = StatusOf("disconnecting", sessions'[active'].profile)
    BY Zenon, <1>18, RolledBackLateDoes DEF FrameTo
  <2> QED BY Zenon, <2>1, StatusNew, Bounds
<1>19. ASSUME RollbackFails PROVE StatusInv'
  <2>1. active' = 0
    BY <1>19, RollbackFailsDoes DEF InRollback, IInv, CoreInv, FrameInv
  <2> QED BY <1>19, <2>1, RollbackFailsDoes, StatusNone, StatusStates DEF FrameTo
<1>20. ASSUME CloseReaped PROVE StatusInv'
  BY Zenon, <1>20, StoppedDoes, StatusNone, StatusStates DEF FrameTo
<1>21. ASSUME CloseStuck PROVE StatusInv'
  BY Zenon, <1>21, CloseStuckDoes, StatusReturns
<1>22. ASSUME CloseBegin PROVE StatusInv'
  <2>1. StatusFits
    BY <1>22, CloseBeginDoes DEF StatusInv, IInv, CoreInv, GateInv
  <2>2. CASE active = 0
    BY Zenon, <1>22, <2>1, <2>2, CloseBeginDoes, StatusNone DEF StatusFits
  <2>3. CASE active # 0
    <3>1. /\ OnlySession(active) /\ sessions'[active].stopping /\ active' = active
          /\ frame'.old = 0 /\ frame'.step = "grace"
          /\ sessions'[active].rollbackPrevious = 0
      BY Zenon, <1>22, <2>3, CloseBeginDoes
    <3>2. status' = StatusOf("disconnecting", sessions[active].profile)
      BY <1>22, <2>1, <2>3, CloseBeginDoes, StatusState DEF StatusFits
    <3> QED BY <1>0, <2>3, <3>1, <3>2 DEF StatusInv, OldFits, Stopping, OnlySession
  <2> QED BY <2>2, <2>3
<1>23. ASSUME (\E c \in Clients : Acquire(c)) \/ (\E g \in Generations : MonitorAcquire(g))
       PROVE  StatusInv'
  BY <1>23, EnterDoes DEF StatusInv, StatusFits, Stopping
<1>24. ASSUME (\E c \in Clients : Release(c)) \/ (\E g \in Generations : MonitorRelease(g)) \/ CloseRelease
       PROVE  StatusInv'
  BY <1>24, LeaveDoes DEF StatusInv, StatusFits, Stopping
<1>25. ASSUME CloseRunner PROVE StatusInv'
  BY Zenon, <1>25 DEF CloseRunner, serviceVars, StatusInv, StatusFits, OldFits, Stopping
<1>26. ASSUME Outside PROVE StatusInv'
  BY <1>26, OutsideDoes DEF StatusInv, StatusFits, OldFits, Stopping
<1> QED
  BY Zenon, <1>1, <1>2, <1>3, <1>4, <1>5, <1>6, <1>7, <1>8, <1>9, <1>10, <1>11, <1>12, <1>13, <1>14,
     <1>15, <1>16, <1>17, <1>18, <1>19, <1>20, <1>21, <1>22, <1>23, <1>24, <1>25, <1>26
     DEF Next, GateStep, ClientStep, ConnectStep, MonitorStep, RollbackStep, CloserStep, Outside

-----------------------------------------------------------------------------
(* FilesInv *)

\* Whoever keeps the configurations keeps the account of them: nothing is
\* needed that was not needed before, and nothing is forgotten.
LEMMA FilesKept ==
    ASSUME IInv, FilesInv, UNCHANGED configVars, closed => closed', generation' = generation,
           \A h \in 1..generation : sessions'[h].prepared = sessions[h].prepared,
           Fresh' => Fresh /\ frame'.prepared = frame.prepared,
           Kept' \subseteq Kept,
           ~closed' => (Fresh => Fresh') /\ Kept \subseteq Kept',
           active' # 0 => \/ sessions'[active'].rollbackPrevious \in {0, active'}
                          \/ /\ active' = active
                             /\ sessions'[active].rollbackPrevious = sessions[active].rollbackPrevious
    PROVE  FilesInv'
<1>1. Registered' = Registered /\ onDisk' = onDisk /\ removeFailed' = removeFailed
      /\ prepares' = prepares /\ prepared' = prepared
  BY Zenon DEF configVars, Registered, InMap
<1>2. Kept \subseteq 1..generation
  BY Zenon DEF Kept
<1>3. \A g \in Kept' : Usable(g)'
  BY Zenon, <1>1, <1>2 DEF FilesInv, Usable
<1>4. ASSUME active' # 0, sessions'[active'].rollbackPrevious \notin {0, active'}
      PROVE  sessions'[sessions'[active'].rollbackPrevious].prepared # sessions'[active'].prepared
  <2>1. /\ active' = active /\ active \in 1..generation
        /\ sessions'[active].rollbackPrevious = sessions[active].rollbackPrevious
    BY Zenon, <1>4, Bounds
  <2>2. sessions[active].rollbackPrevious \in 1..generation
    BY <1>4, <2>1, Bounds DEF IInv, CoreInv, SessionInv
  <2> QED BY Zenon, <1>4, <2>1, <2>2 DEF FilesInv
<1>5. ~closed' => \A p \in Registered \ removeFailed :
                      \/ Fresh' /\ p = frame'.prepared
                      \/ \E g \in Kept' : p = sessions'[g].prepared
  <2> SUFFICES ASSUME ~closed', NEW p \in Registered \ removeFailed
               PROVE  (Fresh' /\ p = frame'.prepared) \/ \E g \in Kept' : p = sessions'[g].prepared
    OBVIOUS
  <2>1. CASE Fresh /\ p = frame.prepared
    BY Zenon, <2>1
  <2>2. ASSUME NEW g \in Kept, p = sessions[g].prepared
        PROVE  g \in Kept' /\ p = sessions'[g].prepared
    BY Zenon, <1>2, <2>2
  <2> QED BY Zenon, <2>1, <2>2 DEF FilesInv
<1> QED BY <1>1, <1>3, <1>4, <1>5 DEF FilesInv

\* closePrepared on a configuration that nobody needs any more.
LEMMA FilesClosed ==
    ASSUME IInv, PlaceInv, FilesInv, NEW p \in Configs, ClosePrepared(p), InGate,
           generation' = generation,
           \A h \in 1..generation : sessions'[h].prepared = sessions[h].prepared,
           Fresh' => Fresh /\ frame'.prepared = frame.prepared /\ frame.prepared # p,
           Fresh => Fresh' \/ frame.prepared = p,
           Kept' \subseteq Kept,
           \A g \in Kept' : sessions[g].prepared # p,
           ~closed => \A g \in Kept : g \in Kept' \/ sessions[g].prepared = p,
           active' = 0 \/ (active' = active /\ sessions' = sessions)
    PROVE  FilesInv'
<1>1. /\ UNCHANGED <<prepares, runnerClosed>> /\ removeFailed \subseteq removeFailed'
      /\ \A q \in Configs : q # p => prepared'[q] = prepared[q] /\ (q \in onDisk' <=> q \in onDisk)
      /\ Registered' \subseteq Registered
      /\ ~runnerClosed => (p \in Registered' => p \in removeFailed')
      /\ p \in onDisk' => p \in onDisk /\ (p \in Registered => p \in Registered')
  BY Zenon, ClosedOne, Facts
<1>2. Kept \subseteq 1..generation
  BY Zenon DEF Kept
<1>3. onDisk \subseteq Configs /\ onDisk' \subseteq Configs /\ Registered \subseteq Configs
  BY Zenon, Facts, <1>1 DEF RunnerTypeOK, Registered, ClosePrepared, configVars
<1>4. \A q \in Configs : q # p => (q \in Registered' <=> q \in Registered)
  BY Zenon, <1>1 DEF Registered, InMap
<1>5. onDisk' \subseteq Registered' \cup removeFailed'
  BY Zenon, <1>1, <1>3, <1>4 DEF FilesInv
<1>6. \A g \in Kept' : Usable(g)'
  <2> SUFFICES ASSUME NEW g \in Kept' PROVE Usable(g)'
    OBVIOUS
  <2>1. /\ Usable(g) /\ sessions'[g].prepared = sessions[g].prepared
        /\ sessions[g].prepared \in Configs /\ sessions[g].prepared # p
    BY Zenon, <1>2, Facts DEF FilesInv
  <2> QED BY Zenon, <1>1, <2>1 DEF Usable
<1>7. Fresh' => /\ frame'.prepared \in Registered' /\ frame'.prepared \in onDisk'
                /\ frame'.prepared <= prepares'
                /\ \A g \in 1..generation' : sessions'[g].prepared < frame'.prepared
  BY Zenon, <1>1, <1>3, <1>4 DEF FilesInv
<1>8. ~closed' => \A q \in Registered' \ removeFailed' :
                      \/ Fresh' /\ q = frame'.prepared
                      \/ \E g \in Kept' : q = sessions'[g].prepared
  <2> SUFFICES ASSUME ~closed', NEW q \in Registered' \ removeFailed'
               PROVE  (Fresh' /\ q = frame'.prepared) \/ \E g \in Kept' : q = sessions'[g].prepared
    OBVIOUS
  <2>1. ~closed /\ ~runnerClosed
    BY DEF InGate, PlaceInv, ActiveInv, IInv, CoreInv, GateInv
  <2>2. q \in Registered \ removeFailed /\ q # p
    BY Zenon, <1>1, <2>1
  <2>3. CASE Fresh /\ q = frame.prepared
    BY Zenon, <2>2, <2>3
  <2>4. ASSUME NEW g \in Kept, q = sessions[g].prepared
        PROVE  g \in Kept' /\ q = sessions'[g].prepared
    BY <1>2, <2>1, <2>2, <2>4
  <2> QED BY Zenon, <2>1, <2>2, <2>3, <2>4 DEF FilesInv
<1>9. \A g \in 1..generation' : sessions'[g].prepared <= prepares'
  BY Zenon, <1>1 DEF FilesInv
<1>10. active' # 0 /\ sessions'[active'].rollbackPrevious \notin {0, active'} =>
         sessions'[sessions'[active'].rollbackPrevious].prepared # sessions'[active'].prepared
  BY Zenon DEF FilesInv
<1> QED BY <1>5, <1>6, <1>7, <1>8, <1>9, <1>10 DEF FilesInv

\* A new session takes over a configuration that passed the check.
LEMMA FilesNew ==
    ASSUME IInv, PlaceInv, FilesInv, NEW p \in Configs, NEW stopping, NEW previous \in 0..generation,
           NewSession(p, stopping, previous), UNCHANGED configVars, closed' = closed, ~Fresh',
           frame'.step \notin {"start", "rollback"}, p \in onDisk, p <= prepares,
           previous # 0 => previous \in Kept /\ sessions[previous].prepared # p,
           Fresh => frame.prepared = p,
           \A g \in Kept : g = previous \/ sessions[g].prepared = p
    PROVE  FilesInv'
<1>1. Registered' = Registered /\ onDisk' = onDisk /\ removeFailed' = removeFailed
      /\ prepares' = prepares /\ prepared' = prepared
  BY Zenon DEF configVars, Registered, InMap
<1>2. /\ active' = generation + 1 /\ generation' = generation + 1 /\ generation \in Nat /\ active' # 0
      /\ sessions'[active'].prepared = p /\ sessions'[active'].rollbackPrevious = previous
      /\ prepared[p] = "checked" /\ \A h \in 1..generation : sessions'[h] = sessions[h]
  BY Bounds DEF NewSession
<1>3. Kept' = {g \in 1..generation' : g = active' \/ g = previous}
  BY Zenon, <1>2 DEF Kept
<1>4. previous # 0 => previous \in 1..generation
  BY <1>2
<1>5. \A g \in Kept' : Usable(g)'
  BY <1>1, <1>2, <1>3, <1>4 DEF Usable, FilesInv
<1>6. \A g \in 1..generation' : sessions'[g].prepared <= prepares'
  <2>1. \A g \in 1..generation' : g \in 1..generation \/ g = active'
    BY <1>2
  <2>2. \A g \in 1..generation : sessions[g].prepared <= prepares
    BY Zenon DEF FilesInv
  <2> QED BY <1>1, <1>2, <2>1, <2>2
<1>7. previous # 0 => sessions'[previous].prepared # p
  BY <1>2, <1>4
<1>8. ~closed' => \A q \in Registered \ removeFailed : \E g \in Kept' : q = sessions'[g].prepared
  <2> SUFFICES ASSUME ~closed', NEW q \in Registered \ removeFailed
               PROVE  \E g \in Kept' : q = sessions'[g].prepared
    OBVIOUS
  <2>1. active' \in Kept' /\ (previous # 0 => previous \in Kept')
    BY <1>2, <1>3, <1>4
  <2>2. CASE q = p
    BY Zenon, <1>2, <2>1, <2>2
  <2>3. ASSUME NEW g \in Kept, q = sessions[g].prepared, q # p
        PROVE  previous \in Kept' /\ q = sessions'[previous].prepared
    <3>1. g = previous /\ g \in 1..generation
      BY Zenon, <2>3 DEF Kept
    <3> QED BY <1>2, <2>1, <2>3, <3>1
  <2> QED BY Zenon, <2>2, <2>3 DEF FilesInv
<1> QED BY Zenon, <1>1, <1>2, <1>5, <1>6, <1>7, <1>8 DEF FilesInv

\* The old session's configuration is closed when the new one has taken over.
LEMMA FilesReplaced ==
    ASSUME IInv, PlaceInv, FilesInv, NEW c \in Clients, ConnectStarted(c), frame.old # 0
    PROVE  FilesInv'
<1> DEFINE p == sessions[frame.old].prepared
<1>1. /\ frame.step = "start" /\ NewSession(frame.prepared, FALSE, 0) /\ frame'.step = "return"
      /\ ClosePrepared(p) /\ closed' = closed
  BY Zenon, StartedDoes DEF FrameTo, InGate
<1>2. /\ active' = generation + 1 /\ generation' = generation + 1 /\ generation \in Nat /\ active' # 0
      /\ sessions'[active'].prepared = frame.prepared /\ sessions'[active'].rollbackPrevious = 0
      /\ prepared[frame.prepared] = "checked" /\ \A h \in 1..generation : sessions'[h] = sessions[h]
  BY <1>1, Bounds DEF NewSession
<1>3. frame.old \in 1..generation /\ p \in Configs
  BY Zenon, Bounds, Facts
<1>4. /\ Fresh /\ ~Fresh' /\ active = 0
  BY <1>1 DEF Fresh, Stopping, IInv, CoreInv, FrameInv
<1>5. frame.prepared \in Configs /\ frame.prepared # p
  BY <1>1, <1>3, <1>4, PreparedFacts, Facts DEF FilesInv, Registered, Configs
<1>6. Kept' = {generation + 1} /\ Kept = {frame.old}
  <2>1. Kept' = {generation + 1}
    BY <1>1, <1>2 DEF Kept
  <2>2. Kept = {frame.old}
    BY <1>1, <1>3, <1>4 DEF Kept
  <2> QED BY Zenon, <2>1, <2>2
<1> HIDE DEF p
<1>7. /\ UNCHANGED <<prepares, runnerClosed>> /\ removeFailed \subseteq removeFailed'
      /\ \A q \in Configs : q # p => prepared'[q] = prepared[q] /\ (q \in onDisk' <=> q \in onDisk)
      /\ Registered' \subseteq Registered
      /\ ~runnerClosed => (p \in Registered' => p \in removeFailed')
      /\ p \in onDisk' => p \in onDisk /\ (p \in Registered => p \in Registered')
  BY Zenon, <1>1, <1>3, ClosedOne, Facts
<1>8. onDisk \subseteq Configs /\ onDisk' \subseteq Configs
  BY Zenon, Facts, <1>1 DEF RunnerTypeOK, ClosePrepared, configVars
<1>9. \A q \in Configs : q # p => (q \in Registered' <=> q \in Registered)
  BY Zenon, <1>7 DEF Registered, InMap
<1>10. onDisk' \subseteq Registered' \cup removeFailed'
  BY Zenon, <1>7, <1>8, <1>9 DEF FilesInv
<1>11. \A g \in Kept' : Usable(g)'
  BY <1>2, <1>4, <1>5, <1>6, <1>7 DEF Usable, FilesInv
<1>12. \A g \in 1..generation' : sessions'[g].prepared <= prepares'
  BY <1>2, <1>4, <1>7 DEF FilesInv
<1>13. ~closed' => \A q \in Registered' \ removeFailed' : \E g \in Kept' : q = sessions'[g].prepared
  <2> SUFFICES ASSUME ~closed', NEW q \in Registered' \ removeFailed'
               PROVE  q = frame.prepared
    BY <1>2, <1>6
  <2>1. ~closed /\ ~runnerClosed
    BY Zenon, <1>1 DEF PlaceInv, ActiveInv, IInv, CoreInv, GateInv
  <2>2. q \in Registered \ removeFailed /\ q # p
    BY Zenon, <1>7, <2>1
  <2> QED BY Zenon, <1>6, <2>1, <2>2 DEF FilesInv, p
<1> QED BY Zenon, <1>2, <1>4, <1>10, <1>11, <1>12, <1>13 DEF FilesInv

\* Prepare adds a configuration that no session uses.
LEMMA FilesPrepared ==
    ASSUME IInv, PlaceInv, FilesInv, NEW c \in Clients, ConnectPrepare(c)
    PROVE  FilesInv'
<1>1. /\ frame.step = "entered" /\ UNCHANGED <<generation, active, sessions>> /\ closed' = closed
      /\ frame'.step \in {"check", "return"}
  BY Zenon, PrepareDoes DEF InGate
<1>2. ~Fresh /\ Kept' = Kept
  BY Zenon, <1>1 DEF Fresh, Stopping, Kept
<1>3. /\ prepares \in Nat /\ onDisk \subseteq Configs /\ prepared \in [Configs -> ConfigState]
      /\ prepares \in 0..MaxPrepares /\ MaxPrepares \in Nat
      /\ removeFailed \subseteq Configs
      /\ \A g \in 1..generation : sessions[g].prepared \in Configs /\ sessions[g].prepared <= prepares
  BY RunnerBounds, Facts DEF RunnerTypeOK, FilesInv
<1>4. CASE /\ PrepareOK /\ frame'.step = "check" /\ frame'.prepared = prepares + 1
  <2>1. /\ prepares' = prepares + 1 /\ prepares + 1 \in Configs
        /\ prepared' = [prepared EXCEPT ![prepares + 1] = "open"]
        /\ onDisk' = onDisk \cup {prepares + 1} /\ removeFailed' = removeFailed
    BY <1>3, <1>4 DEF PrepareOK, Configs
  <2>2. Registered' = Registered \cup {prepares + 1}
    BY Zenon, <1>3, <2>1 DEF Registered, InMap
  <2>3. Fresh'
    BY Zenon, <1>4 DEF Fresh
  <2>4. \A g \in 1..generation : sessions'[g].prepared # prepares + 1 /\ sessions'[g].prepared < prepares + 1
    BY <1>1, <1>3 DEF Configs
  <2>5. \A g \in Kept' : Usable(g)'
    BY <1>1, <1>2, <1>3, <2>1, <2>4 DEF Usable, FilesInv, Kept
  <2>6. \A g \in 1..generation' : sessions'[g].prepared <= prepares'
    BY <1>1, <1>3, <2>1 DEF Configs
  <2>7. ~closed' => \A p \in Registered' \ removeFailed' :
                        \/ Fresh' /\ p = frame'.prepared
                        \/ \E g \in Kept' : p = sessions'[g].prepared
    BY <1>1, <1>2, <1>4, <2>1, <2>2, <2>3 DEF FilesInv
  <2>8. onDisk' \subseteq Registered' \cup removeFailed'
    BY Zenon, <2>1, <2>2 DEF FilesInv
  <2>9. Fresh' => /\ frame'.prepared \in Registered' /\ frame'.prepared \in onDisk'
                  /\ frame'.prepared <= prepares'
                  /\ \A g \in 1..generation' : sessions'[g].prepared < frame'.prepared
    BY <1>1, <1>3, <1>4, <2>1, <2>2, <2>4
  <2>10. active' # 0 /\ sessions'[active'].rollbackPrevious \notin {0, active'} =>
           sessions'[sessions'[active'].rollbackPrevious].prepared # sessions'[active'].prepared
    BY Zenon, <1>1 DEF FilesInv
  <2> QED BY Zenon, <2>5, <2>6, <2>7, <2>8, <2>9, <2>10 DEF FilesInv
<1>5. CASE PrepareFails /\ frame'.step = "return"
  <2>1. ~Fresh'
    BY Zenon, <1>5 DEF Fresh, Stopping
  <2>2. CASE UNCHANGED runnerVars
    <3>1. UNCHANGED configVars
      BY Zenon, <2>2 DEF runnerVars, configVars
    <3> QED BY Zenon, <1>1, <1>2, <2>1, <3>1, FilesKept
  <2>3. CASE /\ ~runnerClosed /\ prepares < MaxPrepares /\ prepares' = prepares + 1
             /\ prepared' = [prepared EXCEPT ![prepares + 1] = "unnamed"]
             /\ onDisk' = onDisk \cup {prepares + 1} /\ RemoveFails(prepares + 1)
    <3>1. prepares + 1 \in Configs /\ removeFailed' = removeFailed \cup {prepares + 1}
      BY <1>3, <2>3 DEF Configs, RemoveFails
    <3>2. Registered' = Registered \ {prepares + 1}
      BY Zenon, <1>3, <2>3, <3>1 DEF Registered, InMap
    <3>3. \A g \in 1..generation : sessions'[g].prepared # prepares + 1
      BY <1>1, <1>3 DEF Configs
    <3>4. \A g \in Kept' : Usable(g)'
      BY <1>1, <1>2, <1>3, <2>3, <3>3 DEF Usable, FilesInv, Kept
    <3>5. \A g \in 1..generation' : sessions'[g].prepared <= prepares'
      BY <1>1, <1>3, <2>3 DEF Configs
    <3>6. ~closed' => \A p \in Registered' \ removeFailed' : \E g \in Kept' : p = sessions'[g].prepared
      BY Zenon, <1>1, <1>2, <3>1, <3>2 DEF FilesInv
    <3> QED BY <1>1, <2>1, <2>3, <3>1, <3>2, <3>4, <3>5, <3>6 DEF FilesInv
  <2> QED BY Zenon, <1>5, <2>2, <2>3 DEF PrepareFails
<1> QED BY Zenon, <1>4, <1>5, PrepareDoes

\* Check marks the configuration of the running Connect.
LEMMA FilesChecked ==
    ASSUME IInv, PlaceInv, StatusInv, FilesInv, NEW c \in Clients, ConnectChecked(c)
    PROVE  FilesInv'
<1>1. /\ frame.step = "check" /\ frame.old = active /\ frame'.old = active /\ active' = active
      /\ generation' = generation /\ frame'.prepared = frame.prepared /\ closed' = closed
      /\ \A h \in 1..generation : sessions'[h].prepared = sessions[h].prepared
      /\ prepared' = [prepared EXCEPT ![frame.prepared] = "checked"]
      /\ UNCHANGED <<prepares, onDisk, removeFailed>>
  BY Zenon, CheckedDoes DEF InGate, FrameTo, CheckOK, OnlySession
<1>2. Fresh /\ Fresh'
  BY Zenon, <1>1, CheckedDoes DEF Fresh, Stopping, FrameTo
<1>3. prepared \in [Configs -> ConfigState] /\ frame.prepared \in Configs
  BY Zenon, <1>2, Facts DEF RunnerTypeOK, FilesInv, Registered
<1>4. Registered' = Registered
  BY Zenon, <1>1, <1>2, <1>3 DEF Registered, InMap, FilesInv
<1>5. active # 0 => sessions[active].rollbackPrevious = 0 /\ active \in 1..generation
  BY Zenon, <1>1, Bounds DEF StatusInv, PlaceInv, ActiveInv
<1>6. active # 0 => sessions'[active].rollbackPrevious = active
  BY Zenon, <1>1, CheckedDoes
<1>7. Kept' = Kept
  <2>1. CASE active = 0
    BY Zenon, <1>1, <2>1, Bounds DEF Kept
  <2>2. CASE active # 0
    BY <1>1, <1>5, <1>6, <2>2 DEF Kept
  <2> QED BY Zenon, <2>1, <2>2
<1>8. Kept \subseteq 1..generation
  BY Zenon DEF Kept
<1>9. \A g \in Kept : Usable(g)'
  <2> SUFFICES ASSUME NEW g \in Kept PROVE Usable(g)'
    OBVIOUS
  <2>1. Usable(g) /\ sessions[g].prepared \in Configs /\ sessions'[g].prepared = sessions[g].prepared
    BY Zenon, <1>1, <1>8, Facts DEF FilesInv
  <2> QED BY Zenon, <1>1, <1>3, <2>1 DEF Usable
<1>10. \A p : (\E g \in Kept : p = sessions[g].prepared) => \E g \in Kept : p = sessions'[g].prepared
  BY Zenon, <1>1, <1>8
<1>11. /\ onDisk' \subseteq Registered' \cup removeFailed'
       /\ \A g \in 1..generation' : sessions'[g].prepared <= prepares'
       /\ frame'.prepared \in Registered' /\ frame'.prepared \in onDisk'
       /\ frame'.prepared <= prepares'
       /\ \A g \in 1..generation' : sessions'[g].prepared < frame'.prepared
  BY Zenon, <1>1, <1>2, <1>4 DEF FilesInv
<1>12. ~closed' => \A p \in Registered' \ removeFailed' :
                       \/ Fresh' /\ p = frame'.prepared
                       \/ \E g \in Kept' : p = sessions'[g].prepared
  BY Zenon, <1>1, <1>2, <1>4, <1>7, <1>10 DEF FilesInv
<1> QED BY <1>1, <1>6, <1>7, <1>9, <1>11, <1>12 DEF FilesInv

\* Once Close has waited for the monitors no session is left.
LEMMA NoneActive ==
    ASSUME IInv, PlaceInv, MonitorsDone
    PROVE  active = 0
<1> SUFFICES ASSUME active # 0 PROVE FALSE
  OBVIOUS
<1>1. active \in Generations /\ ~(active > generation)
  BY Bounds, Facts
<1>2. monitor[active] # "none" /\ monitor[active] # "finished"
  BY <1>1 DEF IInv, CoreInv, SessionInv, PlaceInv, ActiveInv
<1> QED BY Zenon, <1>1, <1>2 DEF MonitorsDone

\* closeRunner finds no configuration that anybody needs.
LEMMA FilesRunner ==
    ASSUME IInv, PlaceInv, FilesInv, CloseRunner
    PROVE  FilesInv'
<1>1. /\ closed /\ MonitorsDone /\ RunnerClose /\ UNCHANGED <<closed, generation, active, sessions, frame>>
  BY Zenon DEF CloseRunner, serviceVars, IInv, CoreInv, GateInv
<1>2. active = 0
  BY Zenon, NoneActive, <1>1
<1>3. ~Fresh' /\ Kept' = {}
  BY <1>1, <1>2, Bounds DEF Fresh, Stopping, Kept, IInv, CoreInv, FrameInv
<1>4. prepares' = prepares /\ onDisk' \subseteq Registered' \cup removeFailed'
  <2>1. CASE runnerClosed
    BY Zenon, <1>1, <2>1 DEF RunnerClose, runnerVars, Registered, InMap, FilesInv
  <2>2. CASE ~runnerClosed
    BY Zenon, <1>1, <2>2 DEF RunnerClose, Registered, InMap, FilesInv
  <2> QED BY Zenon, <2>1, <2>2
<1> QED BY Zenon, <1>1, <1>2, <1>3, <1>4 DEF FilesInv

\* Every step of the service preserves FilesInv.
LEMMA FilesStep ==
    ASSUME IInv, PlaceInv, StatusInv, FilesInv, Next \/ UNCHANGED vars
    PROVE  FilesInv'
<1>0. /\ active # 0 => active \in 1..generation
      /\ frame.old # 0 => frame.old \in 1..generation
      /\ \A g \in 1..generation : g # 0 /\ sessions[g].prepared \in Configs
  BY Bounds, Facts
<1>1. ASSUME SameSessions, FrameTo("return"), InGate, UNCHANGED runnerVars,
             \/ frame.step = "entered"
             \/ frame.step = "kill" /\ frame.purpose # "replace"
      PROVE  FilesInv'
  <2>1. ~Fresh /\ ~Fresh' /\ Kept' = Kept
    BY Zenon, <1>1 DEF Fresh, Stopping, Kept, SameSessions, FrameTo
  <2> QED BY Zenon, <1>1, <2>1, FilesKept DEF SameSessions, InGate, runnerVars, configVars
<1>2. ASSUME NEW c \in Clients, Refused(c) \/ Query(c) \/ StopStuck(c) PROVE FilesInv'
  BY Zenon, <1>1, <1>2, RefusedDoes, QueryDoes, StopStuckDoes
<1>3. ASSUME NEW c \in Clients, Disconnect(c) PROVE FilesInv'
  <2>1. /\ UNCHANGED <<generation, active, closed>> /\ UNCHANGED configVars /\ frame.step = "entered"
        /\ \/ active = 0 /\ sessions' = sessions /\ frame'.step = "return"
           \/ /\ active # 0 /\ OnlySession(active) /\ frame'.step = "grace"
              /\ frame'.purpose = "disconnect"
              /\ sessions'[active].rollbackPrevious = sessions[active].rollbackPrevious
    BY Zenon, <1>3, DisconnectDoes DEF InGate, FrameTo, runnerVars, configVars
  <2>2. ~Fresh /\ ~Fresh' /\ Kept' = Kept
    BY Zenon, <2>1 DEF Fresh, Stopping, Kept
  <2>3. \A h \in 1..generation : sessions'[h].prepared = sessions[h].prepared
    BY Zenon, <2>1 DEF OnlySession
  <2> QED BY Zenon, <2>1, <2>2, <2>3, FilesKept
<1>4. ASSUME (\E c \in Clients : DisconnectReaped(c)) \/ CloseReaped PROVE FilesInv'
  <2>1. /\ Stopping /\ frame.purpose \in {"disconnect", "close"} /\ active' = 0 /\ frame'.step = "return"
        /\ ClosePrepared(sessions[active].prepared) /\ InGate /\ UNCHANGED <<generation, sessions>>
    BY Zenon, <1>4, StoppedDoes DEF FrameTo
  <2>2. active # 0 /\ sessions[active].rollbackPrevious = 0
    BY <2>1 DEF PlaceInv, StopInv, Stopping, IInv, CoreInv, FrameInv
  <2>3. ~Fresh /\ ~Fresh'
    BY Zenon, <2>1 DEF Fresh, Stopping
  <2>4. Kept' = {} /\ Kept \subseteq {active}
    BY Zenon, <1>0, <2>1, <2>2 DEF Kept, Stopping
  <2> QED BY <1>0, <2>1, <2>2, <2>3, <2>4, FilesClosed
<1>5. ASSUME NEW c \in Clients, ConnectRejected(c) \/ ReplaceStuck(c) PROVE FilesInv'
  <2>1. /\ ClosePrepared(frame.prepared) /\ InGate /\ UNCHANGED <<generation, active, sessions>>
        /\ frame'.step = "return" /\ frame.step \in {"check", "kill"} /\ Fresh
    BY Zenon, <1>5, RejectedDoes, ReplaceStuckDoes DEF FrameTo, SameSessions, Fresh, Stopping
  <2>2. ~Fresh' /\ Kept' = Kept
    BY Zenon, <2>1 DEF Fresh, Stopping, Kept
  <2>3. frame.prepared \in Configs /\ \A g \in Kept : sessions[g].prepared # frame.prepared
    <3>1. /\ frame.prepared \in Registered
          /\ \A g \in 1..generation : sessions[g].prepared < frame.prepared
      BY Zenon, <2>1 DEF FilesInv
    <3>2. frame.prepared \in Configs /\ frame.prepared \in Nat
      BY <3>1 DEF Registered, Configs
    <3>3. \A g \in Kept : g \in 1..generation
      BY Zenon DEF Kept
    <3> QED BY <3>1, <3>2, <3>3
  <2> QED BY Zenon, <2>1, <2>2, <2>3, FilesClosed
<1>6. ASSUME NEW c \in Clients, ConnectExpired(c) \/ ConnectStartFails(c) PROVE FilesInv'
  <2>1. /\ ClosePrepared(frame.prepared) /\ InGate /\ UNCHANGED <<generation, active, sessions>>
        /\ frame.step = "start" /\ active = 0 /\ Fresh /\ frame'.old = frame.old
        /\ frame'.step \in {"rollback", "return"} /\ (frame'.step = "return" => frame.old = 0)
    BY Zenon, <1>6, NotStartedDoes DEF FrameTo, Fresh, IInv, CoreInv, FrameInv
  <2>2. ~Fresh' /\ Kept' = Kept
    BY Zenon, <1>0, <2>1 DEF Fresh, Stopping, Kept
  <2>3. frame.prepared \in Configs /\ \A g \in Kept : sessions[g].prepared # frame.prepared
    BY <1>0, <2>1 DEF FilesInv, Kept, Configs, Registered
  <2> QED BY Zenon, <2>1, <2>2, <2>3, FilesClosed
<1>7. ASSUME NEW c \in Clients, ConnectStarted(c), frame.old = 0 PROVE FilesInv'
  <2>1. /\ frame.step = "start" /\ NewSession(frame.prepared, FALSE, 0) /\ frame'.step = "return"
        /\ UNCHANGED configVars /\ closed' = closed /\ active = 0
    BY Zenon, <1>7, StartedDoes DEF FrameTo, InGate, IInv, CoreInv, FrameInv
  <2>2. Fresh /\ ~Fresh' /\ Kept = {}
    BY Zenon, <1>0, <1>7, <2>1 DEF Fresh, Stopping, Kept
  <2>3. frame.prepared \in Configs /\ frame.prepared \in onDisk /\ frame.prepared <= prepares
    BY Zenon, <2>2 DEF FilesInv, Registered
  <2> QED BY Zenon, <2>1, <2>2, <2>3, Bounds, FilesNew
<1>8. ASSUME NEW c \in Clients, ConnectStartedLate(c) PROVE FilesInv'
  <2>1. /\ frame.step = "start" /\ NewSession(frame.prepared, TRUE, frame.old)
        /\ frame'.step = "grace" /\ frame'.purpose = "abort"
        /\ UNCHANGED configVars /\ closed' = closed /\ active = 0
    BY Zenon, <1>8, StartedLateDoes DEF FrameTo, InGate, IInv, CoreInv, FrameInv
  <2>2. Fresh /\ ~Fresh' /\ Kept \subseteq {frame.old}
    BY <2>1 DEF Fresh, Stopping, Kept
  <2>3. frame.old # 0 => frame.old \in Kept
    BY Zenon, <1>0, <2>1 DEF Kept
  <2>4. frame.prepared \in Configs /\ frame.prepared \in onDisk /\ frame.prepared <= prepares
    BY Zenon, <2>2 DEF FilesInv, Registered
  <2>5. frame.old # 0 => sessions[frame.old].prepared # frame.prepared
    BY <1>0, <2>2, <2>4 DEF FilesInv, Configs
  <2> QED BY Zenon, <2>1, <2>2, <2>3, <2>4, <2>5, Bounds, FilesNew
<1>9. ASSUME NEW c \in Clients, ReplaceReaped(c) PROVE FilesInv'
  <2>1. /\ Stopping /\ frame.purpose = "replace" /\ frame.old = active /\ active' = 0
        /\ OnlySession(active) /\ InGate /\ generation' = generation /\ frame'.old = frame.old
        /\ frame'.prepared = frame.prepared
        /\ \/ frame'.step = "rollback" /\ ClosePrepared(frame.prepared)
           \/ frame'.step = "start" /\ UNCHANGED configVars
    BY <1>9, ReplaceReapedDoes DEF FrameTo
  <2>2. /\ Fresh /\ active # 0 /\ sessions[active].rollbackPrevious = active
        /\ frame.step \notin {"start", "rollback"}
    BY <2>1 DEF Fresh, PlaceInv, StopInv, Stopping, IInv, CoreInv, FrameInv
  <2>3. Kept' = Kept
    BY <2>1, <2>2 DEF Kept
  <2>4. \A h \in 1..generation : sessions'[h].prepared = sessions[h].prepared
    BY Zenon, <2>1 DEF OnlySession
  <2>5. CASE frame'.step = "rollback" /\ ClosePrepared(frame.prepared)
    <3>1. ~Fresh'
      BY Zenon, <2>5 DEF Fresh, Stopping
    <3>2. frame.prepared \in Configs /\ \A g \in Kept : sessions[g].prepared # frame.prepared
      BY <1>0, <2>2 DEF FilesInv, Kept, Configs, Registered
    <3> QED BY <2>1, <2>3, <2>4, <2>5, <3>1, <3>2, FilesClosed
  <2>6. CASE frame'.step = "start" /\ UNCHANGED configVars
    <3>1. Fresh'
      BY Zenon, <2>6 DEF Fresh
    <3> QED BY Zenon, <2>1, <2>2, <2>3, <2>4, <2>6, <3>1, FilesKept DEF InGate
  <2> QED BY Zenon, <2>1, <2>5, <2>6
<1>10. ASSUME NEW c \in Clients, AbortReaped(c) PROVE FilesInv'
  <2>1. /\ Stopping /\ frame.purpose = "abort" /\ active # 0 /\ active' = 0
        /\ OnlySession(active) /\ InGate /\ generation' = generation /\ frame'.old = frame.old
        /\ ClosePrepared(sessions[active].prepared)
        /\ \/ frame'.step = "rollback" /\ frame.old # 0
           \/ frame'.step = "return" /\ frame.old = 0
    BY Zenon, <1>10, AbortReapedDoes DEF FrameTo
  <2>2. sessions[active].rollbackPrevious = frame.old /\ frame.old # active
    BY Zenon, <2>1 DEF PlaceInv, StopInv
  <2>3. ~Fresh /\ ~Fresh'
    BY Zenon, <2>1 DEF Fresh, Stopping
  <2>4. Kept' \subseteq {frame.old} /\ Kept' \subseteq Kept /\ \A g \in Kept : g \in Kept' \/ g = active
    BY Zenon, <1>0, <2>1, <2>2 DEF Kept, Stopping
  <2>5. \A h \in 1..generation : sessions'[h].prepared = sessions[h].prepared
    BY Zenon, <2>1 DEF OnlySession
  <2>6. frame.old # 0 => sessions[frame.old].prepared # sessions[active].prepared
    BY Zenon, <2>1, <2>2 DEF FilesInv
  <2>7. \A g \in Kept' : sessions[g].prepared # sessions[active].prepared
    BY <1>0, <2>1, <2>4, <2>6 DEF Kept
  <2> QED BY <1>0, <2>1, <2>3, <2>4, <2>5, <2>7, FilesClosed
<1>11. ASSUME NEW g \in Generations, MonitorSuperseded(g) PROVE FilesInv'
  BY Zenon, <1>1, <1>11, SupersededDoes
<1>12. ASSUME NEW g \in Generations, MonitorRollback(g) PROVE FilesInv'
  <2>1. /\ frame.step = "entered" /\ active = g /\ active # 0 /\ active' = 0 /\ OnlySession(g)
        /\ InGate /\ generation' = generation /\ sessions[g].rollbackPrevious # 0
        /\ frame'.step = "rollback" /\ frame'.old = sessions[g].rollbackPrevious
        /\ IF sessions[g].rollbackPrevious = g THEN UNCHANGED configVars
                                               ELSE ClosePrepared(sessions[g].prepared)
    <3>1. g # 0
      BY DEF Generations
    <3>2. /\ frame.step = "entered" /\ active = g /\ active' = 0 /\ OnlySession(g)
          /\ InGate /\ generation' = generation /\ sessions[g].rollbackPrevious # 0
          /\ frame'.step = "rollback" /\ frame'.old = sessions[g].rollbackPrevious
          /\ IF sessions[g].rollbackPrevious = g THEN UNCHANGED configVars
                                                 ELSE ClosePrepared(sessions[g].prepared)
      BY Zenon, <1>12, MonitorRollbackDoes
    <3> QED BY Zenon, <3>1, <3>2
  <2>2. ~Fresh /\ ~Fresh'
    BY Zenon, <2>1 DEF Fresh, Stopping
  <2>3. /\ Kept' \subseteq {sessions[g].rollbackPrevious} /\ Kept' \subseteq Kept
        /\ \A h \in Kept : h \in Kept' \/ h = g
    BY <2>1 DEF Kept
  <2>4. \A h \in 1..generation : sessions'[h].prepared = sessions[h].prepared
    BY Zenon, <2>1 DEF OnlySession
  <2>5. CASE sessions[g].rollbackPrevious = g
    <3>1. Kept \subseteq Kept'
      BY Zenon, <1>0, <2>1, <2>3, <2>5 DEF Kept
    <3> QED BY Zenon, <2>1, <2>2, <2>3, <2>4, <2>5, <3>1, FilesKept DEF InGate
  <2>6. CASE sessions[g].rollbackPrevious # g
    <3>1. sessions[sessions[g].rollbackPrevious].prepared # sessions[g].prepared
      BY Zenon, <2>1, <2>6 DEF FilesInv
    <3>2. \A h \in Kept' : sessions[h].prepared # sessions[g].prepared
      BY Zenon, <2>3, <3>1
    <3> QED BY Zenon, <1>0, <2>1, <2>2, <2>3, <2>4, <2>6, <3>2, FilesClosed
  <2> QED BY Zenon, <2>5, <2>6
<1>13. ASSUME NEW g \in Generations, MonitorRetire(g) PROVE FilesInv'
  <2>1. /\ frame.step = "entered" /\ active = g /\ active # 0 /\ active' = 0
        /\ InGate /\ UNCHANGED <<generation, sessions>> /\ frame'.step = "return"
        /\ ClosePrepared(sessions[g].prepared)
        /\ ~sessions[g].stopping \/ sessions[g].rollbackPrevious = 0 \/ closed
    <3>1. g # 0
      BY DEF Generations
    <3>2. /\ frame.step = "entered" /\ active = g /\ active' = 0 /\ InGate /\ FrameTo("return")
          /\ ClosePrepared(sessions[g].prepared) /\ UNCHANGED <<generation, sessions>>
          /\ ~sessions[g].stopping \/ sessions[g].rollbackPrevious = 0 \/ closed
      BY Zenon, <1>13, RetireDoes
    <3> QED BY Zenon, <3>1, <3>2 DEF FrameTo
  <2>2. ~closed => sessions[g].rollbackPrevious = 0
    BY Zenon, <2>1 DEF PlaceInv, ActiveInv
  <2>3. ~Fresh /\ ~Fresh' /\ Kept' = {}
    BY Zenon, <1>0, <2>1 DEF Fresh, Stopping, Kept
  <2>4. ~closed => Kept \subseteq {g}
    BY Zenon, <1>0, <2>1, <2>2 DEF Kept
  <2> QED BY Zenon, <1>0, <2>1, <2>3, <2>4, FilesClosed
<1>14. ASSUME StopKill PROVE FilesInv'
  <2>1. /\ frame.step = "grace" /\ frame'.step = "kill" /\ frame'.purpose = frame.purpose
        /\ frame'.prepared = frame.prepared /\ UNCHANGED <<generation, active, sessions, closed>>
        /\ UNCHANGED configVars
    BY Zenon, <1>14, KillTo DEF FrameTo, SameSessions, InGate
  <2>2. (Fresh' <=> Fresh) /\ Kept' = Kept
    BY Zenon, <2>1 DEF Fresh, Stopping, Kept
  <2> QED BY Zenon, <2>1, <2>2, FilesKept
<1>15. ASSUME RollbackStarted \/ RollbackLate PROVE FilesInv'
  <2>1. /\ frame.step = "rollback" /\ active = 0 /\ frame.old # 0
        /\ UNCHANGED configVars /\ closed' = closed /\ frame'.step = "return"
    BY Zenon, <1>15, RolledBackDoes, RolledBackLateDoes DEF FrameTo, InGate, InRollback, IInv, CoreInv, FrameInv
  <2>2. \E stopping : NewSession(sessions[frame.old].prepared, stopping, 0)
    BY Zenon, <1>15, RolledBackDoes, RolledBackLateDoes
  <2>3. ~Fresh /\ ~Fresh' /\ Kept = {frame.old}
    BY Zenon, <1>0, <2>1 DEF Fresh, Stopping, Kept
  <2>4. /\ sessions[frame.old].prepared \in Configs /\ sessions[frame.old].prepared \in onDisk
        /\ sessions[frame.old].prepared <= prepares
    BY <1>0, <2>1, <2>3 DEF FilesInv, Usable
  <2> QED BY Zenon, <2>1, <2>2, <2>3, <2>4, Bounds, FilesNew
<1>16. ASSUME RollbackFails PROVE FilesInv'
  <2>1. /\ frame.step = "rollback" /\ active = 0 /\ frame.old # 0 /\ frame'.step = "return"
        /\ ClosePrepared(sessions[frame.old].prepared) /\ InGate
        /\ UNCHANGED <<generation, active, sessions>>
    BY <1>16, RollbackFailsDoes DEF FrameTo, InRollback, IInv, CoreInv, FrameInv
  <2>2. ~Fresh /\ ~Fresh' /\ Kept = {frame.old} /\ Kept' = {}
    BY Zenon, <1>0, <2>1 DEF Fresh, Stopping, Kept
  <2> QED BY <1>0, <2>1, <2>2, FilesClosed
<1>17. ASSUME CloseStuck PROVE FilesInv'
  BY Zenon, <1>1, <1>17, CloseStuckDoes
<1>18. ASSUME CloseBegin PROVE FilesInv'
  <2>1. /\ closed' /\ UNCHANGED <<generation, active>> /\ UNCHANGED configVars /\ frame.step = "none"
        /\ \/ active = 0 /\ sessions' = sessions /\ frame'.step = "return"
           \/ /\ active # 0 /\ OnlySession(active) /\ sessions'[active].rollbackPrevious = 0
              /\ frame'.step = "grace" /\ frame'.purpose = "close"
    BY <1>18, CloseBeginDoes DEF runnerVars, configVars, IInv, CoreInv, GateInv
  <2>2. ~Fresh' /\ Kept' \subseteq Kept
    BY Zenon, <1>0, <2>1 DEF Fresh, Stopping, Kept
  <2>3. \A h \in 1..generation : sessions'[h].prepared = sessions[h].prepared
    BY Zenon, <2>1 DEF OnlySession
  <2> QED BY <2>1, <2>2, <2>3, FilesKept
<1>19. ASSUME \/ \E c \in Clients : Acquire(c) \/ Release(c)
              \/ \E g \in Generations : MonitorAcquire(g) \/ MonitorRelease(g)
              \/ CloseRelease
       PROVE  FilesInv'
  <2>1. /\ frame.step \in {"none", "return"} /\ frame'.step \in {"none", "entered"}
        /\ UNCHANGED <<generation, active, sessions, closed>> /\ UNCHANGED configVars
    BY <1>19, EnterDoes, LeaveDoes DEF runnerVars, configVars
  <2>2. ~Fresh /\ ~Fresh' /\ Kept' = Kept
    BY Zenon, <2>1 DEF Fresh, Stopping, Kept
  <2> QED BY Zenon, <2>1, <2>2, FilesKept
<1>20. ASSUME Outside PROVE FilesInv'
  <2>1. UNCHANGED <<generation, active, sessions, closed, frame>> /\ UNCHANGED configVars
    BY Zenon, <1>20, OutsideDoes
  <2>2. (Fresh' <=> Fresh) /\ Kept' = Kept
    BY Zenon, <2>1 DEF Fresh, Stopping, Kept
  <2> QED BY Zenon, <2>1, <2>2, FilesKept
<1> QED
  BY Zenon, <1>2, <1>3, <1>4, <1>5, <1>6, <1>7, <1>8, <1>9, <1>10, <1>11, <1>12, <1>13, <1>14,
     <1>15, <1>16, <1>17, <1>18, <1>19, <1>20,
     FilesReplaced, FilesPrepared, FilesChecked, FilesRunner
     DEF Next, GateStep, ClientStep, ConnectStep, MonitorStep, RollbackStep, CloserStep, Outside

-----------------------------------------------------------------------------
(* AnswerInv *)

\* No answer is due.
LEMMA AnswerElse ==
    ASSUME frame'.step \notin {"rollback", "return"}, Stopping' => frame'.purpose # "abort"
    PROVE  AnswerInv'
  BY Zenon DEF AnswerInv, ConnectOutcome

\* The holder of the gate is not a Connect.
LEMMA AnswerOther ==
    ASSUME frame'.step \in {"rollback", "return"}, gate' # "client"
    PROVE  AnswerInv'
  BY Zenon DEF AnswerInv, ConnectOutcome, Holds, Stopping

\* The answer of a client's operation is judged by that operation.
LEMMA AnswerOf ==
    ASSUME IInv, NEW c \in Clients, Holds(c), InGate, frame'.step = "return",
           call[c].op = "connect" =>
             /\ frame'.errs = {} =>
                  /\ active' # 0 /\ sessions'[active'].prepared = frame'.prepared
                  /\ status' = StatusOf("connected", call[c].profile)
             /\ frame'.errs # {} /\ frame'.old # 0 /\ frame'.errs \cap {"rollback", "stuck"} = {} =>
                  /\ active' # 0 /\ ~sessions'[active'].stopping
                  /\ sessions'[active'].prepared = sessions'[frame'.old].prepared
                  /\ status' = frame'.oldStatus
    PROVE  AnswerInv'
<1>1. ~Stopping'
  BY DEF Stopping
<1>2. \A d \in Clients : Holds(d)' => d = c
  BY Zenon DEF Holds, InGate, IInv, CoreInv, GateInv
<1>3. call' = call
  BY Zenon DEF InGate
<1> QED BY Zenon, <1>1, <1>2, <1>3 DEF AnswerInv, ConnectOutcome

\* An error that Connect cannot hide.
LEMMA AnswerAdmits ==
    ASSUME IInv, NEW c \in Clients, Holds(c), InGate, frame'.step = "return",
           \/ frame'.errs # {} /\ frame'.old = 0
           \/ "stuck" \in frame'.errs \/ "rollback" \in frame'.errs
           \/ call[c].op # "connect"
    PROVE  AnswerInv'
<1>1. "stuck" \in frame'.errs \/ "rollback" \in frame'.errs =>
        frame'.errs # {} /\ frame'.errs \cap {"rollback", "stuck"} # {}
  OBVIOUS
<1> QED BY Zenon, <1>1, AnswerOf

\* Every step of the service preserves AnswerInv.
LEMMA AnswerStep ==
    ASSUME IInv, PlaceInv, StatusInv, AnswerInv, Next \/ UNCHANGED vars
    PROVE  AnswerInv'
<1>1. ASSUME NEW c \in Clients, Refused(c) PROVE AnswerInv'
  <2>1. Holds(c) /\ InGate /\ frame'.step = "return" /\ frame'.errs # {} /\ frame'.old = 0
    BY Zenon, <1>1, RefusedDoes DEF FrameTo, PlaceInv, StopInv
  <2> QED BY Zenon, <2>1, AnswerAdmits
<1>2. ASSUME NEW c \in Clients, Query(c) PROVE AnswerInv'
  BY Zenon, <1>2, QueryDoes, AnswerAdmits DEF FrameTo
<1>3. ASSUME NEW c \in Clients, StopStuck(c) \/ ReplaceStuck(c) PROVE AnswerInv'
  BY Zenon, <1>3, StopStuckDoes, ReplaceStuckDoes, AnswerAdmits DEF FrameTo
<1>4. ASSUME NEW c \in Clients, Disconnect(c) PROVE AnswerInv'
  <2>1. CASE active = 0
    BY Zenon, <1>4, <2>1, DisconnectDoes, AnswerAdmits DEF FrameTo
  <2>2. CASE active # 0
    BY Zenon, <1>4, <2>2, DisconnectDoes, AnswerElse DEF FrameTo
  <2> QED BY Zenon, <2>1, <2>2
<1>5. ASSUME NEW c \in Clients, DisconnectReaped(c) PROVE AnswerInv'
  <2>1. Holds(c) /\ frame.purpose = "disconnect"
    BY Zenon, <1>5 DEF DisconnectReaped, Reaped
  <2>2. Stopping /\ InGate /\ frame'.step = "return"
    BY Zenon, <1>5, StoppedDoes DEF FrameTo
  <2>3. call[c].op # "connect"
    BY Zenon, <2>1, <2>2 DEF PlaceInv, StopInv, Holds
  <2> QED BY Zenon, <2>1, <2>2, <2>3, AnswerAdmits
<1>6. ASSUME NEW c \in Clients, ConnectPrepare(c) PROVE AnswerInv'
  <2>1. CASE frame'.step = "check"
    BY Zenon, <2>1, AnswerElse DEF Stopping
  <2>2. CASE frame'.step = "return"
    <3>1. /\ Holds(c) /\ InGate /\ frame'.errs = {"validation"} /\ UNCHANGED <<active, sessions>>
          /\ frame'.old = active /\ frame'.oldStatus = status
          /\ active # 0 => ~sessions[active].stopping /\ status' = status
      BY Zenon, <1>6, <2>2, PrepareDoes
    <3>2. frame'.errs # {}
      BY Zenon, <3>1
    <3> QED BY Zenon, <2>2, <3>1, <3>2, AnswerOf
  <2> QED BY Zenon, <1>6, <2>1, <2>2, PrepareDoes
<1>7. ASSUME NEW c \in Clients, ConnectRejected(c) PROVE AnswerInv'
  <2>1. /\ Holds(c) /\ InGate /\ frame'.errs # {} /\ UNCHANGED <<active, sessions>>
        /\ frame'.step = "return" /\ frame'.old = frame.old /\ frame'.oldStatus = frame.oldStatus
        /\ frame.old # 0 => status' = status
        /\ frame.step = "check"
    BY <1>7, RejectedDoes DEF FrameTo
  <2>2. /\ frame.old = active /\ frame.oldStatus = status
        /\ frame.old # 0 => ~sessions[frame.old].stopping
    BY Zenon, <2>1 DEF StatusInv, IInv, CoreInv, FrameInv
  <2> QED BY Zenon, <2>1, <2>2, AnswerOf
<1>8. ASSUME NEW c \in Clients, ConnectChecked(c) PROVE AnswerInv'
  <2>1. frame'.step = "start" \/ (frame'.step = "grace" /\ frame'.purpose = "replace")
    BY Zenon, <1>8, CheckedDoes DEF FrameTo
  <2> QED BY Zenon, <2>1, AnswerElse DEF Stopping
<1>9. ASSUME NEW c \in Clients, ConnectExpired(c) \/ ConnectStartFails(c) PROVE AnswerInv'
  <2>1. CASE frame.old = 0
    <3>1. Holds(c) /\ InGate /\ frame'.step = "return" /\ frame'.errs # {} /\ frame'.old = 0
      BY Zenon, <1>9, <2>1, NotStartedDoes DEF FrameTo
    <3> QED BY <3>1, AnswerAdmits
  <2>2. CASE frame.old # 0
    <3>1. frame'.step = "rollback" /\ frame'.errs # {}
      BY Zenon, <1>9, <2>2, NotStartedDoes DEF FrameTo
    <3> QED BY Zenon, <3>1 DEF AnswerInv, ConnectOutcome, Stopping
  <2> QED BY <2>1, <2>2
<1>10. ASSUME NEW c \in Clients, ConnectStarted(c) PROVE AnswerInv'
  <2>1. /\ Holds(c) /\ InGate /\ frame'.step = "return" /\ frame'.errs = {}
        /\ frame'.prepared = frame.prepared /\ NewSession(frame.prepared, FALSE, 0)
        /\ status' = StatusOf("connected", call[c].profile)
    BY Zenon, <1>10, StartedDoes DEF FrameTo
  <2>2. active' # 0 /\ sessions'[active'].prepared = frame'.prepared
    BY <2>1, Bounds DEF NewSession
  <2> QED BY Zenon, <2>1, <2>2, AnswerOf
<1>11. ASSUME NEW c \in Clients, ConnectStartedLate(c) PROVE AnswerInv'
  <2>1. Holds(c) /\ expired[c] /\ InGate /\ frame'.step = "grace"
    BY Zenon, <1>11, StartedLateDoes DEF FrameTo
  <2>2. CtxDone'
    BY Zenon, <2>1 DEF CtxDone, Holds, InGate
  <2> QED BY Zenon, <2>1, <2>2 DEF AnswerInv, ConnectOutcome
<1>12. ASSUME NEW c \in Clients, ReplaceReaped(c) PROVE AnswerInv'
  <2>1. frame'.step = "start" \/ (frame'.step = "rollback" /\ frame'.errs # {})
    BY Zenon, <1>12, ReplaceReapedDoes DEF FrameTo
  <2> QED BY Zenon, <2>1 DEF AnswerInv, ConnectOutcome, Stopping
<1>13. ASSUME NEW c \in Clients, AbortReaped(c) PROVE AnswerInv'
  <2>1. /\ Holds(c) /\ InGate /\ frame'.errs = StopErrs /\ frame'.old = frame.old
        /\ Stopping /\ frame.purpose = "abort"
        /\ \/ frame'.step = "rollback"
           \/ frame'.step = "return" /\ frame.old = 0
    BY Zenon, <1>13, AbortReapedDoes DEF FrameTo
  <2>2. "context" \in StopErrs
    BY Zenon, <2>1 DEF AnswerInv, StopErrs, CtxErr
  <2>3. frame'.errs # {}
    BY Zenon, <2>1, <2>2
  <2>4. CASE frame'.step = "rollback"
    BY Zenon, <2>3, <2>4 DEF AnswerInv, ConnectOutcome, Stopping
  <2>5. CASE frame'.step = "return" /\ frame.old = 0
    BY Zenon, <2>1, <2>3, <2>5, AnswerAdmits
  <2> QED BY Zenon, <2>1, <2>4, <2>5
<1>14. ASSUME NEW g \in Generations, MonitorSuperseded(g) \/ MonitorRollback(g) \/ MonitorRetire(g)
       PROVE  AnswerInv'
  <2>1. gate' = "monitor" /\ frame'.step \in {"return", "rollback"}
    BY Zenon, <1>14, SupersededDoes, MonitorRollbackDoes, RetireDoes DEF MonitorHolds, InGate, FrameTo
  <2> QED BY Zenon, <2>1, AnswerOther
<1>15. ASSUME StopKill PROVE AnswerInv'
  <2>1. frame'.step = "kill" /\ frame'.purpose = frame.purpose /\ frame.step = "grace" /\ InGate
    BY Zenon, <1>15, KillTo DEF FrameTo
  <2>2. CtxDone' <=> CtxDone
    BY Zenon, <2>1 DEF CtxDone, InGate
  <2> QED BY Zenon, <2>1, <2>2 DEF AnswerInv, ConnectOutcome, Stopping
<1>16. ASSUME RollbackStarted PROVE AnswerInv'
  <2>1. /\ InRollback /\ InGate /\ frame'.step = "return" /\ frame'.errs = frame.errs
        /\ frame'.old = frame.old /\ frame'.oldStatus = frame.oldStatus
        /\ status' = frame.oldStatus
        /\ NewSession(sessions[frame.old].prepared, FALSE, 0)
    BY Zenon, <1>16, RolledBackDoes DEF FrameTo
  <2>2. /\ active' # 0 /\ ~sessions'[active'].stopping
        /\ sessions'[active'].prepared = sessions[frame.old].prepared
        /\ \A h \in 1..generation : sessions'[h] = sessions[h]
    BY <2>1, Bounds DEF NewSession
  <2>3. frame.old # 0 /\ frame.old \in 1..generation
    BY Zenon, <2>1, Bounds DEF InRollback, IInv, CoreInv, FrameInv
  <2>4. gate = "client" => frame'.errs # {}
    BY Zenon, <2>1 DEF AnswerInv, InRollback
  <2>5. CASE gate = "monitor"
    BY Zenon, <2>1, <2>5, AnswerOther DEF InGate
  <2>6. ASSUME gate = "client", NEW c \in Clients, Holds(c) PROVE AnswerInv'
    BY Zenon, <2>1, <2>2, <2>3, <2>4, <2>6, AnswerOf
  <2>7. ASSUME gate = "client", \A c \in Clients : ~Holds(c) PROVE AnswerInv'
    BY Zenon, <2>1, <2>7 DEF AnswerInv, ConnectOutcome, Holds, InGate, Stopping
  <2> QED BY <2>1, <2>5, <2>6, <2>7 DEF InRollback
<1>17. ASSUME RollbackLate \/ RollbackFails PROVE AnswerInv'
  <2>1. /\ InRollback /\ InGate /\ frame'.step = "return"
        /\ "stuck" \in frame'.errs \/ "rollback" \in frame'.errs
    BY Zenon, <1>17, RolledBackLateDoes, RollbackFailsDoes DEF FrameTo
  <2>2. CASE gate = "monitor"
    BY Zenon, <2>1, <2>2, AnswerOther DEF InGate
  <2>3. ASSUME NEW c \in Clients, Holds(c) PROVE AnswerInv'
    BY Zenon, <2>1, <2>3, AnswerAdmits
  <2>4. ASSUME gate = "client", \A c \in Clients : ~Holds(c) PROVE AnswerInv'
    BY Zenon, <2>1, <2>4 DEF AnswerInv, ConnectOutcome, Holds, InGate, Stopping
  <2> QED BY <2>1, <2>2, <2>3, <2>4 DEF InRollback
<1>18. ASSUME CloseReaped \/ CloseStuck PROVE AnswerInv'
  <2>1. gate' = "closer" /\ frame'.step = "return"
    BY Zenon, <1>18, StoppedDoes, CloseStuckDoes
       DEF FrameTo, CloseReaped, CloseStuck, InGate, IInv, CoreInv, GateInv
  <2> QED BY Zenon, <2>1, AnswerOther
<1>19. ASSUME CloseBegin PROVE AnswerInv'
  <2>1. gate' = "closer" /\ \/ frame'.step = "return"
                            \/ frame'.step = "grace" /\ frame'.purpose = "close"
    BY Zenon, <1>19, CloseBeginDoes
  <2> QED BY Zenon, <2>1, AnswerOther, AnswerElse
<1>20. ASSUME \/ \E c \in Clients : Acquire(c) \/ Release(c)
              \/ \E g \in Generations : MonitorAcquire(g) \/ MonitorRelease(g)
              \/ CloseRelease
       PROVE  AnswerInv'
  <2>1. frame'.step \in {"none", "entered"}
    BY Zenon, <1>20, EnterDoes, LeaveDoes
  <2> QED BY Zenon, <2>1, AnswerElse DEF Stopping
<1>21. ASSUME CloseRunner PROVE AnswerInv'
  <2>1. UNCHANGED <<gate, active, sessions, status, call, expired, frame>>
    BY Zenon, <1>21 DEF CloseRunner, serviceVars, callVars
  <2> QED BY Zenon, <2>1 DEF AnswerInv, ConnectOutcome, Holds, Stopping, CtxDone
<1>22. ASSUME Outside PROVE AnswerInv'
  <2>1. /\ UNCHANGED <<gate, active, sessions, status, frame>>
        /\ \A c \in Clients : /\ call'[c].pc = "holding" <=> call[c].pc = "holding"
                              /\ call[c].pc = "holding" => call'[c] = call[c]
                              /\ call[c].pc = "holding" /\ expired[c] => expired'[c]
    BY Zenon, <1>22, OutsideDoes
  <2>2. CtxDone => CtxDone'
    BY Zenon, <2>1 DEF CtxDone
  <2>3. ConnectOutcome'
    BY Zenon, <2>1 DEF AnswerInv, ConnectOutcome, Holds
  <2> QED BY Zenon, <2>1, <2>2, <2>3 DEF AnswerInv, Stopping
<1> QED
  BY Zenon, <1>1, <1>2, <1>3, <1>4, <1>5, <1>6, <1>7, <1>8, <1>9, <1>10, <1>11, <1>12, <1>13, <1>14,
     <1>15, <1>16, <1>17, <1>18, <1>19, <1>20, <1>21, <1>22
     DEF Next, GateStep, ClientStep, ConnectStep, MonitorStep, RollbackStep, CloserStep, Outside

-----------------------------------------------------------------------------
(* EndInv *)

\* A closed runner stays as it is: nothing can be prepared, checked or started.
LEMMA EndSame ==
    ASSUME EndInv, runnerClosed' = runnerClosed,
           runnerClosed => active' \in {0, active} /\ UNCHANGED monitor,
           ~runnerClosed \/ UNCHANGED prepared \/ \E p : ClosePrepared(p)
    PROVE  EndInv'
<1> SUFFICES ASSUME runnerClosed PROVE active' = 0 /\ MonitorsDone' /\ Registered' = {}
  BY Zenon DEF EndInv
<1>1. prepared' = prepared
  BY Zenon DEF ClosePrepared, configVars
<1> QED BY Zenon, <1>1 DEF EndInv, MonitorsDone, Registered, InMap

\* Every step of the service preserves EndInv.
LEMMA EndStep ==
    ASSUME IInv, PlaceInv, EndInv, Next \/ UNCHANGED vars
    PROVE  EndInv'
<1>1. ASSUME \/ \E c \in Clients : Refused(c) \/ Query(c) \/ StopStuck(c) \/ Disconnect(c)
             \/ \E g \in Generations : MonitorSuperseded(g)
             \/ CloseStuck \/ StopKill \/ CloseBegin
      PROVE  EndInv'
  <2>1. UNCHANGED <<active, monitor, runnerClosed, prepared>>
    BY <1>1, RefusedDoes, QueryDoes, StopStuckDoes, DisconnectDoes, SupersededDoes, CloseStuckDoes,
       KillTo, CloseBeginDoes DEF SameSessions, runnerVars, configVars
  <2> QED BY Zenon, <2>1, EndSame
<1>2. ASSUME \/ \E c \in Clients : DisconnectReaped(c)
             \/ \E g \in Generations : MonitorRetire(g)
             \/ CloseReaped
      PROVE  EndInv'
  BY Zenon, <1>2, StoppedDoes, RetireDoes, CloseKeepsRunner, EndSame
<1>3. ASSUME NEW c \in Clients, ConnectPrepare(c) PROVE EndInv'
  <2>1. runnerClosed' = runnerClosed /\ (runnerClosed => UNCHANGED prepared)
    BY Zenon, <1>3, PrepareDoes DEF PrepareOK, PrepareFails, runnerVars
  <2> QED BY Zenon, <1>3, <2>1, PrepareDoes, EndSame
<1>4. ASSUME NEW c \in Clients, ConnectRejected(c) \/ ReplaceStuck(c) \/ AbortReaped(c) PROVE EndInv'
  BY Zenon, <1>4, RejectedDoes, ReplaceStuckDoes, AbortReapedDoes, CloseKeepsRunner, EndSame DEF SameSessions
<1>5. ASSUME NEW c \in Clients, ConnectExpired(c) \/ ConnectStartFails(c) PROVE EndInv'
  BY Zenon, <1>5, NotStartedDoes, CloseKeepsRunner, EndSame
<1>6. ASSUME \/ \E c \in Clients : ConnectChecked(c) \/ ConnectStarted(c) \/ ConnectStartedLate(c)
             \/ RollbackStarted \/ RollbackLate
      PROVE  EndInv'
  <2>1. ~runnerClosed
    BY Zenon, <1>6 DEF ConnectChecked, CheckOK, ConnectStarted, ConnectStartedLate, RollbackStarted,
                RollbackLate, StartOK, Startable
  <2>2. runnerClosed' = runnerClosed
    BY Zenon, <1>6, CheckedDoes, StartedDoes, StartedLateDoes, RolledBackDoes, RolledBackLateDoes,
       CloseKeepsRunner DEF CheckOK, configVars
  <2> QED BY Zenon, <2>1, <2>2 DEF EndInv
<1>7. ASSUME NEW c \in Clients, ReplaceReaped(c) PROVE EndInv'
  BY Zenon, <1>7, ReplaceReapedDoes, CloseKeepsRunner, EndSame DEF configVars
<1>8. ASSUME NEW g \in Generations, MonitorRollback(g) PROVE EndInv'
  BY Zenon, <1>8, MonitorRollbackDoes, CloseKeepsRunner, EndSame DEF configVars
<1>9. ASSUME RollbackFails PROVE EndInv'
  BY <1>9, RollbackFailsDoes, CloseKeepsRunner, EndSame
<1>10. ASSUME \/ \E c \in Clients : Acquire(c) \/ Release(c)
              \/ CloseRelease
       PROVE  EndInv'
  <2>1. UNCHANGED <<active, monitor, runnerClosed, prepared>>
    BY Zenon, <1>10 DEF Acquire, Release, CloseRelease, serviceVars, runnerVars, configVars
  <2> QED BY <2>1, EndSame
<1>11. ASSUME NEW g \in Generations, MonitorAcquire(g) \/ MonitorRelease(g) PROVE EndInv'
  <2>1. UNCHANGED <<runnerClosed, prepared>> /\ monitor[g] \in {"acquire", "holding"}
    BY Zenon, <1>11 DEF MonitorAcquire, MonitorRelease, MonitorHolds, runnerVars
  <2>2. ~runnerClosed
    BY Zenon, <2>1 DEF EndInv, MonitorsDone
  <2> QED BY Zenon, <2>1, <2>2 DEF EndInv
<1>12. ASSUME CloseRunner PROVE EndInv'
  <2>1. MonitorsDone /\ RunnerClose /\ UNCHANGED <<active, monitor>>
    BY Zenon, <1>12 DEF CloseRunner, serviceVars
  <2>2. active' = 0 /\ MonitorsDone'
    BY Zenon, <2>1, NoneActive DEF MonitorsDone
  <2>3. Registered' = {}
    <3>1. CASE runnerClosed
      BY <2>1, <3>1 DEF RunnerClose, runnerVars, EndInv, Registered, InMap
    <3>2. CASE ~runnerClosed
      BY Zenon, <2>1, <3>2 DEF RunnerClose, Registered, InMap
    <3> QED BY Zenon, <3>1, <3>2
  <2> QED BY Zenon, <2>2, <2>3 DEF EndInv
<1>13. ASSUME Outside PROVE EndInv'
  <2>1. UNCHANGED <<active, runnerClosed, prepared>>
    BY Zenon, <1>13, OutsideDoes DEF configVars
  <2>2. runnerClosed => MonitorsDone'
    BY Zenon, <1>13, OutsideDoes DEF EndInv, MonitorsDone
  <2> QED BY Zenon, <2>1, <2>2 DEF EndInv, Registered, InMap
<1> QED
  BY Zenon, <1>1, <1>2, <1>3, <1>4, <1>5, <1>6, <1>7, <1>8, <1>9, <1>10, <1>11, <1>12, <1>13
     DEF Next, GateStep, ClientStep, ConnectStep, MonitorStep, RollbackStep, CloserStep, Outside

-----------------------------------------------------------------------------
(* The theorems *)

\* A fresh service has nothing to answer for.
LEMMA OutInit ==
    ASSUME Init
    PROVE  OutInv
<1>1. /\ active = 0 /\ generation = 0 /\ gate = "free" /\ frame.step = "none"
      /\ status = Disconnected /\ ~runnerClosed /\ onDisk = {}
      /\ \A p \in Configs : prepared[p] = "unused"
  BY Zenon DEF Init, RunnerInit, NoFrame
<1>2. Registered = {} /\ Kept = {}
  BY <1>1 DEF Registered, InMap, Kept
<1>3. PlaceInv
  BY Zenon, <1>1 DEF PlaceInv, ActiveInv, StopInv, Stopping
<1>4. StatusInv
  BY Zenon, <1>1, StatusStates DEF StatusInv, StatusFits, Stopping
<1>5. FilesInv
  BY <1>1, <1>2 DEF FilesInv, Fresh, Stopping
<1>6. AnswerInv
  BY Zenon, <1>1 DEF AnswerInv, ConnectOutcome, Stopping
<1>7. EndInv
  BY Zenon, <1>1 DEF EndInv
<1> QED BY Zenon, <1>3, <1>4, <1>5, <1>6, <1>7 DEF OutInv

\* The account of the service's promises is kept by every step: what the gate's
\* holder is doing, the status, the configuration files and the answer of
\* Connect, for any number of callers, profiles, configurations and starts.
THEOREM OutcomeInvariance == Spec => []OutInv
<1>1. Init => OutInv
  BY Zenon, OutInit
<1>2. IInv /\ OutInv /\ [Next]_vars => OutInv'
  BY Zenon, PlaceStep, StatusStep, FilesStep, AnswerStep, EndStep DEF OutInv
<1> QED BY <1>1, <1>2, Invariance, PTL DEF Spec

\* Status, asked between operations, reports the session there is: its profile,
\* whether it works or is being stopped, and no session where there is none.
THEOREM StatusIsTrue == Spec => []StatusMatchesSession
<1>1. IInv /\ OutInv => StatusMatchesSession
  BY Zenon DEF OutInv, StatusInv, StatusFits, StatusMatchesSession, IInv, CoreInv, GateInv
<1> QED BY <1>1, Invariance, OutcomeInvariance, PTL

\* Whatever Connect, stopSession and the monitors do in between, the
\* configuration rollbackLocked would start is registered, checked and on disk.
THEOREM RollbackStaysPossible == Spec => []RollbackUsable
<1>1. ASSUME IInv, OutInv PROVE RollbackUsable
  <2>1. /\ active # 0 => active \in 1..generation
        /\ frame.old # 0 => frame.old \in 1..generation
    BY Zenon, <1>1, Bounds
  <2>2. \A g \in Kept : Usable(g)
    BY Zenon, <1>1 DEF OutInv, FilesInv
  <2>3. active # 0 => active \in Kept
    BY Zenon, <2>1 DEF Kept
  <2>4. active # 0 /\ sessions[active].rollbackPrevious # 0 => sessions[active].rollbackPrevious \in Kept
    <3> SUFFICES ASSUME active # 0, sessions[active].rollbackPrevious # 0
                 PROVE  sessions[active].rollbackPrevious \in Kept
      OBVIOUS
    <3>1. sessions[active].rollbackPrevious \in 0..generation /\ generation \in Nat
      BY <1>1, <2>1, Bounds DEF IInv, CoreInv, SessionInv
    <3>2. sessions[active].rollbackPrevious \in 1..generation
      BY <3>1
    <3> QED BY Zenon, <3>2 DEF Kept
  <2>5. frame.step \in {"start", "rollback"} /\ frame.old # 0 => frame.old \in Kept
    BY <2>1 DEF Kept
  <2>6. frame.step = "rollback" => frame.old # 0
    BY <1>1 DEF IInv, CoreInv, FrameInv
  <2>7. frame.step = "check" /\ frame.old # 0 => frame.old \in Kept
    BY <1>1, <2>3 DEF IInv, CoreInv, FrameInv
  <2>8. Stopping /\ frame.old # 0 => frame.old \in Kept
    <3> SUFFICES ASSUME Stopping, frame.old # 0 PROVE frame.old \in Kept
      OBVIOUS
    <3>1. frame.purpose \in {"replace", "abort"} /\ active # 0
      BY Zenon, <1>1, Facts DEF OutInv, PlaceInv, StopInv, Stopping, Frame, Purposes, IInv, CoreInv, FrameInv
    <3>2. CASE frame.purpose = "replace"
      BY <1>1, <2>3, <3>1, <3>2 DEF Stopping, IInv, CoreInv, FrameInv
    <3>3. CASE frame.purpose = "abort"
      BY <1>1, <2>4, <3>1, <3>3 DEF OutInv, PlaceInv, StopInv
    <3> QED BY Zenon, <3>1, <3>2, <3>3
  <2> QED BY Zenon, <2>2, <2>3, <2>4, <2>5, <2>6, <2>7, <2>8 DEF RollbackUsable, Stopping
<1> QED BY <1>1, Invariance, OutcomeInvariance, PTL

\* Connect answers the truth: success means that its configuration runs, and an
\* error that admits neither a stuck process nor a failed roll-back means that
\* the session it found is back.
THEOREM AnswerIsTrue == Spec => []ConnectOutcome
<1>1. OutInv => ConnectOutcome
  BY Zenon DEF OutInv, AnswerInv
<1> QED BY <1>1, OutcomeInvariance, PTL

\* No path of Connect, stopSession, rollbackLocked, a monitor or Close forgets
\* a configuration file that could have been removed.
THEOREM FilesAreAccounted == Spec => []FilesAccounted
<1>1. ASSUME IInv, OutInv PROVE ConfigsAccounted
  <2> SUFFICES ASSUME gate = "free", ~closed, NEW p \in Registered \ removeFailed
               PROVE  /\ active # 0
                      /\ \/ p = sessions[active].prepared
                         \/ /\ sessions[active].rollbackPrevious # 0
                            /\ p = sessions[sessions[active].rollbackPrevious].prepared
    BY Zenon DEF ConfigsAccounted
  <2>1. frame.step = "none"
    BY <1>1 DEF IInv, CoreInv, GateInv
  <2>2. ~Fresh
    BY Zenon, <2>1 DEF Fresh, Stopping
  <2>3. PICK g \in Kept : p = sessions[g].prepared
    BY Zenon, <1>1, <2>2 DEF OutInv, FilesInv
  <2>4. g # 0 /\ (g = active \/ (active # 0 /\ g = sessions[active].rollbackPrevious))
    BY <1>1, <2>1, Bounds DEF Kept
  <2> QED BY Zenon, <2>3, <2>4
<1>2. ASSUME IInv, OutInv PROVE RunnerClosedLast
  <2> SUFFICES ASSUME runnerClosed
               PROVE  active = 0 /\ Unreaped = {} /\ MonitorsDone /\ onDisk \subseteq removeFailed
    BY Zenon DEF RunnerClosedLast
  <2>1. active = 0 /\ MonitorsDone /\ Registered = {}
    BY Zenon, <1>2 DEF OutInv, EndInv
  <2>2. Unreaped = {}
    BY <1>2, <2>1 DEF IInv, CoreInv, SingleCore
  <2>3. onDisk \subseteq removeFailed
    BY Zenon, <1>2, <2>1 DEF OutInv, FilesInv
  <2> QED BY <2>1, <2>2, <2>3
<1> QED BY <1>1, <1>2, Invariance, OutcomeInvariance, RetryStaysPossible, PTL DEF FilesAccounted

\* A working session is told to stop by a Disconnect, by Close, or by a Connect
\* whose replacement has passed `sing-box check`, and by nothing else.
THEOREM StopsOnlyForAReason == Spec => StopsForAReason
<1> DEFINE Reason(g) == \/ closed'
                        \/ \E c \in Clients : Holds(c) /\ call[c].op = "disconnect"
                        \/ frame'.prepared # 0 /\ prepared'[frame'.prepared] = "checked"
           Told(g) == ~sessions[g].stopping /\ sessions'[g].stopping
<1>1. ASSUME IInv, OutInv, [Next]_vars, NEW g \in 1..generation, Told(g)
      PROVE  Reason(g)
  <2>1. ASSUME \A h \in 1..generation : sessions'[h] = sessions[h] PROVE FALSE
    BY Zenon, <1>1, <2>1
  <2>2. ASSUME NEW h, OnlySession(h), sessions[h].stopping PROVE FALSE
    BY Zenon, <1>1, <2>2 DEF OnlySession
  <2>3. ASSUME NEW c \in Clients, Disconnect(c) PROVE Reason(g)
    BY <1>1, <2>3, DisconnectDoes
  <2>4. ASSUME CloseBegin PROVE Reason(g)
    BY <1>1, <2>4, CloseBeginDoes
  <2>5. ASSUME NEW c \in Clients, ConnectChecked(c) PROVE Reason(g)
    <3>1. frame.step = "check" /\ frame'.prepared = frame.prepared /\ CheckOK(frame.prepared)
      BY <1>1, <2>5, CheckedDoes DEF FrameTo
    <3>2. frame.prepared # 0 /\ frame.prepared \in Configs
      BY <1>1, <3>1 DEF OutInv, FilesInv, Fresh, Registered, IInv, CoreInv, FrameInv
    <3>3. prepared'[frame.prepared] = "checked"
      BY <1>1, <3>1, <3>2, Facts DEF CheckOK, RunnerTypeOK
    <3> QED BY <3>1, <3>2, <3>3
  <2>6. ASSUME NEW c \in Clients, ReplaceReaped(c) \/ AbortReaped(c) PROVE FALSE
    BY Zenon, <1>1, <2>2, <2>6, ReplaceReapedDoes, AbortReapedDoes DEF OutInv, StatusInv
  <2>7. ASSUME NEW h \in Generations, MonitorRollback(h) PROVE FALSE
    <3>1. active = h /\ active # 0 /\ sessions[h].rollbackPrevious # 0 /\ OnlySession(h)
      BY <1>1, <2>7, MonitorRollbackDoes DEF Generations
    <3> QED BY Zenon, <1>1, <2>2, <3>1 DEF OutInv, PlaceInv, ActiveInv
  <2>8. ASSUME \/ \E c \in Clients : \/ Refused(c) \/ Query(c) \/ StopStuck(c) \/ DisconnectReaped(c)
                                     \/ ConnectPrepare(c) \/ ConnectRejected(c) \/ ConnectExpired(c)
                                     \/ ConnectStartFails(c) \/ ReplaceStuck(c) \/ Release(c)
                                     \/ Acquire(c)
               \/ \E h \in Generations : \/ MonitorSuperseded(h) \/ MonitorRetire(h)
                                         \/ MonitorAcquire(h) \/ MonitorRelease(h)
               \/ RollbackFails \/ StopKill \/ CloseReaped \/ CloseStuck \/ CloseRelease
               \/ CloseRunner \/ Outside
        PROVE  FALSE
    <3>1. sessions' = sessions
      BY Zenon, <1>1, <2>8, RefusedDoes, QueryDoes, StopStuckDoes, StoppedDoes, PrepareDoes, RejectedDoes,
         NotStartedDoes, ReplaceStuckDoes, SupersededDoes, RetireDoes, RollbackFailsDoes, KillTo,
         CloseStuckDoes, EnterDoes, LeaveDoes, OutsideDoes DEF SameSessions, CloseRunner, serviceVars
    <3> QED BY Zenon, <2>1, <3>1
  <2>9. ASSUME \/ \E c \in Clients : ConnectStarted(c) \/ ConnectStartedLate(c)
               \/ RollbackStarted \/ RollbackLate
        PROVE  FALSE
    BY Zenon, <1>1, <2>1, <2>9, StartedDoes, StartedLateDoes, RolledBackDoes, RolledBackLateDoes DEF NewSession
  <2> HIDE DEF Reason
  <2> QED
    BY Zenon, <1>1, <2>3, <2>4, <2>5, <2>6, <2>7, <2>8, <2>9
       DEF Next, GateStep, ClientStep, ConnectStep, MonitorStep, RollbackStep, CloserStep, Outside
<1>2. IInv /\ OutInv /\ [Next]_vars =>
        [\A g \in 1..generation : ~sessions[g].stopping /\ sessions'[g].stopping =>
           \/ closed'
           \/ \E c \in Clients : Holds(c) /\ call[c].op = "disconnect"
           \/ frame'.prepared # 0 /\ prepared'[frame'.prepared] = "checked"]_vars
  BY Zenon, <1>1
<1> QED BY <1>2, Invariance, OutcomeInvariance, PTL DEF Spec, StopsForAReason
====
