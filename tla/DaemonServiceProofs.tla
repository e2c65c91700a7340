------------------------ MODULE DaemonServiceProofs ------------------------
(***************************************************************************)
(* Proofs about DaemonService for every set of callers and profiles and    *)
(* every bound on configurations and starts: type correctness, at most one *)
(* core process, and the implementation of CoreSlot.                       *)
(*                                                                         *)
(* SingleCore is not inductive: it needs to be known where the operation   *)
(* inside the gate is (FrameInv), that there is one such operation         *)
(* (GateInv), and that a monitor acts on a collected process (SessionInv). *)
(* One lemma per action shows that the conjunction is preserved.           *)
(***************************************************************************)
EXTENDS DaemonService, TLAPS

-----------------------------------------------------------------------------
(* The runner and the building blocks of steps *)

\* closePrepared keeps the runner's configuration state well typed, whether the
\* file is removed, resists removal or is already gone.
LEMMA ClosePreparedConfig ==
    ASSUME RunnerTypeOK, NEW p \in Configs, ClosePrepared(p)
    PROVE  /\ prepares' \in 0..MaxPrepares /\ prepared' \in [Configs -> ConfigState]
           /\ onDisk' \subseteq Configs /\ removeFailed' \subseteq Configs
           /\ runnerClosed' \in BOOLEAN
<1>1. CASE UNCHANGED configVars
  BY Zenon, <1>1 DEF RunnerTypeOK, configVars
<1>2. CASE /\ prepared' = [prepared EXCEPT ![p] = "closed"]
           /\ onDisk' = onDisk \ {p}
           /\ UNCHANGED <<prepares, removeFailed, runnerClosed>>
  BY Zenon, <1>2 DEF RunnerTypeOK, ConfigState
<1>3. CASE RemoveFails(p) /\ UNCHANGED <<prepares, prepared, onDisk, runnerClosed>>
  BY Zenon, <1>3 DEF RunnerTypeOK, RemoveFails
<1> QED
  BY Zenon, <1>1, <1>2, <1>3 DEF ClosePrepared

\* closePrepared, with the processes left alone, keeps the runner well typed.
LEMMA ClosePreparedType ==
    ASSUME RunnerTypeOK, NEW p \in Configs, ClosePrepared(p), UNCHANGED procVars
    PROVE  RunnerTypeOK'
  BY Zenon, ClosePreparedConfig DEF RunnerTypeOK, procVars

\* The runner's Close keeps the runner well typed.
LEMMA RunnerCloseType == ASSUME RunnerTypeOK, RunnerClose PROVE RunnerTypeOK'
<1>1. CASE runnerClosed
  BY Zenon, <1>1 DEF RunnerTypeOK, RunnerClose, runnerVars
<1>2. CASE ~runnerClosed
  <2>1. PICK kept \in SUBSET Registered :
           /\ onDisk' = onDisk \ (Registered \ kept)
           /\ removeFailed' = removeFailed \cup kept
           /\ prepared' = [p \in Configs |-> IF InMap(p) THEN "closed" ELSE prepared[p]]
           /\ runnerClosed' = TRUE
           /\ UNCHANGED <<prepares, starts, proc>>
    BY Zenon, <1>2 DEF RunnerClose
  <2>2. prepared' \in [Configs -> ConfigState]
    BY Zenon, <2>1 DEF RunnerTypeOK, ConfigState
  <2>3. onDisk' \subseteq Configs /\ removeFailed' \subseteq Configs
    BY Zenon, <2>1 DEF RunnerTypeOK, Registered
  <2> QED BY Zenon, <2>1, <2>2, <2>3 DEF RunnerTypeOK
<1> QED BY Zenon, <1>1, <1>2

\* A successful runner.Start yields a process within the bound.
LEMMA StartType ==
    ASSUME RunnerTypeOK, NEW p, NEW state \in {"running", "killed"}, StartOK(p, state)
    PROVE  /\ starts' \in 0..MaxStarts /\ proc' \in [Processes -> ProcState]
           /\ starts + 1 \in Processes
  BY RunnerBounds DEF RunnerTypeOK, StartOK, Startable, Processes, ProcState

\* A step that touches no session, monitor or process keeps SessionInv.
LEMMA KeepsSessions ==
    ASSUME IInv, UNCHANGED <<generation, sessions, monitor, starts, proc>>
    PROVE  SessionInv'
  BY Zenon DEF IInv, CoreInv, SessionInv

\* A step that leaves the active session and the processes alone keeps SingleCore.
LEMMA KeepsCore ==
    ASSUME IInv, UNCHANGED <<active, sessions, proc>>
    PROVE  SingleCore'
  BY Zenon DEF IInv, CoreInv, SingleCore, Unreaped, Running

\* A step of the gate's holder that does not give up the gate keeps GateInv.
LEMMA KeepsGate ==
    ASSUME IInv, InGate, gate # "free", frame'.step # "none",
           \A g \in Generations : monitor'[g] = "holding" => monitor[g] = "holding",
           \A c \in Clients : call[c].pc = "holding" /\ frame'.step \in {"check", "start"} =>
               call[c].op = "connect"
    PROVE  GateInv'
  BY Zenon DEF IInv, CoreInv, GateInv, InGate

\* An operation that computes its result leaves a frame about which FrameInv
\* says nothing more.
LEMMA Returns ==
    ASSUME IInv, NEW errs \in SUBSET Errors, Return(errs), generation' >= generation, generation' \in Nat
    PROVE  /\ frame' \in Frame
           /\ frame'.step = "return"
           /\ FrameInv'
<1>1. frame \in Frame BY Zenon DEF IInv, TypeOK
<1>2. /\ frame' \in Frame /\ frame'.step = "return" /\ frame'.old = frame.old
  BY Zenon, <1>1 DEF Return, Frame, Steps
<1> QED BY <1>1, <1>2, RunnerBounds DEF FrameInv, IInv, TypeOK, CoreInv, Frame

\* installSessionLocked for a fresh process keeps the sessions consistent, and
\* the new process is the only core if no session was active.
LEMMA InstallType ==
    ASSUME IInv, 
           NEW profile \in Profiles, NEW p \in Configs, NEW stat \in Status,
           NEW stopping \in BOOLEAN, NEW failedOnExit \in BOOLEAN,
           NEW previous \in 0..generation, NEW previousStatus \in Status,
           NEW state \in {"running", "killed"}, StartOK(p, state),
           Install(profile, p, stat, stopping, failedOnExit, previous, previousStatus)
    PROVE  /\ generation' \in 0..MaxStarts /\ active' \in 1..generation'
           /\ status' \in Status
           /\ sessions' \in [Generations -> Session \cup {NoSession}]
           /\ monitor' \in [Generations -> {"none", "wait", "acquire", "holding", "finished"}]
           /\ SessionInv'
           /\ active = 0 => SingleCore'
<1> DEFINE new == [profile |-> profile, prepared |-> p, process |-> starts + 1,
            stopping |-> stopping, rollbackPrevious |-> previous,
            rollbackStatus |-> previousStatus, failedOnExit |-> failedOnExit]
<1>0. generation \in Nat /\ generation = starts /\ starts \in Nat /\ RunnerTypeOK /\ MaxStarts \in Nat /\ generation <= MaxStarts
  BY RunnerBounds DEF IInv, TypeOK, CoreInv, SessionInv
<1>1. starts + 1 \in Processes /\ starts < MaxStarts
  BY Zenon, <1>0, StartType DEF StartOK, Startable
<1>2. new \in Session
  BY <1>1, <1>0 DEF Session
<1>3. sessions' = [sessions EXCEPT ![generation + 1] = new]
  BY Zenon DEF Install
<1>4. sessions' \in [Generations -> Session \cup {NoSession}]
  BY Zenon, <1>2, <1>3 DEF IInv, TypeOK
<1>5. /\ new.process = generation + 1 /\ new.rollbackPrevious \in 0..(generation + 1)
  BY <1>0
<1> HIDE DEF new
<1>6. \A g \in 1..generation' : /\ sessions'[g] \in Session
                                /\ sessions'[g].process = g /\ sessions'[g].rollbackPrevious \in 0..generation'
  <2> SUFFICES ASSUME NEW g \in 1..generation'
               PROVE /\ sessions'[g] \in Session
                     /\ sessions'[g].process = g /\ sessions'[g].rollbackPrevious \in 0..generation'
    OBVIOUS
  <2>0. generation' = generation + 1 BY Zenon DEF Install
  <2>1. CASE g = generation + 1
    <3>1. sessions'[g] = new BY Zenon, <2>1, <1>3, <1>1, <1>0 DEF IInv, TypeOK, Generations, Processes
    <3> QED BY Zenon, <2>0, <3>1, <1>2, <1>5, <2>1
  <2>2. CASE g # generation + 1
    <3>1. g \in 1..generation /\ g \in Generations BY <2>0, <2>2, <1>0 DEF Generations
    <3>2. sessions'[g] = sessions[g] BY Zenon, <2>2, <3>1, <1>3 DEF IInv, TypeOK
    <3> QED BY <2>0, <3>1, <3>2, <1>0 DEF IInv, CoreInv, SessionInv
  <2> QED BY Zenon, <2>1, <2>2
<1>7. SessionInv'
  <2>1. generation' = starts' BY Zenon, <1>0 DEF Install, StartOK
  <2>2. \A g \in Generations : monitor'[g] = "none" <=> g > generation'
    BY <1>0, <1>1 DEF Install, IInv, TypeOK, CoreInv, SessionInv, Generations
  <2>3. \A g \in Generations : monitor'[g] \in {"acquire", "holding", "finished"} => proc'[g] = "reaped"
    BY Zenon, <1>0, <1>1 DEF Install, StartOK, IInv, TypeOK, RunnerTypeOK, CoreInv, SessionInv, Generations, Processes
  <2>4. \A q \in Processes : q > starts' => proc'[q] = "unstarted"
    BY <1>0, <1>1 DEF StartOK, IInv, TypeOK, RunnerTypeOK, CoreInv, SessionInv, Processes
  <2> QED BY Zenon, <1>6, <2>1, <2>2, <2>3, <2>4 DEF SessionInv
<1>8. active = 0 => SingleCore'
  <2> SUFFICES ASSUME active = 0, NEW q \in Processes, Running(q)'
               PROVE active' # 0 /\ sessions'[active'].process = q
    BY Zenon DEF SingleCore, Unreaped
  <2>1. q = generation + 1
    BY Zenon, <1>0, <1>1 DEF StartOK, IInv, TypeOK, RunnerTypeOK, CoreInv, SingleCore, Unreaped, Running, Processes
  <2> QED BY <2>1, <1>6, <1>0 DEF Install
<1> QED BY <1>0, <1>1, <1>4, <1>7, <1>8 DEF Install, IInv, TypeOK

\* Assigning fields of one session keeps the sessions consistent.
LEMMA UpdateSession ==
    ASSUME IInv, NEW g \in 1..generation, NEW s \in Session, s.process = g,
           s.rollbackPrevious \in 0..generation, sessions' = [sessions EXCEPT ![g] = s]
    PROVE  /\ sessions' \in [Generations -> Session \cup {NoSession}]
           /\ UNCHANGED <<generation, monitor, starts, proc>> => SessionInv'
           /\ UNCHANGED <<active, proc>> => SingleCore'
<1>1. g \in Generations
  BY RunnerBounds DEF IInv, TypeOK, Generations
<1>2. sessions' \in [Generations -> Session \cup {NoSession}]
  BY Zenon, <1>1 DEF IInv, TypeOK
<1>3. \A h \in 1..generation : sessions'[h] = IF h = g THEN s ELSE sessions[h]
  BY <1>1, RunnerBounds DEF IInv, TypeOK, Generations
<1>4. UNCHANGED <<generation, monitor, starts, proc>> => SessionInv'
  BY <1>3 DEF IInv, CoreInv, SessionInv
<1>5. UNCHANGED <<active, proc>> => SingleCore'
  BY <1>3, RunnerBounds DEF IInv, TypeOK, CoreInv, SessionInv, SingleCore, Unreaped, Running
<1> QED BY Zenon, <1>2, <1>4, <1>5

\* What has to be shown of a step of the gate's holder.
LEMMA InGateStep ==
    ASSUME IInv, InGate, gate # "free", frame' \in Frame, frame'.step # "none",
           \A g \in Generations : monitor'[g] = "holding" => monitor[g] = "holding",
           \A c \in Clients : call[c].pc = "holding" /\ frame'.step \in {"check", "start"} =>
               call[c].op = "connect",
           RunnerTypeOK', generation' \in 0..MaxStarts, active' \in 0..generation',
           status' \in Status, sessions' \in [Generations -> Session \cup {NoSession}],
           monitor' \in [Generations -> {"none", "wait", "acquire", "holding", "finished"}],
           SessionInv', FrameInv', SingleCore'
    PROVE  IInv'
<1>1. GateInv'
  BY Zenon, KeepsGate
<1>2. TypeOK'
  BY Zenon DEF IInv, TypeOK, InGate
<1> QED BY Zenon, <1>1, <1>2 DEF IInv, CoreInv

\* A step of the gate's holder that returns and changes at most the status and
\* the configurations preserves the invariant.
LEMMA ReturnStep ==
    ASSUME IInv, InGate, gate # "free", NEW errs \in SUBSET Errors, Return(errs),
           UNCHANGED <<generation, active, sessions, monitor, starts, proc>>,
           status' \in Status, RunnerTypeOK'
    PROVE  IInv'
<1>1. generation \in 0..MaxStarts /\ active \in 0..generation
      /\ sessions \in [Generations -> Session \cup {NoSession}]
      /\ monitor \in [Generations -> {"none", "wait", "acquire", "holding", "finished"}]
  BY Zenon DEF IInv, TypeOK
<1>2. frame' \in Frame /\ frame'.step = "return" /\ FrameInv'
  BY <1>1, Returns, RunnerBounds
<1> QED BY Zenon, <1>1, <1>2, KeepsSessions, KeepsCore, InGateStep

-----------------------------------------------------------------------------
(* Calls and the gate *)

\* A client's call preserves the invariant.
LEMMA CallInv ==
    ASSUME IInv, NEW c \in Clients, NEW op \in {"connect", "disconnect", "query"},
           NEW p \in Profiles, Call(c, op, p)
    PROVE  IInv'
<1>1. call' \in [Clients -> CallRecord]
  BY DEF IInv, TypeOK, Call, CallRecord
<1>2. TypeOK'
  BY Zenon, <1>1 DEF IInv, TypeOK, RunnerTypeOK, Call, serviceVars, runnerVars
<1>3. GateInv'
  BY DEF IInv, CoreInv, TypeOK, GateInv, Call, serviceVars, runnerVars, CallRecord
<1>4. SessionInv' /\ SingleCore'
  BY Zenon, KeepsSessions, KeepsCore DEF Call, serviceVars, runnerVars
<1>5. FrameInv'
  BY Zenon DEF IInv, CoreInv, TypeOK, FrameInv, Call, serviceVars, runnerVars, CallRecord
<1> QED BY Zenon, <1>2, <1>3, <1>4, <1>5 DEF IInv, CoreInv

\* The end of a call's context preserves the invariant.
LEMMA ExpireInv == ASSUME IInv, NEW c \in Clients, Expire(c) PROVE IInv'
<1>1. TypeOK'
  BY Zenon DEF IInv, TypeOK, RunnerTypeOK, Expire, serviceVars, runnerVars
<1>2. GateInv' /\ FrameInv'
  BY DEF IInv, CoreInv, GateInv, FrameInv, Expire, serviceVars
<1>3. SessionInv' /\ SingleCore'
  BY Zenon, KeepsSessions, KeepsCore DEF Expire, serviceVars, runnerVars
<1> QED BY Zenon, <1>1, <1>2, <1>3 DEF IInv, CoreInv

\* A call that gives up waiting for the gate preserves the invariant.
LEMMA AcquireExpiredInv == ASSUME IInv, NEW c \in Clients, AcquireExpired(c) PROVE IInv'
<1>1. TypeOK'
  BY Zenon DEF IInv, TypeOK, RunnerTypeOK, AcquireExpired, serviceVars, runnerVars, CallRecord, NoCall
<1>2. GateInv' /\ FrameInv'
  BY DEF IInv, CoreInv, TypeOK, GateInv, FrameInv, AcquireExpired, serviceVars, CallRecord, NoCall
<1>3. SessionInv' /\ SingleCore'
  BY Zenon, KeepsSessions, KeepsCore DEF AcquireExpired, serviceVars, runnerVars
<1> QED BY <1>1, <1>2, <1>3 DEF IInv, CoreInv

\* The frame of an operation that has just entered the gate is well typed.
LEMMA EnteredFrame ==
    ASSUME frame' = [NoFrame EXCEPT !.step = "entered"]
    PROVE  frame' \in Frame /\ frame'.step = "entered" /\ frame'.old = 0
  BY RunnerBounds DEF NoFrame, Frame, Steps, Purposes, Status, StatusOf, Disconnected

\* A call that takes the gate preserves the invariant.
LEMMA AcquireInv == ASSUME IInv, NEW c \in Clients, Acquire(c) PROVE IInv'
<1>1. frame' \in Frame /\ frame'.step = "entered" /\ frame'.old = 0
  BY Zenon, EnteredFrame DEF Acquire
<1>2. call' \in [Clients -> CallRecord]
  BY DEF IInv, TypeOK, Acquire, CallRecord
<1>3. TypeOK'
  BY Zenon, <1>1, <1>2 DEF IInv, TypeOK, RunnerTypeOK, Acquire, serviceVars, runnerVars
<1>4. GateInv'
  BY <1>1 DEF IInv, CoreInv, TypeOK, GateInv, Acquire, serviceVars, CallRecord
<1>5. FrameInv'
  BY <1>1, RunnerBounds DEF IInv, TypeOK, FrameInv, Acquire, serviceVars
<1>6. SessionInv' /\ SingleCore'
  BY Zenon, KeepsSessions, KeepsCore DEF Acquire, serviceVars, runnerVars
<1> QED BY Zenon, <1>3, <1>4, <1>5, <1>6 DEF IInv, CoreInv

\* The frame of a free gate is well typed.
LEMMA NoFrameType == NoFrame \in Frame /\ NoFrame.step = "none" /\ NoFrame.old = 0
  BY RunnerBounds DEF NoFrame, Frame, Steps, Purposes, Status, StatusOf, Disconnected

\* A call that releases the gate preserves the invariant.
LEMMA ReleaseInv == ASSUME IInv, NEW c \in Clients, Release(c) PROVE IInv'
<1>1. frame' \in Frame /\ frame'.step = "none" /\ frame'.old = 0
  BY Zenon, NoFrameType DEF Release
<1>2. call' \in [Clients -> CallRecord]
  BY Zenon DEF IInv, TypeOK, Release, CallRecord, NoCall
<1>3. TypeOK'
  BY Zenon, <1>1, <1>2 DEF IInv, TypeOK, RunnerTypeOK, Release, serviceVars, runnerVars
<1>4. GateInv'
  BY Zenon, <1>1 DEF IInv, CoreInv, TypeOK, GateInv, Release, Holds, serviceVars, CallRecord, NoCall
<1>5. FrameInv'
  BY <1>1, RunnerBounds DEF IInv, TypeOK, FrameInv, Release, serviceVars
<1>6. SessionInv' /\ SingleCore'
  BY Zenon, KeepsSessions, KeepsCore DEF Release, serviceVars, runnerVars
<1> QED BY <1>3, <1>4, <1>5, <1>6 DEF IInv, CoreInv

\* The early returns of the operations preserve the invariant.
LEMMA RefusedInv == ASSUME IInv, NEW c \in Clients, Refused(c) PROVE IInv'
<1>1. PICK errs \in SUBSET Errors : Return(errs)
  BY Zenon DEF Refused, Errors
<1>2. /\ InGate /\ gate # "free" /\ status' = status /\ UNCHANGED runnerVars
      /\ UNCHANGED <<generation, active, sessions, monitor, starts, proc>>
  BY Zenon DEF Refused, Holds, runnerVars
<1>3. status' \in Status /\ RunnerTypeOK'
  BY Zenon, <1>2 DEF IInv, TypeOK, RunnerTypeOK, runnerVars
<1> QED BY Zenon, <1>1, <1>2, <1>3, ReturnStep

\* Status and Health preserve the invariant.
LEMMA QueryInv == ASSUME IInv, NEW c \in Clients, Query(c) PROVE IInv'
<1>1. /\ InGate /\ gate # "free" /\ Return({}) /\ status' = status /\ UNCHANGED runnerVars
      /\ UNCHANGED <<generation, active, sessions, monitor, starts, proc>>
  BY Zenon DEF Query, Admitted, Holds, runnerVars
<1>2. status' \in Status /\ RunnerTypeOK'
  BY Zenon, <1>1 DEF IInv, TypeOK, RunnerTypeOK, runnerVars
<1> QED BY Zenon, <1>1, <1>2, ReturnStep

\* What the invariant says about types, in the form the steps below use.
LEMMA Facts ==
    ASSUME IInv
    PROVE  /\ RunnerTypeOK /\ frame \in Frame /\ status \in Status
           /\ generation \in 0..MaxStarts /\ active \in 0..generation
           /\ frame.old \in 0..generation
           /\ sessions \in [Generations -> Session \cup {NoSession}]
           /\ monitor \in [Generations -> {"none", "wait", "acquire", "holding", "finished"}]
           /\ \A g \in 1..generation :
                /\ g \in Generations /\ sessions[g] \in Session
                /\ sessions[g].prepared \in Configs /\ sessions[g].profile \in Profiles
  BY RunnerBounds DEF IInv, TypeOK, CoreInv, SessionInv, FrameInv, Frame, Session, Generations

\* The same for numbers only.
LEMMA Bounds ==
    ASSUME IInv
    PROVE  /\ generation \in Nat /\ 0 \in 0..generation /\ active \in 0..generation
           /\ frame.old \in 0..generation /\ MaxStarts \in Nat /\ generation <= MaxStarts
           /\ active # 0 => active \in 1..generation
           /\ frame.old # 0 => frame.old \in 1..generation
<1>1. generation \in 0..MaxStarts /\ active \in 0..generation /\ frame.old \in 0..generation
  BY Zenon, Facts
<1> QED BY <1>1, RunnerBounds

\* A Connect that has prepared a configuration knows it, and starts it only when
\* no session is active.
LEMMA PreparedFacts ==
    ASSUME IInv,
           \/ frame.step \in {"check", "start"}
           \/ frame.step \in {"grace", "kill"} /\ frame.purpose = "replace"
    PROVE  frame.prepared \in Configs /\ (frame.step = "start" => active = 0)
<1>1. frame.prepared # 0 /\ (frame.step = "start" => active = 0)
  BY Zenon DEF IInv, CoreInv, FrameInv
<1>2. frame.prepared \in 0..MaxPrepares
  BY Zenon, Facts DEF Frame
<1> QED BY <1>1, <1>2, RunnerBounds DEF Configs

\* The statuses that the service assigns are well typed.
LEMMA StatusTypes ==
    /\ Disconnected \in Status
    /\ \A profile \in Profiles, state \in {"connecting", "connected", "disconnecting", "failed"} :
           StatusOf(state, profile) \in Status
    /\ \A stat \in Status : [stat EXCEPT !.state = "disconnecting"] \in Status
  BY Zenon DEF Status, StatusOf, Disconnected

\* The errors that stopSession joins are errors of the protocol.
LEMMA StopErrsType == ASSUME IInv PROVE StopErrs \in SUBSET Errors /\ StopErrs \cup {"stuck"} \in SUBSET Errors
  BY Zenon DEF IInv, TypeOK, Frame, StopErrs, CtxErr, Errors

\* The outcome of Process.Signal is a set of errors of the protocol.
LEMMA SignalErrsType == SignalErrs \subseteq SUBSET Errors
  BY Zenon DEF SignalErrs, Errors

\* Whoever holds the gate in the middle of a Connect is the one Connect, and
\* the service is open.
LEMMA ConnectHolder ==
    ASSUME IInv, NEW c \in Clients, Holds(c),
           \/ frame.step \in {"check", "start"}
           \/ frame.step \in {"grace", "kill"} /\ frame.purpose \in {"replace", "abort"}
    PROVE  /\ call[c].op = "connect" /\ call[c].profile \in Profiles
           /\ \A d \in Clients : call[d].pc = "holding" => d = c
           /\ gate # "free" /\ ~closed
  BY Zenon DEF IInv, CoreInv, GateInv, FrameInv, Holds

-----------------------------------------------------------------------------
(* Connect *)

\* runner.Prepare within Connect preserves the invariant.
LEMMA ConnectPrepareInv == ASSUME IInv, NEW c \in Clients, ConnectPrepare(c) PROVE IInv'
<1>1. /\ Holds(c) /\ InGate /\ gate # "free" /\ call[c].op = "connect" /\ ~closed
      /\ UNCHANGED <<generation, active, sessions, monitor>>
  BY Zenon DEF ConnectPrepare, Admitted, Holds
<1>2. call[c].profile \in Profiles /\ \A d \in Clients : call[d].pc = "holding" => d = c
  BY Zenon, <1>1 DEF IInv, CoreInv, GateInv, Holds
<1>3. UNCHANGED <<starts, proc>>
  BY Zenon DEF ConnectPrepare, PrepareOK, PrepareFails, runnerVars
<1>4. SessionInv' /\ SingleCore'
  BY Zenon, <1>1, <1>3, KeepsSessions, KeepsCore
<1>5. CASE PrepareOK /\ UNCHANGED status /\
           frame' = [frame EXCEPT !.step = "check", !.old = active,
                                  !.oldStatus = status, !.prepared = prepares + 1]
  <2>1. RunnerTypeOK'
    BY <1>5, Facts, RunnerBounds DEF RunnerTypeOK, PrepareOK, Configs, ConfigState
  <2>2. /\ frame' \in Frame /\ frame'.step = "check" /\ frame'.old = active
        /\ frame'.prepared # 0
    <3>1. active \in 0..MaxStarts /\ prepares + 1 \in 0..MaxPrepares /\ prepares + 1 # 0
      BY <1>5, Facts, RunnerBounds DEF RunnerTypeOK, PrepareOK
    <3> QED BY Zenon, <1>5, <3>1, Facts DEF Frame, Steps
  <2>3. FrameInv'
    BY <2>2, <1>1, Facts, RunnerBounds DEF FrameInv, InGate
  <2> QED BY Zenon, <1>1, <1>2, <1>4, <1>5, <2>1, <2>2, <2>3, Facts, InGateStep
<1>6. CASE PrepareFails /\ RecordConnectFailure(active, call[c].profile) /\
           frame' = [frame EXCEPT !.step = "return", !.errs = {"validation"},
                                  !.old = active, !.oldStatus = status]
  <2>1. RunnerTypeOK'
    <3>1. CASE UNCHANGED runnerVars
      BY Zenon, <3>1, Facts DEF RunnerTypeOK, runnerVars
    <3>2. CASE /\ ~runnerClosed
               /\ prepares < MaxPrepares
               /\ prepares' = prepares + 1
               /\ prepared' = [prepared EXCEPT ![prepares + 1] = "unnamed"]
               /\ onDisk' = onDisk \cup {prepares + 1}
               /\ RemoveFails(prepares + 1)
               /\ UNCHANGED <<runnerClosed, starts, proc>>
      BY <3>2, Facts, RunnerBounds DEF RunnerTypeOK, RemoveFails, Configs, ConfigState
    <3> QED BY Zenon, <3>1, <3>2, <1>6 DEF PrepareFails
  <2>2. frame' \in Frame /\ frame'.step = "return" /\ frame'.old = active
    <3>1. active \in 0..MaxStarts /\ {"validation"} \in SUBSET Errors
      BY Facts, RunnerBounds DEF Errors
    <3> QED BY Zenon, <1>6, <3>1, Facts DEF Frame, Steps
  <2>3. FrameInv'
    BY <2>2, <1>1, Facts, RunnerBounds DEF FrameInv
  <2>4. status' \in Status
    BY Zenon, <1>6, <1>2, Facts, StatusTypes DEF RecordConnectFailure
  <2> QED BY Zenon, <1>1, <1>2, <1>4, <2>1, <2>2, <2>3, <2>4, Facts, InGateStep
<1> QED BY Zenon, <1>5, <1>6 DEF ConnectPrepare

\* A failed runner.Check within Connect preserves the invariant.
LEMMA ConnectRejectedInv == ASSUME IInv, NEW c \in Clients, ConnectRejected(c) PROVE IInv'
<1>1. PICK errs \in SUBSET Errors : Return(errs)
  BY Zenon DEF ConnectRejected, Errors
<1>2. /\ Holds(c) /\ frame.step = "check" /\ InGate /\ ClosePrepared(frame.prepared)
      /\ UNCHANGED <<generation, active, sessions, monitor>> /\ UNCHANGED procVars
  BY Zenon DEF ConnectRejected
<1>3. gate # "free" /\ call[c].profile \in Profiles
  BY Zenon, <1>2, ConnectHolder
<1>4. status' \in Status
  BY Zenon, <1>3, Facts, StatusTypes DEF ConnectRejected, RecordConnectFailure
<1>5. frame.prepared \in Configs
  BY Zenon, <1>2, PreparedFacts
<1>6. RunnerTypeOK'
  BY Zenon, <1>2, <1>5, Facts, ClosePreparedType
<1> QED BY Zenon, <1>1, <1>2, <1>3, <1>4, <1>6, ReturnStep DEF procVars

\* A passed runner.Check, and the decision to stop the old session, preserve the
\* invariant.
LEMMA ConnectCheckedInv == ASSUME IInv, NEW c \in Clients, ConnectChecked(c) PROVE IInv'
<1>1. /\ Holds(c) /\ frame.step = "check" /\ InGate /\ CheckOK(frame.prepared)
      /\ UNCHANGED <<generation, active, monitor>>
  BY Zenon DEF ConnectChecked
<1>2. /\ gate # "free" /\ ~closed /\ call[c].op = "connect" /\ call[c].profile \in Profiles
      /\ \A d \in Clients : call[d].pc = "holding" => d = c
  BY Zenon, <1>1, ConnectHolder
<1>3. RunnerTypeOK' /\ UNCHANGED <<starts, proc>>
  BY ZenonT(60), <1>1, Facts DEF CheckOK, RunnerTypeOK, ConfigState
<1>4. frame.old = active /\ frame.prepared # 0
  BY Zenon, <1>1 DEF IInv, CoreInv, FrameInv
<1>5. CASE /\ frame.old = 0
           /\ status' = StatusOf("connecting", call[c].profile)
           /\ frame' = [frame EXCEPT !.step = "start"]
           /\ UNCHANGED sessions
  <2>1. /\ frame' \in Frame /\ frame'.step = "start" /\ frame'.old = 0
        /\ frame'.prepared = frame.prepared
    BY Zenon, <1>5, Facts DEF Frame, Steps
  <2>2. FrameInv'
    BY <2>1, <1>1, <1>2, <1>4, <1>5, Facts, RunnerBounds DEF FrameInv, InGate
  <2>3. SessionInv' /\ SingleCore' /\ status' \in Status
    BY Zenon, <1>1, <1>2, <1>3, <1>5, KeepsSessions, KeepsCore, StatusTypes
  <2> QED BY Zenon, <1>1, <1>2, <1>3, <1>5, <2>1, <2>2, <2>3, Facts, InGateStep
<1>6. CASE /\ frame.old # 0
           /\ sessions' = [sessions EXCEPT ![frame.old].stopping = TRUE,
                                           ![frame.old].rollbackPrevious = frame.old,
                                           ![frame.old].rollbackStatus = frame.oldStatus]
           /\ status' = [status EXCEPT !.state = "disconnecting"]
           /\ \E errs \in SignalErrs :
                frame' = [frame EXCEPT !.step = "grace", !.purpose = "replace", !.errs = errs]
  <2> DEFINE s == [sessions[frame.old] EXCEPT !.stopping = TRUE, !.rollbackPrevious = frame.old,
                                              !.rollbackStatus = frame.oldStatus]
  <2>1. /\ frame' \in Frame /\ frame'.step = "grace" /\ frame'.purpose = "replace"
        /\ frame'.old = frame.old /\ frame'.prepared = frame.prepared
    <3>1. PICK errs \in SUBSET Errors :
             frame' = [frame EXCEPT !.step = "grace", !.purpose = "replace", !.errs = errs]
      BY Zenon, <1>6, SignalErrsType
    <3> QED BY Zenon, <3>1, Facts DEF Frame, Steps, Purposes
  <2>2. FrameInv'
    BY <2>1, <1>1, <1>2, <1>4, <1>6, Facts, RunnerBounds DEF FrameInv, InGate
  <2>3. frame.old \in 1..generation /\ frame.oldStatus \in Status
    BY <1>6, Facts, RunnerBounds DEF Frame
  <2>4. s \in Session /\ s.process = frame.old /\ s.rollbackPrevious \in 0..generation
    <3>1. frame.old \in 0..MaxStarts /\ frame.old \in 0..generation
      BY <2>3, Facts, RunnerBounds
    <3>2. sessions[frame.old] \in Session /\ sessions[frame.old].process = frame.old
      BY Zenon, <2>3 DEF IInv, CoreInv, SessionInv
    <3> QED BY Zenon, <2>3, <3>1, <3>2 DEF Session
  <2>5. sessions' = [sessions EXCEPT ![frame.old] = s]
    BY Zenon, <1>6, <2>3, Facts DEF Session
  <2> HIDE DEF s
  <2>6. /\ sessions' \in [Generations -> Session \cup {NoSession}]
        /\ SessionInv' /\ SingleCore' 
    BY Zenon, <1>1, <1>3, <2>3, <2>4, <2>5, UpdateSession
  <2>7. status' \in Status
    BY Zenon, <1>6, Facts, StatusTypes
  <2> QED BY Zenon, <1>1, <1>2, <1>3, <2>1, <2>2, <2>6, <2>7, Facts, InGateStep
<1> QED BY ZenonT(60), <1>5, <1>6 DEF ConnectChecked

\* Connect reaches rollbackLocked with no active session and an old one to go
\* back to.
LEMMA ToRollback ==
    ASSUME IInv, NEW errs \in SUBSET Errors, frame.old # 0, ~closed, closed' = closed,
           frame' = [frame EXCEPT !.step = "rollback", !.errs = errs],
           active' = 0, generation' = generation
    PROVE  /\ frame' \in Frame /\ frame'.step = "rollback" /\ FrameInv'
<1>1. /\ frame' \in Frame /\ frame'.step = "rollback" /\ frame'.old = frame.old
  BY Zenon, Facts DEF Frame, Steps
<1> QED BY <1>1, Facts DEF FrameInv

\* Once the active process is collected, dropping the session leaves no core.
LEMMA NoneLeft ==
    ASSUME IInv, active # 0 => proc[ActiveProcess] = "reaped", active' = 0, UNCHANGED proc
    PROVE  SingleCore'
  BY Zenon DEF IInv, CoreInv, SingleCore, Unreaped, Running, ActiveProcess

\* A context that ends before runner.Start preserves the invariant.
LEMMA ConnectExpiredInv == ASSUME IInv, NEW c \in Clients, ConnectExpired(c) PROVE IInv'
<1>1. /\ Holds(c) /\ frame.step = "start" /\ frame.old # 0 /\ InGate
      /\ ClosePrepared(frame.prepared)
      /\ frame' = [frame EXCEPT !.step = "rollback", !.errs = {"context"}]
      /\ UNCHANGED <<generation, active, status, sessions, monitor>> /\ UNCHANGED procVars
  BY Zenon DEF ConnectExpired
<1>2. gate # "free" /\ ~closed
  BY Zenon, <1>1, ConnectHolder
<1>3. active = 0 /\ frame.prepared \in Configs
  BY Zenon, <1>1, PreparedFacts
<1>4. frame' \in Frame /\ frame'.step = "rollback" /\ FrameInv'
  BY Zenon, <1>1, <1>2, <1>3, ToRollback DEF Errors, InGate
<1>5. RunnerTypeOK'
  BY Zenon, <1>1, <1>3, Facts, ClosePreparedType
<1>6. SessionInv' /\ SingleCore'
  BY Zenon, <1>1, KeepsSessions, KeepsCore DEF procVars
<1> QED BY Zenon, <1>1, <1>2, <1>4, <1>5, <1>6, Facts, InGateStep

\* A failed runner.Start within Connect preserves the invariant.
LEMMA ConnectStartFailsInv == ASSUME IInv, NEW c \in Clients, ConnectStartFails(c) PROVE IInv'
<1>1. /\ Holds(c) /\ frame.step = "start" /\ InGate /\ ClosePrepared(frame.prepared)
      /\ UNCHANGED <<generation, active, sessions, monitor>> /\ UNCHANGED procVars
  BY Zenon DEF ConnectStartFails
<1>2. gate # "free" /\ ~closed /\ call[c].profile \in Profiles
  BY Zenon, <1>1, ConnectHolder
<1>3. active = 0 /\ frame.prepared \in Configs
  BY Zenon, <1>1, PreparedFacts
<1>4. RunnerTypeOK'
  BY Zenon, <1>1, <1>3, Facts, ClosePreparedType
<1>5. SessionInv' /\ SingleCore'
  BY Zenon, <1>1, KeepsSessions, KeepsCore DEF procVars
<1>6. PICK errs \in SUBSET Errors :
         \/ /\ frame.old # 0
            /\ frame' = [frame EXCEPT !.step = "rollback", !.errs = errs]
            /\ UNCHANGED status
         \/ /\ status' = StatusOf("failed", call[c].profile)
            /\ Return(errs)
  BY Zenon DEF ConnectStartFails, Errors
<1>7. CASE frame.old # 0 /\ UNCHANGED status /\
           frame' = [frame EXCEPT !.step = "rollback", !.errs = errs]
  <2>1. frame' \in Frame /\ frame'.step = "rollback" /\ FrameInv'
    BY Zenon, <1>1, <1>2, <1>3, <1>7, ToRollback DEF InGate
  <2> QED BY Zenon, <1>1, <1>2, <1>4, <1>5, <1>7, <2>1, Facts, InGateStep
<1>8. CASE status' = StatusOf("failed", call[c].profile) /\ Return(errs)
  <2>1. status' \in Status
    BY Zenon, <1>2, <1>8, StatusTypes
  <2> QED BY Zenon, <1>1, <1>2, <1>4, <1>8, <2>1, ReturnStep DEF procVars
<1> QED BY Zenon, <1>6, <1>7, <1>8

\* A step of the gate's holder that installs a session after a successful
\* runner.Start, with no session active, preserves the invariant.
LEMMA InstallStep ==
    ASSUME IInv, InGate, gate # "free", active = 0,
           NEW profile \in Profiles, NEW p \in Configs, NEW stat \in Status,
           NEW stopping \in BOOLEAN, NEW failedOnExit \in BOOLEAN,
           NEW previous \in 0..generation, NEW previousStatus \in Status,
           NEW state \in {"running", "killed"}, StartOK(p, state),
           Install(profile, p, stat, stopping, failedOnExit, previous, previousStatus),
           prepares' \in 0..MaxPrepares, prepared' \in [Configs -> ConfigState],
           onDisk' \subseteq Configs, removeFailed' \subseteq Configs, runnerClosed' \in BOOLEAN,
           frame' \in Frame, frame'.step \notin {"none", "check", "start"}, FrameInv'
    PROVE  IInv'
<1>1. /\ generation' \in 0..MaxStarts /\ active' \in 1..generation'
      /\ status' \in Status
      /\ sessions' \in [Generations -> Session \cup {NoSession}]
      /\ monitor' \in [Generations -> {"none", "wait", "acquire", "holding", "finished"}]
      /\ SessionInv' /\ SingleCore'
  BY InstallType
<1>2. active' \in 0..generation'
  BY <1>1, RunnerBounds
<1>3. RunnerTypeOK'
  BY StartType, Facts DEF RunnerTypeOK
<1>4. \A g \in Generations : monitor'[g] = "holding" => monitor[g] = "holding"
  BY Zenon, Facts DEF Install
<1> QED BY Zenon, <1>1, <1>2, <1>3, <1>4, InGateStep

\* The start of a Connect's new session preserves the invariant.
LEMMA ConnectStartedInv == ASSUME IInv, NEW c \in Clients, ConnectStarted(c) PROVE IInv'
<1>1. /\ Holds(c) /\ frame.step = "start" /\ InGate /\ StartOK(frame.prepared, "running")
      /\ Install(call[c].profile, frame.prepared, StatusOf("connected", call[c].profile),
                 FALSE, FALSE, 0, Disconnected)
      /\ Return({})
  BY Zenon DEF ConnectStarted
<1>2. gate # "free" /\ call[c].profile \in Profiles
  BY Zenon, <1>1, ConnectHolder
<1>3. active = 0 /\ frame.prepared \in Configs /\ 0 \in 0..generation
  BY Zenon, <1>1, PreparedFacts, Bounds
<1>4. /\ prepares' \in 0..MaxPrepares /\ prepared' \in [Configs -> ConfigState]
      /\ onDisk' \subseteq Configs /\ removeFailed' \subseteq Configs /\ runnerClosed' \in BOOLEAN
  <2>1. CASE frame.old = 0
    BY Zenon, <2>1, Facts DEF ConnectStarted, configVars, RunnerTypeOK
  <2>2. CASE frame.old # 0
    <3>1. sessions[frame.old].prepared \in Configs
      BY <2>2, Facts, RunnerBounds
    <3>2. ClosePrepared(sessions[frame.old].prepared)
      BY Zenon, <2>2 DEF ConnectStarted
    <3> QED BY Zenon, <3>1, <3>2, Facts, ClosePreparedConfig
  <2> QED BY Zenon, <2>1, <2>2
<1>5. frame' \in Frame /\ frame'.step = "return" /\ FrameInv'
  <2>1. generation' \in Nat /\ generation' >= generation
    <3>1. generation' = generation + 1
      BY Zenon, <1>1 DEF Install
    <3> QED BY <3>1, Bounds
  <2> QED BY Zenon, <2>1, <1>1, Returns
<1>6. StatusOf("connected", call[c].profile) \in Status /\ Disconnected \in Status
  BY Zenon, <1>2, StatusTypes
<1> QED BY Zenon, <1>1, <1>2, <1>3, <1>4, <1>5, <1>6, InstallStep

\* The late start of a Connect whose context has ended preserves the invariant.
LEMMA ConnectStartedLateInv == ASSUME IInv, NEW c \in Clients, ConnectStartedLate(c) PROVE IInv'
<1>1. /\ Holds(c) /\ frame.step = "start" /\ InGate /\ StartOK(frame.prepared, "running")
      /\ Install(call[c].profile, frame.prepared, StatusOf("disconnecting", call[c].profile),
                 TRUE, FALSE, frame.old, frame.oldStatus)
      /\ UNCHANGED configVars
  BY Zenon DEF ConnectStartedLate
<1>2. /\ gate # "free" /\ ~closed /\ call[c].profile \in Profiles /\ call[c].op = "connect"
      /\ \A d \in Clients : call[d].pc = "holding" => d = c
  BY Zenon, <1>1, ConnectHolder
<1>3. /\ active = 0 /\ frame.prepared \in Configs
      /\ frame.old \in 0..generation /\ frame.oldStatus \in Status
  BY Zenon, <1>1, PreparedFacts, Facts DEF Frame
<1>4. /\ prepares' \in 0..MaxPrepares /\ prepared' \in [Configs -> ConfigState]
      /\ onDisk' \subseteq Configs /\ removeFailed' \subseteq Configs /\ runnerClosed' \in BOOLEAN
  BY Zenon, <1>1, Facts DEF configVars, RunnerTypeOK
<1>5. PICK errs \in SUBSET Errors :
         frame' = [frame EXCEPT !.step = "grace", !.purpose = "abort", !.errs = errs]
  BY Zenon DEF ConnectStartedLate, Errors
<1>6. /\ frame' \in Frame /\ frame'.step = "grace" /\ frame'.purpose = "abort"
      /\ frame'.old = frame.old
  BY Zenon, <1>5, Facts DEF Frame, Steps, Purposes
<1>7. FrameInv'
  <2>1. generation' = generation + 1 /\ active' = generation + 1
    BY Zenon, <1>1 DEF Install
  <2>2. frame'.old <= generation' /\ active' # 0
    BY <1>3, <1>6, <2>1, Bounds
  <2> QED BY Zenon, <1>1, <1>2, <1>6, <2>2 DEF FrameInv, InGate
<1>8. StatusOf("disconnecting", call[c].profile) \in Status
  BY Zenon, <1>2, StatusTypes
<1> QED BY Zenon, <1>1, <1>2, <1>3, <1>4, <1>6, <1>7, <1>8, InstallStep

-----------------------------------------------------------------------------
(* stopSession *)

\* SIGKILL after the grace period preserves the invariant.
LEMMA StopKillInv == ASSUME IInv, StopKill PROVE IInv'
<1>1. /\ frame.step = "grace" /\ InGate /\ UNCHANGED configVars
      /\ UNCHANGED <<generation, active, status, sessions, monitor, starts>>
  BY Zenon DEF StopKill
<1>2. gate # "free"
  BY ZenonT(60), <1>1 DEF IInv, CoreInv, GateInv
<1>3. PICK errs \in SUBSET Errors : frame' = [frame EXCEPT !.step = "kill", !.errs = errs]
  <2>1. frame = [frame EXCEPT !.errs = frame.errs] /\ frame.errs \in SUBSET Errors
    BY Zenon, Facts DEF Frame
  <2>2. CASE frame' = [frame EXCEPT !.step = "kill"]
    <3>1. frame' = [frame EXCEPT !.step = "kill", !.errs = frame.errs]
      BY Zenon, <2>2, Facts DEF Frame
    <3> QED BY Zenon, <2>1, <3>1
  <2>3. CASE frame' = [frame EXCEPT !.step = "kill", !.errs = frame.errs \cup {"process"}]
    BY Zenon, <2>1, <2>3 DEF Errors
  <2> QED BY Zenon, <2>2, <2>3 DEF StopKill
<1>4. /\ frame' \in Frame /\ frame'.step = "kill" /\ frame'.purpose = frame.purpose
      /\ frame'.old = frame.old /\ frame'.prepared = frame.prepared
  BY Zenon, <1>3, Facts DEF Frame, Steps
<1>5. FrameInv'
  BY Zenon, <1>1, <1>4 DEF FrameInv, IInv, CoreInv, InGate
<1>6. /\ proc' \in [Processes -> ProcState]
      /\ \A q \in Processes : Running(q)' <=> Running(q)
      /\ \A q \in Processes : proc'[q] \in {"unstarted", "reaped"} \/ proc[q] \in {"unstarted", "reaped"}
            => proc'[q] = proc[q]
  <2>1. CASE KillOK(ActiveProcess)
    BY Zenon, <2>1, Facts DEF KillOK, Running, RunnerTypeOK, ProcState
  <2>2. CASE UNCHANGED proc
    BY Zenon, <2>2, Facts DEF Running, RunnerTypeOK
  <2> QED BY Zenon, <2>1, <2>2 DEF StopKill
<1>7. RunnerTypeOK'
  BY Zenon, <1>1, <1>6, Facts DEF RunnerTypeOK, configVars
<1>8. SessionInv'
  BY ZenonT(60), <1>1, <1>6 DEF IInv, CoreInv, SessionInv, Generations, Processes
<1>9. SingleCore'
  BY Zenon, <1>1, <1>6 DEF IInv, CoreInv, SingleCore, Unreaped
<1> QED BY Zenon, <1>1, <1>2, <1>4, <1>5, <1>7, <1>8, <1>9, Facts, InGateStep

\* Dropping a session's roll-back target keeps the sessions consistent.
LEMMA ClearRollback ==
    ASSUME IInv, NEW g \in 1..generation,
           sessions' = [sessions EXCEPT ![g].rollbackPrevious = 0],
           UNCHANGED <<generation, monitor, starts, proc>>
    PROVE  sessions' \in [Generations -> Session \cup {NoSession}] /\ SessionInv'
<1> DEFINE s == [sessions[g] EXCEPT !.rollbackPrevious = 0]
<1>1. 0 \in 0..MaxStarts /\ 0 \in 0..generation
  BY Facts, RunnerBounds
<1>2. sessions[g] \in Session /\ sessions[g].process = g
  BY Zenon DEF IInv, CoreInv, SessionInv
<1>3. s \in Session /\ s.process = g /\ s.rollbackPrevious \in 0..generation
  BY Zenon, <1>1, <1>2 DEF Session
<1>4. sessions' = [sessions EXCEPT ![g] = s]
  OBVIOUS
<1> HIDE DEF s
<1> QED BY Zenon, <1>3, <1>4, UpdateSession

\* The end of the old session within Connect preserves the invariant.
LEMMA ReplaceReapedInv == ASSUME IInv, NEW c \in Clients, ReplaceReaped(c) PROVE IInv'
<1>1. /\ Holds(c) /\ frame.step \in {"grace", "kill"} /\ frame.purpose = "replace"
      /\ proc[ActiveProcess] = "reaped" /\ active' = 0 /\ InGate
      /\ sessions' = [sessions EXCEPT ![frame.old].rollbackPrevious = 0]
      /\ UNCHANGED <<generation, monitor>> /\ UNCHANGED procVars
  BY Zenon DEF ReplaceReaped, Reaped
<1>2. /\ gate # "free" /\ ~closed /\ call[c].op = "connect" /\ call[c].profile \in Profiles
      /\ \A d \in Clients : call[d].pc = "holding" => d = c
  BY Zenon, <1>1, ConnectHolder
<1>3. frame.old = active /\ active \in 1..generation /\ frame.prepared \in Configs
  <2>1. frame.old = active /\ active # 0
    BY Zenon, <1>1 DEF IInv, CoreInv, FrameInv
  <2> QED BY Zenon, <1>1, <2>1, Bounds, PreparedFacts
<1>4. sessions' \in [Generations -> Session \cup {NoSession}] /\ SessionInv' /\ SingleCore'
  BY Zenon, <1>1, <1>3, ClearRollback, NoneLeft DEF procVars
<1>5. active' \in 0..generation'
  BY <1>1, Facts, RunnerBounds
<1>6. CASE /\ ClosePrepared(frame.prepared) /\ UNCHANGED status
           /\ frame' = [frame EXCEPT !.step = "rollback", !.errs = StopErrs]
  <2>1. frame' \in Frame /\ frame'.step = "rollback" /\ FrameInv'
    <3>1. frame.old # 0
      BY <1>3, Facts, RunnerBounds
    <3> QED BY Zenon, <1>1, <1>2, <1>6, <3>1, StopErrsType, ToRollback DEF InGate
  <2>2. RunnerTypeOK'
    BY Zenon, <1>1, <1>3, <1>6, Facts, ClosePreparedType
  <2> QED BY Zenon, <1>1, <1>2, <1>4, <1>5, <1>6, <2>1, <2>2, Facts, InGateStep
<1>7. CASE /\ status' = StatusOf("connecting", call[c].profile)
           /\ frame' = [frame EXCEPT !.step = "start"]
           /\ UNCHANGED configVars
  <2>1. /\ frame' \in Frame /\ frame'.step = "start" /\ frame'.old = frame.old
        /\ frame'.prepared = frame.prepared
    BY Zenon, <1>7, Facts DEF Frame, Steps
  <2>2. FrameInv'
    BY <1>1, <1>2, <1>3, <2>1, Facts, RunnerBounds DEF FrameInv, InGate, Configs
  <2>3. RunnerTypeOK' /\ status' \in Status
    BY Zenon, <1>1, <1>2, <1>7, Facts, StatusTypes DEF RunnerTypeOK, configVars, procVars
  <2> QED BY Zenon, <1>1, <1>2, <1>4, <1>5, <2>1, <2>2, <2>3, Facts, InGateStep
<1> QED BY Zenon, <1>6, <1>7 DEF ReplaceReaped

\* An old session that will not stop preserves the invariant.
LEMMA ReplaceStuckInv == ASSUME IInv, NEW c \in Clients, ReplaceStuck(c) PROVE IInv'
<1>1. /\ Holds(c) /\ frame.step = "kill" /\ frame.purpose = "replace" /\ InGate
      /\ ClosePrepared(frame.prepared) /\ Return(StopErrs \cup {"stuck"})
      /\ UNCHANGED <<generation, active, status, sessions, monitor>> /\ UNCHANGED procVars
  BY Zenon DEF ReplaceStuck, Stuck
<1>2. gate # "free" /\ frame.prepared \in Configs
  BY Zenon, <1>1, ConnectHolder, PreparedFacts
<1>3. RunnerTypeOK' /\ status' \in Status
  BY Zenon, <1>1, <1>2, Facts, ClosePreparedType
<1> QED BY Zenon, <1>1, <1>2, <1>3, StopErrsType, ReturnStep DEF procVars

\* The end of a late session within Connect preserves the invariant.
LEMMA AbortReapedInv == ASSUME IInv, NEW c \in Clients, AbortReaped(c) PROVE IInv'
<1>1. /\ Holds(c) /\ frame.step \in {"grace", "kill"} /\ frame.purpose = "abort"
      /\ proc[ActiveProcess] = "reaped" /\ active' = 0 /\ InGate
      /\ sessions' = [sessions EXCEPT ![active].rollbackPrevious = 0]
      /\ ClosePrepared(sessions[active].prepared)
      /\ UNCHANGED <<generation, monitor>> /\ UNCHANGED procVars
  BY Zenon DEF AbortReaped, Reaped
<1>2. gate # "free" /\ ~closed
  BY Zenon, <1>1, ConnectHolder
<1>3. active \in 1..generation
  BY <1>1, Facts, RunnerBounds DEF IInv, CoreInv, FrameInv
<1>4. sessions' \in [Generations -> Session \cup {NoSession}] /\ SessionInv' /\ SingleCore'
  BY Zenon, <1>1, <1>3, ClearRollback, NoneLeft DEF procVars
<1>5. active' \in 0..generation' /\ RunnerTypeOK'
  BY <1>1, <1>3, Facts, RunnerBounds, ClosePreparedType
<1>6. CASE /\ frame.old # 0 /\ UNCHANGED status
           /\ frame' = [frame EXCEPT !.step = "rollback", !.errs = StopErrs]
  <2>1. frame' \in Frame /\ frame'.step = "rollback" /\ FrameInv'
    BY Zenon, <1>1, <1>2, <1>6, StopErrsType, ToRollback DEF InGate
  <2> QED BY Zenon, <1>1, <1>2, <1>4, <1>5, <1>6, <2>1, Facts, InGateStep
<1>7. CASE status' = Disconnected /\ Return(StopErrs)
  <2>1. frame' \in Frame /\ frame'.step = "return" /\ FrameInv'
    BY <1>1, <1>7, StopErrsType, Facts, Returns, RunnerBounds
  <2> QED BY Zenon, <1>1, <1>2, <1>4, <1>5, <1>7, <2>1, Facts, StatusTypes, InGateStep
<1> QED BY Zenon, <1>6, <1>7 DEF AbortReaped

\* A stuck stop within Disconnect or a late Connect preserves the invariant.
LEMMA StopStuckInv == ASSUME IInv, NEW c \in Clients, StopStuck(c) PROVE IInv'
<1>1. /\ InGate /\ gate # "free" /\ Return(StopErrs \cup {"stuck"}) /\ UNCHANGED runnerVars
      /\ UNCHANGED <<generation, active, status, sessions, monitor>>
  BY Zenon DEF StopStuck, Holds
<1>2. RunnerTypeOK' /\ status' \in Status
  BY Zenon, <1>1, Facts DEF RunnerTypeOK, runnerVars
<1> QED BY Zenon, <1>1, <1>2, StopErrsType, ReturnStep DEF runnerVars

-----------------------------------------------------------------------------
(* rollbackLocked *)

\* rollbackLocked runs in an open service without an active session, and its
\* target is a session.
LEMMA RollbackFacts ==
    ASSUME IInv, InRollback
    PROVE  /\ gate # "free" /\ active = 0 /\ ~closed /\ frame.errs \in SUBSET Errors
           /\ frame.oldStatus \in Status /\ 0 \in 0..generation
           /\ sessions[frame.old].prepared \in Configs /\ sessions[frame.old].profile \in Profiles
<1>1. frame.old # 0 /\ active = 0 /\ ~closed
  BY Zenon DEF IInv, CoreInv, FrameInv, InRollback
<1>2. frame.old \in 1..generation /\ 0 \in 0..generation
  BY <1>1, Facts, RunnerBounds
<1> QED BY Zenon, <1>1, <1>2, Facts DEF InRollback, Frame

\* A roll-back in time preserves the invariant.
LEMMA RollbackStartedInv == ASSUME IInv, RollbackStarted PROVE IInv'
<1> DEFINE previous == sessions[frame.old]
<1>1. /\ InRollback /\ InGate /\ StartOK(previous.prepared, "running")
      /\ Install(previous.profile, previous.prepared, frame.oldStatus, FALSE, FALSE, 0, Disconnected)
      /\ Return(frame.errs) /\ UNCHANGED configVars
  BY Zenon DEF RollbackStarted
<1> HIDE DEF previous
<1>2. /\ gate # "free" /\ active = 0 /\ frame.errs \in SUBSET Errors /\ frame.oldStatus \in Status
      /\ 0 \in 0..generation /\ previous.prepared \in Configs /\ previous.profile \in Profiles
  BY Zenon, <1>1, RollbackFacts DEF previous
<1>3. /\ prepares' \in 0..MaxPrepares /\ prepared' \in [Configs -> ConfigState]
      /\ onDisk' \subseteq Configs /\ removeFailed' \subseteq Configs /\ runnerClosed' \in BOOLEAN
  BY SMTT(30), <1>1, Facts DEF configVars, RunnerTypeOK
<1>4. frame' \in Frame /\ frame'.step = "return" /\ FrameInv'
  <2>1. generation' \in Nat /\ generation' >= generation
    <3>1. generation' = generation + 1
      BY Zenon, <1>1 DEF Install
    <3> QED BY <3>1, Bounds
  <2> QED BY Zenon, <2>1, <1>1, <1>2, Returns
<1> QED BY Zenon, <1>1, <1>2, <1>3, <1>4, StatusTypes, InstallStep

\* A roll-back that is too late, its process killed but tracked, preserves the
\* invariant.
LEMMA RollbackLateInv == ASSUME IInv, RollbackLate PROVE IInv'
<1> DEFINE previous == sessions[frame.old]
<1>1. /\ InRollback /\ InGate /\ \E state \in {"running", "killed"} : StartOK(previous.prepared, state)
      /\ Install(previous.profile, previous.prepared, StatusOf("disconnecting", previous.profile),
                 TRUE, TRUE, 0, Disconnected)
      /\ Return(frame.errs \cup {"rollback", "stuck"}) /\ UNCHANGED configVars
  BY ZenonT(60) DEF RollbackLate
<1> HIDE DEF previous
<1>2. /\ gate # "free" /\ active = 0 /\ frame.errs \cup {"rollback", "stuck"} \in SUBSET Errors
      /\ 0 \in 0..generation /\ previous.prepared \in Configs /\ previous.profile \in Profiles
  BY SMTT(30), <1>1, RollbackFacts DEF previous, Errors
<1>3. /\ prepares' \in 0..MaxPrepares /\ prepared' \in [Configs -> ConfigState]
      /\ onDisk' \subseteq Configs /\ removeFailed' \subseteq Configs /\ runnerClosed' \in BOOLEAN
  BY Zenon, <1>1, Facts DEF configVars, RunnerTypeOK
<1>4. frame' \in Frame /\ frame'.step = "return" /\ FrameInv'
  <2>1. generation' \in Nat /\ generation' >= generation
    <3>1. generation' = generation + 1
      BY Zenon, <1>1 DEF Install
    <3> QED BY <3>1, Bounds
  <2> QED BY ZenonT(60), <2>1, <1>1, <1>2, Returns
<1>5. StatusOf("disconnecting", previous.profile) \in Status /\ Disconnected \in Status
  BY Zenon, <1>2, StatusTypes
<1> QED BY Zenon, <1>1, <1>2, <1>3, <1>4, <1>5, InstallStep

\* A failed roll-back preserves the invariant.
LEMMA RollbackFailsInv == ASSUME IInv, RollbackFails PROVE IInv'
<1>1. /\ InRollback /\ InGate /\ ClosePrepared(sessions[frame.old].prepared)
      /\ status' = StatusOf("failed", sessions[frame.old].profile)
      /\ Return(frame.errs \cup {"rollback"})
      /\ UNCHANGED <<generation, active, sessions, monitor>> /\ UNCHANGED procVars
  BY Zenon DEF RollbackFails
<1>2. gate # "free" /\ frame.errs \cup {"rollback"} \in SUBSET Errors
  BY Zenon, <1>1, RollbackFacts DEF Errors
<1>3. RunnerTypeOK' /\ status' \in Status
  BY Zenon, <1>1, RollbackFacts, Facts, ClosePreparedType, StatusTypes
<1> QED BY Zenon, <1>1, <1>2, <1>3, ReturnStep DEF procVars

-----------------------------------------------------------------------------
(* Disconnect *)

\* Marking the active session as stopping keeps the sessions consistent.
LEMMA MarkStopping ==
    ASSUME IInv, active # 0, NEW previous \in {0, sessions[active].rollbackPrevious},
           sessions' = [sessions EXCEPT ![active].stopping = TRUE,
                                        ![active].rollbackPrevious = previous],
           UNCHANGED <<generation, active, monitor, starts, proc>>
    PROVE  sessions' \in [Generations -> Session \cup {NoSession}] /\ SessionInv' /\ SingleCore'
<1> DEFINE s == [sessions[active] EXCEPT !.stopping = TRUE, !.rollbackPrevious = previous]
<1>1. active \in 1..generation
  BY Facts, RunnerBounds
<1>2. /\ sessions[active] \in Session /\ sessions[active].process = active
      /\ sessions[active].rollbackPrevious \in 0..generation
  BY Zenon, <1>1 DEF IInv, CoreInv, SessionInv
<1>3. previous \in 0..generation /\ previous \in 0..MaxStarts
  BY <1>2, Facts, RunnerBounds
<1>4. s \in Session /\ s.process = active /\ s.rollbackPrevious \in 0..generation
  BY Zenon, <1>2, <1>3 DEF Session
<1>5. sessions' = [sessions EXCEPT ![active] = s]
  BY ZenonT(60), <1>1, Facts
<1> HIDE DEF s
<1> QED BY Zenon, <1>1, <1>4, <1>5, UpdateSession

\* The beginning of Disconnect preserves the invariant.
LEMMA DisconnectInv == ASSUME IInv, NEW c \in Clients, Disconnect(c) PROVE IInv'
<1>1. /\ Holds(c) /\ gate # "free" /\ InGate
      /\ UNCHANGED <<generation, active, monitor>> /\ UNCHANGED runnerVars
  BY Zenon DEF Disconnect, Admitted, Holds
<1>2. RunnerTypeOK'
  BY Zenon, <1>1, Facts DEF RunnerTypeOK, runnerVars
<1>3. CASE status' = Disconnected /\ Return({}) /\ UNCHANGED sessions
  BY Zenon, <1>1, <1>2, <1>3, ReturnStep, StatusTypes DEF runnerVars
<1>4. CASE /\ active # 0
           /\ sessions' = [sessions EXCEPT ![active].stopping = TRUE]
           /\ status' = [status EXCEPT !.state = "disconnecting"]
           /\ \E errs \in SignalErrs :
                frame' = [frame EXCEPT !.step = "grace", !.purpose = "disconnect", !.errs = errs]
  <2>1. PICK errs \in SUBSET Errors :
           frame' = [frame EXCEPT !.step = "grace", !.purpose = "disconnect", !.errs = errs]
    BY Zenon, <1>4, SignalErrsType
  <2>2. /\ frame' \in Frame /\ frame'.step = "grace" /\ frame'.purpose = "disconnect"
        /\ frame'.old = frame.old
    BY Zenon, <2>1, Facts DEF Frame, Steps, Purposes
  <2>3. FrameInv'
    BY <1>1, <1>4, <2>2, Facts, RunnerBounds DEF FrameInv
  <2>4. sessions' = [sessions EXCEPT ![active].stopping = TRUE,
                                     ![active].rollbackPrevious = sessions[active].rollbackPrevious]
    <3>1. active \in Generations /\ sessions[active] \in Session
      BY <1>4, Facts, RunnerBounds
    <3> QED BY Zenon, <1>4, <3>1, Facts DEF Session
  <2>5. sessions' \in [Generations -> Session \cup {NoSession}] /\ SessionInv' /\ SingleCore'
    BY Zenon, <1>1, <1>4, <2>4, MarkStopping DEF runnerVars
  <2>6. status' \in Status
    BY Zenon, <1>4, Facts, StatusTypes
  <2> QED BY <1>1, <1>2, <2>2, <2>3, <2>5, <2>6, Facts, InGateStep
<1> QED BY Zenon, <1>3, <1>4 DEF Disconnect

\* A step of the gate's holder that retires a collected active session preserves
\* the invariant.
LEMMA RetireStep ==
    ASSUME IInv, InGate, gate # "free", active # 0, proc[ActiveProcess] = "reaped", active' = 0,
           ClosePrepared(sessions[active].prepared), status' \in Status,
           NEW errs \in SUBSET Errors, Return(errs),
           UNCHANGED <<generation, sessions, monitor>>, UNCHANGED procVars
    PROVE  IInv'
<1>1. active \in 1..generation /\ active' \in 0..generation'
  BY Facts, RunnerBounds
<1>2. RunnerTypeOK'
  BY Zenon, <1>1, Facts, ClosePreparedType
<1>3. SessionInv' /\ SingleCore'
  BY Zenon, KeepsSessions, NoneLeft DEF procVars
<1>4. frame' \in Frame /\ frame'.step = "return" /\ FrameInv'
  BY Facts, Returns, RunnerBounds
<1> QED BY Zenon, <1>1, <1>2, <1>3, <1>4, Facts, InGateStep

\* The end of the session within Disconnect preserves the invariant.
LEMMA DisconnectReapedInv == ASSUME IInv, NEW c \in Clients, DisconnectReaped(c) PROVE IInv'
<1>1. /\ gate # "free" /\ frame.step \in {"grace", "kill"} /\ proc[ActiveProcess] = "reaped"
      /\ active' = 0 /\ ClosePrepared(sessions[active].prepared) /\ status' = Disconnected
      /\ Return(StopErrs) /\ InGate
      /\ UNCHANGED <<generation, sessions, monitor>> /\ UNCHANGED procVars
  BY Zenon DEF DisconnectReaped, Holds, Reaped
<1>2. active # 0
  BY <1>1 DEF IInv, CoreInv, FrameInv
<1> QED BY Zenon, <1>1, <1>2, StatusTypes, StopErrsType, RetireStep

-----------------------------------------------------------------------------
(* Monitors *)

\* process.Wait returning in a monitor preserves the invariant.
LEMMA MonitorWaitInv == ASSUME IInv, NEW g \in Generations, MonitorWait(g) PROVE IInv'
<1>1. g \in 1..generation /\ sessions[g].process = g
  BY SMTT(30), Facts, RunnerBounds DEF MonitorWait, IInv, CoreInv, SessionInv, Generations
<1>2. /\ monitor[g] = "wait" /\ proc[g] = "exited"
      /\ proc' = [proc EXCEPT ![g] = "reaped"]
      /\ monitor' = [monitor EXCEPT ![g] = "acquire"]
      /\ UNCHANGED <<starts, prepares, prepared, onDisk, removeFailed, runnerClosed>>
      /\ UNCHANGED <<gate, frame, closer>> /\ UNCHANGED serviceVars /\ UNCHANGED callVars
  BY Zenon, <1>1 DEF MonitorWait, WaitReturns
<1>3. TypeOK'
  BY Zenon, <1>2 DEF IInv, TypeOK, RunnerTypeOK, ProcState, serviceVars, callVars
<1>4. GateInv'
  BY SMTT(30), <1>2 DEF IInv, CoreInv, TypeOK, GateInv, serviceVars, callVars
<1>5. SessionInv'
  BY <1>1, <1>2, Facts, RunnerBounds
  DEF IInv, CoreInv, RunnerTypeOK, SessionInv, serviceVars, Generations, Processes
<1>6. FrameInv'
  BY ZenonT(60), <1>2 DEF IInv, CoreInv, FrameInv, serviceVars, callVars
<1>7. SingleCore'
  BY Zenon, <1>2, Facts DEF IInv, CoreInv, RunnerTypeOK, SingleCore, Unreaped, Running, serviceVars
<1> QED BY <1>3, <1>4, <1>5, <1>6, <1>7 DEF IInv, CoreInv

\* A monitor that takes the gate preserves the invariant.
LEMMA MonitorAcquireInv == ASSUME IInv, NEW g \in Generations, MonitorAcquire(g) PROVE IInv'
<1>1. frame' \in Frame /\ frame'.step = "entered" /\ frame'.old = 0
  BY Zenon, EnteredFrame DEF MonitorAcquire
<1>2. TypeOK'
  BY Zenon, <1>1 DEF IInv, TypeOK, RunnerTypeOK, MonitorAcquire, serviceVars, callVars, runnerVars
<1>3. GateInv'
  BY <1>1 DEF IInv, CoreInv, TypeOK, GateInv, MonitorAcquire, serviceVars, callVars
<1>4. SessionInv'
  BY Zenon DEF IInv, CoreInv, TypeOK, SessionInv, MonitorAcquire, serviceVars, runnerVars
<1>5. FrameInv'
  BY <1>1, Facts, RunnerBounds DEF FrameInv, MonitorAcquire, serviceVars
<1>6. SingleCore'
  BY Zenon, KeepsCore DEF MonitorAcquire, serviceVars, runnerVars
<1> QED BY <1>2, <1>3, <1>4, <1>5, <1>6 DEF IInv, CoreInv

\* A monitor whose session is no longer active preserves the invariant.
LEMMA MonitorSupersededInv == ASSUME IInv, NEW g \in Generations, MonitorSuperseded(g) PROVE IInv'
<1>1. /\ InGate /\ gate # "free" /\ Return({}) /\ UNCHANGED runnerVars
      /\ UNCHANGED <<generation, active, status, sessions, monitor>>
  BY Zenon DEF MonitorSuperseded, MonitorHolds
<1>2. RunnerTypeOK' /\ status' \in Status
  BY SMTT(30), <1>1, Facts DEF RunnerTypeOK, runnerVars
<1> QED BY Zenon, <1>1, <1>2, ReturnStep DEF runnerVars

\* The monitor of the active session acts on a process that has been collected.
LEMMA CurrentFacts ==
    ASSUME IInv, NEW g \in Generations, Current(g)
    PROVE  /\ gate = "monitor" /\ active = g /\ active \in 1..generation /\ active # 0
           /\ proc[ActiveProcess] = "reaped"
           /\ \A c \in Clients : call[c].pc # "holding"
<1>1. gate = "monitor" /\ active = g /\ monitor[g] = "holding"
  BY Zenon DEF Current, MonitorHolds, Superseded
<1>2. active \in 1..generation /\ active # 0
  BY <1>1, Facts, RunnerBounds DEF Generations
<1>3. proc[ActiveProcess] = "reaped"
  BY Zenon, <1>1, <1>2 DEF IInv, CoreInv, SessionInv, ActiveProcess
<1> QED BY <1>1, <1>2, <1>3 DEF IInv, CoreInv, GateInv

\* A monitor that begins a roll-back preserves the invariant.
LEMMA MonitorRollbackInv == ASSUME IInv, NEW g \in Generations, MonitorRollback(g) PROVE IInv'
<1> DEFINE previous == sessions[g].rollbackPrevious
<1>1. /\ Current(g) /\ previous # 0 /\ ~closed /\ active' = 0 /\ InGate
      /\ CloseSuperseded(g, previous)
      /\ frame' = [frame EXCEPT !.step = "rollback", !.old = previous,
                                !.oldStatus = sessions[g].rollbackStatus]
      /\ sessions' = [sessions EXCEPT ![g].rollbackPrevious = 0]
      /\ UNCHANGED <<generation, status, monitor>> /\ UNCHANGED procVars
  BY Zenon DEF MonitorRollback, RollbackOnExit
<1>2. /\ gate # "free" /\ g \in 1..generation /\ active # 0 /\ proc[ActiveProcess] = "reaped"
      /\ \A c \in Clients : call[c].pc # "holding"
  BY SMTT(30), <1>1, CurrentFacts
<1>3. /\ previous \in 0..generation /\ previous \in 0..MaxStarts
      /\ sessions[g].rollbackStatus \in Status /\ sessions[g].prepared \in Configs
  BY Zenon, <1>2, Facts, RunnerBounds DEF IInv, CoreInv, SessionInv, Session
<1> HIDE DEF previous
<1>4. frame' \in Frame /\ frame'.step = "rollback" /\ frame'.old = previous
  BY Zenon, <1>1, <1>3, Facts DEF Frame, Steps
<1>5. FrameInv'
  BY <1>1, <1>3, <1>4, Facts, RunnerBounds DEF FrameInv, InGate
<1>6. RunnerTypeOK'
  <2>1. CASE UNCHANGED configVars
    BY Zenon, <1>1, <2>1, Facts DEF RunnerTypeOK, configVars, procVars
  <2>2. CASE ClosePrepared(sessions[g].prepared)
    BY Zenon, <1>1, <1>3, <2>2, Facts, ClosePreparedType
  <2> QED BY Zenon, <1>1, <2>1, <2>2 DEF CloseSuperseded
<1>7. sessions' \in [Generations -> Session \cup {NoSession}] /\ SessionInv' /\ SingleCore'
  BY Zenon, <1>1, <1>2, ClearRollback, NoneLeft DEF procVars
<1>8. active' \in 0..generation'
  BY <1>1, Facts, RunnerBounds
<1> QED BY Zenon, <1>1, <1>2, <1>4, <1>5, <1>6, <1>7, <1>8, Facts, InGateStep

\* A monitor that retires its session preserves the invariant.
LEMMA MonitorRetireInv == ASSUME IInv, NEW g \in Generations, MonitorRetire(g) PROVE IInv'
<1>1. /\ Current(g) /\ active' = 0 /\ ClosePrepared(sessions[g].prepared) /\ Return({}) /\ InGate
      /\ status' = StatusOf("failed", sessions[g].profile) \/ status' = Disconnected
      /\ UNCHANGED <<generation, sessions, monitor>> /\ UNCHANGED procVars
  BY Zenon DEF MonitorRetire
<1>2. /\ gate # "free" /\ active = g /\ g \in 1..generation /\ active # 0
      /\ proc[ActiveProcess] = "reaped"
  BY Zenon, <1>1, CurrentFacts
<1>3. status' \in Status
  BY Zenon, <1>1, <1>2, Facts, StatusTypes
<1> QED BY Zenon, <1>1, <1>2, <1>3, RetireStep

\* A monitor that releases the gate preserves the invariant.
LEMMA MonitorReleaseInv == ASSUME IInv, NEW g \in Generations, MonitorRelease(g) PROVE IInv'
<1>1. frame' \in Frame /\ frame'.step = "none" /\ frame'.old = 0
  BY Zenon, NoFrameType DEF MonitorRelease
<1>2. TypeOK'
  BY Zenon, <1>1 DEF IInv, TypeOK, RunnerTypeOK, MonitorRelease, serviceVars, callVars, runnerVars
<1>3. GateInv'
  BY Zenon, <1>1 DEF IInv, CoreInv, TypeOK, GateInv, MonitorRelease, MonitorHolds, serviceVars, callVars
<1>4. SessionInv'
  BY Zenon DEF IInv, CoreInv, TypeOK, SessionInv, MonitorRelease, MonitorHolds, serviceVars, runnerVars
<1>5. FrameInv'
  BY <1>1, Facts, RunnerBounds DEF FrameInv, MonitorRelease, serviceVars
<1>6. SingleCore'
  BY Zenon, KeepsCore DEF MonitorRelease, serviceVars, runnerVars
<1> QED BY <1>2, <1>3, <1>4, <1>5, <1>6 DEF IInv, CoreInv

-----------------------------------------------------------------------------
(* Close *)

\* A call of Close preserves the invariant.
LEMMA CloseCallInv == ASSUME IInv, CloseCall PROVE IInv'
<1>1. TypeOK'
  BY SMTT(30) DEF IInv, TypeOK, RunnerTypeOK, CloseCall, serviceVars, callVars, runnerVars
<1>2. GateInv' /\ FrameInv'
  BY Zenon DEF IInv, CoreInv, GateInv, FrameInv, CloseCall, serviceVars, callVars
<1>3. SessionInv' /\ SingleCore'
  BY Zenon, KeepsSessions, KeepsCore DEF CloseCall, serviceVars, runnerVars
<1> QED BY Zenon, <1>1, <1>2, <1>3 DEF IInv, CoreInv

\* A Close that stops waiting for the monitors preserves the invariant.
LEMMA CloseTimeoutInv == ASSUME IInv, CloseTimeout PROVE IInv'
<1>1. TypeOK'
  BY SMTT(30) DEF IInv, TypeOK, RunnerTypeOK, CloseTimeout, serviceVars, callVars, runnerVars
<1>2. GateInv' /\ FrameInv'
  BY Zenon DEF IInv, CoreInv, GateInv, FrameInv, CloseTimeout, serviceVars, callVars
<1>3. SessionInv' /\ SingleCore'
  BY Zenon, KeepsSessions, KeepsCore DEF CloseTimeout, serviceVars, runnerVars
<1> QED BY <1>1, <1>2, <1>3 DEF IInv, CoreInv

\* Closing the runner preserves the invariant.
LEMMA CloseRunnerInv == ASSUME IInv, CloseRunner PROVE IInv'
<1>1. /\ closer \in {"waitMonitors", "deferred"} /\ closer' = "done" /\ UNCHANGED <<starts, proc>>
      /\ RunnerClose /\ UNCHANGED <<gate, monitor, frame>>
      /\ UNCHANGED serviceVars /\ UNCHANGED callVars
  BY Zenon DEF CloseRunner, RunnerClose, runnerVars
<1>2. RunnerTypeOK'
  BY Zenon, <1>1, Facts, RunnerCloseType
<1>3. TypeOK'
  BY SMTT(30), <1>1, <1>2 DEF IInv, TypeOK, serviceVars, callVars
<1>4. GateInv' /\ FrameInv'
  BY Zenon, <1>1 DEF IInv, CoreInv, GateInv, FrameInv, serviceVars, callVars
<1>5. SessionInv' /\ SingleCore'
  BY Zenon, <1>1, KeepsSessions, KeepsCore DEF serviceVars
<1> QED BY <1>3, <1>4, <1>5 DEF IInv, CoreInv

\* Close taking the gate and signalling the session preserves the invariant.
LEMMA CloseBeginInv == ASSUME IInv, CloseBegin PROVE IInv'
<1>1. /\ closer = "acquire" /\ gate = "free" /\ gate' = "closer" /\ closer' = "holding"
      /\ closed' = TRUE /\ UNCHANGED <<generation, active, monitor>>
      /\ UNCHANGED callVars /\ UNCHANGED runnerVars
  BY Zenon DEF CloseBegin
<1>2. CASE frame' = [NoFrame EXCEPT !.step = "return"] /\ UNCHANGED <<sessions, status>>
  <2>1. frame' \in Frame /\ frame'.step = "return" /\ frame'.old = 0
    BY Zenon, <1>2, NoFrameType DEF Frame, Steps
  <2>2. TypeOK'
    BY <1>1, <1>2, <2>1 DEF IInv, TypeOK, RunnerTypeOK, callVars, runnerVars
  <2>3. GateInv'
    BY ZenonT(60), <1>1, <2>1 DEF IInv, CoreInv, GateInv, callVars
  <2>4. FrameInv'
    BY <1>1, <2>1, Facts, RunnerBounds DEF FrameInv
  <2>5. SessionInv' /\ SingleCore'
    BY Zenon, <1>1, <1>2, KeepsSessions, KeepsCore DEF runnerVars
  <2> QED BY Zenon, <2>2, <2>3, <2>4, <2>5 DEF IInv, CoreInv
<1>3. CASE /\ active # 0
           /\ sessions' = [sessions EXCEPT ![active].stopping = TRUE,
                                           ![active].rollbackPrevious = 0]
           /\ status' = [status EXCEPT !.state = "disconnecting"]
           /\ \E errs \in SignalErrs :
                frame' = [NoFrame EXCEPT !.step = "grace", !.purpose = "close", !.errs = errs]
  <2>1. PICK errs \in SUBSET Errors :
           frame' = [NoFrame EXCEPT !.step = "grace", !.purpose = "close", !.errs = errs]
    BY Zenon, <1>3, SignalErrsType
  <2>2. /\ frame' \in Frame /\ frame'.step = "grace" /\ frame'.old = 0
        /\ frame'.purpose = "close"
    BY Zenon, <2>1, NoFrameType DEF Frame, Steps, Purposes
  <2>3. sessions' \in [Generations -> Session \cup {NoSession}] /\ SessionInv' /\ SingleCore'
    BY ZenonT(60), <1>1, <1>3, MarkStopping DEF runnerVars
  <2>4. status' \in Status
    BY Zenon, <1>3, Facts, StatusTypes
  <2>5. TypeOK'
    BY SMTT(30), <1>1, <2>2, <2>3, <2>4 DEF IInv, TypeOK, RunnerTypeOK, callVars, runnerVars
  <2>6. GateInv'
    BY <1>1, <2>2 DEF IInv, CoreInv, GateInv, callVars
  <2>7. FrameInv'
    BY <1>1, <1>3, <2>2, Facts, RunnerBounds DEF FrameInv
  <2> QED BY Zenon, <2>3, <2>5, <2>6, <2>7 DEF IInv, CoreInv
<1> QED BY ZenonT(60), <1>2, <1>3 DEF CloseBegin

\* The end of the session within Close preserves the invariant.
LEMMA CloseReapedInv == ASSUME IInv, CloseReaped PROVE IInv'
<1>1. /\ closer = "holding" /\ frame.step \in {"grace", "kill"} /\ proc[ActiveProcess] = "reaped"
      /\ active' = 0 /\ ClosePrepared(sessions[active].prepared) /\ status' = Disconnected
      /\ Return(StopErrs) /\ InGate
      /\ UNCHANGED <<generation, sessions, monitor>> /\ UNCHANGED procVars
  BY SMTT(30) DEF CloseReaped, Reaped
<1>2. active # 0 /\ gate # "free"
  BY Zenon, <1>1 DEF IInv, CoreInv, FrameInv, GateInv
<1> QED BY Zenon, <1>1, <1>2, StatusTypes, StopErrsType, RetireStep

\* A stuck stop within Close preserves the invariant.
LEMMA CloseStuckInv == ASSUME IInv, CloseStuck PROVE IInv'
<1>1. /\ closer = "holding" /\ InGate /\ Return(StopErrs \cup {"stuck"}) /\ UNCHANGED runnerVars
      /\ UNCHANGED <<generation, active, status, sessions, monitor>>
  BY SMTT(30) DEF CloseStuck
<1>2. gate # "free" /\ RunnerTypeOK' /\ status' \in Status
  BY SMTT(30), <1>1, Facts DEF RunnerTypeOK, runnerVars, IInv, CoreInv, GateInv
<1> QED BY Zenon, <1>1, <1>2, StopErrsType, ReturnStep DEF runnerVars

\* Signals and exits change neither which processes exist nor which have been
\* collected.
LEMMA KeepsUnreaped ==
    ASSUME IInv, proc' \in [Processes -> ProcState],
           \A q \in Processes : Running(q)' <=> Running(q),
           \A q \in Processes : ~Running(q) => proc'[q] = proc[q],
           UNCHANGED <<generation, active, sessions, monitor, starts>>
    PROVE  SessionInv' /\ SingleCore' /\ Unreaped' = Unreaped
<1>1. SessionInv'
  BY Zenon DEF IInv, CoreInv, SessionInv, Generations, Processes, Running
<1> QED BY Zenon, <1>1 DEF IInv, CoreInv, SingleCore, Unreaped

\* Close cancelling the lifetime context and releasing the gate preserves the
\* invariant.
LEMMA CloseReleaseInv == ASSUME IInv, CloseRelease PROVE IInv'
<1>1. /\ closer = "holding" /\ gate' = "free" /\ frame' = NoFrame /\ closer' = "waitMonitors"
      /\ UNCHANGED monitor /\ UNCHANGED serviceVars /\ UNCHANGED callVars
      /\ UNCHANGED runnerVars
  BY Zenon DEF CloseRelease
<1>2. frame' \in Frame /\ frame'.step = "none" /\ frame'.old = 0
  BY Zenon, <1>1, NoFrameType
<1>3. /\ proc' \in [Processes -> ProcState]
      /\ \A q \in Processes : Running(q)' <=> Running(q)
      /\ \A q \in Processes : ~Running(q) => proc'[q] = proc[q]
  BY Zenon, <1>1, Facts DEF RunnerTypeOK, runnerVars, Running
<1>4. TypeOK'
  BY SMTT(30), <1>1, <1>2 DEF IInv, TypeOK, RunnerTypeOK, serviceVars, callVars, runnerVars
<1>5. GateInv'
  BY Zenon, <1>1, <1>2 DEF IInv, CoreInv, GateInv, serviceVars, callVars
<1>6. SessionInv' /\ SingleCore'
  BY SMTT(30), <1>1, <1>3, KeepsUnreaped DEF serviceVars, runnerVars
<1>7. FrameInv'
  BY <1>1, <1>2, Facts, RunnerBounds DEF FrameInv, serviceVars
<1> QED BY Zenon, <1>4, <1>5, <1>6, <1>7 DEF IInv, CoreInv

\* The kill of a process whose context is cancelled preserves the invariant.
LEMMA ContextKillsInv == ASSUME IInv, NEW g \in 1..generation, ContextKills(g) PROVE IInv'
<1>1. /\ proc[sessions[g].process] = "running"
      /\ proc' = [proc EXCEPT ![sessions[g].process] = IF @ = "running" THEN "killed" ELSE @]
      /\ UNCHANGED <<starts, prepares, prepared, onDisk, removeFailed, runnerClosed>>
      /\ UNCHANGED <<gate, monitor, frame, closer>> /\ UNCHANGED serviceVars /\ UNCHANGED callVars
  BY Zenon DEF ContextKills, KillOK, configVars
<1>2. /\ proc' \in [Processes -> ProcState]
      /\ \A r \in Processes : Running(r)' <=> Running(r)
      /\ \A r \in Processes : ~Running(r) => proc'[r] = proc[r]
  BY Zenon, <1>1, Facts DEF RunnerTypeOK, ProcState, Running
<1>3. TypeOK'
  BY <1>1, <1>2 DEF IInv, TypeOK, RunnerTypeOK, serviceVars, callVars
<1>4. GateInv' /\ FrameInv'
  BY ZenonT(60), <1>1 DEF IInv, CoreInv, GateInv, FrameInv, serviceVars, callVars
<1>5. SessionInv' /\ SingleCore'
  BY Zenon, <1>1, <1>2, KeepsUnreaped DEF serviceVars
<1> QED BY Zenon, <1>3, <1>4, <1>5 DEF IInv, CoreInv

\* The exit of a core process preserves the invariant.
LEMMA ExitInv == ASSUME IInv, NEW q \in Processes, Exit(q) PROVE IInv'
<1>1. /\ proc[q] \in {"running", "killed"} /\ proc' = [proc EXCEPT ![q] = "exited"]
      /\ UNCHANGED <<starts, prepares, prepared, onDisk, removeFailed, runnerClosed>>
      /\ UNCHANGED <<gate, monitor, frame, closer>> /\ UNCHANGED serviceVars /\ UNCHANGED callVars
  BY Zenon DEF Exit, ProcessExit
<1>2. /\ proc' \in [Processes -> ProcState]
      /\ \A r \in Processes : Running(r)' <=> Running(r)
      /\ \A r \in Processes : ~Running(r) => proc'[r] = proc[r]
  BY SMTT(30), <1>1, Facts DEF RunnerTypeOK, ProcState, Running
<1>3. TypeOK'
  BY <1>1, <1>2 DEF IInv, TypeOK, RunnerTypeOK, serviceVars, callVars
<1>4. GateInv' /\ FrameInv'
  BY ZenonT(60), <1>1 DEF IInv, CoreInv, GateInv, FrameInv, serviceVars, callVars
<1>5. SessionInv' /\ SingleCore'
  BY Zenon, <1>1, <1>2, KeepsUnreaped DEF serviceVars
<1> QED BY Zenon, <1>3, <1>4, <1>5 DEF IInv, CoreInv

\* A stuttering step preserves the invariant.
LEMMA StutterInv == ASSUME IInv, UNCHANGED vars PROVE IInv'
<1>1. TypeOK'
  BY DEF IInv, TypeOK, RunnerTypeOK, vars
<1>2. GateInv' /\ FrameInv'
  BY Zenon DEF IInv, CoreInv, GateInv, FrameInv, vars
<1>3. SessionInv' /\ SingleCore'
  BY Zenon, KeepsSessions, KeepsCore DEF vars
<1> QED BY SMTT(30), <1>1, <1>2, <1>3 DEF IInv, CoreInv

\* Every step of the daemon preserves the invariant.
LEMMA NextInv == IInv /\ [Next]_vars => IInv'
<1> SUFFICES ASSUME IInv, [Next]_vars PROVE IInv'
  OBVIOUS
<1>1. ASSUME NEW c \in Clients, ClientStep(c) PROVE IInv'
  BY SMTT(30), <1>1, RefusedInv, QueryInv, DisconnectInv, DisconnectReapedInv, ConnectPrepareInv,
     ConnectRejectedInv, ConnectCheckedInv, ConnectExpiredInv, ConnectStartFailsInv,
     ConnectStartedInv, ConnectStartedLateInv, ReplaceReapedInv, ReplaceStuckInv,
     AbortReapedInv, StopStuckInv, ReleaseInv
  DEF ClientStep, ConnectStep
<1>2. ASSUME NEW g \in Generations, MonitorStep(g) PROVE IInv'
  BY Zenon, <1>2, MonitorSupersededInv, MonitorRollbackInv, MonitorRetireInv, MonitorReleaseInv
  DEF MonitorStep
<1>3. CASE StopKill \/ RollbackStep \/ CloserStep
  BY Zenon, <1>3, StopKillInv, RollbackStartedInv, RollbackLateInv, RollbackFailsInv,
     CloseReapedInv, CloseStuckInv, CloseReleaseInv
  DEF RollbackStep, CloserStep
<1>4. CASE GateStep
  BY Zenon, <1>1, <1>2, <1>3, <1>4 DEF GateStep
<1>5. ASSUME NEW c \in Clients,
             \/ \E op \in {"connect", "disconnect", "query"}, p \in Profiles : Call(c, op, p)
             \/ Expire(c) \/ AcquireExpired(c) \/ Acquire(c)
      PROVE  IInv'
  BY Zenon, <1>5, CallInv, ExpireInv, AcquireExpiredInv, AcquireInv
<1>6. ASSUME NEW g \in Generations, MonitorWait(g) \/ MonitorAcquire(g) PROVE IInv'
  BY Zenon, <1>6, MonitorWaitInv, MonitorAcquireInv
<1>7. CASE CloseCall \/ CloseBegin \/ CloseTimeout \/ CloseRunner
  BY Zenon, <1>7, CloseCallInv, CloseBeginInv, CloseTimeoutInv, CloseRunnerInv
<1>8. ASSUME NEW g \in 1..generation, ContextKills(g) PROVE IInv'
  BY Zenon, <1>8, ContextKillsInv
<1>9. ASSUME NEW q \in Processes, Exit(q) PROVE IInv'
  BY Zenon, <1>9, ExitInv
<1>10. CASE UNCHANGED vars
  BY Zenon, <1>10, StutterInv
<1> QED BY Zenon, <1>4, <1>5, <1>6, <1>7, <1>8, <1>9, <1>10 DEF Next

\* The daemon starts in the invariant.
LEMMA InitInv == Init => IInv
<1> SUFFICES ASSUME Init PROVE IInv
  OBVIOUS
<1>1. prepares \in 0..MaxPrepares /\ starts \in 0..MaxStarts /\ generation \in 0..MaxStarts
      /\ active \in 0..generation
  BY RunnerBounds DEF Init, RunnerInit
<1>2. /\ prepared \in [Configs -> ConfigState] /\ onDisk \subseteq Configs
      /\ removeFailed \subseteq Configs /\ proc \in [Processes -> ProcState]
  BY Zenon DEF Init, RunnerInit, ConfigState, ProcState
<1>3. /\ runnerClosed \in BOOLEAN /\ closed \in BOOLEAN /\ expired \in [Clients -> BOOLEAN]
  BY Zenon DEF Init, RunnerInit
<1>4. /\ sessions \in [Generations -> Session \cup {NoSession}]
      /\ monitor \in [Generations -> {"none", "wait", "acquire", "holding", "finished"}]
      /\ call \in [Clients -> CallRecord] /\ frame \in Frame /\ status \in Status
  BY Zenon, NoFrameType, StatusTypes DEF Init, CallRecord, NoCall
<1>5. TypeOK
  BY SMTT(30), <1>1, <1>2, <1>3, <1>4 DEF Init, TypeOK, RunnerTypeOK
<1>6. GateInv /\ SessionInv
  BY RunnerBounds, NoFrameType DEF Init, RunnerInit, GateInv, SessionInv, Generations, Processes, NoCall
<1>7. FrameInv /\ SingleCore
  BY NoFrameType DEF Init, RunnerInit, FrameInv, SingleCore, Unreaped, Running
<1> QED BY Zenon, <1>5, <1>6, <1>7 DEF IInv, CoreInv

\* In every behaviour of the service, the gate has one holder, sessions and
\* processes correspond, and the operation inside the gate is where its frame says.
THEOREM Invariance == Spec => []IInv
<1>1. Init => IInv
  BY Zenon, InitInv
<1>2. IInv /\ [Next]_vars => IInv'
  BY Zenon, NextInv
<1> QED BY <1>1, <1>2, PTL DEF Spec

\* The state of the service and of the runner stays well typed: no field of
\* Service, session or execRunner leaves its domain.
THEOREM TypeCorrect == Spec => []TypeOK
<1>1. IInv => TypeOK
  BY Zenon DEF IInv
<1> QED BY <1>1, Invariance, PTL

\* At any time at most one core process exists that has not been collected, and it
\* is the one of Service.active, whatever the callers, processes and timers do.
THEOREM OneCore == Spec => []SingleCore
<1>1. IInv => SingleCore
  BY Zenon DEF IInv, CoreInv
<1> QED BY <1>1, Invariance, PTL

\* A successful runner.Start without an active session launches into an empty slot.
LEMMA LaunchStep ==
    ASSUME IInv, active = 0, ~closed, closed' = closed, NEW p, NEW state \in {"running", "killed"},
           StartOK(p, state)
    PROVE  Slot!Launch
<1>1. starts + 1 \in Processes /\ starts < MaxStarts
  BY Zenon, StartType, Facts DEF StartOK, Startable
<1>2. Unreaped = {}
  BY Zenon DEF IInv, CoreInv, SingleCore
<1>3. Unreaped' = {starts + 1}
  BY Zenon, <1>1, <1>2, Facts DEF StartOK, Unreaped, Running, RunnerTypeOK
<1> QED BY Zenon, <1>1, <1>2, <1>3 DEF Slot!Launch, StartOK

\* A step that leaves processes and the closed flag alone is invisible to the slot.
LEMMA QuietStep ==
    ASSUME UNCHANGED <<closed, starts, proc>>
    PROVE  UNCHANGED Slot!slotVars
  BY SMTT(30) DEF Slot!slotVars, Unreaped, Running

\* Every step of the service is a step of the one-slot specification or
\* invisible to it.
LEMMA SlotStep == IInv /\ [Next]_vars => [Slot!SlotNext]_(Slot!slotVars)
<1> SUFFICES ASSUME IInv, [Next]_vars PROVE [Slot!SlotNext]_(Slot!slotVars)
  OBVIOUS
<1>1. ASSUME NEW c \in Clients, ConnectStarted(c) \/ ConnectStartedLate(c) PROVE Slot!Launch
  <2>1. Holds(c) /\ frame.step = "start" /\ StartOK(frame.prepared, "running") /\ closed' = closed
    BY Zenon, <1>1 DEF ConnectStarted, ConnectStartedLate, InGate
  <2>2. active = 0 /\ ~closed
    BY Zenon, <2>1 DEF IInv, CoreInv, FrameInv
  <2> QED BY Zenon, <2>1, <2>2, LaunchStep
<1>2. CASE RollbackStarted \/ RollbackLate
  <2>1. /\ InRollback /\ closed' = closed
        /\ \E state \in {"running", "killed"} : StartOK(sessions[frame.old].prepared, state)
    BY ZenonT(60), <1>2 DEF RollbackStarted, RollbackLate, InGate
  <2>2. active = 0 /\ ~closed
    BY Zenon, <2>1, RollbackFacts
  <2> QED BY Zenon, <2>1, <2>2, LaunchStep DEF Slot!SlotNext
<1>3. ASSUME NEW g \in Generations, MonitorWait(g) PROVE Slot!Collect
  <2>1. sessions[g].process = g
    BY SMTT(30), <1>3, Facts, RunnerBounds DEF MonitorWait, IInv, CoreInv, SessionInv, Generations
  <2>2. /\ proc[g] = "exited" /\ proc' = [proc EXCEPT ![g] = "reaped"] /\ g \in Processes
        /\ UNCHANGED <<starts, closed>>
    BY Zenon, <1>3, <2>1 DEF MonitorWait, WaitReturns, serviceVars, Generations, Processes
  <2>3. g \in Unreaped /\ Unreaped' = Unreaped \ {g}
    BY Zenon, <2>2, Facts DEF Unreaped, Running, RunnerTypeOK
  <2> QED BY SMTT(30), <2>2, <2>3 DEF Slot!Collect
<1>4. CASE CloseBegin
  <2>1. ~closed /\ closed' = TRUE /\ UNCHANGED runnerVars
    BY Zenon, <1>4 DEF CloseBegin, IInv, CoreInv, GateInv
  <2> QED BY Zenon, <2>1 DEF Slot!SlotNext, Slot!Halt, runnerVars, Unreaped, Running
<1>5. CASE StopKill
  <2>1. UNCHANGED <<generation, active, sessions, monitor, starts, closed>>
    BY Zenon, <1>5 DEF StopKill, InGate
  <2>2. CASE UNCHANGED proc
    BY Zenon, <2>1, <2>2, QuietStep
  <2>3. CASE KillOK(ActiveProcess)
    BY Zenon, <2>1, <2>3, Facts DEF KillOK, Unreaped, Running, RunnerTypeOK, Slot!slotVars
  <2> QED BY Zenon, <1>5, <2>2, <2>3 DEF StopKill
<1>6. ASSUME NEW g \in 1..generation, ContextKills(g) PROVE UNCHANGED Slot!slotVars
  BY Zenon, <1>6, Facts DEF ContextKills, KillOK, serviceVars, Unreaped, Running, RunnerTypeOK, Slot!slotVars
<1>7. ASSUME NEW q \in Processes, Exit(q) PROVE UNCHANGED Slot!slotVars
  BY Zenon, <1>7, Facts DEF Exit, ProcessExit, serviceVars, Unreaped, Running, RunnerTypeOK, Slot!slotVars
<1>8. ASSUME NEW c \in Clients,
             \/ Refused(c) \/ Query(c) \/ Disconnect(c) \/ DisconnectReaped(c) \/ ConnectPrepare(c)
             \/ ConnectRejected(c) \/ ConnectChecked(c) \/ ConnectExpired(c) \/ ConnectStartFails(c)
             \/ ReplaceReaped(c) \/ ReplaceStuck(c) \/ AbortReaped(c) \/ StopStuck(c) \/ Release(c)
             \/ \E op \in {"connect", "disconnect", "query"}, p \in Profiles : Call(c, op, p)
             \/ Expire(c) \/ AcquireExpired(c) \/ Acquire(c)
      PROVE  UNCHANGED <<closed, starts, proc>>
  BY Zenon, <1>8 DEF Refused, Query, Disconnect, DisconnectReaped, ConnectPrepare, PrepareOK, PrepareFails,
     ConnectRejected, ConnectChecked, CheckOK, ConnectExpired, ConnectStartFails, ReplaceReaped,
     ReplaceStuck, AbortReaped, StopStuck, Release, Call, Expire, AcquireExpired, Acquire,
     InGate, procVars, runnerVars, serviceVars
<1>9. ASSUME NEW g \in Generations, MonitorStep(g) \/ MonitorAcquire(g)
      PROVE  UNCHANGED <<closed, starts, proc>>
  BY Zenon, <1>9 DEF MonitorStep, MonitorSuperseded, MonitorRollback, MonitorRetire, MonitorRelease,
     MonitorAcquire, InGate, procVars, runnerVars, serviceVars
<1>10. CASE RollbackFails \/ CloseReaped \/ CloseStuck \/ CloseRelease \/ CloseCall \/ CloseTimeout \/ CloseRunner
  <2>1. UNCHANGED <<closed, starts, proc>>
    BY Zenon, <1>10 DEF RollbackFails, CloseReaped, CloseStuck, CloseRelease, CloseCall, CloseTimeout, CloseRunner,
       RunnerClose, InGate, procVars, runnerVars, serviceVars
  <2> QED BY Zenon, <2>1, QuietStep
<1>11. CASE UNCHANGED vars
  BY Zenon, <1>11, QuietStep DEF vars
<1> QED
  BY <1>1, <1>2, <1>3, <1>4, <1>5, <1>6, <1>7, <1>8, <1>9, <1>10, <1>11, QuietStep
  DEF Next, GateStep, ClientStep, ConnectStep, RollbackStep, CloserStep, Slot!SlotNext

\* The service of internal/daemon implements the one-slot specification: cores
\* never overlap, and none is started once Close has taken the gate.
THEOREM Refinement == Spec => ImplementsSlot
<1>1. Init => Slot!SlotInit
  BY Zenon DEF Init, RunnerInit, Slot!SlotInit, Unreaped, Running
<1>2. IInv /\ [Next]_vars => [Slot!SlotNext]_(Slot!slotVars)
  BY Zenon, SlotStep
<1> QED BY <1>1, <1>2, Invariance, PTL DEF Spec, ImplementsSlot, Slot!SlotSpec

-----------------------------------------------------------------------------
(* Files whose removal failed *)

\* closePrepared deletes the entry only together with the file.
LEMMA RetryClosed ==
    ASSUME IInv, RetryPossible, NEW p, ClosePrepared(p)
    PROVE  RetryPossible'
<1>1. onDisk \subseteq Configs /\ DOMAIN prepared = Configs
  BY Zenon, Facts DEF RunnerTypeOK
<1> QED BY Zenon, <1>1 DEF RetryPossible, ClosePrepared, RemoveFails, configVars

\* Prepare enters a new file in the map, or leaves one that never had an entry.
LEMMA RetryPrepared ==
    ASSUME IInv, RetryPossible, PrepareOK \/ PrepareFails
    PROVE  RetryPossible'
<1>1. CASE UNCHANGED runnerVars
  BY Zenon, <1>1 DEF RetryPossible, runnerVars
<1>2. CASE ~UNCHANGED runnerVars
  <2>1. PICK state \in {"open", "unnamed"} :
          /\ ~runnerClosed /\ prepares < MaxPrepares /\ onDisk' = onDisk \cup {prepares + 1}
          /\ prepared' = [prepared EXCEPT ![prepares + 1] = state]
    BY Zenon, <1>2 DEF PrepareOK, PrepareFails
  <2>2. prepares + 1 \in Configs
    BY <2>1, Facts, RunnerBounds DEF RunnerTypeOK, Configs
  <2>3. onDisk \subseteq Configs /\ DOMAIN prepared = Configs
    BY Zenon, Facts DEF RunnerTypeOK
  <2>4. prepared'[prepares + 1] = state /\ \A p \in Configs : p # prepares + 1 => prepared'[p] = prepared[p]
    BY Zenon, <2>1, <2>2, <2>3
  <2> QED BY Zenon, <2>1, <2>3, <2>4 DEF RetryPossible
<1> QED BY Zenon, <1>1, <1>2

\* Every step of the service keeps the entry of a file that is still there.
LEMMA RetryStep ==
    ASSUME IInv, RetryPossible, Next \/ UNCHANGED vars
    PROVE  RetryPossible'
<1>1. CASE UNCHANGED configVars
  BY Zenon, <1>1 DEF RetryPossible, configVars
<1>2. CASE UNCHANGED runnerVars
  BY Zenon, <1>1, <1>2 DEF runnerVars, configVars
<1>3. ASSUME NEW c \in Clients,
             \/ Refused(c) \/ Query(c) \/ Disconnect(c) \/ StopStuck(c) \/ Release(c) \/ Acquire(c)
             \/ \E op \in {"connect", "disconnect", "query"}, p \in Profiles : Call(c, op, p)
             \/ Expire(c) \/ AcquireExpired(c)
      PROVE  RetryPossible'
  BY Zenon, <1>2, <1>3 DEF Refused, Query, Disconnect, StopStuck, Release, Acquire, Call, Expire, AcquireExpired
<1>4. ASSUME NEW c \in Clients,
             \/ DisconnectReaped(c) \/ ConnectRejected(c) \/ ConnectExpired(c) \/ ConnectStartFails(c)
             \/ ConnectStarted(c) \/ ConnectStartedLate(c) \/ ReplaceReaped(c) \/ ReplaceStuck(c)
             \/ AbortReaped(c)
      PROVE  RetryPossible'
  BY Zenon, <1>1, <1>4, RetryClosed
     DEF DisconnectReaped, ConnectRejected, ConnectExpired, ConnectStartFails, ConnectStarted,
         ConnectStartedLate, ReplaceReaped, ReplaceStuck, AbortReaped
<1>5. ASSUME NEW c \in Clients, ConnectPrepare(c) PROVE RetryPossible'
  BY Zenon, <1>5, RetryPrepared DEF ConnectPrepare
<1>6. ASSUME NEW c \in Clients, ConnectChecked(c) PROVE RetryPossible'
  <2>1. CheckOK(frame.prepared)
    BY Zenon, <1>6 DEF ConnectChecked
  <2>2. onDisk \subseteq Configs /\ DOMAIN prepared = Configs
    BY Zenon, Facts DEF RunnerTypeOK
  <2> QED BY Zenon, <2>1, <2>2 DEF CheckOK, RetryPossible
<1>7. ASSUME NEW g \in Generations, MonitorStep(g) \/ MonitorAcquire(g) PROVE RetryPossible'
  BY Zenon, <1>1, <1>2, <1>7, RetryClosed
     DEF MonitorStep, MonitorSuperseded, MonitorRollback, CloseSuperseded, MonitorRetire, MonitorRelease,
         MonitorAcquire
<1>8. ASSUME NEW g \in Generations, MonitorWait(g) PROVE RetryPossible'
  BY Zenon, <1>1, <1>8 DEF MonitorWait, WaitReturns, configVars
<1>9. CASE RollbackStarted \/ RollbackLate \/ StopKill
  BY Zenon, <1>1, <1>9 DEF RollbackStarted, RollbackLate, StopKill
<1>10. CASE RollbackFails \/ CloseReaped
  BY Zenon, <1>10, RetryClosed DEF RollbackFails, CloseReaped
<1>11. CASE CloseStuck \/ CloseRelease \/ CloseCall \/ CloseBegin \/ CloseTimeout
  BY Zenon, <1>2, <1>11 DEF CloseStuck, CloseRelease, CloseCall, CloseBegin, CloseTimeout
<1>12. CASE CloseRunner
  <2>1. runnerClosed'
    BY Zenon, <1>12 DEF CloseRunner, RunnerClose, runnerVars
  <2> QED BY Zenon, <2>1 DEF RetryPossible
<1>13. ASSUME NEW g \in 1..generation, ContextKills(g) PROVE RetryPossible'
  BY Zenon, <1>1, <1>13 DEF ContextKills
<1>14. ASSUME NEW q \in Processes, Exit(q) PROVE RetryPossible'
  BY Zenon, <1>1, <1>14 DEF Exit, ProcessExit, configVars
<1>15. CASE UNCHANGED vars
  BY Zenon, <1>15 DEF vars, RetryPossible
<1> QED
  BY Zenon, <1>3, <1>4, <1>5, <1>6, <1>7, <1>8, <1>9, <1>10, <1>11, <1>12, <1>13, <1>14, <1>15
     DEF Next, GateStep, ClientStep, ConnectStep, RollbackStep, CloserStep

\* As long as the runner is open, a configuration file that could not be removed
\* keeps its entry in runner.prepared, and a later Close tries again.
THEOREM RetryStaysPossible == Spec => []RetryPossible
<1>1. Init => RetryPossible
  BY Zenon DEF Init, RunnerInit, RetryPossible
<1>2. IInv /\ RetryPossible /\ [Next]_vars => RetryPossible'
  BY Zenon, RetryStep
<1> QED BY <1>1, <1>2, Invariance, PTL DEF Spec
=============================================================================
