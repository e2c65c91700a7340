----------------------------- MODULE CoreRunner -----------------------------
(***************************************************************************)
(* The sing-box runner of internal/core/process.go: the generated          *)
(* configuration files it owns and the core processes started from them.   *)
(* Every method holds runner.mu for its whole body, so each outcome of a   *)
(* method is one action.  A PreparedConfig is a number in the order of     *)
(* creation, and so is a Process.  Contents, digests, paths and identities *)
(* are abstracted: where the code compares them, the model lets the call   *)
(* fail.  The actions mention the runner's variables only; the module that *)
(* drives the runner composes them with its own steps.                     *)
(***************************************************************************)
EXTENDS Integers, FiniteSets

CONSTANTS MaxPrepares,  \* bound on the configurations ever prepared
          MaxStarts,    \* bound on the processes ever started
          MaxRemoveFailures  \* bound on the files that resist removal

ASSUME RunnerBounds ==
    MaxPrepares \in Nat /\ MaxStarts \in Nat /\ MaxRemoveFailures \in Nat

VARIABLES
    prepares,       \* how many configurations have been prepared
    prepared,       \* state of each PreparedConfig
    onDisk,         \* configurations whose file exists in the runtime root
    removeFailed,   \* configurations for which a file removal failed (history)
    runnerClosed,   \* execRunner.closed
    starts,         \* how many processes have been started
    proc            \* state of each process

configVars == <<prepares, prepared, onDisk, removeFailed, runnerClosed>>
procVars == <<starts, proc>>
runnerVars == <<prepares, prepared, onDisk, removeFailed, runnerClosed, starts, proc>>

Configs == 1..MaxPrepares
Processes == 1..MaxStarts

\* "open" has a map entry, "checked" has passed `sing-box check`, "closed"
\* has been deleted from the map, "unnamed" was written but never entered in it.
ConfigState == {"unused", "open", "checked", "closed", "unnamed"}

\* "killed": SIGKILL was delivered; "exited": the process is gone but Wait has
\* not returned; "reaped": Wait returned and the done channel is closed.
ProcState == {"unstarted", "running", "killed", "exited", "reaped"}

RunnerTypeOK ==
    /\ prepares \in 0..MaxPrepares
    /\ prepared \in [Configs -> ConfigState]
    /\ onDisk \subseteq Configs
    /\ removeFailed \subseteq Configs
    /\ runnerClosed \in BOOLEAN
    /\ starts \in 0..MaxStarts
    /\ proc \in [Processes -> ProcState]

RunnerInit ==
    /\ prepares = 0
    /\ prepared = [p \in Configs |-> "unused"]
    /\ onDisk = {}
    /\ removeFailed = {}
    /\ runnerClosed = FALSE
    /\ starts = 0
    /\ proc = [q \in Processes |-> "unstarted"]

-----------------------------------------------------------------------------
InMap(p) == prepared[p] \in {"open", "checked"}

\* The configurations that still have an entry in runner.prepared.
Registered == {p \in Configs : InMap(p)}

Running(q) == proc[q] \in {"running", "killed", "exited"}

\* Processes whose exit nobody has collected yet.
Unreaped == {q \in Processes : Running(q)}

\* The file of p cannot be removed.
RemoveFails(p) ==
    /\ removeFailed' = removeFailed \cup {p}
    /\ Cardinality(removeFailed') <= MaxRemoveFailures

\* Prepare succeeds: the file was written, renamed and synced, and the new
\* configuration entered in the map.
PrepareOK ==
    /\ ~runnerClosed
    /\ prepares < MaxPrepares
    /\ prepares' = prepares + 1
    /\ prepared' = [prepared EXCEPT ![prepares + 1] = "open"]
    /\ onDisk' = onDisk \cup {prepares + 1}
    /\ UNCHANGED <<removeFailed, runnerClosed, starts, proc>>

\* Prepare fails.  When the directory sync fails after the rename, the final
\* file is removed again; if that removal fails too, a file is left behind
\* that no map entry names.
PrepareFails ==
    \/ UNCHANGED runnerVars
    \/ /\ ~runnerClosed
       /\ prepares < MaxPrepares
       /\ prepares' = prepares + 1
       /\ prepared' = [prepared EXCEPT ![prepares + 1] = "unnamed"]
       /\ onDisk' = onDisk \cup {prepares + 1}
       /\ RemoveFails(prepares + 1)
       /\ UNCHANGED <<runnerClosed, starts, proc>>

\* Mutant: the verdict of `sing-box check` is ignored.
CheckOK_AnyVerdict(p) ==
    /\ ~runnerClosed /\ InMap(p)
    /\ \E verdict \in {"open", "checked"} : prepared' = [prepared EXCEPT ![p] = verdict]
    /\ UNCHANGED <<prepares, onDisk, removeFailed, runnerClosed, starts, proc>>

CheckOK(p) ==
    /\ ~runnerClosed /\ InMap(p)
    /\ prepared' = [prepared EXCEPT ![p] = "checked"]
    /\ UNCHANGED <<prepares, onDisk, removeFailed, runnerClosed, starts, proc>>

\* Mutant: the map entry is deleted before the file, so nobody tries again.
ClosePrepared_Forgets(p) ==
    \/ /\ runnerClosed \/ ~InMap(p)
       /\ UNCHANGED configVars
    \/ /\ ~runnerClosed /\ InMap(p)
       /\ prepared' = [prepared EXCEPT ![p] = "closed"]
       /\ \/ onDisk' = onDisk \ {p} /\ UNCHANGED removeFailed
          \/ RemoveFails(p) /\ UNCHANGED onDisk
       /\ UNCHANGED <<prepares, runnerClosed>>

\* closePrepared: idempotent; a failed removal keeps the map entry, so that
\* a later Close may try again.
ClosePrepared(p) ==
    \/ /\ runnerClosed \/ ~InMap(p)
       /\ UNCHANGED configVars
    \/ /\ ~runnerClosed /\ InMap(p)
       /\ prepared' = [prepared EXCEPT ![p] = "closed"]
       /\ onDisk' = onDisk \ {p}
       /\ UNCHANGED <<prepares, removeFailed, runnerClosed>>
    \/ /\ ~runnerClosed /\ InMap(p)
       /\ RemoveFails(p)
       /\ UNCHANGED <<prepares, prepared, onDisk, runnerClosed>>

\* A process can be started from p: the map knows p and its digest passed
\* `sing-box check`.
Startable(p) == ~runnerClosed /\ prepared[p] = "checked" /\ starts < MaxStarts

\* Start succeeds; the new process is `starts + 1`, and `state` says whether
\* the caller kills it at once.
StartOK(p, state) ==
    /\ Startable(p)
    /\ starts' = starts + 1
    /\ proc' = [proc EXCEPT ![starts + 1] = state]

\* Close removes the file of every registered configuration; the map is
\* emptied even where a removal fails.
RunnerClose ==
    IF runnerClosed THEN UNCHANGED runnerVars
    ELSE \E kept \in SUBSET Registered :
           /\ onDisk' = onDisk \ (Registered \ kept)
           /\ removeFailed' = removeFailed \cup kept
           /\ Cardinality(removeFailed') <= MaxRemoveFailures
           /\ prepared' = [p \in Configs |-> IF InMap(p) THEN "closed" ELSE prepared[p]]
           /\ runnerClosed' = TRUE
           /\ UNCHANGED <<prepares, starts, proc>>

-----------------------------------------------------------------------------
(* Processes *)

\* Kill: SIGKILL to the process group.  A process that is gone answers
\* os.ErrProcessDone.
KillOK(q) == proc' = [proc EXCEPT ![q] = IF @ = "running" THEN "killed" ELSE @]

\* A core process ends, by itself or because of a signal.
ProcessExit(q) ==
    /\ proc[q] \in {"running", "killed"}
    /\ proc' = [proc EXCEPT ![q] = "exited"]
    /\ UNCHANGED <<starts, prepares, prepared, onDisk, removeFailed, runnerClosed>>

\* Wait returns once the process has exited, and the done channel is closed.
WaitReturns(q) ==
    /\ proc[q] = "exited"
    /\ proc' = [proc EXCEPT ![q] = "reaped"]
    /\ UNCHANGED <<starts, prepares, prepared, onDisk, removeFailed, runnerClosed>>
=============================================================================
