---------------------------- MODULE ClientProgram ----------------------------
(* The client from its arguments to its exit status: the commands of          *)
(* internal/cli/root.go, the opening of the two stores in                     *)
(* cmd/tuibox/main.go, the terminal interface around its program              *)
(* (internal/tui/runner.go) and the closing of the stores while goroutines    *)
(* of the interface still use them.  What a command does with the stores is   *)
(* any sequence of operations on them; Subscriptions and AppConnect have the  *)
(* details.                                                                   *)
EXTENDS Naturals, TLC

CONSTANT Tasks  \* the goroutines that run the interface's commands, one of
                \* them standing for the main goroutine when a command runs

ASSUME TasksAssumption == Tasks # {}

VARIABLES
    line,      \* the command line
    main,      \* where the main goroutine is
    err,       \* the error it carries
    stores,    \* the stores with their lifecycle locks
    task,      \* the store whose lifecycle lock a goroutine holds
    failures,  \* history: what went wrong
    code       \* the exit status, Running before

vars == <<line, main, err, stores, task, failures, code>>

Stores == {"state", "secrets"}
Running == 256

\* The commands and the numbers of positional arguments they accept.
SubscriptionArity ==
    "subscription" :> {0} @@ "subscription add" :> {2} @@ "subscription list" :> {0}
      @@ "subscription update" :> {0, 1} @@ "subscription remove" :> {1}

ServerArity == "server" :> {0} @@ "server list" :> {0} @@ "server latency" :> {0, 1}

TelemetryArity ==
    "telemetry" :> {0} @@ "telemetry enable" :> {0} @@ "telemetry disable" :> {0}
      @@ "telemetry status" :> {0}

Arity ==
    SubscriptionArity @@ ServerArity @@ TelemetryArity @@ "connect" :> {1}
      @@ [c \in {"tui", "disconnect", "status", "doctor", "update", "version"} |-> {0}]

Groups == {"subscription", "server", "telemetry"}

\* The flags a command line may have: mode and route stand for an accepted
\* value, other for a flag the command does not know or a value it refuses.
FlagsOf(c) ==
    {"other"} \cup (IF c = "connect" THEN {"mode", "route"}
                    ELSE IF c = "server latency" THEN {"all"}
                    ELSE IF c = "update" THEN {"check"} ELSE {})

Lines ==
    UNION {[command : {c}, args : 0..3, flags : SUBSET FlagsOf(c)] : c \in DOMAIN Arity}
      \cup [command : {"apply-update"}, args : 0..2, flags : {{}}]

\* exactArgs, maximumArgs and the flag errors of cobra.
BadArguments(l) == l.args \notin Arity[l.command] \/ "other" \in l.flags

LatencyUsage(l) ==
    l.command = "server latency" /\ (("all" \in l.flags) <=> (l.args = 1))

ConnectUsage(l) == l.command = "connect" /\ ~({"mode", "route"} \subseteq l.flags)

UsageFailure(l) ==
    /\ l.command # "apply-update"
    /\ BadArguments(l) \/ l.command \in Groups \/ LatencyUsage(l) \/ ConnectUsage(l)

\* Errors by what the program tells apart: "usage" errors, the "known"
\* sentinels of stableErrors, and any "other".
StableError(e) == IF e = "other" THEN "known" ELSE e

IsUsageError(e) == e \in {"usage", "other"}

ExitCode(e) == IF e = "none" THEN 0 ELSE IF IsUsageError(e) THEN 2 ELSE 1

\* The main goroutine goes on with an error of one of the kinds given.
Carry(e) == err' = e
Blame(what, e) == failures' = IF e = "none" THEN failures ELSE failures \cup {what}

Exit(e) == main' = "exited" /\ code' = ExitCode(e)

Init ==
    /\ line \in Lines
    /\ main = "parse"
    /\ err = "none"
    /\ stores = [s \in Stores |-> "none"]
    /\ task = [t \in Tasks |-> "idle"]
    /\ failures = {}
    /\ code = Running

\* run and the commands up to the opening of the service.  A flag that cobra
\* does not know becomes a usage error; the version is printed without a
\* service, and the interface without a terminal prints a line.
Parse ==
    /\ main = "parse"
    /\ \/ /\ UsageFailure(line)
          /\ Carry("usage") /\ Exit("usage") /\ UNCHANGED failures
       \/ /\ ~UsageFailure(line) /\ line.command \in {"version", "tui"}
          /\ \E e \in {"none", "other"} :
               /\ Carry(StableError(e)) /\ Exit(StableError(e)) /\ Blame("output", e)
       \/ /\ ~UsageFailure(line) /\ line.command \notin {"version", "apply-update"}
          /\ main' = "openState" /\ UNCHANGED <<err, failures, code>>
    /\ UNCHANGED <<line, stores, task>>

\* The helper's argument: update.ApplyInstalled instead of a command.
ApplyInstalled ==
    /\ main = "parse" /\ line.command = "apply-update"
    /\ \E e \in {"none", "known"} :
         /\ line.args # 1 => e = "known"
         /\ Carry(e) /\ Exit(e) /\ Blame("update", e)
    /\ UNCHANGED <<line, stores, task>>

\* openApplicationService returns an error, and withService or tui.Run with it.
OpenFails ==
    \E e \in {"known", "other"} :
        Carry(StableError(e)) /\ Exit(StableError(e)) /\ Blame("open", e)

\* The checks before the first store: the context and the three paths.
RefusePaths ==
    /\ main = "openState"
    /\ OpenFails
    /\ UNCHANGED <<line, stores, task>>

OpenState ==
    /\ main = "openState"
    /\ stores' = [stores EXCEPT !["state"] = "open"]
    /\ main' = "openSecrets"
    /\ UNCHANGED <<line, err, task, failures, code>>

\* state.NewStore returns a nil *Store with its error.  As a stateStoreCloser
\* that is not nil, so it is closed, and Close dereferences it: the runtime
\* prints the panic and exits with status 2.
OpenStateFails ==
    /\ main = "openState"
    /\ main' = "panicked"
    /\ code' = 2
    /\ failures' = failures \cup {"open"}
    /\ UNCHANGED <<line, err, stores, task>>

OpenSecrets ==
    /\ main = "openSecrets"
    /\ stores' = [stores EXCEPT !["secrets"] = "open"]
    /\ main' = "build"
    /\ UNCHANGED <<line, err, task, failures, code>>

OpenSecretsFails ==
    /\ main = "openSecrets"
    /\ stores' = [stores EXCEPT !["state"] = "closed"]
    /\ OpenFails
    /\ UNCHANGED <<line, task>>

\* The latency checker, the client, the updater and the service.
Build ==
    /\ main = "build"
    /\ main' = "serving"
    /\ UNCHANGED <<line, err, stores, task, failures, code>>

\* MUTANT: a failure of one of them leaves the stores open.
BuildFails_NoClose ==
    /\ main = "build"
    /\ OpenFails
    /\ UNCHANGED <<line, stores, task>>

BuildFails ==
    /\ main = "build"
    /\ stores' = [s \in Stores |-> "closed"]
    /\ OpenFails
    /\ UNCHANGED <<line, task>>

\* MUTANT: new operations overtake a waiting Close.
BeginOperation_Overtakes(t, s) ==
    /\ main \in {"serving", "closeSecrets", "closeState"}
    /\ task[t] = "idle" /\ stores[s] \in {"open", "closing"}
    /\ task' = [task EXCEPT ![t] = s]
    /\ UNCHANGED <<line, main, err, stores, failures, code>>

\* A goroutine asks for the lifecycle lock of a store for reading.  It waits
\* while a Close waits, and gets ErrStateStoreClosed or ErrSecretStoreClosed
\* when the store is closed.
BeginOperation(t, s) ==
    /\ IF line.command = "tui"
       THEN main \in {"serving", "closeSecrets", "closeState"}
       ELSE main = "serving" /\ \A u \in Tasks : task[u] = "idle"
    /\ task[t] = "idle" /\ stores[s] = "open"
    /\ task' = [task EXCEPT ![t] = s]
    /\ UNCHANGED <<line, main, err, stores, failures, code>>

EndOperation(t) ==
    /\ main \notin {"exited", "panicked"}
    /\ task[t] # "idle"
    /\ task' = [task EXCEPT ![t] = "idle"]
    /\ UNCHANGED <<line, main, err, stores, failures, code>>

\* A command returns, its output written or not; the interface's program
\* returns whatever its goroutines are doing.
Served ==
    /\ main = "serving"
    /\ line.command # "tui" => \A t \in Tasks : task[t] = "idle"
    /\ \E e \in {"none", "known", "other"} : Carry(StableError(e)) /\ Blame("run", e)
    /\ main' = "closeSecrets"
    /\ UNCHANGED <<line, stores, task, code>>

Closing == [m \in {"closeSecrets", "closeState"} |->
               IF m = "closeSecrets" THEN "secrets" ELSE "state"]

AskClose ==
    /\ main \in DOMAIN Closing /\ stores[Closing[main]] = "open"
    /\ stores' = [stores EXCEPT ![Closing[main]] = "closing"]
    /\ UNCHANGED <<line, main, err, task, failures, code>>

\* MUTANT: the error of the close is dropped.
FirstError_RunOnly(runErr, closeErr) == runErr

\* withService and tui.Run: the error of the run before the error of the close.
FirstError(runErr, closeErr) == IF runErr # "none" THEN runErr ELSE StableError(closeErr)

\* MUTANT: Close does not wait for the operations in flight.
CloseGranted_NoWait ==
    /\ main \in DOMAIN Closing /\ stores[Closing[main]] = "closing"
    /\ stores' = [stores EXCEPT ![Closing[main]] = "closed"]
    /\ IF main = "closeSecrets"
       THEN main' = "closeState" /\ UNCHANGED <<err, failures, code>>
       ELSE Carry(err) /\ Exit(err) /\ UNCHANGED failures
    /\ UNCHANGED <<line, task>>

\* closeStores closes the secrets and then the state, and joins their errors.
CloseGranted ==
    /\ main \in DOMAIN Closing /\ stores[Closing[main]] = "closing"
    /\ \A t \in Tasks : task[t] # Closing[main]
    /\ stores' = [stores EXCEPT ![Closing[main]] = "closed"]
    /\ \E e \in {"none", "other"} :
         /\ Blame(main, e)
         /\ IF main = "closeSecrets"
            THEN main' = "closeState" /\ UNCHANGED <<err, code>>
            ELSE LET closeErr == IF "closeSecrets" \in failures THEN "other" ELSE e
                     result == FirstError(err, closeErr)
                 IN  Carry(result) /\ Exit(result)
    /\ UNCHANGED <<line, task>>

Next ==
    \/ Parse \/ ApplyInstalled \/ RefusePaths \/ OpenState \/ OpenStateFails
    \/ OpenSecrets \/ OpenSecretsFails \/ Build \/ BuildFails
    \/ \E t \in Tasks : EndOperation(t) \/ \E s \in Stores : BeginOperation(t, s)
    \/ Served \/ AskClose \/ CloseGranted

Spec == Init /\ [][Next]_vars

\* The main goroutine goes on while it can, and an operation of a store returns:
\* those of a command before the command does, and those of the interface
\* because quitting cancels their context (updateKey).  Nothing is assumed of when
\* a command or the interface ends.
Fairness ==
    /\ WF_vars(AskClose) /\ WF_vars(CloseGranted)
    /\ \A t \in Tasks : WF_vars(EndOperation(t))

FairSpec == Spec /\ Fairness

-----------------------------------------------------------------------------
TypeOK ==
    /\ line \in Lines
    /\ main \in {"parse", "openState", "openSecrets", "build", "serving", "closeSecrets",
                 "closeState", "exited", "panicked"}
    /\ err \in {"none", "usage", "known"}
    /\ stores \in [Stores -> {"none", "open", "closing", "closed"}]
    /\ task \in [Tasks -> Stores \cup {"idle"}]
    /\ code \in {0, 1, 2, Running}

\* Whichever step of opening, serving or closing fails, a program that returns
\* has closed every store it opened (openApplicationService, withService).
ExitClosesStores ==
    main = "exited" => \A s \in Stores : stores[s] \in {"none", "closed"}

\* Quitting the interface interrupts no operation of a store, although its
\* goroutines are not waited for: the process exits only after both Closes had
\* the lifecycle locks to themselves.
QuitInterruptsNoWrite ==
    main = "exited" => \A t \in Tasks : task[t] = "idle"

\* A client that returns leaves nothing half done: what it opened is closed and
\* no goroutine is inside an operation of a store.
ExitIsClean == ExitClosesStores /\ QuitInterruptsNoWrite

\* The exit status tells the outcome, however the program ends: 0 if and only if
\* nothing failed on the way, and 2 only if no store was opened, because the
\* command line was refused or by the panic after the state store failed to open
\* (stableError, withService and ExitCode).
ExitTellsOutcome ==
    /\ TypeOK
    /\ main \in {"exited", "panicked"} =>
         /\ code = 0 <=> failures = {} /\ ~UsageFailure(line)
         /\ code = 2 => /\ \A s \in Stores : stores[s] = "none"
                        /\ UsageFailure(line) \/ (main = "panicked" /\ failures = {"open"})

\* The documented statuses: whatever fails in operation, the status is not the
\* one of a usage failure, and the program ends with it in good order.
FailuresExitWithOne ==
    code = 2 => UsageFailure(line)

\* Once the interface or a command has ended, the program exits, although
\* goroutines of the interface go on asking for the stores.
QuitReturns == main = "closeSecrets" ~> main = "exited"
=============================================================================
