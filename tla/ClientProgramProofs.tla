------------------------- MODULE ClientProgramProofs -------------------------
(* Proofs about the client.  ClientProgram, for any number of goroutines: a   *)
(* program that returns has closed its stores and interrupts no operation on  *)
(* them, and its exit status tells what happened on the way.  LatencyChecker  *)
(* and AppConnect, for any number of workers and any lists of endpoints: a    *)
(* check that returns is complete, and Connect sends what it should.          *)
EXTENDS ClientProgram, AppConnect, FiniteSetTheorems, WellFoundedInduction, TLAPS

StoreStates == {"none", "open", "closing", "closed"}

\* What the main goroutine has done with the stores by the time it is at m.
Opened(m) ==
    /\ m \in {"parse", "openState"} =>
         stores["state"] = "none" /\ stores["secrets"] = "none"
    /\ m = "openSecrets" => stores["state"] = "open" /\ stores["secrets"] = "none"
    /\ m \in {"build", "serving"} => stores["state"] = "open" /\ stores["secrets"] = "open"
    /\ m = "closeSecrets" => stores["state"] = "open" /\ stores["secrets"] \in {"open", "closing"}
    /\ m = "closeState" => stores["state"] \in {"open", "closing"} /\ stores["secrets"] = "closed"
    /\ m = "exited" => stores["state"] \in {"none", "closed"} /\ stores["secrets"] \in {"none", "closed"}

\* The inductive invariant: the stores follow the main goroutine, and whoever
\* works on a store holds up its Close.
IInv ==
    /\ stores \in [Stores -> StoreStates]
    /\ task \in [Tasks -> Stores \cup {"idle"}]
    /\ Opened(main)
    /\ \A t \in Tasks : task[t] # "idle" => stores[task[t]] \in {"open", "closing"}
    /\ main \in {"parse", "openState", "openSecrets", "build"} => \A t \in Tasks : task[t] = "idle"

\* closeStores closes the secrets first.
LEMMA ClosingOrder ==
    /\ DOMAIN Closing = {"closeSecrets", "closeState"}
    /\ Closing["closeSecrets"] = "secrets" /\ Closing["closeState"] = "state"
  BY Zenon DEF Closing

\* Every step keeps the invariant.
LEMMA Step == IInv /\ [Next]_vars => IInv'
  <1> SUFFICES ASSUME IInv, [Next]_vars PROVE IInv'
    OBVIOUS
  <1> USE DEF IInv, Opened, Stores, StoreStates
  <1>1. CASE Parse
    BY Zenon, <1>1 DEF Parse, Exit
  <1>2. CASE ApplyInstalled
    BY Zenon, <1>2 DEF ApplyInstalled, Exit
  <1>3. CASE RefusePaths
    BY Zenon, <1>3 DEF RefusePaths, OpenFails, Exit
  <1>4. CASE OpenState \/ OpenStateFails
    BY Zenon, <1>4 DEF OpenState, OpenStateFails
  <1>5. CASE OpenSecrets
    BY Zenon, <1>5 DEF OpenSecrets
  <1>6. CASE OpenSecretsFails
    BY Zenon, <1>6 DEF OpenSecretsFails, OpenFails, Exit
  <1>7. CASE Build
    BY Zenon, <1>7 DEF Build
  <1>8. CASE BuildFails
    BY Zenon, <1>8 DEF BuildFails, OpenFails, Exit
  <1>9. ASSUME NEW t \in Tasks, EndOperation(t) PROVE IInv'
    BY Zenon, <1>9 DEF EndOperation
  <1>10. ASSUME NEW t \in Tasks, NEW s \in Stores, BeginOperation(t, s) PROVE IInv'
    BY Zenon, <1>10 DEF BeginOperation
  <1>11. CASE Served
    BY Zenon, <1>11 DEF Served
  <1>12. CASE AskClose
    BY Zenon, <1>12, ClosingOrder DEF AskClose
  <1>13. CASE CloseGranted
    <2>1. CASE main = "closeSecrets"
      BY Zenon, <1>13, <2>1, ClosingOrder DEF CloseGranted
    <2>2. CASE main = "closeState"
      BY Zenon, <1>13, <2>2, ClosingOrder DEF CloseGranted, Exit
    <2> QED
      BY Zenon, <1>13, <2>1, <2>2, ClosingOrder DEF CloseGranted
  <1>14. CASE UNCHANGED vars
    BY Zenon, <1>14 DEF vars
  <1> QED
    BY Zenon, <1>1, <1>2, <1>3, <1>4, <1>5, <1>6, <1>7, <1>8, <1>9, <1>10, <1>11, <1>12, <1>13,
       <1>14 DEF Next

\* The invariant holds in every state of the client.
THEOREM Invariance == Spec => []IInv
  <1>1. Init => IInv
    BY Zenon DEF Init, IInv, Opened, Stores, StoreStates
  <1> QED
    BY <1>1, Step, PTL DEF Spec

\* Whatever step fails, a client that returns has closed what it opened, and
\* however many goroutines the interface has left behind, the process exits
\* with none of them inside an operation of a store.
THEOREM CleanExit == Spec => []ExitIsClean
  <1>1. IInv => ExitClosesStores
    BY Zenon DEF IInv, Opened, ExitClosesStores, Stores
  <1>2. IInv => QuitInterruptsNoWrite
    BY Zenon DEF IInv, Opened, QuitInterruptsNoWrite, Stores
  <1> QED
    BY <1>1, <1>2, Invariance, PTL DEF ExitIsClean

-----------------------------------------------------------------------------
Before == {"openState", "openSecrets", "build", "serving"}

\* The inductive invariant for the exit status: the error the main goroutine
\* carries and the failures on the way agree at every point of the way.
OutcomeInv ==
    /\ line \in Lines
    /\ main \in Before \cup {"parse", "closeSecrets", "closeState", "exited", "panicked"}
    /\ err \in {"none", "usage", "known"}
    /\ code \in {0, 1, 2, Running}
    /\ main \in Before \cup {"parse"} => failures = {} /\ err = "none"
    /\ main \in Before \cup {"closeSecrets", "closeState"} => ~UsageFailure(line) /\ err # "usage"
    /\ main = "closeSecrets" => failures = IF err = "none" THEN {} ELSE {"run"}
    /\ main = "closeState" =>
         failures \ {"closeSecrets"} = IF err = "none" THEN {} ELSE {"run"}
    /\ main \in {"exited", "panicked"} =>
         /\ code = 0 <=> failures = {} /\ ~UsageFailure(line)
         /\ code = 2 => /\ \A s \in Stores : stores[s] = "none"
                        /\ UsageFailure(line) \/ (main = "panicked" /\ failures = {"open"})

\* The errors as stableError and ExitCode see them.
LEMMA Codes ==
    /\ StableError("none") = "none" /\ StableError("known") = "known" /\ StableError("other") = "known"
    /\ ExitCode("none") = 0 /\ ExitCode("known") = 1 /\ ExitCode("usage") = 2
  BY Zenon DEF StableError, ExitCode, IsUsageError

\* An open or a build that fails exits with status 1.
LEMMA FailedOpen ==
    ASSUME OutcomeInv, main \in Before, OpenFails, line' = line
    PROVE  OutcomeInv'
<1>1. PICK e \in {"known", "other"} :
        Carry(StableError(e)) /\ Exit(StableError(e)) /\ Blame("open", e)
  BY Zenon DEF OpenFails
<1>2. err' = "known" /\ main' = "exited" /\ code' = 1 /\ failures' = {"open"}
  BY Zenon, <1>1, Codes DEF OutcomeInv, Carry, Exit, Blame
<1> QED BY <1>2 DEF OutcomeInv, Before, Running

\* The last Close decides between the error of the run and its own.
LEMMA LastClose ==
    ASSUME OutcomeInv, CloseGranted, main = "closeState"
    PROVE  OutcomeInv'
<1>1. PICK e \in {"none", "other"} :
        LET closeErr == IF "closeSecrets" \in failures THEN "other" ELSE e
            result == FirstError(err, closeErr)
        IN  Blame("closeState", e) /\ Carry(result) /\ Exit(result)
  BY Zenon DEF CloseGranted
<1>2. line' = line /\ main' = "exited" /\ err' \in {"none", "known"} /\ code' = ExitCode(err')
  BY Zenon, <1>1, Codes DEF CloseGranted, Carry, Exit, FirstError, OutcomeInv
<1>3. err' = "none" <=> err = "none" /\ "closeSecrets" \notin failures /\ e = "none"
  BY Zenon, <1>1, Codes DEF Carry, FirstError, OutcomeInv
<1>4. failures' = {} <=> failures = {} /\ e = "none"
  BY Zenon, <1>1 DEF Blame
<1>5. failures = {} <=> err = "none" /\ "closeSecrets" \notin failures
  BY Zenon DEF OutcomeInv
<1>6. code' = 0 <=> failures' = {}
  BY <1>2, <1>3, <1>4, <1>5, Codes
<1>7. code' \in {0, 1} /\ ~UsageFailure(line)
  BY Zenon, <1>2, Codes DEF OutcomeInv
<1> QED BY <1>2, <1>6, <1>7 DEF OutcomeInv, Before

\* Every step keeps the account of failures.
LEMMA OutcomeStep == IInv /\ OutcomeInv /\ [Next]_vars => OutcomeInv'
<1> SUFFICES ASSUME IInv, OutcomeInv, [Next]_vars PROVE OutcomeInv'
  OBVIOUS
<1>1. CASE Parse
  <2>1. /\ line' = line /\ stores' = stores /\ failures = {} /\ err = "none"
        /\ \A s \in Stores : stores[s] = "none"
    BY Zenon, <1>1 DEF Parse, OutcomeInv, IInv, Opened, Stores
  <2>2. CASE UsageFailure(line) /\ Carry("usage") /\ Exit("usage") /\ UNCHANGED failures
    BY <2>1, <2>2, Codes DEF OutcomeInv, Before, Carry, Exit
  <2>3. ASSUME ~UsageFailure(line), NEW e \in {"none", "other"},
               Carry(StableError(e)), Exit(StableError(e)), Blame("output", e)
        PROVE  OutcomeInv'
    BY <2>1, <2>3, Codes DEF OutcomeInv, Before, Carry, Exit, Blame
  <2>4. CASE ~UsageFailure(line) /\ main' = "openState" /\ UNCHANGED <<err, failures, code>>
    BY Zenon, <2>1, <2>4 DEF OutcomeInv, Before
  <2> QED BY Zenon, <1>1, <2>2, <2>3, <2>4 DEF Parse
<1>2. CASE ApplyInstalled
  <2>1. /\ line' = line /\ stores' = stores /\ failures = {} /\ ~UsageFailure(line)
    BY Zenon, <1>2 DEF ApplyInstalled, OutcomeInv, UsageFailure
  <2>2. PICK e \in {"none", "known"} : Carry(e) /\ Exit(e) /\ Blame("update", e)
    BY Zenon, <1>2 DEF ApplyInstalled
  <2> QED BY <2>1, <2>2, Codes DEF OutcomeInv, Before, Carry, Exit, Blame
<1>3. CASE RefusePaths \/ OpenSecretsFails \/ BuildFails
  BY Zenon, <1>3, FailedOpen DEF RefusePaths, OpenSecretsFails, BuildFails, Before
<1>4. CASE OpenState \/ OpenSecrets \/ Build
  BY Zenon, <1>4 DEF OpenState, OpenSecrets, Build, OutcomeInv, Before
<1>5. CASE OpenStateFails
  <2>1. /\ line' = line /\ main' = "panicked" /\ code' = 2 /\ failures' = {"open"} /\ UNCHANGED <<err, stores>>
        /\ ~UsageFailure(line)
    BY Zenon, <1>5 DEF OpenStateFails, OutcomeInv, Before
  <2>2. \A s \in Stores : stores[s] = "none"
    BY Zenon, <1>5 DEF OpenStateFails, IInv, Opened, Stores
  <2> QED BY <2>1, <2>2 DEF OutcomeInv, Before
<1>6. ASSUME NEW t \in Tasks, EndOperation(t) \/ \E s \in Stores : BeginOperation(t, s)
      PROVE  OutcomeInv'
  BY Zenon, <1>6 DEF EndOperation, BeginOperation, OutcomeInv
<1>7. CASE Served
  <2>1. /\ line' = line /\ code' = code /\ failures = {} /\ err = "none" /\ ~UsageFailure(line)
        /\ main' = "closeSecrets"
    BY Zenon, <1>7 DEF Served, OutcomeInv, Before
  <2>2. PICK e \in {"none", "known", "other"} : Carry(StableError(e)) /\ Blame("run", e)
    BY Zenon, <1>7 DEF Served
  <2> QED BY Zenon, <2>1, <2>2, Codes DEF OutcomeInv, Before, Carry, Blame
<1>8. CASE AskClose
  BY Zenon, <1>8, ClosingOrder DEF AskClose, OutcomeInv, Before
<1>9. CASE CloseGranted
  <2>1. CASE main = "closeSecrets"
    <3>1. /\ line' = line /\ main' = "closeState" /\ UNCHANGED <<err, code>>
          /\ failures' \in {failures, failures \cup {"closeSecrets"}}
      BY Zenon, <1>9, <2>1 DEF CloseGranted, Blame
    <3> QED BY Zenon, <2>1, <3>1 DEF OutcomeInv, Before
  <2> QED BY Zenon, <1>9, <2>1, LastClose, ClosingOrder DEF CloseGranted
<1>10. CASE UNCHANGED vars
  BY Zenon, <1>10 DEF vars, OutcomeInv
<1> QED BY <1>1, <1>2, <1>3, <1>4, <1>5, <1>6, <1>7, <1>8, <1>9, <1>10 DEF Next

\* Whatever fails between the command line and the last Close, the exit status
\* is 0 exactly when nothing failed, and 2 only for a refused command line and
\* for the panic after the state store failed to open (ExitCode, withService).
THEOREM StatusTellsOutcome == Spec => []ExitTellsOutcome
<1>1. Init => OutcomeInv
  BY Zenon DEF Init, OutcomeInv, Before
<1>2. IInv /\ OutcomeInv => ExitTellsOutcome
  BY Zenon DEF IInv, OutcomeInv, Before, StoreStates, ExitTellsOutcome, TypeOK
<1> QED BY <1>1, <1>2, Invariance, OutcomeStep, PTL DEF Spec

-----------------------------------------------------------------------------
(* The latency checker.                                                       *)

Busy == {"got", "check", "dial", "dialled", "refused"}

Places == {"gone", "receive"} \cup Busy

WorkerStates == [pc : Places, job : Nat]

\* Where the fields range.
ShapeInv ==
    /\ Len(eps) \in Nat /\ DOMAIN eps = 1..Len(eps)
    /\ DOMAIN results = DOMAIN eps
    /\ next \in Nat \ {0} /\ next <= Len(eps) + 1
    /\ worker \in [Workers -> WorkerStates]
    /\ check \in {"idle", "sending", "closed", "returned"}

\* A worker has the endpoint.
InHand(i) == \E w \in Workers : worker[w].pc \in Busy /\ worker[w].job = i

\* A result without a status has not been offered yet, is in a worker's hand,
\* or was left by a worker that saw the end of the context.
ResultFits(i) ==
    /\ results[i].id = eps[i].id /\ results[i].status \in Statuses \cup {""}
    /\ results[i].status = "success" => i \in probed /\ eps[i].tcp /\ eps[i].valid
    /\ results[i].status = "" => next <= i \/ cancelled \/ InHand(i)

ResultsInv == \A i \in DOMAIN eps : ResultFits(i)

\* A worker has an endpoint that was offered, and dials only a proper one.
WorkerFits(w) ==
    /\ worker[w].pc \in Busy => worker[w].job \in 1..(next - 1)
    /\ worker[w].pc \in {"dial", "dialled", "refused"} =>
         eps[worker[w].job].tcp /\ eps[worker[w].job].valid

WorkersInv == \A w \in Workers : WorkerFits(w)

\* A connection is open only while the worker that dialled it has it.
ConnsInv == \A i \in conns : \E w \in Workers : worker[w].pc = "dialled" /\ worker[w].job = i

\* How far Check has come.
StageInv ==
    /\ check = "closed" => next > Len(eps) \/ cancelled
    /\ check \in {"idle", "returned"} => \A w \in Workers : worker[w].pc = "gone"
    /\ check = "returned" => \A i \in DOMAIN eps : results[i].status # ""

CheckInv == ShapeInv /\ ResultsInv /\ WorkersInv /\ ConnsInv /\ StageInv

\* What the checker promises follows from the invariant.
LEMMA InvChecks == CheckInv => CheckIsComplete
  <1> SUFFICES ASSUME CheckInv PROVE CheckIsComplete
    OBVIOUS
  <1>1. EveryEndpointJudged
    BY Zenon DEF CheckInv, ResultsInv, ResultFits, StageInv, EveryEndpointJudged
  <1>2. NothingLeftOpen
    <2> SUFFICES ASSUME check = "returned" PROVE conns = {} /\ \A w \in Workers : At(w, "gone")
      BY Zenon DEF NothingLeftOpen
    <2>1. \A w \in Workers : worker[w].pc = "gone"
      BY Zenon DEF CheckInv, StageInv
    <2>2. conns = {}
      BY Zenon, <2>1 DEF CheckInv, ConnsInv
    <2> QED
      BY Zenon, <2>1, <2>2 DEF At
  <1> QED
    BY Zenon, <1>1, <1>2 DEF CheckIsComplete

\* Where a worker is after it has moved; the others stay where they are.
LEMMA Moved ==
    ASSUME ShapeInv, NEW w \in Workers, NEW pc \in Places, Move(w, pc)
    PROVE  /\ worker' \in [Workers -> WorkerStates]
           /\ worker'[w].pc = pc /\ worker'[w].job = worker[w].job
           /\ \A u \in Workers : u # w => worker'[u] = worker[u]
  BY Zenon DEF ShapeInv, Move, WorkerStates

\* No check runs.
LEMMA IdleFits ==
    ASSUME eps = <<>>, results = <<>>, check = "idle", next = 1, conns = {},
           worker = [w \in Workers |-> [pc |-> "gone", job |-> 0]]
    PROVE  CheckInv
  <1>1. ShapeInv
    BY DEF ShapeInv, WorkerStates, Places
  <1>2. \A w \in Workers : worker[w].pc = "gone"
    OBVIOUS
  <1>3. DOMAIN eps = {}
    OBVIOUS
  <1> QED
    BY Zenon, <1>1, <1>2, <1>3 DEF CheckInv, ResultsInv, WorkersInv, WorkerFits, ConnsInv, StageInv, Busy

\* The same of the next state: the caller has used the results.
LEMMA EndFits == EndCheck => CheckInv'
  <1> SUFFICES ASSUME EndCheck PROVE CheckInv'
    OBVIOUS
  <1>0. /\ eps' = <<>> /\ results' = <<>> /\ check' = "idle" /\ next' = 1 /\ conns' = {}
        /\ worker' = [w \in Workers |-> [pc |-> "gone", job |-> 0]]
    BY Zenon DEF EndCheck
  <1>1. ShapeInv'
    BY <1>0 DEF ShapeInv, WorkerStates, Places
  <1>2. \A w \in Workers : worker'[w].pc = "gone"
    BY Zenon, <1>0
  <1>3. DOMAIN eps' = {}
    BY <1>0
  <1> QED
    BY Zenon, <1>0, <1>1, <1>2, <1>3 DEF CheckInv, ResultsInv, WorkersInv, WorkerFits, ConnsInv, StageInv, Busy

\* Check begins over any list; over none it returns at once, without workers.
LEMMA StartFits ==
    ASSUME NEW list, Len(list) \in Nat, DOMAIN list = 1..Len(list), Len(list) = 0 => list = <<>>,
           StartCheck(list)
    PROVE  CheckInv'
  <1>0. /\ eps' = list /\ next' = 1 /\ conns' = {}
        /\ results' = [i \in DOMAIN list |-> Untouched(list[i])]
        /\ check' = IF list = <<>> THEN "returned" ELSE "sending"
    BY Zenon DEF StartCheck
  <1>1. PICK S \in SUBSET Workers :
          /\ Cardinality(S) = (IF Cardinality(Workers) < Len(list) THEN Cardinality(Workers) ELSE Len(list))
          /\ worker' = [w \in Workers |-> [pc |-> IF w \in S THEN "receive" ELSE "gone", job |-> 0]]
    BY Zenon DEF StartCheck
  <1>2. ShapeInv'
    BY <1>0, <1>1 DEF ShapeInv, WorkerStates, Places
  <1>3. \A w \in Workers : worker'[w].pc \in {"receive", "gone"}
    BY Zenon, <1>1
  <1>4. \A i \in DOMAIN list : results'[i].id = list[i].id /\ results'[i].status = ""
    BY Zenon, <1>0 DEF Untouched, Result
  <1>5. ResultsInv'
    <2> SUFFICES ASSUME NEW i \in DOMAIN list PROVE ResultFits(i)'
      BY Zenon, <1>0 DEF ResultsInv
    <2>1. next' <= i
      BY <1>0
    <2> QED
      BY Zenon, <1>0, <1>4, <2>1 DEF ResultFits
  <1>6. WorkersInv'
    BY Zenon, <1>3 DEF WorkersInv, WorkerFits, Busy
  <1>7. ConnsInv'
    BY Zenon, <1>0 DEF ConnsInv
  <1>8. CASE list = <<>>
    <2>1. Cardinality(Workers) \in Nat
      BY Zenon, WorkersAssumption, FS_CardinalityType
    <2>2. Cardinality(S) = 0 /\ IsFiniteSet(S)
      BY <1>1, <1>8, <2>1, WorkersAssumption, FS_Subset
    <2>3. S = {}
      BY Zenon, <2>2, FS_EmptySet
    <2>4. \A w \in Workers : worker'[w].pc = "gone"
      BY Zenon, <1>1, <2>3
    <2>5. StageInv'
      BY <1>0, <1>8, <2>4 DEF StageInv
    <2> QED
      BY Zenon, <1>2, <1>5, <1>6, <1>7, <2>5 DEF CheckInv
  <1>9. CASE list # <<>>
    <2>1. StageInv'
      BY Zenon, <1>0, <1>9 DEF StageInv
    <2> QED
      BY <1>2, <1>5, <1>6, <1>7, <2>1 DEF CheckInv
  <1> QED
    BY Zenon, <1>8, <1>9

\* The loop of the sender offers one endpoint after the other.
LEMMA SendFits == ASSUME CheckInv, NEW w \in Workers, SendJob(w) PROVE CheckInv'
  <1> USE DEF CheckInv
  <1>0. /\ check = "sending" /\ next <= Len(eps) /\ next' = next + 1
        /\ worker' = [worker EXCEPT ![w] = [pc |-> "got", job |-> next]]
        /\ worker[w].pc = "receive"
        /\ UNCHANGED <<eps, results, check, conns, probed, cancelled>>
    BY Zenon DEF SendJob, At
  <1>1. /\ worker' \in [Workers -> WorkerStates]
        /\ worker'[w].pc = "got" /\ worker'[w].job = next
        /\ \A u \in Workers : u # w => worker'[u] = worker[u]
    BY Zenon, <1>0 DEF ShapeInv, WorkerStates, Places, Busy
  <1>2. ShapeInv'
    BY <1>0, <1>1 DEF ShapeInv
  <1>3. ASSUME NEW i \in DOMAIN eps PROVE ResultFits(i)'
    <2>1. ResultFits(i)
      BY Zenon DEF ResultsInv
    <2>2. InHand(i) => InHand(i)'
      BY Zenon, <1>0, <1>1 DEF InHand, Busy
    <2>3. i = next => InHand(i)'
      BY Zenon, <1>1 DEF InHand, Busy
    <2>4. next <= i => next' <= i \/ i = next
      BY <1>0 DEF ShapeInv
    <2> QED
      BY Zenon, <1>0, <2>1, <2>2, <2>3, <2>4 DEF ResultFits
  <1>4. ResultsInv'
    BY Zenon, <1>0, <1>3 DEF ResultsInv
  <1>5. ASSUME NEW u \in Workers PROVE WorkerFits(u)'
    <2>1. WorkerFits(u)
      BY Zenon DEF WorkersInv
    <2>2. next \in 1..(next' - 1) /\ 1..(next - 1) \subseteq 1..(next' - 1)
      BY <1>0 DEF ShapeInv
    <2>3. CASE u = w
      BY Zenon, <1>1, <2>2, <2>3 DEF WorkerFits
    <2>4. CASE u # w
      BY Zenon, <1>0, <1>1, <2>1, <2>2, <2>4 DEF WorkerFits
    <2> QED
      BY Zenon, <2>3, <2>4
  <1>6. WorkersInv'
    BY Zenon, <1>5 DEF WorkersInv
  <1>7. ConnsInv'
    BY Zenon, <1>0, <1>1 DEF ConnsInv
  <1>8. StageInv'
    BY Zenon, <1>0 DEF StageInv
  <1> QED
    BY Zenon, <1>2, <1>4, <1>6, <1>7, <1>8

\* No more endpoints, or the context has ended.
LEMMA CloseFits == ASSUME CheckInv, CloseJobs PROVE CheckInv'
  <1>0. /\ check = "sending" /\ (next > Len(eps) \/ cancelled) /\ check' = "closed"
        /\ UNCHANGED <<eps, results, next, worker, conns, probed, cancelled>>
    BY Zenon DEF CloseJobs
  <1>1. ShapeInv'
    BY Zenon, <1>0 DEF CheckInv, ShapeInv
  <1>2. ResultsInv' /\ WorkersInv' /\ ConnsInv'
    <2>1. ResultsInv'
      BY Zenon, <1>0 DEF CheckInv, ResultsInv, ResultFits, InHand
    <2>2. WorkersInv'
      BY Zenon, <1>0 DEF CheckInv, WorkersInv, WorkerFits
    <2>3. ConnsInv'
      BY Zenon, <1>0 DEF CheckInv, ConnsInv
    <2> QED
      BY Zenon, <2>1, <2>2, <2>3
  <1>3. StageInv'
    BY Zenon, <1>0 DEF StageInv
  <1> QED
    BY Zenon, <1>1, <1>2, <1>3 DEF CheckInv

\* A worker goes from one place where it has its endpoint to the next.
LEMMA GoOnFits ==
    ASSUME CheckInv, NEW w \in Workers, worker[w].pc \in Busy \ {"dialled"}, NEW pc \in Busy, Move(w, pc),
           pc \in {"dial", "dialled", "refused"} => eps[worker[w].job].tcp /\ eps[worker[w].job].valid,
           conns' = conns \/ (pc = "dialled" /\ conns' = conns \cup {worker[w].job}),
           UNCHANGED <<eps, results, check, next, probed, cancelled>>
    PROVE  CheckInv'
  <1> USE DEF CheckInv
  <1>0. pc \in Places
    BY Zenon DEF Places
  <1>1. /\ worker' \in [Workers -> WorkerStates]
        /\ worker'[w].pc = pc /\ worker'[w].job = worker[w].job
        /\ \A u \in Workers : u # w => worker'[u] = worker[u]
    BY Zenon, <1>0, Moved
  <1>2. ShapeInv'
    BY Zenon, <1>1 DEF ShapeInv
  <1>3. ResultsInv'
    <2>1. \A i : InHand(i) => InHand(i)'
      BY Zenon, <1>1 DEF InHand
    <2> QED
      BY Zenon, <2>1 DEF ResultsInv, ResultFits
  <1>4. WorkersInv'
    BY Zenon, <1>1 DEF WorkersInv, WorkerFits
  <1>5. ConnsInv'
    BY <1>1 DEF ConnsInv
  <1>6. StageInv'
    BY Zenon, <1>1 DEF StageInv, Busy
  <1> QED
    BY Zenon, <1>2, <1>3, <1>4, <1>5, <1>6

\* A worker that leaves has no endpoint, or leaves it to the end of the context.
LEMMA LeaveFits == ASSUME CheckInv, NEW w \in Workers, Leave(w) PROVE CheckInv'
  <1> USE DEF CheckInv
  <1>0. /\ worker[w].pc = "receive" \/ (cancelled /\ worker[w].pc = "got")
        /\ Move(w, "gone") /\ "gone" \in Places
        /\ UNCHANGED <<eps, results, check, next, conns, probed, cancelled>>
    BY Zenon DEF Leave, At, Places
  <1>1. /\ worker' \in [Workers -> WorkerStates]
        /\ worker'[w].pc = "gone"
        /\ \A u \in Workers : u # w => worker'[u] = worker[u]
    BY Zenon, <1>0, Moved
  <1>2. ShapeInv'
    BY Zenon, <1>0, <1>1 DEF ShapeInv
  <1>3. ResultsInv'
    <2>1. \A i : InHand(i) => InHand(i)' \/ cancelled'
      BY Zenon, <1>0, <1>1 DEF InHand, Busy
    <2> QED
      BY Zenon, <1>0, <2>1 DEF ResultsInv, ResultFits
  <1>4. WorkersInv'
    BY Zenon, <1>0, <1>1 DEF WorkersInv, WorkerFits, Busy
  <1>5. ConnsInv'
    BY <1>0, <1>1 DEF ConnsInv
  <1>6. StageInv'
    BY Zenon, <1>0, <1>1 DEF StageInv
  <1> QED
    BY <1>2, <1>3, <1>4, <1>5, <1>6

\* A worker stores a result: it has a status, and success only after a probe.
LEMMA StoreFits ==
    ASSUME CheckInv, NEW w \in Workers, worker[w].pc \in Busy, NEW status \in Statuses, NEW d,
           Store(w, status, d), probed \subseteq probed',
           conns' \subseteq conns, worker[w].pc = "dialled" => worker[w].job \notin conns',
           status = "success" => worker[w].job \in probed' /\ worker[w].pc = "dialled",
           UNCHANGED <<eps, check, next, cancelled>>
    PROVE  CheckInv'
  <1> USE DEF CheckInv
  <1> DEFINE j == worker[w].job
  <1>0. /\ results' = [results EXCEPT ![j] = Result(eps[j], status, d)]
        /\ Move(w, "receive") /\ "receive" \in Places
    BY Zenon DEF Store, Places
  <1>1. /\ worker' \in [Workers -> WorkerStates]
        /\ worker'[w].pc = "receive" /\ worker'[w].job = j
        /\ \A u \in Workers : u # w => worker'[u] = worker[u]
    BY Zenon, <1>0, Moved
  <1>2. ShapeInv'
    BY Zenon, <1>0, <1>1 DEF ShapeInv
  <1>3. ASSUME NEW i \in DOMAIN eps PROVE ResultFits(i)'
    <2>1. ResultFits(i)
      BY Zenon DEF ResultsInv
    <2>2. CASE i = j
      <3>1. results'[i] = Result(eps[i], status, d)
        BY Zenon, <1>0, <2>2 DEF ShapeInv
      <3>2. results'[i].id = eps[i].id /\ results'[i].status = status
        BY <3>1 DEF Result
      <3>3. status # "" /\ status \in Statuses \cup {""}
        BY Zenon DEF Statuses
      <3>4. status = "success" => i \in probed' /\ eps[i].tcp /\ eps[i].valid
        BY Zenon, <2>2 DEF WorkersInv, WorkerFits
      <3> QED
        BY Zenon, <3>2, <3>3, <3>4 DEF ResultFits
    <2>3. CASE i # j
      <3>1. results'[i] = results[i]
        BY Zenon, <1>0, <2>3 DEF ShapeInv
      <3>2. InHand(i) => InHand(i)'
        BY Zenon, <1>1, <2>3 DEF InHand
      <3> QED
        BY Zenon, <2>1, <3>1, <3>2 DEF ResultFits
    <2> QED
      BY Zenon, <2>2, <2>3
  <1>4. ResultsInv'
    BY Zenon, <1>3 DEF ResultsInv
  <1>5. WorkersInv'
    BY Zenon, <1>1 DEF WorkersInv, WorkerFits, Busy
  <1>6. ConnsInv'
    BY <1>1 DEF ConnsInv
  <1>7. StageInv'
    <2>1. check \notin {"idle", "returned"}
      BY Zenon DEF StageInv, Busy
    <2> QED
      BY Zenon, <2>1 DEF StageInv
  <1> QED
    BY Zenon, <1>2, <1>4, <1>5, <1>6, <1>7

\* One worker's step of the check.
LEMMA WorkerFitsOn ==
    ASSUME CheckInv, NEW w \in Workers, BeginProbe(w) \/ CheckOne(w) \/ Dialled(w) \/ EndProbe(w)
    PROVE  CheckInv'
  <1> DEFINE j == worker[w].job
  <1> USE DEF Busy
  <1>1. CASE BeginProbe(w)
    <2>1. worker[w].pc = "got" /\ Move(w, "check")
      BY Zenon, <1>1 DEF BeginProbe, At
    <2>2. UNCHANGED <<eps, results, check, next, conns, probed, cancelled>>
      BY Zenon, <1>1 DEF BeginProbe
    <2>3. worker[w].pc \in Busy \ {"dialled"} /\ "check" \in Busy /\ "check" \notin {"dial", "dialled", "refused"}
      BY Zenon, <2>1
    <2> HIDE DEF Busy
    <2> QED
      BY Zenon, <2>1, <2>2, <2>3, GoOnFits
  <1>2. CASE CheckOne(w)
    <2>1. worker[w].pc = "check" /\ UNCHANGED <<eps, check, next, conns, probed, cancelled>>
      BY Zenon, <1>2 DEF CheckOne, At
    <2>2. \/ Store(w, "unsupported", 0) \/ Store(w, "unavailable", 0)
          \/ eps[j].tcp /\ eps[j].valid /\ Move(w, "dial") /\ UNCHANGED results
      BY Zenon, <1>2 DEF CheckOne
    <2>3. CASE Move(w, "dial") /\ UNCHANGED results /\ eps[j].tcp /\ eps[j].valid
      <3>1. worker[w].pc \in Busy \ {"dialled"} /\ "dial" \in Busy
        BY Zenon, <2>1
      <3> HIDE DEF Busy
      <3> QED
        BY <2>1, <2>3, <3>1, GoOnFits
    <2>4. ASSUME NEW status \in {"unsupported", "unavailable"}, Store(w, status, 0) PROVE CheckInv'
      BY Zenon, <2>1, <2>4, StoreFits DEF Statuses
    <2> QED
      BY Zenon, <2>2, <2>3, <2>4
  <1>3. CASE Dialled(w)
    <2>1. worker[w].pc = "dial" /\ UNCHANGED <<eps, results, check, next, probed, cancelled>>
      BY Zenon, <1>3 DEF Dialled, At
    <2>2. eps[j].tcp /\ eps[j].valid
      BY Zenon, <2>1 DEF CheckInv, WorkersInv, WorkerFits
    <2>5. worker[w].pc \in Busy \ {"dialled"} /\ "dialled" \in Busy /\ "refused" \in Busy
      BY Zenon, <2>1
    <2> HIDE DEF Busy
    <2>3. CASE conns' = conns \cup {j} /\ Move(w, "dialled")
      BY <2>1, <2>2, <2>3, <2>5, GoOnFits
    <2>4. CASE conns' = conns /\ Move(w, "refused")
      BY <2>1, <2>2, <2>4, <2>5, GoOnFits
    <2> QED
      BY Zenon, <1>3, <2>3, <2>4 DEF Dialled
  <1>4. CASE EndProbe(w)
    <2>1. /\ worker[w].pc \in {"dialled", "refused"} /\ conns' = conns \ {j}
          /\ UNCHANGED <<eps, check, next, cancelled>>
      BY Zenon, <1>4 DEF EndProbe, At
    <2>2. CASE Store(w, "unavailable", 0) /\ UNCHANGED probed
      BY Zenon, <2>1, <2>2, StoreFits DEF Statuses
    <2>3. ASSUME NEW d, Store(w, "success", d), worker[w].pc = "dialled", probed' = probed \cup {j}
          PROVE  CheckInv'
      BY Zenon, <2>1, <2>3, StoreFits DEF Statuses
    <2> QED
      BY Zenon, <1>4, <2>2, <2>3 DEF EndProbe, At
  <1> QED
    BY Zenon, <1>1, <1>2, <1>3, <1>4

\* What the end of the context has kept from being probed is unavailable.
LEMMA ReturnFits == ASSUME CheckInv, ReturnResults PROVE CheckInv'
  <1> USE DEF CheckInv
  <1>0. /\ check = "closed" /\ check' = "returned" /\ \A w \in Workers : worker[w].pc = "gone"
        /\ results' = [i \in DOMAIN results |->
                          IF cancelled /\ results[i].status = ""
                          THEN Result(eps[i], "unavailable", 0) ELSE results[i]]
        /\ UNCHANGED <<eps, next, worker, conns, probed, cancelled>>
    BY Zenon DEF ReturnResults, At
  <1>1. ShapeInv'
    BY Zenon, <1>0 DEF ShapeInv
  <1>2. ASSUME NEW i \in DOMAIN eps PROVE ResultFits(i)' /\ results'[i].status # ""
    <2>1. ResultFits(i)
      BY Zenon DEF ResultsInv
    <2>2. CASE results[i].status # ""
      <3>1. results'[i] = results[i]
        BY Zenon, <1>0, <2>2 DEF ShapeInv
      <3> QED
        BY Zenon, <1>0, <2>1, <2>2, <3>1 DEF ResultFits
    <2>3. CASE results[i].status = ""
      <3>1. ~InHand(i)
        BY Zenon, <1>0 DEF InHand, Busy
      <3>2. ~(next > Len(eps) /\ next <= i)
        BY DEF ShapeInv
      <3>3. cancelled
        BY Zenon, <1>0, <2>1, <2>3, <3>1, <3>2 DEF ResultFits, StageInv
      <3>4. results'[i] = Result(eps[i], "unavailable", 0)
        BY Zenon, <1>0, <2>3, <3>3 DEF ShapeInv
      <3>5. results'[i].id = eps[i].id /\ results'[i].status = "unavailable"
        BY <3>4 DEF Result
      <3> QED
        BY Zenon, <1>0, <3>5 DEF ResultFits, Statuses
    <2> QED
      BY Zenon, <2>2, <2>3
  <1>3. ResultsInv'
    BY Zenon, <1>0, <1>2 DEF ResultsInv
  <1>4. WorkersInv' /\ ConnsInv'
    BY Zenon, <1>0 DEF WorkersInv, WorkerFits, ConnsInv
  <1>5. StageInv'
    BY Zenon, <1>0, <1>2 DEF StageInv
  <1> QED
    BY Zenon, <1>1, <1>3, <1>4, <1>5

\* The context of a call ends.
LEMMA CancelFits ==
    ASSUME CheckInv, cancelled', UNCHANGED <<eps, results, check, next, worker, conns, probed>>
    PROVE  CheckInv'
  <1>1. ShapeInv'
    BY Zenon DEF CheckInv, ShapeInv
  <1>2. ResultsInv' /\ WorkersInv' /\ ConnsInv' /\ StageInv'
    BY Zenon DEF CheckInv, ResultsInv, ResultFits, WorkersInv, WorkerFits, ConnsInv, StageInv
  <1> QED
    BY Zenon, <1>1, <1>2 DEF CheckInv

\* A step that leaves the checker alone.
LEMMA SameFits == CheckInv /\ UNCHANGED checkVars => CheckInv'
  <1> SUFFICES ASSUME CheckInv, UNCHANGED checkVars PROVE CheckInv'
    OBVIOUS
  <1>0. UNCHANGED <<eps, results, check, next, worker, conns, probed, cancelled>>
    BY Zenon DEF checkVars
  <1>1. ShapeInv'
    BY Zenon, <1>0 DEF CheckInv, ShapeInv
  <1>2. ResultsInv' /\ WorkersInv' /\ ConnsInv' /\ StageInv'
    BY Zenon, <1>0 DEF CheckInv, ResultsInv, ResultFits, InHand, WorkersInv, WorkerFits, ConnsInv, StageInv
  <1> QED
    BY Zenon, <1>1, <1>2 DEF CheckInv

\* Every step of the checker keeps the invariant.
LEMMA CheckStepFits == CheckInv /\ CheckStep => CheckInv'
  BY SendFits, CloseFits, LeaveFits, WorkerFitsOn, ReturnFits DEF CheckStep

\* A list that is stored is a sequence, and so is one of its endpoints alone.
LEMMA Listed ==
    /\ \A s \in StoredLists : Len(s) \in Nat /\ DOMAIN s = 1..Len(s) /\ (Len(s) = 0 => s = <<>>)
    /\ \A e : Len(<<e>>) \in Nat /\ DOMAIN <<e>> = 1..Len(<<e>>) /\ (Len(<<e>>) = 0 => <<e>> = <<>>)
  <1>1. ASSUME NEW s \in StoredLists PROVE Len(s) \in Nat /\ DOMAIN s = 1..Len(s) /\ (Len(s) = 0 => s = <<>>)
    <2>1. s \in Seq(Range(s))
      BY Zenon, ListsAssumption
    <2> QED
      BY <2>1
  <1> QED
    BY <1>1

\* A call that loads the endpoints starts a check over them, or ends.
LEMMA LoadFits ==
    ASSUME CheckInv, stored \in StoredLists, LoadFails \/ LoadForConnect \/ LoadForLatency
    PROVE  CheckInv'
  <1>1. \/ EndCheck \/ UNCHANGED checkVars \/ StartCheck(stored)
        \/ \E e : StartCheck(<<e>>)
    BY Zenon DEF LoadFails, LoadForConnect, LoadForLatency, Probe, Return
  <1>2. StartCheck(stored) => CheckInv'
    BY Zenon, Listed, StartFits
  <1>3. \A e : StartCheck(<<e>>) => CheckInv'
    BY Zenon, Listed, StartFits
  <1>4. EndCheck \/ UNCHANGED checkVars => CheckInv'
    BY Zenon, EndFits, SameFits
  <1> QED
    BY Zenon, <1>1, <1>2, <1>3, <1>4

\* Every step of a call keeps the invariant.
LEMMA CallStepFits ==
    ASSUME CheckInv, stored \in StoredLists, [CallNext]_callVars
    PROVE  CheckInv' /\ stored' \in StoredLists
  <1>1. CASE LoadFails \/ LoadForConnect \/ LoadForLatency
    BY Zenon, <1>1, LoadFits DEF LoadFails, LoadForConnect, LoadForLatency
  <1>2. CASE LatencyDone \/ AutoChosen \/ DaemonAnswers
    <2>1. EndCheck \/ UNCHANGED checkVars
      BY Zenon, <1>2 DEF LatencyDone, AutoChosen, DaemonAnswers, Return
    <2>2. UNCHANGED stored
      BY Zenon, <1>2 DEF LatencyDone, AutoChosen, DaemonAnswers
    <2> QED
      BY <2>1, <2>2, EndFits, SameFits
  <1>3. CASE CheckStep /\ UNCHANGED <<stored, call, cache>>
    BY Zenon, <1>3, CheckStepFits
  <1>4. CASE BeginConnect \/ BeginLatency \/ Change
    BY Zenon, <1>4, SameFits DEF BeginConnect, BeginLatency, Change
  <1>5. CASE Cancel
    BY Zenon, <1>5, CancelFits DEF Cancel
  <1>6. CASE UNCHANGED callVars
    BY Zenon, <1>6, SameFits DEF callVars
  <1> QED
    BY <1>1, <1>2, <1>3, <1>4, <1>5, <1>6 DEF CallNext, CallStep

\* Whatever the workers do in whatever order and whenever the context ends,
\* Check returns with a proper result of every endpoint and leaves no worker and
\* no connection behind (Checker.Check and checkOne).
THEOREM CheckCompletes == CallSpec => []CheckIsComplete
  <1>1. CallInit => CheckInv /\ stored \in StoredLists
    BY Zenon, IdleFits DEF CallInit, CheckInit
  <1>2. CheckInv /\ stored \in StoredLists /\ [CallNext]_callVars => (CheckInv /\ stored \in StoredLists)'
    BY Zenon, CallStepFits
  <1>3. CheckInv /\ stored \in StoredLists => CheckIsComplete
    BY Zenon, InvChecks
  <1> QED
    BY <1>1, <1>2, <1>3, PTL DEF CallSpec

-----------------------------------------------------------------------------
(* What Connect sends.                                                        *)

\* The locals of a call: the fields of a record.
CallLocals(c) ==
    \E pc, op, target, direct, snap, endpoint :
        c \in [pc : {pc}, op : {op}, target : {target}, direct : {direct}, snap : {snap}, endpoint : {endpoint}]

\* An Auto Best probes a snapshot whose endpoints are valid.
SentInv ==
    /\ CallLocals(call)
    /\ At1("probe") /\ call.op = "connect" =>
         call.target = AutoTarget /\ \A i \in DOMAIN call.snap : call.snap[i].valid
    /\ SentIsStored

\* A call that has not begun has sent nothing.
LEMMA NoCallLocals == CallLocals(NoCall) /\ NoCall.pc = "idle"
  <1>1. NoCall \in [pc : {"idle"}, op : {"none"}, target : {NoTarget}, direct : {FALSE},
                    snap : {<<>>}, endpoint : {NoEndpoint}]
    BY Zenon DEF NoCall
  <1>2. CallLocals(NoCall)
    BY <1>1, SMT DEF CallLocals
  <1> QED
    BY Zenon, <1>1, <1>2

\* The same of a call that has returned.
LEMMA ReturnSends == call' = NoCall => SentInv'
  BY Zenon, NoCallLocals DEF SentInv, SentIsStored, At1

\* A step that leaves the call alone.
LEMMA SameSends == SentInv /\ call' = call => SentInv'
  BY Zenon DEF SentInv, SentIsStored, At1

\* Connect and CheckLatency begin; only a direct connection needs no endpoint.
LEMMA BeginSends == BeginConnect \/ BeginLatency => SentInv'
  <1> SUFFICES ASSUME BeginConnect \/ BeginLatency PROVE SentInv'
    OBVIOUS
  <1>1. CASE BeginConnect
    <2>1. PICK target \in Targets, direct \in BOOLEAN :
            call' = [NoCall EXCEPT !.op = "connect", !.target = target, !.direct = direct,
                                   !.pc = IF direct THEN "daemon" ELSE "load"]
      BY Zenon, <1>1 DEF BeginConnect
    <2>2. PICK p : p = IF direct THEN "daemon" ELSE "load"
      OBVIOUS
    <2>3. call' = [NoCall EXCEPT !.op = "connect", !.target = target, !.direct = direct, !.pc = p]
      BY Zenon, <2>1, <2>2
    <2>4. call' \in [pc : {p}, op : {"connect"}, target : {target}, direct : {direct},
                     snap : {<<>>}, endpoint : {NoEndpoint}]
      BY Zenon, <2>3 DEF NoCall
    <2>5. CallLocals(call')
      BY <2>4, SMT DEF CallLocals
    <2>7. call'.pc = p /\ call'.direct = direct
      BY Zenon, <2>4
    <2>6. p # "probe" /\ (p = "daemon" => direct)
      BY Zenon, <2>2
    <2> QED
      BY Zenon, <2>5, <2>6, <2>7 DEF SentInv, SentIsStored, At1
  <1>2. CASE BeginLatency
    <2>1. PICK target : call' = [NoCall EXCEPT !.op = "latency", !.target = target, !.pc = "load"]
      BY Zenon, <1>2 DEF BeginLatency
    <2>2. call' \in [pc : {"load"}, op : {"latency"}, target : {target}, direct : {FALSE},
                     snap : {<<>>}, endpoint : {NoEndpoint}]
      BY Zenon, <2>1 DEF NoCall
    <2>3. CallLocals(call')
      BY <2>2, SMT DEF CallLocals
    <2>4. call'.pc = "load"
      BY Zenon, <2>2
    <2> QED
      BY Zenon, <2>3, <2>4 DEF SentInv, SentIsStored, At1
  <1> QED
    BY Zenon, <1>1, <1>2

\* A call that starts a check, of a valid list for Auto Best.
LEMMA ProbeSends ==
    ASSUME SentInv, NEW list, Probe(list),
           call.op = "connect" => call.target = AutoTarget /\ \A i \in DOMAIN list : list[i].valid
    PROVE  SentInv'
  <1>1. call' = [call EXCEPT !.pc = "probe", !.snap = list]
    BY Zenon DEF Probe
  <1>2. PICK pc, op, target, direct, snap, endpoint :
          call \in [pc : {pc}, op : {op}, target : {target}, direct : {direct}, snap : {snap}, endpoint : {endpoint}]
    BY Zenon DEF SentInv, CallLocals
  <1>3. call' \in [pc : {"probe"}, op : {op}, target : {target}, direct : {direct}, snap : {list}, endpoint : {endpoint}]
    BY Zenon, <1>1, <1>2
  <1>6. CallLocals(call')
    BY <1>3, SMT DEF CallLocals
  <1>4. call'.pc = "probe" /\ call'.op = op /\ call'.target = target /\ call'.snap = list
    BY Zenon, <1>3
  <1>5. call.op = op /\ call.target = target
    BY Zenon, <1>2
  <1> QED
    BY Zenon, <1>4, <1>5, <1>6 DEF SentInv, SentIsStored, At1

\* An endpoint that was found is one of the list.
LEMMA FoundIn == \A s, id, e : e \in Find(s, id) => e \in Range(s) /\ e.id = id
  BY Zenon DEF Find, Range

\* A call has read the list: Connect finds the endpoint that was named, or
\* starts the check of Auto Best.
LEMMA LoadSends == ASSUME SentInv, LoadForConnect \/ LoadForLatency PROVE SentInv'
  <1>1. CASE LoadForConnect
    <2>1. \/ call' = NoCall
          \/ /\ \A i \in DOMAIN stored : stored[i].valid
             /\ \/ call.target = AutoTarget /\ Probe(stored)
                \/ /\ call.target # AutoTarget
                   /\ \E e \in Find(stored, call.target) :
                        call' = [call EXCEPT !.pc = "daemon", !.snap = stored, !.endpoint = e]
      BY Zenon, <1>1 DEF LoadForConnect, Return
    <2>2. ASSUME \A i \in DOMAIN stored : stored[i].valid, NEW e \in Find(stored, call.target),
                 call' = [call EXCEPT !.pc = "daemon", !.snap = stored, !.endpoint = e]
          PROVE  SentInv'
      <3>1. PICK pc, op, target, direct, snap, endpoint :
              call \in [pc : {pc}, op : {op}, target : {target}, direct : {direct}, snap : {snap}, endpoint : {endpoint}]
        BY Zenon DEF SentInv, CallLocals
      <3>2. call' \in [pc : {"daemon"}, op : {op}, target : {target}, direct : {direct}, snap : {stored}, endpoint : {e}]
        BY Zenon, <2>2, <3>1
      <3>3. call'.pc = "daemon" /\ call'.target = target /\ call'.snap = stored /\ call'.endpoint = e
        BY Zenon, <3>2
      <3>5. CallLocals(call')
        BY <3>2, SMT DEF CallLocals
      <3>4. e \in Range(stored) /\ e.id = target
        BY Zenon, <2>2, <3>1, FoundIn
      <3> QED
        BY Zenon, <2>2, <3>3, <3>4, <3>5 DEF SentInv, SentIsStored, At1
    <2> QED
      BY Zenon, <2>1, <2>2, ReturnSends, ProbeSends
  <1>2. CASE LoadForLatency
    <2>1. call.op # "connect"
      BY Zenon, <1>2 DEF LoadForLatency
    <2>2. call' = NoCall \/ \E list : Probe(list)
      BY Zenon, <1>2 DEF LoadForLatency, Return
    <2> QED
      BY Zenon, <2>1, <2>2, ReturnSends, ProbeSends
  <1> QED
    BY Zenon, <1>1, <1>2

\* Auto Best sends an endpoint of the snapshot it has probed.
LEMMA AutoSends == ASSUME SentInv, AutoChosen PROVE SentInv'
  <1>1. PICK best : best = Best(Projected)
    OBVIOUS
  <1>2. /\ call.pc = "probe" /\ call.op = "connect"
        /\ \/ call' = NoCall
           \/ \E e \in Find(call.snap, best.id) : call' = [call EXCEPT !.pc = "daemon", !.endpoint = e]
    BY Zenon, <1>1 DEF AutoChosen, Return, At1
  <1>3. call.target = AutoTarget /\ \A i \in DOMAIN call.snap : call.snap[i].valid
    BY Zenon, <1>2 DEF SentInv, At1
  <1>4. ASSUME NEW e \in Find(call.snap, best.id), call' = [call EXCEPT !.pc = "daemon", !.endpoint = e]
        PROVE  SentInv'
    <2>1. PICK pc, op, target, direct, snap, endpoint :
            call \in [pc : {pc}, op : {op}, target : {target}, direct : {direct}, snap : {snap}, endpoint : {endpoint}]
      BY Zenon DEF SentInv, CallLocals
    <2>2. call' \in [pc : {"daemon"}, op : {op}, target : {target}, direct : {direct}, snap : {snap}, endpoint : {e}]
      BY Zenon, <1>4, <2>1
    <2>3. call'.pc = "daemon" /\ call'.target = target /\ call'.snap = snap /\ call'.endpoint = e
      BY Zenon, <2>2
    <2>6. CallLocals(call')
      BY <2>2, SMT DEF CallLocals
    <2>4. call.snap = snap /\ call.target = target
      BY Zenon, <2>1
    <2>5. e \in Range(snap)
      BY Zenon, <1>4, <2>4, FoundIn
    <2> QED
      BY Zenon, <1>3, <2>3, <2>4, <2>5, <2>6 DEF SentInv, SentIsStored, At1
  <1> QED
    BY Zenon, <1>2, <1>4, ReturnSends

\* Every step keeps the invariant.
LEMMA SentStep == SentInv /\ [CallNext]_callVars => SentInv'
  <1> SUFFICES ASSUME SentInv, [CallNext]_callVars PROVE SentInv'
    OBVIOUS
  <1>1. CASE BeginConnect \/ BeginLatency
    BY Zenon, <1>1, BeginSends
  <1>2. CASE LoadForConnect \/ LoadForLatency
    BY Zenon, <1>2, LoadSends
  <1>3. CASE AutoChosen
    BY Zenon, <1>3, AutoSends
  <1>4. CASE LoadFails \/ LatencyDone \/ DaemonAnswers
    BY Zenon, <1>4, ReturnSends DEF LoadFails, LatencyDone, DaemonAnswers, Return
  <1>5. CASE CheckStep /\ UNCHANGED <<stored, call, cache>>
    BY Zenon, <1>5, SameSends
  <1>6. CASE Cancel \/ Change
    BY Zenon, <1>6, SameSends DEF Cancel, Change
  <1>7. CASE UNCHANGED callVars
    BY Zenon, <1>7, SameSends DEF callVars
  <1> QED
    BY Zenon, <1>1, <1>2, <1>3, <1>4, <1>5, <1>6, <1>7 DEF CallNext, CallStep

-----------------------------------------------------------------------------
(* Loops over a slice.                                                        *)

\* A loop of n turns over values of X, and what its variable holds after each.
Loop(X, base, n, step) == base \in X /\ n \in Nat /\ step \in [1..n -> [X -> X]]
Run(f, X, base, n, step) ==
    f \in [0..n -> X] /\ f[0] = base /\ \A i \in 1..n : f[i] = step[i][f[i - 1]]

\* Every loop has a run: the shortest one without would have a run that is
\* shorter by one turn.
LEMMA LoopRuns ==
    ASSUME NEW X, NEW base, NEW n, NEW step, Loop(X, base, n, step)
    PROVE  \E f : Run(f, X, base, n, step)
  <1> DEFINE NoRun == {m \in 0..n : ~ \E f : Run(f, X, base, m, step)}
  <1> USE DEF Loop, Run
  <1>1. CASE NoRun = {}
    <2>1. n \in 0..n
      OBVIOUS
    <2>2. PICK f : Run(f, X, base, n, step)
      BY Zenon, <1>1, <2>1
    <2> QED
      BY Zenon, <2>2
  <1>2. CASE NoRun # {}
    <2>1. NoRun \subseteq Nat
      OBVIOUS
    <2>2. PICK m \in NoRun : \A k \in NoRun : ~ (<<k, m>> \in OpToRel(<, Nat))
      BY Zenon, <1>2, <2>1, WFMin, NatLessThanWellFounded
    <2>3. \A k \in NoRun : ~ (k < m)
      BY Zenon, <2>1, <2>2 DEF OpToRel
    <2>4. CASE m = 0
      <3>1. Run([i \in 0..0 |-> base], X, base, 0, step)
        OBVIOUS
      <3> QED
        BY Zenon, <2>4, <3>1
    <2>5. CASE m # 0
      <3>1. m - 1 \in 0..n /\ m \in 1..n /\ m - 1 < m /\ m \in Nat
        BY <2>5
      <3>2. PICK f : Run(f, X, base, m - 1, step)
        BY Zenon, <2>3, <3>1
      <3> DEFINE g == [i \in 0..m |-> IF i = m THEN step[m][f[m - 1]] ELSE f[i]]
      <3>3. f[m - 1] \in X
        BY <3>1, <3>2
      <3>4. step[m][f[m - 1]] \in X
        BY <3>1, <3>3
      <3>5. g \in [0..m -> X]
        BY <3>1, <3>2, <3>4
      <3>6. g[0] = base
        BY <3>1, <3>2
      <3>7. \A i \in 1..m : g[i] = step[i][g[i - 1]]
        BY <3>1, <3>2
      <3> QED
        BY Zenon, <3>5, <3>6, <3>7
    <2> QED
      BY Zenon, <2>4, <2>5
  <1> QED
    BY Zenon, <1>1, <1>2

\* What holds of the loop before its first turn, and after a turn if it did
\* before, holds after all.
LEMMA Along ==
    ASSUME NEW n \in Nat, NEW S, 0 \in S, \A i \in 1..n : i - 1 \in S => i \in S
    PROVE  n \in S
  <1> DEFINE Out == {m \in 0..n : m \notin S}
  <1>1. SUFFICES ASSUME Out # {} PROVE FALSE
    OBVIOUS
  <1>2. Out \subseteq Nat
    OBVIOUS
  <1>3. PICK m \in Out : \A k \in Out : ~ (<<k, m>> \in OpToRel(<, Nat))
    <2> HIDE DEF Out
    <2> QED
      BY Zenon, <1>1, <1>2, WFMin, NatLessThanWellFounded
  <1>4. \A k \in Out : ~ (k < m)
    BY Zenon, <1>2, <1>3 DEF OpToRel
  <1>7. m \in 0..n /\ m # 0 /\ m \notin S
    BY Zenon, <1>3
  <1>5. m \in 1..n
    BY <1>7
  <1>8. m - 1 \in 0..n /\ m - 1 < m
    BY <1>5
  <1>6. m - 1 \in S
    BY Zenon, <1>4, <1>8
  <1> QED
    BY Zenon, <1>5, <1>6, <1>7

-----------------------------------------------------------------------------
(* Best.                                                                      *)

\* The results a check may have.
Judgements == [id : Int, status : Statuses \cup {""}, duration : Nat]

\* The loop of Best runs.
LEMMA BestRuns ==
    ASSUME NEW rs, NEW n \in Nat, Len(rs) = n, \A i \in 1..n : rs[i] \in Judgements
    PROVE  \E f :
              /\ f[0] = NoBest /\ \A i \in 1..n : f[i] = Pick(f[i - 1], rs[i])
              /\ Best(rs) = f[n]
  <1> DEFINE step == [i \in 1..n |-> [v \in Judgements |-> Pick(v, rs[i])]]
  <1>1. NoBest \in Judgements
    <2>1. NoBest = [id |-> 0, status |-> "", duration |-> 0]
      BY Zenon DEF NoBest, Result
    <2>2. "" \in Statuses \cup {""} /\ 0 \in Int /\ 0 \in Nat
      OBVIOUS
    <2> QED
      BY Zenon, <2>1, <2>2 DEF Judgements
  <1>2. \A i \in 1..n, v \in Judgements : Pick(v, rs[i]) \in Judgements
    BY Zenon DEF Pick
  <1>3. step \in [1..n -> [Judgements -> Judgements]]
    BY Zenon, <1>2
  <1>0. Loop(Judgements, NoBest, n, step)
    BY Zenon, <1>1, <1>3 DEF Loop
  <1>4. PICK f : Run(f, Judgements, NoBest, n, step)
    <2> HIDE DEF step
    <2> QED
      BY Zenon, <1>0, LoopRuns
  <1>5. \A i \in 1..n : i - 1 \in 0..n /\ f[i - 1] \in Judgements
    BY <1>4 DEF Run
  <1>6. \A i \in 1..n : f[i] = Pick(f[i - 1], rs[i])
    BY Zenon, <1>4, <1>5 DEF Run
  <1> DEFINE Turn(g, i) == IF i = 0 THEN NoBest ELSE Pick(g[i - 1], rs[i])
  <1>7. \A i \in 0..n : f[i] = Turn(f, i)
    BY <1>4, <1>6 DEF Run
  <1>8. f = [i \in 0..n |-> Turn(f, i)]
    BY Zenon, <1>4, <1>7 DEF Run
  <1> DEFINE h == CHOOSE g : g = [i \in 0..n |-> Turn(g, i)]
  <1>9. h = [i \in 0..n |-> Turn(h, i)]
    BY Zenon, <1>8
  <1>10. Best(rs) = h[n]
    BY Zenon DEF Best, FoldLeft
  <1>11. h[0] = NoBest
    <2>1. 0 \in 0..n
      OBVIOUS
    <2> HIDE DEF h
    <2> QED
      BY Zenon, <1>9, <2>1
  <1>12. \A i \in 1..n : h[i] = Pick(h[i - 1], rs[i])
    <2>1. \A i \in 1..n : i \in 0..n /\ i # 0
      OBVIOUS
    <2> HIDE DEF h
    <2> QED
      BY Zenon, <1>9, <2>1
  <1> HIDE DEF h
  <1> QED
    BY Zenon, <1>10, <1>11, <1>12

\* Better orders the results that differ in more than their status.
LEMMA BetterOrders ==
    ASSUME NEW r \in Judgements, NEW s \in Judgements, NEW t \in Judgements
    PROVE  /\ Better(r, s) /\ Better(s, t) => Better(r, t)
           /\ r.status = s.status => r = s \/ Better(r, s) \/ Better(s, r)
  <1>0. /\ r.duration \in Nat /\ s.duration \in Nat /\ t.duration \in Nat
        /\ r.id \in Int /\ s.id \in Int /\ t.id \in Int
    BY Zenon DEF Judgements
  <1>1. Better(r, s) /\ Better(s, t) => Better(r, t)
    BY <1>0 DEF Better
  <1>2. ASSUME r.status = s.status, ~Better(r, s), ~Better(s, r) PROVE r = s
    <2>1. r.duration = s.duration /\ r.id = s.id
      BY <1>0, <1>2 DEF Better
    <2>2. /\ r = [id |-> r.id, status |-> r.status, duration |-> r.duration]
          /\ s = [id |-> s.id, status |-> s.status, duration |-> s.duration]
      BY Zenon DEF Judgements
    <2> QED
      BY Zenon, <1>2, <2>1, <2>2
  <1> QED
    BY Zenon, <1>1, <1>2

\* What the loop of Best holds after k turns.
BestOf(b, rs, k) ==
    \/ b = NoBest /\ \A i \in 1..k : rs[i].status # "success"
    \/ \E j \in 1..k :
         /\ b = rs[j] /\ rs[j].status = "success"
         /\ \A i \in 1..k : rs[i].status = "success" => rs[i] = b \/ Better(b, rs[i])

\* One turn of the loop.
LEMMA PickKeeps ==
    ASSUME NEW rs, NEW k \in Nat \ {0}, \A i \in 1..k : rs[i] \in Judgements, NEW b, BestOf(b, rs, k - 1)
    PROVE  BestOf(Pick(b, rs[k]), rs, k)
  <1>0. k \in 1..k /\ \A i \in 1..k : i \in 1..(k - 1) \/ i = k
    OBVIOUS
  <1>1. \A i \in 1..(k - 1) : i \in 1..k
    OBVIOUS
  <1>2. CASE rs[k].status # "success"
    <2>1. Pick(b, rs[k]) = b
      BY Zenon, <1>2 DEF Pick
    <2> QED
      BY Zenon, <1>0, <1>1, <1>2, <2>1 DEF BestOf
  <1>3. CASE rs[k].status = "success" /\ b = NoBest /\ \A i \in 1..(k - 1) : rs[i].status # "success"
    <2>1. NoBest.status = ""
      BY DEF NoBest, Result
    <2>2. Pick(b, rs[k]) = rs[k]
      BY Zenon, <1>3, <2>1 DEF Pick
    <2> QED
      BY Zenon, <1>0, <1>3, <2>2 DEF BestOf
  <1>4. ASSUME rs[k].status = "success", NEW j \in 1..(k - 1), b = rs[j], rs[j].status = "success",
               \A i \in 1..(k - 1) : rs[i].status = "success" => rs[i] = b \/ Better(b, rs[i])
        PROVE  BestOf(Pick(b, rs[k]), rs, k)
    <2>0. j \in 1..k /\ b \in Judgements /\ rs[k] \in Judgements
      BY Zenon, <1>0, <1>1, <1>4
    <2>1. CASE Better(rs[k], b)
      <3>1. Pick(b, rs[k]) = rs[k]
        BY Zenon, <1>4, <2>1 DEF Pick
      <3>2. ASSUME NEW i \in 1..k, rs[i].status = "success" PROVE rs[i] = rs[k] \/ Better(rs[k], rs[i])
        <4>1. CASE i = k
          BY Zenon, <4>1
        <4>2. CASE i \in 1..(k - 1)
          <5>1. rs[i] = b \/ Better(b, rs[i])
            BY Zenon, <1>4, <3>2, <4>2
          <5>2. rs[i] \in Judgements
            OBVIOUS
          <5> QED
            BY Zenon, <2>0, <2>1, <5>1, <5>2, BetterOrders
        <4> QED
          BY Zenon, <1>0, <4>1, <4>2
      <3> QED
        BY Zenon, <1>0, <1>4, <3>1, <3>2 DEF BestOf
    <2>2. CASE ~Better(rs[k], b)
      <3>1. Pick(b, rs[k]) = b
        BY Zenon, <1>4, <2>2 DEF Pick
      <3>2. rs[k] = b \/ Better(b, rs[k])
        BY Zenon, <1>4, <2>0, <2>2, BetterOrders
      <3>3. \A i \in 1..k : rs[i].status = "success" => rs[i] = b \/ Better(b, rs[i])
        BY Zenon, <1>0, <1>4, <3>2
      <3> QED
        BY Zenon, <1>4, <2>0, <3>1, <3>3 DEF BestOf
    <2> QED
      BY Zenon, <2>1, <2>2
  <1> QED
    BY Zenon, <1>2, <1>3, <1>4 DEF BestOf

\* Best returns the successful result that no other successful one beats, and
\* none only if there is none.
LEMMA BestIsRight ==
    ASSUME NEW rs, NEW n \in Nat, Len(rs) = n, \A i \in 1..n : rs[i] \in Judgements
    PROVE  BestOf(Best(rs), rs, n)
  <1>1. PICK f : /\ f[0] = NoBest /\ \A i \in 1..n : f[i] = Pick(f[i - 1], rs[i])
                 /\ Best(rs) = f[n]
    BY Zenon, BestRuns
  <1> DEFINE S == {k \in 0..n : BestOf(f[k], rs, k)}
  <1>2. 0 \in S
    <2>1. 0 \in 0..n /\ 1..0 = {}
      OBVIOUS
    <2> QED
      BY Zenon, <1>1, <2>1 DEF BestOf
  <1>3. ASSUME NEW k \in 1..n, k - 1 \in S PROVE k \in S
    <2>1. k \in Nat \ {0} /\ k \in 0..n /\ \A i \in 1..k : i \in 1..n
      OBVIOUS
    <2>2. BestOf(f[k - 1], rs, k - 1)
      BY Zenon, <1>3
    <2>3. BestOf(Pick(f[k - 1], rs[k]), rs, k)
      BY Zenon, <2>1, <2>2, PickKeeps
    <2> QED
      BY Zenon, <1>1, <2>1, <2>3
  <1>4. n \in S
    <2> HIDE DEF S
    <2> QED
      BY Zenon, <1>2, <1>3, Along
  <1> QED
    BY Zenon, <1>1, <1>4

-----------------------------------------------------------------------------
(* What Connect sends for Auto Best.                                          *)

\* Every endpoint is judged once: one that was not offered yet or is in a
\* worker's hand has no status, no two workers have the same one, and those whose
\* probe was answered are successful.
JudgeInv ==
    /\ \A i \in DOMAIN eps : eps[i].id \in Int
    /\ results \in [DOMAIN eps -> Judgements]
    /\ probed \subseteq DOMAIN eps
    /\ \A i \in probed : results[i].status = "success"
    /\ check = "sending" => \A i \in DOMAIN eps : next <= i => results[i].status = ""
    /\ \A w \in Workers : worker[w].pc \in Busy => results[worker[w].job].status = ""
    /\ \A u, w \in Workers : worker[u].pc \in Busy /\ worker[w].pc \in Busy /\ u # w =>
                               worker[u].job # worker[w].job

\* A result of an endpoint with a proper identifier.
LEMMA ResultJudges ==
    ASSUME NEW e, e.id \in Int, NEW status \in Statuses \cup {""}, NEW d \in Nat
    PROVE  Result(e, status, d) \in Judgements /\ Result(e, status, d).status = status
  BY Zenon DEF Result, Judgements

\* No check runs.
LEMMA EndJudges ==
    /\ CheckInit => JudgeInv
    /\ EndCheck => JudgeInv'
  <1>1. ASSUME CheckInit PROVE JudgeInv
    <2>1. \A w \in Workers : worker[w].pc \notin Busy
      BY Zenon, <1>1 DEF CheckInit, Busy
    <2>2. eps = <<>> /\ results = <<>> /\ probed = {} /\ DOMAIN eps = {}
      BY <1>1 DEF CheckInit
    <2>3. results \in [DOMAIN eps -> Judgements]
      BY <2>2
    <2> QED
      BY Zenon, <2>1, <2>2, <2>3 DEF JudgeInv
  <1>2. ASSUME EndCheck PROVE JudgeInv'
    <2>1. \A w \in Workers : worker'[w].pc \notin Busy
      BY Zenon, <1>2 DEF EndCheck, Busy
    <2>2. eps' = <<>> /\ results' = <<>> /\ probed' = {} /\ DOMAIN eps' = {}
      BY <1>2 DEF EndCheck
    <2>3. results' \in [DOMAIN eps' -> Judgements]
      BY <2>2
    <2> QED
      BY Zenon, <2>1, <2>2, <2>3 DEF JudgeInv
  <1> QED
    BY Zenon, <1>1, <1>2

\* Check begins.
LEMMA StartJudges ==
    ASSUME NEW list, \A i \in DOMAIN list : list[i].id \in Int, StartCheck(list)
    PROVE  JudgeInv'
  <1>1. eps' = list /\ probed' = {} /\ results' = [i \in DOMAIN list |-> Untouched(list[i])]
    BY Zenon DEF StartCheck
  <1>2. \A w \in Workers : worker'[w].pc \notin Busy
    <2>1. PICK S : worker' = [w \in Workers |-> [pc |-> IF w \in S THEN "receive" ELSE "gone", job |-> 0]]
      BY Zenon DEF StartCheck
    <2>2. \A w \in Workers : worker'[w].pc \in {"receive", "gone"}
      BY Zenon, <2>1
    <2> QED
      BY Zenon, <2>2 DEF Busy
  <1>3. \A i \in DOMAIN list : Untouched(list[i]) \in Judgements /\ Untouched(list[i]).status = ""
    <2>1. 0 \in Nat /\ "" \in Statuses \cup {""}
      OBVIOUS
    <2> QED
      BY Zenon, <2>1, ResultJudges DEF Untouched
  <1>4. results' \in [DOMAIN eps' -> Judgements] /\ \A i \in DOMAIN eps' : results'[i].status = ""
    BY Zenon, <1>1, <1>3
  <1> QED
    BY Zenon, <1>1, <1>2, <1>4 DEF JudgeInv

\* A worker goes on with what it has, or leaves.
LEMMA GoOnJudges ==
    ASSUME ShapeInv, JudgeInv, NEW w \in Workers, NEW pc \in Places, Move(w, pc),
           pc \in Busy => worker[w].pc \in Busy,
           UNCHANGED <<eps, results, next, check, probed>>
    PROVE  JudgeInv'
  <1>1. /\ worker'[w].pc = pc /\ worker'[w].job = worker[w].job
        /\ \A u \in Workers : u # w => worker'[u] = worker[u]
    BY Zenon, Moved
  <1>2. \A u \in Workers : worker'[u].job = worker[u].job /\ (worker'[u].pc \in Busy => worker[u].pc \in Busy)
    BY Zenon, <1>1
  <1> QED
    BY Zenon, <1>2 DEF JudgeInv

\* The sender offers the next endpoint, which nobody has had.
LEMMA SendJudges == ASSUME CheckInv, JudgeInv, NEW w \in Workers, SendJob(w) PROVE JudgeInv'
  <1>1. /\ check = "sending" /\ next <= Len(eps) /\ next' = next + 1
        /\ worker' = [worker EXCEPT ![w] = [pc |-> "got", job |-> next]]
        /\ UNCHANGED <<eps, results, check, probed>>
    BY Zenon DEF SendJob
  <1>2. /\ worker'[w].job = next
        /\ \A u \in Workers : u # w => worker'[u] = worker[u]
    BY Zenon, <1>1 DEF CheckInv, ShapeInv
  <1>3. next \in DOMAIN eps /\ next <= next
    BY <1>1 DEF CheckInv, ShapeInv
  <1>4. results[next].status = ""
    BY Zenon, <1>1, <1>3 DEF JudgeInv
  <1>5. \A u \in Workers : worker[u].pc \in Busy => worker[u].job # next
    BY DEF CheckInv, ShapeInv, WorkersInv, WorkerFits
  <1>6. \A i \in DOMAIN eps : next' <= i => next <= i
    BY <1>1 DEF CheckInv, ShapeInv
  <1>7. ASSUME NEW u \in Workers, worker'[u].pc \in Busy PROVE results'[worker'[u].job].status = ""
    <2>1. CASE u = w
      BY Zenon, <1>1, <1>2, <1>4, <2>1
    <2>2. CASE u # w
      BY Zenon, <1>1, <1>2, <1>7, <2>2 DEF JudgeInv
    <2> QED
      BY Zenon, <2>1, <2>2
  <1>8. ASSUME NEW u \in Workers, NEW v \in Workers, worker'[u].pc \in Busy, worker'[v].pc \in Busy, u # v
        PROVE  worker'[u].job # worker'[v].job
    <2>1. CASE u = w
      BY Zenon, <1>2, <1>5, <1>8, <2>1
    <2>2. CASE v = w
      BY Zenon, <1>2, <1>5, <1>8, <2>2
    <2>3. CASE u # w /\ v # w
      <3>1. worker'[u] = worker[u] /\ worker'[v] = worker[v]
        BY Zenon, <1>2, <2>3
      <3>2. worker[u].pc \in Busy /\ worker[v].pc \in Busy
        BY Zenon, <1>8, <3>1
      <3>3. worker[u].job # worker[v].job
        BY Zenon, <1>8, <3>2 DEF JudgeInv
      <3> QED
        BY Zenon, <3>1, <3>3
    <2> QED
      BY Zenon, <2>1, <2>2, <2>3
  <1>9. \A i \in DOMAIN eps' : next' <= i => results'[i].status = ""
    BY Zenon, <1>1, <1>6 DEF JudgeInv
  <1> QED
    BY Zenon, <1>1, <1>7, <1>8, <1>9 DEF JudgeInv

\* A worker stores the result of what it has.
LEMMA StoreJudges ==
    ASSUME CheckInv, JudgeInv, NEW w \in Workers, worker[w].pc \in Busy, NEW status \in Statuses, NEW d \in Nat,
           Store(w, status, d),
           probed' = probed \/ (status = "success" /\ probed' = probed \cup {worker[w].job}),
           UNCHANGED <<eps, check, next>>
    PROVE  JudgeInv'
  <1> DEFINE j == worker[w].job
  <1>1. /\ results' = [results EXCEPT ![j] = Result(eps[j], status, d)]
        /\ Move(w, "receive") /\ "receive" \in Places
    BY Zenon DEF Store, Places
  <1>2. /\ worker'[w].pc = "receive"
        /\ \A u \in Workers : u # w => worker'[u] = worker[u]
    BY Zenon, <1>1, Moved DEF CheckInv
  <1>3. j \in DOMAIN eps /\ ~(next <= j)
    BY DEF CheckInv, ShapeInv, WorkersInv, WorkerFits
  <1>4. Result(eps[j], status, d) \in Judgements /\ Result(eps[j], status, d).status = status
    <2>1. eps[j].id \in Int /\ status \in Statuses \cup {""}
      BY Zenon, <1>3 DEF JudgeInv
    <2> QED
      BY Zenon, <2>1, ResultJudges
  <1>5. results' \in [DOMAIN eps -> Judgements]
    BY Zenon, <1>1, <1>3, <1>4 DEF JudgeInv
  <1>6. /\ results'[j].status = status
        /\ \A i \in DOMAIN eps : i # j => results'[i] = results[i]
    BY Zenon, <1>1, <1>3, <1>4 DEF JudgeInv
  <1>7. probed' \subseteq DOMAIN eps /\ \A i \in probed' : (i \in probed /\ i # j) \/ (i = j /\ status = "success")
    <2>1. j \notin probed
      <3>1. results[j].status = "" /\ "" # "success"
        BY Zenon DEF JudgeInv
      <3> QED
        BY Zenon, <3>1 DEF JudgeInv
    <2>4. probed \subseteq DOMAIN eps
      BY Zenon DEF JudgeInv
    <2>2. CASE probed' = probed
      BY Zenon, <2>1, <2>2, <2>4
    <2>3. CASE status = "success" /\ probed' = probed \cup {j}
      BY Zenon, <1>3, <2>1, <2>3, <2>4
    <2> QED
      BY Zenon, <2>2, <2>3
  <1>8. \A i \in probed' : results'[i].status = "success"
    <2> SUFFICES ASSUME NEW i \in probed' PROVE results'[i].status = "success"
      OBVIOUS
    <2>1. CASE i = j /\ status = "success"
      BY Zenon, <1>6, <2>1
    <2>2. CASE i \in probed /\ i # j
      <3>1. i \in DOMAIN eps /\ results[i].status = "success"
        BY Zenon, <2>2 DEF JudgeInv
      <3> QED
        BY Zenon, <1>6, <2>2, <3>1
    <2> QED
      BY Zenon, <1>7, <2>1, <2>2
  <1>9. \A u \in Workers : worker'[u].pc \in Busy => u # w /\ worker'[u] = worker[u] /\ worker[u].job # j
    BY Zenon, <1>2 DEF JudgeInv, Busy
  <1>10. \A u \in Workers : worker'[u].pc \in Busy => results'[worker'[u].job].status = ""
    <2>1. \A u \in Workers : worker[u].pc \in Busy => worker[u].job \in DOMAIN eps
      BY DEF CheckInv, ShapeInv, WorkersInv, WorkerFits
    <2> SUFFICES ASSUME NEW u \in Workers, worker'[u].pc \in Busy PROVE results'[worker'[u].job].status = ""
      BY Zenon
    <2>2. worker'[u] = worker[u] /\ worker[u].job # j /\ worker[u].pc \in Busy
      BY Zenon, <1>9
    <2>3. results'[worker[u].job] = results[worker[u].job]
      BY Zenon, <1>6, <2>1, <2>2
    <2> QED
      BY Zenon, <2>2, <2>3 DEF JudgeInv
  <1>11. check = "sending" => \A i \in DOMAIN eps : next <= i => results'[i].status = ""
    BY Zenon, <1>3, <1>6 DEF JudgeInv
  <1>12. \A u, v \in Workers : worker'[u].pc \in Busy /\ worker'[v].pc \in Busy /\ u # v =>
                                 worker'[u].job # worker'[v].job
    <2>1. \A u \in Workers : worker'[u].pc \in Busy => worker'[u] = worker[u] /\ worker[u].pc \in Busy
      BY Zenon, <1>9
    <2> SUFFICES ASSUME NEW u \in Workers, NEW v \in Workers, worker'[u].pc \in Busy, worker'[v].pc \in Busy, u # v
                 PROVE  worker'[u].job # worker'[v].job
      OBVIOUS
    <2>2. worker[u].job # worker[v].job
      <3>1. worker[u].pc \in Busy /\ worker[v].pc \in Busy
        BY Zenon, <2>1
      <3> QED
        BY Zenon, <3>1 DEF JudgeInv
    <2> QED
      BY Zenon, <2>1, <2>2
  <1> QED
    BY Zenon, <1>5, <1>7, <1>8, <1>10, <1>11, <1>12 DEF JudgeInv

\* A worker's step.
LEMMA WorkerJudges ==
    ASSUME CheckInv, JudgeInv, NEW w \in Workers,
           Leave(w) \/ BeginProbe(w) \/ CheckOne(w) \/ Dialled(w) \/ EndProbe(w)
    PROVE  JudgeInv'
  <1> DEFINE j == worker[w].job
  <1>0. ShapeInv /\ {"gone", "check", "dial", "dialled", "refused"} \subseteq Places /\ "gone" \notin Busy
    BY Zenon DEF CheckInv, Places, Busy
  <1>1. ASSUME NEW pc \in {"gone", "check", "dial", "dialled", "refused"}, Move(w, pc),
               worker[w].pc \in Busy \/ pc = "gone", UNCHANGED <<eps, results, next, check, probed>>
        PROVE  JudgeInv'
    BY Zenon, <1>0, <1>1, GoOnJudges
  <1>2. CASE Leave(w)
    BY Zenon, <1>1, <1>2 DEF Leave
  <1>3. CASE BeginProbe(w)
    BY Zenon, <1>1, <1>3 DEF BeginProbe, At, Busy
  <1>4. CASE CheckOne(w)
    <2>1. worker[w].pc \in Busy /\ UNCHANGED <<eps, check, next, probed>>
      BY Zenon, <1>4 DEF CheckOne, At, Busy
    <2>2. \/ Store(w, "unsupported", 0) \/ Store(w, "unavailable", 0)
          \/ Move(w, "dial") /\ UNCHANGED results
      BY Zenon, <1>4 DEF CheckOne
    <2>3. 0 \in Nat /\ "unsupported" \in Statuses /\ "unavailable" \in Statuses
      BY DEF Statuses
    <2> QED
      BY Zenon, <1>1, <2>1, <2>2, <2>3, StoreJudges
  <1>5. CASE Dialled(w)
    BY Zenon, <1>1, <1>5 DEF Dialled, At, Busy
  <1>6. CASE EndProbe(w)
    <2>1. worker[w].pc \in Busy /\ UNCHANGED <<eps, check, next>>
      BY Zenon, <1>6 DEF EndProbe, At, Busy
    <2>2. \/ Store(w, "unavailable", 0) /\ probed' = probed
          \/ \E d \in Nat : Store(w, "success", d) /\ probed' = probed \cup {j}
      BY Zenon, <1>6, DurationsAssumption DEF EndProbe
    <2>3. 0 \in Nat /\ "success" \in Statuses /\ "unavailable" \in Statuses
      BY DEF Statuses
    <2> QED
      BY Zenon, <2>1, <2>2, <2>3, StoreJudges
  <1> QED
    BY Zenon, <1>2, <1>3, <1>4, <1>5, <1>6

\* Check returns.
LEMMA ReturnJudges == ASSUME CheckInv, JudgeInv, ReturnResults PROVE JudgeInv'
  <1>1. /\ \A w \in Workers : worker[w].pc = "gone"
        /\ check' = "returned"
        /\ results' = [i \in DOMAIN results |->
                          IF cancelled /\ results[i].status = ""
                          THEN Result(eps[i], "unavailable", 0) ELSE results[i]]
        /\ UNCHANGED <<eps, next, worker, probed>>
    BY Zenon DEF ReturnResults, At
  <1>2. \A i \in DOMAIN eps : Result(eps[i], "unavailable", 0) \in Judgements /\ results[i] \in Judgements
    <2>1. 0 \in Nat /\ "unavailable" \in Statuses \cup {""}
      BY DEF Statuses
    <2> QED
      BY Zenon, <2>1, ResultJudges DEF JudgeInv
  <1>3. results' \in [DOMAIN eps -> Judgements]
    BY Zenon, <1>1, <1>2 DEF JudgeInv
  <1>4. \A i \in probed : results'[i] = results[i]
    <2>1. "success" # ""
      OBVIOUS
    <2> QED
      BY Zenon, <1>1, <2>1 DEF JudgeInv
  <1>5. "gone" \notin Busy
    BY Zenon DEF Busy
  <1> QED
    BY Zenon, <1>1, <1>3, <1>4, <1>5 DEF JudgeInv

\* Every step of the checker keeps the invariant.
LEMMA CheckStepJudges == CheckInv /\ JudgeInv /\ CheckStep => JudgeInv'
  <1> SUFFICES ASSUME CheckInv, JudgeInv, CheckStep PROVE JudgeInv'
    OBVIOUS
  <1>1. CASE CloseJobs
    BY Zenon, <1>1 DEF CloseJobs, JudgeInv
  <1> QED
    BY Zenon, <1>1, ReturnJudges, SendJudges, WorkerJudges DEF CheckStep

\* A step that leaves the checker alone, or ends the context.
LEMMA SameJudges == JudgeInv /\ UNCHANGED <<eps, results, check, next, worker, probed>> => JudgeInv'
  BY Zenon DEF JudgeInv

-----------------------------------------------------------------------------
\* The identifiers of a stored list are integers, and so is that of one of its
\* endpoints alone.
LEMMA IdsListed ==
    /\ \A s \in StoredLists : \A i \in DOMAIN s : s[i].id \in Int
    /\ \A s \in StoredLists : \A id : \A e \in Find(s, id) : \A i \in DOMAIN <<e>> : <<e>>[i].id \in Int
  <1>1. \A s \in StoredLists : \A i \in DOMAIN s : s[i].id \in Int
    BY Zenon, ListsAssumption
  <1>2. ASSUME NEW s \in StoredLists, NEW id, NEW e \in Find(s, id), NEW i \in DOMAIN <<e>>
        PROVE  <<e>>[i].id \in Int
    <2>1. e.id \in Int
      BY Zenon, <1>1 DEF Find
    <2>2. <<e>>[i] = e
      OBVIOUS
    <2> QED
      BY <2>1, <2>2
  <1> QED
    BY Zenon, <1>1, <1>2

\* Every step of a call keeps the invariant.
LEMMA CallStepJudges ==
    ASSUME CheckInv, JudgeInv, stored \in StoredLists, [CallNext]_callVars
    PROVE  JudgeInv'
  <1>1. UNCHANGED checkVars => JudgeInv'
    BY Zenon, SameJudges DEF checkVars
  <1>2. CASE LoadFails \/ LoadForConnect \/ LoadForLatency
    <2>1. \/ EndCheck \/ UNCHANGED checkVars \/ StartCheck(stored)
          \/ \E e \in Find(stored, call.target) : StartCheck(<<e>>)
      BY Zenon, <1>2 DEF LoadFails, LoadForConnect, LoadForLatency, Probe, Return
    <2>2. StartCheck(stored) => JudgeInv'
      BY Zenon, IdsListed, StartJudges
    <2>3. \A e \in Find(stored, call.target) : StartCheck(<<e>>) => JudgeInv'
      BY Zenon, IdsListed, StartJudges
    <2> QED
      BY Zenon, <1>1, <2>1, <2>2, <2>3, EndJudges
  <1>3. CASE LatencyDone \/ AutoChosen \/ DaemonAnswers
    <2>1. EndCheck \/ UNCHANGED checkVars
      BY Zenon, <1>3 DEF LatencyDone, AutoChosen, DaemonAnswers, Return
    <2> QED
      BY Zenon, <1>1, <2>1, EndJudges
  <1>4. CASE CheckStep
    BY Zenon, <1>4, CheckStepJudges
  <1>5. CASE BeginConnect \/ BeginLatency \/ Change
    BY Zenon, <1>1, <1>5 DEF BeginConnect, BeginLatency, Change
  <1>6. CASE Cancel
    BY Zenon, <1>6, SameJudges DEF Cancel
  <1>7. CASE UNCHANGED callVars
    BY Zenon, <1>1, <1>7 DEF callVars
  <1> QED
    BY Zenon, <1>2, <1>3, <1>4, <1>5, <1>6, <1>7 DEF CallNext, CallStep

\* The results of a check that has returned are what the service makes of them.
LEMMA ProjectedIsResults == ASSUME CheckInv, JudgeInv, check = "returned" PROVE Projected = results
  <1>1. ASSUME NEW i \in DOMAIN eps
        PROVE  results[i].id = eps[i].id /\ results[i].duration >= 0 /\ results[i].status \in Statuses
    <2>1. results[i].duration \in Nat
      BY Zenon DEF JudgeInv, Judgements
    <2>2. results[i].id = eps[i].id /\ results[i].status \in Statuses \cup {""} /\ results[i].status # ""
      BY Zenon DEF CheckInv, ResultsInv, ResultFits, StageInv
    <2>3. results[i].status \in Statuses
      BY Zenon, <2>2
    <2>4. results[i].duration >= 0
      BY <2>1
    <2> QED
      BY Zenon, <2>2, <2>3, <2>4
  <1>2. Projected = [i \in DOMAIN eps |-> results[i]]
    BY Zenon, <1>1 DEF Projected
  <1>3. results = [i \in DOMAIN eps |-> results[i]]
    BY Zenon DEF JudgeInv
  <1> QED
    BY Zenon, <1>2, <1>3

\* The results are a sequence as long as the list of endpoints.
LEMMA ResultsListed ==
    ASSUME CheckInv, JudgeInv
    PROVE  Len(results) = Len(eps) /\ Len(eps) \in Nat /\ DOMAIN results = 1..Len(eps)
  <1>1. Len(eps) \in Nat /\ results \in [1..Len(eps) -> Judgements]
    BY Zenon DEF CheckInv, ShapeInv, JudgeInv
  <1>2. results \in Seq(Judgements)
    BY <1>1
  <1> QED
    BY <1>1, <1>2

\* So Best of the results is right.
LEMMA BestOfResults ==
    ASSUME CheckInv, JudgeInv
    PROVE  BestOf(Best(results), results, Len(eps)) /\ DOMAIN results = 1..Len(eps) /\ DOMAIN eps = 1..Len(eps)
  <1>1. \A i \in 1..Len(eps) : results[i] \in Judgements
    BY Zenon DEF CheckInv, ShapeInv, JudgeInv
  <1>2. DOMAIN eps = 1..Len(eps)
    BY Zenon DEF CheckInv, ShapeInv
  <1> QED
    BY Zenon, <1>1, <1>2, ResultsListed, BestIsRight

-----------------------------------------------------------------------------
\* Auto Best probes the snapshot it has read, and while the daemon is called
\* the check it has chosen from is over.
ChoiceInv ==
    /\ call.pc \in {"idle", "load", "probe", "daemon"}
    /\ cache \in [Ids -> Statuses \cup {""}]
    /\ At1("probe") /\ call.op = "connect" => eps = call.snap /\ call.snap \in StoredLists
    /\ At1("daemon") /\ ~call.direct /\ call.target = AutoTarget => check = "returned"
    /\ AutoIsBest

\* A check that has returned takes no further step, and none changes the list.
LEMMA CheckStays ==
    ASSUME CheckInv, CheckStep
    PROVE  eps' = eps /\ check # "returned"
  <1>1. eps' = eps
    BY Zenon DEF CheckStep, CloseJobs, ReturnResults, SendJob, Leave, BeginProbe, CheckOne, Dialled, EndProbe
  <1>2. ASSUME check = "returned" PROVE FALSE
    <2>1. \A w \in Workers : worker[w].pc = "gone"
      BY Zenon, <1>2 DEF CheckInv, StageInv
    <2> QED
      BY Zenon, <1>2, <2>1 DEF CheckStep, CloseJobs, ReturnResults, SendJob, Leave, BeginProbe, CheckOne,
                               Dialled, EndProbe, At
  <1> QED
    BY Zenon, <1>1, <1>2

\* The statuses that are kept for display.
LEMMA CacheKeeps ==
    ASSUME CheckInv, JudgeInv, check = "returned", cache \in [Ids -> Statuses \cup {""}]
    PROVE  Cached \in [Ids -> Statuses \cup {""}]
  <1> DEFINE Known(id) == \E i \in DOMAIN Projected : Projected[i].id = id
             First(id) == CHOOSE r \in Range(Projected) : r.id = id
  <1>1. Projected = results /\ DOMAIN results = DOMAIN eps
    BY Zenon, ProjectedIsResults DEF CheckInv, ShapeInv
  <1>2. \A r \in Range(results) : r.status \in Statuses \cup {""}
    BY Zenon, <1>1 DEF Range, JudgeInv, Judgements
  <1>3. \A r \in Range(Projected) : r.status \in Statuses \cup {""}
    BY Zenon, <1>1, <1>2
  <1>4. ASSUME NEW id, Known(id) PROVE First(id) \in Range(Projected)
    <2>1. PICK i \in DOMAIN Projected : Projected[i].id = id
      BY Zenon, <1>4
    <2>2. Projected[i] \in Range(Projected)
      BY Zenon DEF Range
    <2> QED
      BY Zenon, <2>1, <2>2
  <1>5. Cached = [id \in Ids |-> IF Known(id) THEN First(id).status ELSE cache[id]]
    BY Zenon DEF Cached
  <1> HIDE DEF Known, First
  <1>6. \A id \in Ids : (IF Known(id) THEN First(id).status ELSE cache[id]) \in Statuses \cup {""}
    BY Zenon, <1>3, <1>4
  <1> QED
    BY Zenon, <1>5, <1>6

\* A call that has returned.
LEMMA ReturnChooses ==
    ASSUME call' = NoCall, cache' \in [Ids -> Statuses \cup {""}]
    PROVE  ChoiceInv'
  BY Zenon, NoCallLocals DEF ChoiceInv, AutoIsBest, At1

\* A step that leaves the call and what it has probed alone.
LEMMA SameChooses ==
    ChoiceInv /\ UNCHANGED <<eps, results, check, probed, call, cache>> => ChoiceInv'
  BY Zenon DEF ChoiceInv, AutoIsBest, At1

\* A call begins.
LEMMA BeginChooses ==
    ASSUME ChoiceInv, BeginConnect \/ BeginLatency
    PROVE  ChoiceInv'
  <1>0. cache' \in [Ids -> Statuses \cup {""}]
    BY Zenon DEF ChoiceInv, BeginConnect, BeginLatency
  <1>1. CASE BeginConnect
    <2>1. PICK target \in Targets, direct \in BOOLEAN :
            call' = [NoCall EXCEPT !.op = "connect", !.target = target, !.direct = direct,
                                   !.pc = IF direct THEN "daemon" ELSE "load"]
      BY Zenon, <1>1 DEF BeginConnect
    <2>2. PICK p : p = IF direct THEN "daemon" ELSE "load"
      OBVIOUS
    <2>3. call' = [NoCall EXCEPT !.op = "connect", !.target = target, !.direct = direct, !.pc = p]
      BY Zenon, <2>1, <2>2
    <2>4. call' \in [pc : {p}, op : {"connect"}, target : {target}, direct : {direct},
                     snap : {<<>>}, endpoint : {NoEndpoint}]
      BY Zenon, <2>3 DEF NoCall
    <2>5. call'.pc = p /\ call'.direct = direct
      BY Zenon, <2>4
    <2>6. p \in {"load", "daemon"} /\ p # "probe" /\ (p = "daemon" => direct)
      BY Zenon, <2>2
    <2> QED
      BY Zenon, <1>0, <2>5, <2>6 DEF ChoiceInv, AutoIsBest, At1
  <1>2. CASE BeginLatency
    <2>1. PICK target : call' = [NoCall EXCEPT !.op = "latency", !.target = target, !.pc = "load"]
      BY Zenon, <1>2 DEF BeginLatency
    <2>2. call' \in [pc : {"load"}, op : {"latency"}, target : {target}, direct : {FALSE},
                     snap : {<<>>}, endpoint : {NoEndpoint}]
      BY Zenon, <2>1 DEF NoCall
    <2>3. call'.pc = "load"
      BY Zenon, <2>2
    <2> QED
      BY Zenon, <1>0, <2>3 DEF ChoiceInv, AutoIsBest, At1
  <1> QED
    BY Zenon, <1>1, <1>2

\* A call starts a check, of what is stored for Auto Best.
LEMMA ProbeChooses ==
    ASSUME CallLocals(call), NEW list, Probe(list), call.op = "connect" => list \in StoredLists,
           cache' \in [Ids -> Statuses \cup {""}]
    PROVE  ChoiceInv'
  <1>1. call' = [call EXCEPT !.pc = "probe", !.snap = list] /\ eps' = list
    BY Zenon DEF Probe, StartCheck
  <1>2. PICK pc, op, target, direct, snap, endpoint :
          call \in [pc : {pc}, op : {op}, target : {target}, direct : {direct}, snap : {snap}, endpoint : {endpoint}]
    BY Zenon DEF CallLocals
  <1>3. call' \in [pc : {"probe"}, op : {op}, target : {target}, direct : {direct}, snap : {list}, endpoint : {endpoint}]
    BY Zenon, <1>1, <1>2
  <1>4. call'.pc = "probe" /\ call'.op = op /\ call'.snap = list
    BY Zenon, <1>3
  <1>5. call.op = op
    BY Zenon, <1>2
  <1> QED
    BY Zenon, <1>1, <1>4, <1>5 DEF ChoiceInv, AutoIsBest, At1

\* A call has read the list.
LEMMA LoadChooses ==
    ASSUME ChoiceInv, CallLocals(call), stored \in StoredLists, LoadForConnect \/ LoadForLatency
    PROVE  ChoiceInv'
  <1>0. cache' \in [Ids -> Statuses \cup {""}]
    BY Zenon DEF ChoiceInv, LoadForConnect, LoadForLatency
  <1>1. CASE LoadForConnect
    <2>1. \/ call' = NoCall \/ Probe(stored)
          \/ /\ call.target # AutoTarget
             /\ \E e \in Find(stored, call.target) :
                  call' = [call EXCEPT !.pc = "daemon", !.snap = stored, !.endpoint = e]
      BY Zenon, <1>1 DEF LoadForConnect, Return
    <2>2. ASSUME call.target # AutoTarget, NEW e, call' = [call EXCEPT !.pc = "daemon", !.snap = stored, !.endpoint = e]
          PROVE  ChoiceInv'
      <3>1. PICK pc, op, target, direct, snap, endpoint :
              call \in [pc : {pc}, op : {op}, target : {target}, direct : {direct}, snap : {snap}, endpoint : {endpoint}]
        BY Zenon DEF CallLocals
      <3>2. call' \in [pc : {"daemon"}, op : {op}, target : {target}, direct : {direct}, snap : {stored}, endpoint : {e}]
        BY Zenon, <2>2, <3>1
      <3>3. call'.pc = "daemon" /\ call'.target = target
        BY Zenon, <3>2
      <3>4. call.target = target
        BY Zenon, <3>1
      <3> QED
        BY Zenon, <1>0, <2>2, <3>3, <3>4 DEF ChoiceInv, AutoIsBest, At1
    <2> QED
      BY Zenon, <1>0, <2>1, <2>2, ReturnChooses, ProbeChooses
  <1>2. CASE LoadForLatency
    <2>1. call.op # "connect"
      BY Zenon, <1>2 DEF LoadForLatency
    <2>2. call' = NoCall \/ \E list : Probe(list)
      BY Zenon, <1>2 DEF LoadForLatency, Return
    <2> QED
      BY Zenon, <1>0, <2>1, <2>2, ReturnChooses, ProbeChooses
  <1> QED
    BY Zenon, <1>1, <1>2

\* The endpoint that is found under the identifier of the best result is the
\* one that result is about.
LEMMA FoundIsBest ==
    ASSUME CheckInv, JudgeInv, check = "returned", eps \in StoredLists,
           Best(results).status # "", NEW e \in Find(eps, Best(results).id)
    PROVE  \E i \in probed : /\ eps[i] = e
                             /\ \A j \in probed : results[j] = results[i] \/ Better(results[i], results[j])
  <1>1. DOMAIN eps = 1..Len(eps) /\ BestOf(Best(results), results, Len(eps))
    BY Zenon, BestOfResults
  <1>2. NoBest.status = ""
    BY Zenon DEF NoBest, Result
  <1>3. PICK i \in DOMAIN eps :
          /\ Best(results) = results[i] /\ results[i].status = "success"
          /\ \A j \in DOMAIN eps : results[j].status = "success" => results[j] = results[i] \/ Better(results[i], results[j])
    BY Zenon, <1>1, <1>2 DEF BestOf
  <1>4. i \in probed /\ results[i].id = eps[i].id
    BY Zenon, <1>3 DEF CheckInv, ResultsInv, ResultFits
  <1>5. eps[i] = e
    <2>1. PICK k \in DOMAIN eps : eps[k].id = Best(results).id /\ e = eps[k]
      BY Zenon DEF Find
    <2>2. k = i
      BY Zenon, <1>3, <1>4, <2>1, ListsAssumption
    <2> QED
      BY Zenon, <2>1, <2>2
  <1>6. \A j \in probed : results[j] = results[i] \/ Better(results[i], results[j])
    BY Zenon, <1>3 DEF JudgeInv
  <1> QED
    BY Zenon, <1>4, <1>5, <1>6

\* Auto Best has chosen.
LEMMA AutoChooses ==
    ASSUME CheckInv, JudgeInv, ChoiceInv, CallLocals(call), AutoChosen
    PROVE  ChoiceInv'
  <1>1. /\ call.pc = "probe" /\ call.op = "connect" /\ check = "returned"
        /\ cache' = Cached
        /\ \/ call' = NoCall
           \/ /\ Best(Projected).status # ""
              /\ \E e \in Find(call.snap, Best(Projected).id) : call' = [call EXCEPT !.pc = "daemon", !.endpoint = e]
              /\ UNCHANGED checkVars
    BY Zenon DEF AutoChosen, Return, At1
  <1>2. Projected = results /\ eps = call.snap /\ eps \in StoredLists
    BY Zenon, <1>1, ProjectedIsResults DEF ChoiceInv, At1
  <1>3. cache' \in [Ids -> Statuses \cup {""}]
    BY Zenon, <1>1, CacheKeeps DEF ChoiceInv
  <1>4. ASSUME Best(results).status # "", NEW e \in Find(eps, Best(results).id),
               call' = [call EXCEPT !.pc = "daemon", !.endpoint = e], UNCHANGED checkVars
        PROVE  ChoiceInv'
    <2>1. PICK pc, op, target, direct, snap, endpoint :
            call \in [pc : {pc}, op : {op}, target : {target}, direct : {direct}, snap : {snap}, endpoint : {endpoint}]
      BY Zenon DEF CallLocals
    <2>2. call' \in [pc : {"daemon"}, op : {op}, target : {target}, direct : {direct}, snap : {snap}, endpoint : {e}]
      BY Zenon, <1>4, <2>1
    <2>3. call'.pc = "daemon" /\ call'.endpoint = e
      BY Zenon, <2>2
    <2>4. eps' = eps /\ results' = results /\ check' = check /\ probed' = probed
      BY Zenon, <1>4 DEF checkVars
    <2>5. PICK i \in probed : /\ eps[i] = e
                              /\ \A j \in probed : results[j] = results[i] \/ Better(results[i], results[j])
      BY Zenon, <1>1, <1>2, <1>4, FoundIsBest
    <2>6. \A j \in probed' : results'[j] = results'[i] \/ Better(results'[i], results'[j])
      BY Zenon, <2>4, <2>5
    <2>7. i \in probed' /\ eps'[i] = call'.endpoint
      BY Zenon, <2>3, <2>4, <2>5
    <2>8. AutoIsBest'
      BY Zenon, <2>6, <2>7 DEF AutoIsBest
    <2> QED
      BY Zenon, <1>1, <1>3, <2>3, <2>4, <2>8 DEF ChoiceInv, At1
  <1> QED
    BY Zenon, <1>1, <1>2, <1>3, <1>4, ReturnChooses

\* Every step keeps the invariant.
LEMMA ChoiceStep ==
    ASSUME CheckInv, JudgeInv, SentInv, ChoiceInv, stored \in StoredLists, [CallNext]_callVars
    PROVE  ChoiceInv'
  <1>0. CallLocals(call)
    BY Zenon DEF SentInv
  <1>1. CASE BeginConnect \/ BeginLatency
    BY Zenon, <1>1, BeginChooses
  <1>2. CASE LoadForConnect \/ LoadForLatency
    BY Zenon, <1>0, <1>2, LoadChooses
  <1>3. CASE AutoChosen
    BY Zenon, <1>0, <1>3, AutoChooses
  <1>4. CASE LoadFails \/ LatencyDone \/ DaemonAnswers
    <2>1. call' = NoCall /\ (cache' = cache \/ (check = "returned" /\ cache' = Cached))
      BY Zenon, <1>4 DEF LoadFails, LatencyDone, DaemonAnswers, Return
    <2>2. cache' \in [Ids -> Statuses \cup {""}]
      BY Zenon, <2>1, CacheKeeps DEF ChoiceInv
    <2> QED
      BY Zenon, <2>1, <2>2, ReturnChooses
  <1>5. CASE CheckStep /\ UNCHANGED <<stored, call, cache>>
    <2>1. eps' = eps /\ check # "returned"
      BY Zenon, <1>5, CheckStays
    <2> QED
      BY Zenon, <1>5, <2>1 DEF ChoiceInv, AutoIsBest, At1
  <1>6. CASE Cancel \/ Change
    BY Zenon, <1>6, SameChooses DEF Cancel, Change, checkVars
  <1>7. CASE UNCHANGED callVars
    BY Zenon, <1>7, SameChooses DEF callVars, checkVars
  <1> QED
    BY Zenon, <1>1, <1>2, <1>3, <1>4, <1>5, <1>6, <1>7 DEF CallNext, CallStep

\* What Best returns of the results of a check.
LEMMA InvBest == CheckInv /\ JudgeInv => BestIsLeast
  <1> SUFFICES ASSUME CheckInv, JudgeInv PROVE BestIsLeast
    OBVIOUS
  <1> DEFINE S == {i \in DOMAIN results : results[i].status = "success"}
  <1>1. DOMAIN results = 1..Len(eps) /\ BestOf(Best(results), results, Len(eps))
    BY Zenon, BestOfResults
  <1>2. NoBest.status = ""
    BY DEF NoBest, Result
  <1>3. CASE Best(results) = NoBest /\ \A i \in DOMAIN results : results[i].status # "success"
    <2>1. S = {} /\ Best(results).status = ""
      BY Zenon, <1>2, <1>3
    <2> QED
      BY Zenon, <2>1 DEF BestIsLeast
  <1>4. ASSUME NEW j \in DOMAIN results, Best(results) = results[j], results[j].status = "success",
               \A i \in DOMAIN results : results[i].status = "success" =>
                   results[i] = Best(results) \/ Better(Best(results), results[i])
        PROVE  BestIsLeast
    <2>1. S # {} /\ Best(results) \in {results[i] : i \in S}
      BY Zenon, <1>4
    <2>2. \A i \in S : results[i] = Best(results) \/ Better(Best(results), results[i])
      BY Zenon, <1>4
    <2> QED
      BY Zenon, <2>1, <2>2 DEF BestIsLeast
  <1> QED
    BY Zenon, <1>1, <1>3, <1>4 DEF BestOf

\* However the file changes while the endpoints are probed, Connect sends the
\* daemon a valid endpoint of the list it has read: the one the user named, or
\* for Auto Best one that has answered and that no other beats (Service.Connect
\* over Best).
THEOREM ConnectIsSound == CallSpec => []ConnectSound
  <1> DEFINE Inv == CheckInv /\ stored \in StoredLists /\ JudgeInv /\ SentInv /\ ChoiceInv
  <1>1. CallInit => Inv
    <2> SUFFICES ASSUME CallInit PROVE Inv
      OBVIOUS
    <2>1. CheckInv /\ stored \in StoredLists /\ JudgeInv
      BY Zenon, IdleFits, EndJudges DEF CallInit, CheckInit
    <2>2. SentInv
      BY Zenon, NoCallLocals DEF CallInit, SentInv, SentIsStored, At1
    <2>3. cache \in [Ids -> Statuses \cup {""}]
      BY Zenon DEF CallInit
    <2>4. ChoiceInv
      BY Zenon, <2>3, NoCallLocals DEF CallInit, ChoiceInv, AutoIsBest, At1
    <2> QED
      BY Zenon, <2>1, <2>2, <2>4
  <1>2. Inv /\ [CallNext]_callVars => Inv'
    BY Zenon, CallStepFits, CallStepJudges, SentStep, ChoiceStep
  <1>3. Inv => ConnectSound
    <2> SUFFICES ASSUME Inv PROVE ConnectSound
      OBVIOUS
    <2>1. next \in 1..(Len(eps) + 1)
      BY DEF CheckInv, ShapeInv
    <2>2. CallTypeOK
      BY Zenon, <2>1 DEF ChoiceInv, CallTypeOK
    <2>3. SentIsStored /\ AutoIsBest
      BY Zenon DEF SentInv, ChoiceInv
    <2> QED
      BY Zenon, <2>2, <2>3, InvBest DEF ConnectSound
  <1> QED
    BY <1>1, <1>2, <1>3, PTL DEF CallSpec
=============================================================================
