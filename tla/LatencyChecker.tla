---------------------------- MODULE LatencyChecker ----------------------------
(* The latency checker (internal/latency/checker.go): a fixed pool of workers  *)
(* takes the endpoints over an unbuffered channel and probes each with a TCP   *)
(* connection, while the context may end at any moment.                        *)
EXTENDS Integers, Sequences, FiniteSets, Functions, Slices

CONSTANTS
    Workers,    \* goroutines at most (MaxParallel)
    Durations   \* durations a probe may take

ASSUME WorkersAssumption == IsFiniteSet(Workers)
ASSUME DurationsAssumption == Durations \subseteq Nat

VARIABLES
    eps,        \* the endpoints of the Check that runs: [id, tcp, valid]
    results,    \* one result for each, in the same order
    check,      \* "idle", "sending", "closed" (no more jobs) or "returned"
    next,       \* the index the sender offers
    worker,     \* [pc, job] of each worker
    conns,      \* connections that are open, by index
    probed,     \* indices whose probe was answered before its context ended
    cancelled   \* the context of the call is done

checkVars == <<eps, results, check, next, worker, conns, probed, cancelled>>

Statuses == {"success", "unavailable", "unsupported"}
Result(e, status, duration) == [id |-> e.id, status |-> status, duration |-> duration]
Untouched(e) == Result(e, "", 0)

CheckInit ==
    /\ eps = <<>> /\ results = <<>> /\ check = "idle" /\ next = 1
    /\ worker = [w \in Workers |-> [pc |-> "gone", job |-> 0]]
    /\ conns = {} /\ probed = {} /\ cancelled = FALSE

\* The caller has used the results.
EndCheck ==
    /\ eps' = <<>> /\ results' = <<>> /\ check' = "idle" /\ next' = 1
    /\ worker' = [w \in Workers |-> [pc |-> "gone", job |-> 0]]
    /\ conns' = {} /\ probed' = {} /\ cancelled' = FALSE

\* Check: min(maxParallel, len(endpoints)) workers, or an empty answer.
StartCheck(endpoints) ==
    /\ eps' = endpoints /\ next' = 1 /\ conns' = {} /\ probed' = {}
    /\ results' = [i \in DOMAIN endpoints |-> Untouched(endpoints[i])]
    /\ check' = IF endpoints = <<>> THEN "returned" ELSE "sending"
    /\ \E S \in SUBSET Workers :
         /\ Cardinality(S) = (IF Cardinality(Workers) < Len(endpoints) THEN Cardinality(Workers) ELSE Len(endpoints))
         /\ worker' = [w \in Workers |-> [pc |-> IF w \in S THEN "receive" ELSE "gone", job |-> 0]]

At(w, pc) == worker[w].pc = pc
Move(w, pc) == worker' = [worker EXCEPT ![w].pc = pc]

\* jobs <- index meets a worker that receives.
SendJob(w) ==
    /\ check = "sending" /\ next <= Len(eps) /\ At(w, "receive")
    /\ worker' = [worker EXCEPT ![w] = [pc |-> "got", job |-> next]]
    /\ next' = next + 1
    /\ UNCHANGED <<eps, results, check, conns, probed, cancelled>>

\* MUTANT: the sender does not look at the context.
CloseJobs_Deaf ==
    /\ check = "sending" /\ next > Len(eps)
    /\ check' = "closed"
    /\ UNCHANGED <<eps, results, next, worker, conns, probed, cancelled>>

\* The loop of the sender ends, or the context does; the channel is closed.
CloseJobs ==
    /\ check = "sending" /\ (next > Len(eps) \/ cancelled)
    /\ check' = "closed"
    /\ UNCHANGED <<eps, results, next, worker, conns, probed, cancelled>>

\* A worker leaves when the channel is closed, or when it has received a job
\* after the context ended.
Leave(w) ==
    /\ \/ check = "closed" /\ At(w, "receive")
       \/ cancelled /\ At(w, "got")
    /\ Move(w, "gone")
    /\ UNCHANGED <<eps, results, check, next, conns, probed, cancelled>>

Store(w, status, duration) ==
    /\ results' = [results EXCEPT ![worker[w].job] = Result(eps[worker[w].job], status, duration)]
    /\ Move(w, "receive")

\* checkOne up to the dial; the context may have ended since the worker looked.
BeginProbe(w) ==
    /\ At(w, "got") /\ ~cancelled /\ Move(w, "check")
    /\ UNCHANGED <<eps, results, check, next, conns, probed, cancelled>>

CheckOne(w) ==
    LET e == eps[worker[w].job] IN
    /\ At(w, "check")
    /\ IF ~e.tcp THEN Store(w, "unsupported", 0)
       ELSE IF ~e.valid \/ cancelled THEN Store(w, "unavailable", 0)
       ELSE Move(w, "dial") /\ UNCHANGED results
    /\ UNCHANGED <<eps, check, next, conns, probed, cancelled>>

\* DialContext returns: a connection, none, or an error.
Dialled(w) ==
    /\ At(w, "dial")
    /\ \/ conns' = conns \cup {worker[w].job} /\ Move(w, "dialled")
       \/ conns' = conns /\ Move(w, "refused")
    /\ UNCHANGED <<eps, results, check, next, probed, cancelled>>

\* MUTANT: a connection that comes after its time is not closed.
EndProbe_Late(w) ==
    LET i == worker[w].job IN
    /\ At(w, "dialled") \/ At(w, "refused")
    /\ \/ Store(w, "unavailable", 0) /\ UNCHANGED <<probed, conns>>
       \/ /\ At(w, "dialled") /\ ~cancelled
          /\ \E d \in Durations : Store(w, "success", d)
          /\ probed' = probed \cup {i} /\ conns' = conns \ {i}
    /\ UNCHANGED <<eps, check, next, cancelled>>

\* The rest of checkOne: the probe's own context may be done by now.
EndProbe(w) ==
    LET i == worker[w].job IN
    /\ At(w, "dialled") \/ At(w, "refused")
    /\ \/ Store(w, "unavailable", 0) /\ UNCHANGED probed
       \/ /\ At(w, "dialled") /\ ~cancelled
          /\ \E d \in Durations : Store(w, "success", d)
          /\ probed' = probed \cup {i}
    /\ conns' = conns \ {i}
    /\ UNCHANGED <<eps, check, next, cancelled>>

\* MUTANT: what was not reached stays without a status.
ReturnResults_Untouched ==
    /\ check = "closed" /\ \A w \in Workers : At(w, "gone")
    /\ check' = "returned"
    /\ UNCHANGED <<eps, results, next, worker, conns, probed, cancelled>>

\* When all workers are done, what the context has prevented is unavailable.
ReturnResults ==
    /\ check = "closed" /\ \A w \in Workers : At(w, "gone")
    /\ check' = "returned"
    /\ results' = [i \in DOMAIN results |->
                     IF cancelled /\ results[i].status = "" THEN Result(eps[i], "unavailable", 0) ELSE results[i]]
    /\ UNCHANGED <<eps, next, worker, conns, probed, cancelled>>

CheckStep ==
    \/ CloseJobs \/ ReturnResults
    \/ \E w \in Workers :
         SendJob(w) \/ Leave(w) \/ BeginProbe(w) \/ CheckOne(w) \/ Dialled(w) \/ EndProbe(w)

-----------------------------------------------------------------------------
Better(r, s) == r.duration < s.duration \/ (r.duration = s.duration /\ r.id < s.id)

NoBest == Result([id |-> 0], "", 0)

\* MUTANT: of two equal durations the later result wins.
Pick_Later(best, r) ==
    IF r.status # "success" THEN best
    ELSE IF best.status = "" \/ r.duration <= best.duration THEN r ELSE best

\* One turn of the loop of Best.
Pick(best, r) ==
    IF r.status # "success" THEN best
    ELSE IF best.status = "" \/ Better(r, best) THEN r ELSE best

\* Best; a result without a status stands for ErrNoAvailableEndpoint.
Best(rs) == FoldLeft(Pick, NoBest, rs)

-----------------------------------------------------------------------------
\* When Check returns, every endpoint has its own result with a status, also
\* those that cancellation kept from being probed, and success is reported only
\* for an endpoint whose probe was answered in time.
EveryEndpointJudged ==
    check = "returned" =>
        \A i \in DOMAIN eps : /\ results[i].id = eps[i].id /\ results[i].status \in Statuses
                              /\ results[i].status = "success" => i \in probed /\ eps[i].tcp /\ eps[i].valid

\* When Check returns it leaves no worker and no connection behind.
NothingLeftOpen == check = "returned" => conns = {} /\ \A w \in Workers : At(w, "gone")

\* Check is complete when it returns: all is judged and nothing left behind.
CheckIsComplete == EveryEndpointJudged /\ NothingLeftOpen

\* Best is the successful result that no other successful one beats.
BestIsLeast ==
    check = "returned" =>
        LET S == {i \in DOMAIN results : results[i].status = "success"}
            b == Best(results) IN
        IF S = {} THEN b.status = ""
        ELSE b \in {results[i] : i \in S} /\ \A i \in S : results[i] = b \/ Better(b, results[i])
=============================================================================
