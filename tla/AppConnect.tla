------------------------------ MODULE AppConnect ------------------------------
(* Connect and CheckLatency of the application service (internal/app/          *)
(* service.go) over the latency checker: a snapshot of the endpoints is read,  *)
(* probed and used, while other processes change what is stored.               *)
EXTENDS LatencyChecker

CONSTANTS
    StoredLists, \* the lists of endpoints that may be stored: [id, rev, tcp, valid]
    Targets,    \* targets a user names; AutoTarget and the empty one among them
    AutoTarget,
    NoTarget,
    NoEndpoint  \* the nil endpoint of a direct connection

ASSUME ListsAssumption ==
    \A s \in StoredLists :
        /\ s \in Seq(Range(s))
        /\ \A i, j \in DOMAIN s : s[i].id \in Int /\ (s[i].id = s[j].id => i = j)

VARIABLES
    stored,  \* the endpoints in the state file
    call,    \* [pc, op, target, direct, snap, endpoint]
    cache    \* latencies: id to status of the results kept for display

callVars == <<checkVars, stored, call, cache>>

Ids == UNION {{s[i].id : i \in DOMAIN s} : s \in StoredLists}
NoCall == [pc |-> "idle", op |-> "none", target |-> NoTarget, direct |-> FALSE, snap |-> <<>>, endpoint |-> NoEndpoint]

CallInit ==
    /\ CheckInit
    /\ stored \in StoredLists
    /\ call = NoCall
    /\ cache = [i \in Ids |-> ""]

\* A call returns; its context and its results end with it.
Return == call' = NoCall /\ EndCheck
At1(pc) == call.pc = pc
Find(s, id) == {s[i] : i \in {j \in DOMAIN s : s[j].id = id}}

\* Connect: the mode and the route are proper; a direct connection has no
\* endpoint, any other needs a target.
BeginConnect ==
    /\ At1("idle")
    /\ \E target \in Targets, direct \in BOOLEAN :
         /\ direct \/ target # NoTarget
         /\ call' = [NoCall EXCEPT !.op = "connect", !.target = target, !.direct = direct,
                                   !.pc = IF direct THEN "daemon" ELSE "load"]
    /\ UNCHANGED <<checkVars, stored, cache>>

\* CheckLatency of one endpoint or of all, for which NoTarget stands.
BeginLatency ==
    /\ At1("idle")
    /\ \E target \in Targets \ {AutoTarget} :
         call' = [NoCall EXCEPT !.op = "latency", !.target = target, !.pc = "load"]
    /\ UNCHANGED <<checkVars, stored, cache>>

\* The latency checker is given a list of endpoints.
Probe(endpoints) ==
    /\ call' = [call EXCEPT !.pc = "probe", !.snap = endpoints]
    /\ StartCheck(endpoints) /\ UNCHANGED cancelled

\* loadEndpointSnapshot fails.
LoadFails ==
    /\ At1("load") /\ Return
    /\ UNCHANGED <<stored, cache>>

\* Connect after loadEndpointSnapshot: one endpoint that is not valid spoils it.
LoadForConnect ==
    /\ At1("load") /\ call.op = "connect"
    /\ IF \E i \in DOMAIN stored : ~stored[i].valid THEN Return
       ELSE IF call.target = AutoTarget
       THEN Probe(stored)
       ELSE IF Find(stored, call.target) = {} THEN Return
       ELSE /\ \E e \in Find(stored, call.target) :
                 call' = [call EXCEPT !.pc = "daemon", !.snap = stored, !.endpoint = e]
            /\ UNCHANGED checkVars
    /\ UNCHANGED <<stored, cache>>

LoadForLatency ==
    /\ At1("load") /\ call.op = "latency"
    /\ IF call.target = NoTarget THEN Probe(stored)
       ELSE IF Find(stored, call.target) = {} THEN Return
       ELSE \E e \in Find(stored, call.target) : Probe(<<e>>)
    /\ UNCHANGED <<stored, cache>>

\* projectLatencyResults: a result that is not the endpoint's own is replaced.
Projected ==
    [i \in DOMAIN eps |->
        IF results[i].id = eps[i].id /\ results[i].duration >= 0 /\ results[i].status \in Statuses
        THEN results[i] ELSE Result(eps[i], "unavailable", 0)]

\* cacheLatencyResults
Cached == [id \in Ids |-> IF \E i \in DOMAIN Projected : Projected[i].id = id
                          THEN (CHOOSE r \in Range(Projected) : r.id = id).status ELSE cache[id]]

LatencyDone ==
    /\ At1("probe") /\ call.op = "latency" /\ check = "returned"
    /\ cache' = IF cancelled THEN cache ELSE Cached
    /\ Return
    /\ UNCHANGED stored

\* MUTANT: the best endpoint is looked up in what is stored now.
AutoChosen_Reload ==
    LET best == Best(Projected) IN
    /\ At1("probe") /\ call.op = "connect" /\ check = "returned"
    /\ cache' = Cached
    /\ IF best.status = "" \/ Find(stored, best.id) = {} THEN Return
       ELSE /\ \E e \in Find(stored, best.id) : call' = [call EXCEPT !.pc = "daemon", !.endpoint = e]
            /\ UNCHANGED checkVars
    /\ UNCHANGED stored

\* The automatic choice, from the snapshot that was probed.
AutoChosen ==
    LET best == Best(Projected) IN
    /\ At1("probe") /\ call.op = "connect" /\ check = "returned"
    /\ cache' = Cached
    /\ IF best.status = "" \/ Find(call.snap, best.id) = {} THEN Return
       ELSE /\ \E e \in Find(call.snap, best.id) : call' = [call EXCEPT !.pc = "daemon", !.endpoint = e]
            /\ UNCHANGED checkVars
    /\ UNCHANGED stored

\* daemon.Connect returns, with a status or an error.
DaemonAnswers ==
    /\ At1("daemon") /\ Return
    /\ UNCHANGED <<stored, cache>>

\* The context of the call ends.
Cancel ==
    /\ ~At1("idle") /\ ~cancelled /\ cancelled' = TRUE
    /\ UNCHANGED <<eps, results, check, next, worker, conns, probed, stored, call, cache>>

\* Another process refreshes or removes a subscription.
Change ==
    /\ stored' \in StoredLists \ {stored}
    /\ UNCHANGED <<checkVars, call, cache>>

CallStep ==
    \/ LoadFails \/ LoadForConnect \/ LoadForLatency \/ LatencyDone \/ AutoChosen \/ DaemonAnswers
    \/ CheckStep /\ UNCHANGED <<stored, call, cache>>

CallNext == BeginConnect \/ BeginLatency \/ CallStep \/ Cancel \/ Change

CallSpec == CallInit /\ [][CallNext]_callVars

\* A load waits for the lock of the state file as long as another process holds
\* it, unless the context of the call ends.  Probes and daemon calls have
\* deadlines, and goroutines are scheduled.
Waiting == At1("load") /\ ~cancelled

CallFairness == WF_callVars(~Waiting /\ CallStep)

FairCallSpec == CallSpec /\ CallFairness

-----------------------------------------------------------------------------
CallTypeOK ==
    /\ call.pc \in {"idle", "load", "probe", "daemon"}
    /\ stored \in StoredLists
    /\ cache \in [Ids -> Statuses \cup {""}]
    /\ next \in 1..(Len(eps) + 1)

\* What Connect sends to the daemon is, as it was stored when the call read it,
\* a valid endpoint, and the one the user named if they named one.
SentIsStored ==
    At1("daemon") /\ ~call.direct =>
        /\ call.endpoint \in Range(call.snap)
        /\ \A i \in DOMAIN call.snap : call.snap[i].valid
        /\ call.target # AutoTarget => call.endpoint.id = call.target

\* For Auto Best it is one whose probe succeeded and that no other successful
\* one beats, which is what Best returns.
AutoIsBest ==
    At1("daemon") /\ ~call.direct /\ call.target = AutoTarget =>
        \E i \in probed : /\ eps[i] = call.endpoint
                          /\ \A j \in probed : results[j] = results[i] \/ Better(results[i], results[j])

\* Connect sends the endpoint it should (Service.Connect over Best).
ConnectSound == CallTypeOK /\ BestIsLeast /\ SentIsStored /\ AutoIsBest

\* Every call that does not wait for the lock of the state file returns,
\* whenever its context ends.
CallReturns == ~At1("idle") /\ ~Waiting ~> At1("idle")
=============================================================================
