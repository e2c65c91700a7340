--------------------------- MODULE Subscriptions ---------------------------
(***************************************************************************)
(* Subscriptions of the application service (internal/app/service.go): add, *)
(* refresh, remove, and the latency check with its migration of old        *)
(* endpoint identifiers.  Several processes run them over one state file    *)
(* and one secret store.  A step is one call of a store or of the network;  *)
(* stores are locked for the length of a call, so their calls do not        *)
(* overlap.  Any call may fail, a write also after it took effect (the file *)
(* is renamed before it is verified and synced), and a process may crash.   *)
(***************************************************************************)
EXTENDS Naturals, FiniteSets

CONSTANTS
    Procs,          \* processes of the client, each with an app.Service
    Calls,          \* goroutines that call it
    ProcOf,         \* the process of a call
    Ids,            \* subscription identifiers
    NoKey,          \* the empty EndpointIdentityKey
    Ops,            \* bound: the operations that are called
    MaxVersion,     \* bound: versions of a document a provider publishes
    MaxBegins       \* bound: refreshes begun

ASSUME CallAssumption == ProcOf \in [Calls -> Procs] /\ NoKey \notin Procs /\ Ids # {}
ASSUME BoundAssumption ==
    /\ Ops \subseteq {"add", "refresh", "remove", "check"}
    /\ MaxVersion \in Nat \ {0}
    /\ MaxBegins \in Nat

VARIABLES
    file,           \* state.json
    secrets,        \* identifiers whose URL is in the secret store
    published,      \* the version each provider serves
    call,           \* the locals of each call
    cache,          \* latencies of each process: endpoints with a result
    issued,         \* identifiers that generateID has returned
    begun,          \* refreshes begun, the source of refresh tokens
    lost,           \* history: subscriptions whose secret a failed or
                    \*   crashed removal may have taken along
    loose           \* history: secrets that a failed or crashed addition has
                    \*   left behind, or a failed removal has put back after
                    \*   another one had seen it gone

vars == <<file, secrets, published, call, cache, issued, begun, lost, loose>>

\* An identity key is named after the process that drew it.
Keys == Procs \cup {NoKey}
Versions == 1 .. MaxVersion
Tokens == 0 .. MaxBegins

\* The identifier of an endpoint: a digest of subscription and fingerprint,
\* under the identity key.  Each version of a document has its own endpoint.
EndpointId == [sub : Ids, key : Keys, version : Versions]

\* Of an identifier outside subs, only default values are kept.  refreshed and
\* lastError name the refresh that set LastRefresh and LastError; 0 is none.
Snapshot == [subs : SUBSET Ids,
             token : [Ids -> Tokens],
             refreshed : [Ids -> Tokens],
             lastError : [Ids -> Tokens],
             version : [Ids -> Versions \cup {0}],
             keyedBy : [Ids -> Keys],
             key : Keys]

AddSteps == {"addFetch", "addSet", "addCommit", "addCheck", "addUndo"}
RefreshSteps == {"begin", "get", "fetch", "commit", "record"}
RemoveSteps == {"rmGet", "rmDelete", "rmCommit", "rmCheck", "rmRestore"}
CheckSteps == {"ckMigrate", "ckReload", "ckProbe"}

Frame == [pc : {"idle"} \cup AddSteps \cup RefreshSteps \cup RemoveSteps \cup CheckSteps,
          id : Ids,
          todo : SUBSET Ids,
          token : Tokens,
          version : Versions,
          had : BOOLEAN,
          seen : SUBSET EndpointId]

Idle == [pc |-> "idle", id |-> CHOOSE i \in Ids : TRUE, todo |-> {}, token |-> 0,
         version |-> 1, had |-> FALSE, seen |-> {}]

\* Every variable has its type.
TypeOK ==
    /\ file \in Snapshot
    /\ secrets \subseteq Ids
    /\ published \in [Ids -> Versions]
    /\ call \in [Calls -> Frame]
    /\ cache \in [Procs -> SUBSET EndpointId]
    /\ issued \subseteq Ids
    /\ begun \in Tokens
    /\ lost \subseteq Ids
    /\ loose \subseteq Ids

\* A state file without an identity key, of a version that had none.
Init ==
    \E S \in SUBSET Ids :
        /\ file = [subs |-> S,
                   token |-> [i \in Ids |-> 0],
                   refreshed |-> [i \in Ids |-> 0],
                   lastError |-> [i \in Ids |-> 0],
                   version |-> [i \in Ids |-> IF i \in S THEN 1 ELSE 0],
                   keyedBy |-> [i \in Ids |-> NoKey],
                   key |-> NoKey]
        /\ secrets = S
        /\ published = [i \in Ids |-> 1]
        /\ call = [c \in Calls |-> Idle]
        /\ cache = [p \in Procs |-> {}]
        /\ issued = S
        /\ begun = 0
        /\ lost = {}
        /\ loose = {}

----------------------------------------------------------------------------
\* What the update functions make of a snapshot.

\* MUTANT: the endpoints that are already there keep their identifiers.
EnsureKey_NoRekey(f, k) == [f EXCEPT !.key = IF @ = NoKey THEN k ELSE @]

\* ensureEndpointIdentityKey: the first key re-keys all endpoints.
EnsureKey(f, k) ==
    IF f.key # NoKey
    THEN f
    ELSE [f EXCEPT !.key = k,
                   !.keyedBy = [i \in Ids |-> IF f.version[i] # 0 THEN k ELSE NoKey]]

\* ensureEndpointIdentityKey, then prepareEndpoints: the endpoints of one
\* subscription are replaced, with identifiers under the key of the file.
Store(f, i, v, k) ==
    LET g == EnsureKey(f, k)
    IN  [g EXCEPT !.version[i] = v, !.keyedBy[i] = g.key]

Added(f, i, v, k) == [Store(f, i, v, k) EXCEPT !.subs = @ \cup {i}]

\* MUTANT: the error of an earlier attempt stays.
Refreshed_KeepsError(f, i, t, v, k) ==
    [Store(f, i, v, k) EXCEPT !.token[i] = 0, !.refreshed[i] = t]

Refreshed(f, i, t, v, k) ==
    [Store(f, i, v, k) EXCEPT !.token[i] = 0, !.refreshed[i] = t, !.lastError[i] = 0]

Failed(f, i, t) == [f EXCEPT !.token[i] = 0, !.lastError[i] = t]

\* MUTANT: the endpoints stay.
Removed_KeepsEndpoints(f, i) ==
    [f EXCEPT !.subs = @ \ {i}, !.token[i] = 0, !.refreshed[i] = 0, !.lastError[i] = 0]

Removed(f, i) ==
    [f EXCEPT !.subs = @ \ {i}, !.token[i] = 0, !.refreshed[i] = 0, !.lastError[i] = 0,
              !.version[i] = 0, !.keyedBy[i] = NoKey]

EndpointsOf(f, S) ==
    {[sub |-> i, key |-> f.keyedBy[i], version |-> f.version[i]] :
        i \in {j \in S : f.version[j] # 0}}

----------------------------------------------------------------------------
\* Steps of a call.

At(c, pc) == call[c].pc = pc
Goto(c, pc) == call' = [call EXCEPT ![c].pc = pc]
Return(c) == call' = [call EXCEPT ![c] = Idle]
Candidate(c) == ProcOf[c]

\* A write that returns an error: it may have taken effect, since a file is
\* renamed before it is verified and synced, and a command may fail late.
UpdateFails(new) == file' \in {file, new}
SecretWriteFails(new) == secrets' \in {secrets, new}

\* clearLatenciesForSubscription, with the endpoints the call saw before.
ClearLatencies(c) == cache' = [cache EXCEPT ![ProcOf[c]] = @ \ call[c].seen]

\* A context that is done, or an error of a call without effect, where there
\* is nothing to undo and nothing to record.
GiveUp(c) ==
    /\ call[c].pc \in {"addFetch", "rmGet", "begin", "get", "fetch", "ckMigrate", "ckReload", "ckProbe"}
    /\ Return(c)
    /\ UNCHANGED <<file, secrets, published, cache, issued, begun, lost, loose>>

----------------------------------------------------------------------------
\* AddSubscription.

\* A new identifier, for which the secret store has no entry.
AddCall(c, i) ==
    /\ At(c, "idle")
    /\ "add" \in Ops
    /\ i \notin issued
    /\ i \notin secrets
    /\ issued' = issued \cup {i}
    /\ call' = [call EXCEPT ![c] = [Idle EXCEPT !.pc = "addFetch", !.id = i]]
    /\ UNCHANGED <<file, secrets, published, cache, begun, lost, loose>>

AddFetch(c) ==
    /\ At(c, "addFetch")
    /\ call' = [call EXCEPT ![c].pc = "addSet", ![c].version = published[call[c].id]]
    /\ UNCHANGED <<file, secrets, published, cache, issued, begun, lost, loose>>

AddSet(c) ==
    /\ At(c, "addSet")
    /\ secrets' = secrets \cup {call[c].id}
    /\ Goto(c, "addCommit")
    /\ UNCHANGED <<file, published, cache, issued, begun, lost, loose>>

AddSetFails(c) ==
    /\ At(c, "addSet")
    /\ SecretWriteFails(secrets \cup {call[c].id})
    /\ loose' = loose \cup (secrets' \ secrets)
    /\ Return(c)
    /\ UNCHANGED <<file, published, cache, issued, begun, lost>>

AddCommit(c) ==
    LET i == call[c].id
    IN  /\ At(c, "addCommit")
        /\ i \notin file.subs
        /\ file' = Added(file, i, call[c].version, Candidate(c))
        /\ Return(c)
        /\ UNCHANGED <<secrets, published, cache, issued, begun, lost, loose>>

\* The update returns an error, whether the file was replaced or not.
AddCommitFails(c) ==
    LET i == call[c].id
    IN  /\ At(c, "addCommit")
        /\ UpdateFails(IF i \in file.subs THEN file ELSE Added(file, i, call[c].version, Candidate(c)))
        /\ Goto(c, "addCheck")
        /\ UNCHANGED <<secrets, published, cache, issued, begun, lost, loose>>

\* MUTANT: the secret is deleted without looking whether the file was replaced.
AddCheck_Blind(c) ==
    /\ At(c, "addCheck")
    /\ Goto(c, "addUndo")
    /\ UNCHANGED <<file, secrets, published, cache, issued, begun, lost, loose>>

\* The state is read again, to see whether the subscription is there.
AddCheck(c) ==
    /\ At(c, "addCheck")
    /\ IF call[c].id \in file.subs THEN Return(c) ELSE Goto(c, "addUndo")
    /\ UNCHANGED <<file, secrets, published, cache, issued, begun, lost, loose>>

AddCheckFails(c) ==
    /\ At(c, "addCheck")
    /\ loose' = loose \cup ({call[c].id} \ file.subs)
    /\ Return(c)
    /\ UNCHANGED <<file, secrets, published, cache, issued, begun, lost>>

\* MUTANT: the secret of a subscription that was not added stays.
AddUndo_Skipped(c) ==
    /\ At(c, "addUndo")
    /\ Return(c)
    /\ UNCHANGED <<file, secrets, published, cache, issued, begun, lost, loose>>

AddUndo(c) ==
    /\ At(c, "addUndo")
    /\ secrets' = secrets \ {call[c].id}
    /\ Return(c)
    /\ UNCHANGED <<file, published, cache, issued, begun, lost, loose>>

AddUndoFails(c) ==
    /\ At(c, "addUndo")
    /\ SecretWriteFails(secrets \ {call[c].id})
    /\ loose' = loose \cup (secrets' \cap {call[c].id})
    /\ Return(c)
    /\ UNCHANGED <<file, published, cache, issued, begun, lost>>

----------------------------------------------------------------------------
\* UpdateSubscriptions and refreshSubscription.

\* The state is read: one subscription, or all of them.
RefreshCall(c, S) ==
    /\ At(c, "idle")
    /\ "refresh" \in Ops
    /\ S # {}
    /\ S = file.subs \/ \E i \in file.subs : S = {i}
    /\ call' = [call EXCEPT ![c] = [Idle EXCEPT !.pc = "begin", !.todo = S]]
    /\ UNCHANGED <<file, secrets, published, cache, issued, begun, lost, loose>>

\* The next one; or the call returns after the last.
Continue(c) ==
    LET rest == call[c].todo
    IN  call' = [call EXCEPT ![c] = IF rest = {} THEN Idle ELSE [Idle EXCEPT !.pc = "begin", !.todo = rest]]

RefreshBegin(c, i) ==
    LET t == begun + 1
    IN  /\ At(c, "begin")
        /\ i \in call[c].todo
        /\ i \in file.subs
        /\ t <= MaxBegins
        /\ begun' = t
        /\ file' = [file EXCEPT !.token[i] = t]
        /\ call' = [call EXCEPT ![c].pc = "get", ![c].id = i, ![c].todo = @ \ {i},
                                ![c].token = t, ![c].seen = EndpointsOf(file, {i})]
        /\ UNCHANGED <<secrets, published, cache, issued, lost, loose>>

\* The update fails after the file was replaced.  (If it fails before, the call
\* gives up, as it does if the subscription is gone.)
RefreshBeginFails(c, i) ==
    LET t == begun + 1
    IN  /\ At(c, "begin")
        /\ i \in call[c].todo
        /\ i \in file.subs
        /\ t <= MaxBegins
        /\ begun' = t
        /\ file' = [file EXCEPT !.token[i] = t]
        /\ Return(c)
        /\ UNCHANGED <<secrets, published, cache, issued, lost, loose>>

RefreshGet(c) ==
    /\ At(c, "get")
    /\ call[c].id \in secrets
    /\ Goto(c, "fetch")
    /\ UNCHANGED <<file, secrets, published, cache, issued, begun, lost, loose>>

RefreshFetch(c) ==
    /\ At(c, "fetch")
    /\ call' = [call EXCEPT ![c].pc = "commit", ![c].version = published[call[c].id]]
    /\ UNCHANGED <<file, secrets, published, cache, issued, begun, lost, loose>>

\* The secret is missing or unreadable; the document cannot be fetched or used.
RefreshFails(c) ==
    /\ call[c].pc \in {"get", "fetch"}
    /\ Goto(c, "record")
    /\ UNCHANGED <<file, secrets, published, cache, issued, begun, lost, loose>>

\* The update functions of refreshSubscription and recordRefreshFailure refuse.
Superseded(c) ==
    \/ call[c].id \notin file.subs
    \/ file.token[call[c].id] # call[c].token

RefreshStale(c) ==
    /\ call[c].pc \in {"commit", "record"}
    /\ Superseded(c)
    /\ Return(c)
    /\ UNCHANGED <<file, secrets, published, cache, issued, begun, lost, loose>>

\* MUTANT: the token is compared only when a failure is recorded.
RefreshCommit_AnyToken(c) ==
    LET f == call[c]
    IN  /\ At(c, "commit")
        /\ f.id \in file.subs
        /\ file' = Refreshed(file, f.id, f.token, f.version, Candidate(c))
        /\ Continue(c)
        /\ ClearLatencies(c)
        /\ UNCHANGED <<secrets, published, issued, begun, lost, loose>>

RefreshCommit(c) ==
    LET f == call[c]
    IN  /\ At(c, "commit")
        /\ ~Superseded(c)
        /\ file' = Refreshed(file, f.id, f.token, f.version, Candidate(c))
        /\ Continue(c)
        /\ ClearLatencies(c)
        /\ UNCHANGED <<secrets, published, issued, begun, lost, loose>>

RefreshCommitFails(c) ==
    LET f == call[c]
    IN  /\ At(c, "commit")
        /\ ~Superseded(c)
        /\ UpdateFails(Refreshed(file, f.id, f.token, f.version, Candidate(c)))
        /\ Return(c)
        /\ UNCHANGED <<secrets, published, cache, issued, begun, lost, loose>>

RefreshRecord(c) ==
    /\ At(c, "record")
    /\ ~Superseded(c)
    /\ file' = Failed(file, call[c].id, call[c].token)
    /\ Continue(c)
    /\ UNCHANGED <<secrets, published, cache, issued, begun, lost, loose>>

RefreshRecordFails(c) ==
    /\ At(c, "record")
    /\ ~Superseded(c)
    /\ UpdateFails(Failed(file, call[c].id, call[c].token))
    /\ Return(c)
    /\ UNCHANGED <<secrets, published, cache, issued, begun, lost, loose>>

----------------------------------------------------------------------------
\* RemoveSubscription.

RemoveCall(c, i) ==
    /\ At(c, "idle")
    /\ "remove" \in Ops
    /\ i \in file.subs
    /\ call' = [call EXCEPT ![c] = [Idle EXCEPT !.pc = "rmGet", !.id = i, !.seen = EndpointsOf(file, {i})]]
    /\ UNCHANGED <<file, secrets, published, cache, issued, begun, lost, loose>>

RemoveGet(c) ==
    LET had == call[c].id \in secrets
    IN  /\ At(c, "rmGet")
        /\ call' = [call EXCEPT ![c].pc = IF had THEN "rmDelete" ELSE "rmCommit", ![c].had = had]
        /\ UNCHANGED <<file, secrets, published, cache, issued, begun, lost, loose>>

\* MUTANT: the secret of a subscription that is removed stays.
RemoveDelete_Skipped(c) ==
    /\ At(c, "rmDelete")
    /\ Goto(c, "rmCommit")
    /\ UNCHANGED <<file, secrets, published, cache, issued, begun, lost, loose>>

RemoveDelete(c) ==
    /\ At(c, "rmDelete")
    /\ secrets' = secrets \ {call[c].id}
    /\ Goto(c, "rmCommit")
    /\ UNCHANGED <<file, published, cache, issued, begun, lost, loose>>

RemoveDeleteFails(c) ==
    /\ At(c, "rmDelete")
    /\ SecretWriteFails(secrets \ {call[c].id})
    /\ lost' = lost \cup (secrets \ secrets')
    /\ Return(c)
    /\ UNCHANGED <<file, published, cache, issued, begun, loose>>

RemoveCommit(c) ==
    LET i == call[c].id
    IN  /\ At(c, "rmCommit")
        /\ i \in file.subs
        /\ file' = Removed(file, i)
        /\ Return(c)
        /\ ClearLatencies(c)
        /\ UNCHANGED <<secrets, published, issued, begun, lost, loose>>

\* The update returns an error, also if the subscription is gone.
RemoveCommitFails(c) ==
    LET i == call[c].id
    IN  /\ At(c, "rmCommit")
        /\ UpdateFails(Removed(file, i))
        /\ Goto(c, "rmCheck")
        /\ UNCHANGED <<secrets, published, cache, issued, begun, lost, loose>>

\* The state is read again: a subscription that is still there gets its secret
\* back, if this call has read it.
RemoveCheck(c) ==
    /\ At(c, "rmCheck")
    /\ IF call[c].id \in file.subs /\ call[c].had THEN Goto(c, "rmRestore") ELSE Return(c)
    /\ UNCHANGED <<file, secrets, published, cache, issued, begun, lost, loose>>

RemoveCheckFails(c) ==
    /\ At(c, "rmCheck")
    /\ lost' = lost \cup {i \in {call[c].id} : call[c].had}
    /\ Return(c)
    /\ UNCHANGED <<file, secrets, published, cache, issued, begun, loose>>

\* Nobody will delete the secret of i again: the subscription is gone, or
\* another removal of it has seen the secret gone.
Unwanted(i) == i \notin file.subs \/ \E d \in Calls : call[d].id = i /\ At(d, "rmCommit")

RemoveRestore(c) ==
    /\ At(c, "rmRestore")
    /\ secrets' = secrets \cup {call[c].id}
    /\ loose' = loose \cup {i \in {call[c].id} : Unwanted(i)}
    /\ Return(c)
    /\ UNCHANGED <<file, published, cache, issued, begun, lost>>

RemoveRestoreFails(c) ==
    /\ At(c, "rmRestore")
    /\ SecretWriteFails(secrets \cup {call[c].id})
    /\ loose' = loose \cup {i \in secrets' \ secrets : Unwanted(i)}
    /\ lost' = lost \cup ({call[c].id} \ secrets')
    /\ Return(c)
    /\ UNCHANGED <<file, published, cache, issued, begun>>

----------------------------------------------------------------------------
\* CheckLatency, with loadEndpointSnapshot.

\* MUTANT: endpoints without a key are used as they are.
CheckCall_NoMigration(c) ==
    /\ At(c, "idle")
    /\ "check" \in Ops
    /\ call' = [call EXCEPT ![c] = [Idle EXCEPT !.pc = "ckProbe", !.seen = EndpointsOf(file, Ids)]]
    /\ UNCHANGED <<file, secrets, published, cache, issued, begun, lost, loose>>

CheckCall(c) ==
    /\ At(c, "idle")
    /\ "check" \in Ops
    /\ call' = [call EXCEPT ![c] =
                  IF EndpointsOf(file, Ids) = {} \/ file.key # NoKey
                  THEN [Idle EXCEPT !.pc = "ckProbe", !.seen = EndpointsOf(file, Ids)]
                  ELSE [Idle EXCEPT !.pc = "ckMigrate"]]
    /\ UNCHANGED <<file, secrets, published, cache, issued, begun, lost, loose>>

\* The endpoints are keyed and the latencies of the old identifiers forgotten.
CheckMigrate(c) ==
    /\ At(c, "ckMigrate")
    /\ file' = EnsureKey(file, Candidate(c))
    /\ cache' = [cache EXCEPT ![ProcOf[c]] = {}]
    /\ Goto(c, "ckReload")
    /\ UNCHANGED <<secrets, published, issued, begun, lost, loose>>

\* The update fails after the file was replaced.
CheckMigrateFails(c) ==
    /\ At(c, "ckMigrate")
    /\ file' = EnsureKey(file, Candidate(c))
    /\ Return(c)
    /\ UNCHANGED <<secrets, published, cache, issued, begun, lost, loose>>

CheckReload(c) ==
    /\ At(c, "ckReload")
    /\ call' = [call EXCEPT ![c].pc = "ckProbe", ![c].seen = EndpointsOf(file, Ids)]
    /\ UNCHANGED <<file, secrets, published, cache, issued, begun, lost, loose>>

\* The probes return: of all endpoints or of one.
CheckProbe(c) ==
    /\ At(c, "ckProbe")
    /\ \E S \in {call[c].seen} \cup {{e} : e \in call[c].seen} :
           cache' = [cache EXCEPT ![ProcOf[c]] = @ \cup S]
    /\ Return(c)
    /\ UNCHANGED <<file, secrets, published, issued, begun, lost, loose>>

----------------------------------------------------------------------------
\* The provider publishes a new document.
Publish(i) ==
    /\ published[i] < MaxVersion
    /\ published' = [published EXCEPT ![i] = @ + 1]
    /\ UNCHANGED <<file, secrets, call, cache, issued, begun, lost, loose>>

\* The secret of the subscription this call removes is deleted.
Holds(f) == f.had /\ f.pc \in {"rmCommit", "rmCheck", "rmRestore"}

\* The secret this call adds is stored, the subscription perhaps not.
Adding(f) == f.pc \in {"addCommit", "addCheck", "addUndo"}

\* A process ends in the middle of its calls and is started anew.  Its next
\* candidate for the key has the same name, which is never used twice.
Crash(p) ==
    LET F == {call[c] : c \in {d \in Calls : ProcOf[d] = p}}
    IN  /\ \E f \in F : f.pc # "idle"
        /\ call' = [c \in Calls |-> IF ProcOf[c] = p THEN Idle ELSE call[c]]
        /\ cache' = [cache EXCEPT ![p] = {}]
        /\ lost' = lost \cup {f.id : f \in {g \in F : Holds(g)}}
        /\ loose' = loose \cup ({f.id : f \in {g \in F : Adding(g)}} \ file.subs)
        /\ UNCHANGED <<file, secrets, published, issued, begun>>

AddStep(c) ==
    \/ \E i \in Ids : AddCall(c, i)
    \/ AddFetch(c)
    \/ AddSet(c) \/ AddSetFails(c)
    \/ AddCommit(c) \/ AddCommitFails(c)
    \/ AddCheck(c) \/ AddCheckFails(c)
    \/ AddUndo(c) \/ AddUndoFails(c)

RefreshStep(c) ==
    \/ \E S \in SUBSET Ids : RefreshCall(c, S)
    \/ \E i \in Ids : RefreshBegin(c, i) \/ RefreshBeginFails(c, i)
    \/ RefreshGet(c) \/ RefreshFetch(c) \/ RefreshFails(c)
    \/ RefreshStale(c)
    \/ RefreshCommit(c) \/ RefreshCommitFails(c)
    \/ RefreshRecord(c) \/ RefreshRecordFails(c)

RemoveStep(c) ==
    \/ \E i \in Ids : RemoveCall(c, i)
    \/ RemoveGet(c)
    \/ RemoveDelete(c) \/ RemoveDeleteFails(c)
    \/ RemoveCommit(c) \/ RemoveCommitFails(c)
    \/ RemoveCheck(c) \/ RemoveCheckFails(c)
    \/ RemoveRestore(c) \/ RemoveRestoreFails(c)

CheckStep(c) ==
    \/ CheckCall(c)
    \/ CheckMigrate(c) \/ CheckMigrateFails(c) \/ CheckReload(c)
    \/ CheckProbe(c)

Next ==
    \/ \E c \in Calls : GiveUp(c) \/ AddStep(c) \/ RefreshStep(c) \/ RemoveStep(c) \/ CheckStep(c)
    \/ \E i \in Ids : Publish(i)
    \/ \E p \in Procs : Crash(p)

Spec == Init /\ [][Next]_vars

----------------------------------------------------------------------------
\* Properties.

\* Exactly the subscriptions in the state file have endpoints there: a refresh
\* that ends after a removal brings none back, and a removal leaves none.
EndpointsOwned == \A i \in Ids : file.version[i] # 0 <=> i \in file.subs

\* All endpoints are identified under the one key of the state file, or none has
\* a key: whichever process draws the key first, and whatever it finds there.
KeyedEndpoints == \A i \in file.subs : file.keyedBy[i] = file.key

\* However refreshes overlap, none replaces endpoints by those of an older
\* document, nor leaves the error of a refresh that began before the last
\* successful one (the tests of the refresh token in refreshSubscription and in
\* recordRefreshFailure).
NeverOlder ==
    [][/\ \A i \in file.subs \cap file'.subs : file.version[i] <= file'.version[i]
       /\ \A i \in Ids : file'.lastError[i] # 0 => file'.refreshed[i] < file'.lastError[i]]_vars

\* A subscription has its secret, unless a removal that has taken it is still
\* under way, or one has crashed or returned an error of the secret store.
SecretKept ==
    \A i \in file.subs :
        \/ i \in secrets \cup lost
        \/ \E c \in Calls : call[c].id = i /\ Holds(call[c])

\* A secret without a subscription belongs to an addition under way, or was left
\* by an addition that crashed or whose compensation failed, or was put back by
\* a removal that failed while another one of the same subscription, which had
\* found or made the secret gone, succeeded.  A removal alone, whatever fails in
\* it and wherever it crashes, leaves none (RemoveSubscription deletes the
\* secret before the subscription).
OrphansExplained ==
    \A i \in secrets \ file.subs :
        \/ i \in loose
        \/ \E c \in Calls : call[c].id = i /\ Adding(call[c])

\* Latencies are kept, and so shown, only under identifiers made with the key of
\* the state file (loadEndpointSnapshot migrates before anything is used).
CacheKeyed ==
    \A p \in Procs : \A e \in cache[p] : e.key # NoKey /\ e.key = file.key

\* Endpoints, subscriptions and latencies fit together: endpoints belong to
\* subscriptions, and everything is identified under the one key of the state
\* file, although every process brings a candidate key of its own
\* (ensureEndpointIdentityKey) and results come long after they were asked for.
EndpointsFit == TypeOK /\ EndpointsOwned /\ KeyedEndpoints /\ CacheKeyed

\* A failed removal does not put back the secret of a subscription that has been
\* removed meanwhile (RemoveSubscription reads the state before it restores).
RestoresOwned ==
    [][\A i \in (secrets' \ secrets) \ file.subs :
          \E c \in Calls : call[c].id = i /\ At(c, "addSet")]_vars
=============================================================================
