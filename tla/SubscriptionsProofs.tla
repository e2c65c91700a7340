------------------------ MODULE SubscriptionsProofs ------------------------
(* Subscriptions, secrets, endpoints and refreshes stay consistent for any    *)
(* number of processes, calls and subscriptions (internal/app/service.go).    *)
EXTENDS Subscriptions, TLAPS

----------------------------------------------------------------------------
(* The inductive invariant.                                                   *)

\* Endpoints that are identified under the key of the state file.
Keyed(S) == \A e \in S : e.key # NoKey /\ e.key = file.key

\* What a latency check has read is keyed, and the migration is done before.
KeyFits(f) ==
    /\ f.pc = "ckProbe" => Keyed(f.seen)
    /\ f.pc = "ckReload" => file.key # NoKey

KeyInv ==
    /\ EndpointsOwned /\ KeyedEndpoints /\ CacheKeyed
    /\ \A c \in Calls : KeyFits(call[c])

\* A call that adds a subscription and has not written the state file yet.
Fresh(f) == f.pc \in {"addFetch", "addSet", "addCommit"}

\* A call that adds or removes the subscription in its id.
Named(f) == f.pc \in AddSteps \cup RemoveSteps

\* The identifier of an addition belongs to nobody else until the subscription is
\* in the file; its secret is stored before that, and undone only without it.
AddFits(c) ==
    LET f == call[c] IN
    /\ Named(f) => f.id \in issued
    /\ Fresh(f) => /\ f.id \notin file.subs
                   /\ \A d \in Calls : d # c /\ Named(call[d]) => call[d].id # f.id
    /\ f.pc = "addCommit" => f.id \in secrets
    /\ f.pc = "addUndo" => f.id \notin file.subs
    /\ f.pc = "rmDelete" => f.had

AddInv ==
    /\ file.subs \subseteq issued
    /\ \A c \in Calls : AddFits(c)

\* A refresh under way is newer than what was stored before it.
RowFits(i) ==
    /\ file.token[i] <= begun /\ file.refreshed[i] <= begun
    /\ file.token[i] # 0 => file.refreshed[i] < file.token[i]
    /\ file.lastError[i] # 0 => file.refreshed[i] < file.lastError[i]
    /\ i \notin file.subs => file.token[i] = 0
    /\ file.version[i] <= published[i]

\* A call that owns the token of a subscription has fetched no older document.
TokenFits(f) ==
    /\ f.pc \in {"get", "fetch", "commit", "record"} => f.token \in 1..begun
    /\ f.pc \in {"addSet", "addCommit", "commit"} => f.version <= published[f.id]
    /\ f.pc = "commit" /\ file.token[f.id] = f.token => file.version[f.id] <= f.version

TokenInv ==
    /\ \A i \in Ids : RowFits(i)
    /\ \A c \in Calls : TokenFits(call[c])

\* A removal about to change the file has found or made the secret gone, unless
\* another one has put it back since.
GoneInv ==
    \A c \in Calls : call[c].pc = "rmCommit" => call[c].id \notin secrets \/ call[c].id \in loose

SubInv == TypeOK /\ KeyInv /\ AddInv /\ TokenInv /\ SecretKept /\ OrphansExplained /\ GoneInv

----------------------------------------------------------------------------
(* What a step does to the file.                                              *)

\* No row of the file goes back, and a row that changes changes its token.
FileStep ==
    /\ file' \in Snapshot /\ begun' \in Tokens /\ begun <= begun'
    /\ EndpointsOwned' /\ KeyedEndpoints'
    /\ file.key # NoKey => file'.key = file.key
    /\ \A i \in Ids :
        /\ RowFits(i)'
        /\ \/ file'.token[i] = file.token[i] /\ file'.version[i] = file.version[i]
           \/ file'.token[i] = 0
           \/ file'.token[i] > begun
    /\ \A i \in file.subs \cap file'.subs : file.version[i] <= file'.version[i]

\* The constants and the fields of the file.
LEMMA Basics ==
    ASSUME SubInv
    PROVE  /\ MaxVersion \in Nat /\ MaxBegins \in Nat /\ begun \in Nat /\ NoKey \notin Procs
           /\ file \in Snapshot /\ published \in [Ids -> Nat]
           /\ \A i \in Ids : /\ file.token[i] \in Nat /\ file.refreshed[i] \in Nat
                             /\ file.lastError[i] \in Nat /\ file.version[i] \in Nat
                             /\ RowFits(i)
           /\ file.subs \subseteq Ids
           /\ EndpointsOwned /\ KeyedEndpoints
<1>1. MaxVersion \in Nat /\ MaxBegins \in Nat /\ NoKey \notin Procs
  BY Zenon, BoundAssumption, CallAssumption
<1>2. /\ file \in Snapshot /\ published \in [Ids -> Versions] /\ begun \in Tokens
      /\ EndpointsOwned /\ KeyedEndpoints /\ \A i \in Ids : RowFits(i)
  BY Zenon DEF SubInv, TypeOK, KeyInv, TokenInv
<1>3. /\ file.token \in [Ids -> Tokens] /\ file.refreshed \in [Ids -> Tokens]
      /\ file.lastError \in [Ids -> Tokens] /\ file.version \in [Ids -> Versions \cup {0}]
      /\ file.subs \subseteq Ids
  BY Zenon, <1>2 DEF Snapshot
<1> QED BY <1>1, <1>2, <1>3 DEF Tokens, Versions

\* A step that leaves the file alone.
LEMMA FileSame ==
    ASSUME SubInv, file' = file, begun' = begun, published' = published
    PROVE  FileStep
<1>1. \A i \in Ids : RowFits(i)'
  BY Zenon, Basics DEF RowFits
<1>2. EndpointsOwned' /\ KeyedEndpoints'
  BY Zenon, Basics DEF EndpointsOwned, KeyedEndpoints
<1> QED BY <1>1, <1>2, Basics DEF FileStep, SubInv, TypeOK

\* The fields of a snapshot.
LEMMA Rows ==
    ASSUME NEW f \in Snapshot
    PROVE  /\ f = [subs |-> f.subs, token |-> f.token, refreshed |-> f.refreshed,
                   lastError |-> f.lastError, version |-> f.version, keyedBy |-> f.keyedBy,
                   key |-> f.key]
           /\ f.subs \subseteq Ids /\ f.token \in [Ids -> Tokens] /\ f.refreshed \in [Ids -> Tokens]
           /\ f.lastError \in [Ids -> Tokens] /\ f.version \in [Ids -> Versions \cup {0}]
           /\ f.keyedBy \in [Ids -> Keys] /\ f.key \in Keys
BY Zenon DEF Snapshot

\* The first key re-keys the endpoints and changes nothing else.
LEMMA KeyIs ==
    ASSUME NEW f \in Snapshot, NEW k \in Procs
    PROVE  LET g == EnsureKey(f, k) IN
           /\ g \in Snapshot /\ g.subs = f.subs /\ g.token = f.token /\ g.refreshed = f.refreshed
           /\ g.lastError = f.lastError /\ g.version = f.version
           /\ g.key # NoKey /\ (f.key # NoKey => g.key = f.key)
           /\ \A i \in Ids : f.version[i] # 0 /\ f.keyedBy[i] = f.key => g.keyedBy[i] = g.key
<1> DEFINE g == EnsureKey(f, k)
           by == [i \in Ids |-> IF f.version[i] # 0 THEN k ELSE NoKey]
           first == [f EXCEPT !.key = k]
<1>0. k # NoKey /\ k \in Keys /\ NoKey \in Keys
  BY Zenon, CallAssumption DEF Keys
<1>1. CASE f.key # NoKey
  <2>1. g = f
    BY Zenon, <1>1 DEF EnsureKey
  <2> QED BY Zenon, <1>1, <2>1
<1>2. CASE f.key = NoKey
  <2>1. g = [first EXCEPT !.keyedBy = by]
    BY Zenon, <1>2 DEF EnsureKey
  <2>2. by \in [Ids -> Keys] /\ \A i \in Ids : f.version[i] # 0 => by[i] = k
    BY Zenon, <1>0
  <2> HIDE DEF g, by
  <2>3. g = [subs |-> f.subs, token |-> f.token, refreshed |-> f.refreshed,
             lastError |-> f.lastError, version |-> f.version, keyedBy |-> by, key |-> k]
    <3>1. first = [subs |-> f.subs, token |-> f.token, refreshed |-> f.refreshed,
                   lastError |-> f.lastError, version |-> f.version, keyedBy |-> f.keyedBy, key |-> k]
      BY Rows
    <3> HIDE DEF first
    <3> QED BY Zenon, <2>1, <3>1
  <2>4. /\ g \in Snapshot /\ g.subs = f.subs /\ g.token = f.token /\ g.refreshed = f.refreshed
        /\ g.lastError = f.lastError /\ g.version = f.version /\ g.key = k /\ g.keyedBy = by
    BY Zenon, <1>0, <2>2, <2>3, Rows DEF Snapshot
  <2> QED BY Zenon, <1>0, <1>2, <2>2, <2>4 DEF g
<1> QED BY Zenon, <1>1, <1>2

\* The endpoints of one subscription are replaced.
LEMMA StoreIs ==
    ASSUME NEW f \in Snapshot, NEW i \in Ids, NEW v \in Versions, NEW k \in Procs
    PROVE  LET e == Store(f, i, v, k) IN
           /\ e \in Snapshot /\ e.subs = f.subs /\ e.token = f.token /\ e.refreshed = f.refreshed
           /\ e.lastError = f.lastError /\ e.version = [f.version EXCEPT ![i] = v]
           /\ e.key # NoKey /\ (f.key # NoKey => e.key = f.key) /\ e.keyedBy[i] = e.key
           /\ \A j \in Ids : f.version[j] # 0 /\ f.keyedBy[j] = f.key => e.keyedBy[j] = e.key
<1> DEFINE g == EnsureKey(f, k)
           version == [g.version EXCEPT ![i] = v]
           by == [g.keyedBy EXCEPT ![i] = g.key]
           first == [g EXCEPT !.version = version]
           e == Store(f, i, v, k)
<1>1. /\ g \in Snapshot /\ g.subs = f.subs /\ g.token = f.token /\ g.refreshed = f.refreshed
      /\ g.lastError = f.lastError /\ g.version = f.version
      /\ g.key # NoKey /\ (f.key # NoKey => g.key = f.key)
      /\ \A j \in Ids : f.version[j] # 0 /\ f.keyedBy[j] = f.key => g.keyedBy[j] = g.key
  BY Zenon, KeyIs
<1>2. e = [first EXCEPT !.keyedBy = by]
  BY Zenon DEF Store
<1> HIDE DEF g, e
<1>3. /\ version \in [Ids -> Versions \cup {0}] /\ by \in [Ids -> Keys] /\ by[i] = g.key
      /\ \A j \in Ids : j # i => by[j] = g.keyedBy[j]
  BY Zenon, <1>1, Rows
<1> HIDE DEF by, version
<1>4. first = [subs |-> g.subs, token |-> g.token, refreshed |-> g.refreshed,
               lastError |-> g.lastError, version |-> version, keyedBy |-> g.keyedBy, key |-> g.key]
  BY <1>1, Rows
<1> HIDE DEF first
<1>5. e = [subs |-> g.subs, token |-> g.token, refreshed |-> g.refreshed,
           lastError |-> g.lastError, version |-> version, keyedBy |-> by, key |-> g.key]
  BY Zenon, <1>2, <1>4
<1>6. /\ e \in Snapshot /\ e.subs = g.subs /\ e.token = g.token /\ e.refreshed = g.refreshed
      /\ e.lastError = g.lastError /\ e.version = version /\ e.keyedBy = by /\ e.key = g.key
  BY Zenon, <1>1, <1>3, <1>5, Rows DEF Snapshot
<1>7. version = [f.version EXCEPT ![i] = v]
  BY Zenon, <1>1 DEF version
<1> QED BY <1>1, <1>3, <1>6, <1>7 DEF e

\* The row of a subscription is written and the rest kept.
LEMMA AddedIs ==
    ASSUME SubInv, NEW i \in Ids, i \notin file.subs, NEW v \in Versions, v <= published[i],
           NEW k \in Procs, file' = Added(file, i, v, k), begun' = begun, published' = published
    PROVE  FileStep /\ file'.subs = file.subs \cup {i} /\ file'.key # NoKey
<1> DEFINE e == Store(file, i, v, k)
<1>0. file \in Snapshot
  BY Zenon, Basics
<1>1. /\ e \in Snapshot /\ e.subs = file.subs /\ e.token = file.token /\ e.refreshed = file.refreshed
      /\ e.lastError = file.lastError /\ e.version = [file.version EXCEPT ![i] = v]
      /\ e.key # NoKey /\ (file.key # NoKey => e.key = file.key) /\ e.keyedBy[i] = e.key
      /\ \A j \in Ids : file.version[j] # 0 /\ file.keyedBy[j] = file.key => e.keyedBy[j] = e.key
  BY <1>0, StoreIs
<1>2. file' = [e EXCEPT !.subs = @ \cup {i}]
  BY Zenon DEF Added
<1> HIDE DEF e
<1>3. /\ file' \in Snapshot /\ file'.subs = file.subs \cup {i} /\ file'.token = file.token
      /\ file'.refreshed = file.refreshed /\ file'.lastError = file.lastError
      /\ file'.version = [file.version EXCEPT ![i] = v] /\ file'.key = e.key /\ file'.keyedBy = e.keyedBy
  BY <1>1, <1>2 DEF Snapshot
<1>4. /\ v \in Nat /\ v # 0 /\ file'.version[i] = v
      /\ \A j \in Ids : j # i => file'.version[j] = file.version[j]
  BY <1>0, <1>3, Basics, Rows DEF Versions
<1>5. EndpointsOwned'
  BY Zenon, <1>3, <1>4, Basics DEF EndpointsOwned
<1>6. KeyedEndpoints'
  <2>1. \A j \in file.subs : file.version[j] # 0 /\ file.keyedBy[j] = file.key /\ j \in Ids
    BY Zenon, Basics DEF EndpointsOwned, KeyedEndpoints
  <2> QED BY <1>1, <1>3, <2>1 DEF KeyedEndpoints
<1>7. ASSUME NEW j \in Ids
      PROVE  RowFits(j)' /\ (\/ file'.token[j] = file.token[j] /\ file'.version[j] = file.version[j]
                             \/ file'.token[j] = 0)
  <2>1. RowFits(j)
    BY Zenon, Basics
  <2>2. CASE j = i
    BY Zenon, <1>3, <1>4, <2>1, <2>2 DEF RowFits
  <2>3. CASE j # i
    BY Zenon, <1>3, <1>4, <2>1, <2>3 DEF RowFits
  <2> QED BY Zenon, <2>2, <2>3
<1>8. \A j \in file.subs \cap file'.subs : file.version[j] <= file'.version[j]
  BY <1>4, Basics
<1>9. begun' \in Tokens /\ begun <= begun'
  BY Basics DEF SubInv, TypeOK
<1> QED BY Zenon, <1>1, <1>3, <1>5, <1>6, <1>7, <1>8, <1>9 DEF FileStep

\* A refresh that is not superseded writes the row and gives up its token.
LEMMA RefreshedIs ==
    ASSUME SubInv, NEW i \in file.subs, NEW t \in 1..begun, NEW v \in Versions,
           file.version[i] <= v, v <= published[i],
           NEW k \in Procs, file' = Refreshed(file, i, t, v, k), begun' = begun, published' = published
    PROVE  FileStep /\ file'.subs = file.subs /\ file'.key # NoKey
<1> DEFINE e == Store(file, i, v, k)
           token == [file.token EXCEPT ![i] = 0]
           refreshed == [file.refreshed EXCEPT ![i] = t]
           lastError == [file.lastError EXCEPT ![i] = 0]
<1>0. file \in Snapshot /\ i \in Ids
  BY Zenon, Basics
<1>1. /\ e \in Snapshot /\ e.subs = file.subs /\ e.token = file.token /\ e.refreshed = file.refreshed
      /\ e.lastError = file.lastError /\ e.version = [file.version EXCEPT ![i] = v]
      /\ e.key # NoKey /\ (file.key # NoKey => e.key = file.key) /\ e.keyedBy[i] = e.key
      /\ \A j \in Ids : file.version[j] # 0 /\ file.keyedBy[j] = file.key => e.keyedBy[j] = e.key
  BY <1>0, StoreIs
<1>2. /\ file' \in Snapshot /\ file'.subs = file.subs /\ file'.token = token
      /\ file'.refreshed = refreshed /\ file'.lastError = lastError
      /\ file'.version = [file.version EXCEPT ![i] = v] /\ file'.key = e.key /\ file'.keyedBy = e.keyedBy
  <2> DEFINE first == [e EXCEPT !.token = [e.token EXCEPT ![i] = 0]]
             second == [first EXCEPT !.refreshed = [first.refreshed EXCEPT ![i] = t]]
  <2>1. file' = [second EXCEPT !.lastError = [second.lastError EXCEPT ![i] = 0]]
    BY Zenon DEF Refreshed
  <2>2. t \in Tokens /\ 0 \in Tokens
    BY Basics DEF Tokens, SubInv, TypeOK
  <2> HIDE DEF e
  <2>3. /\ token \in [Ids -> Tokens] /\ refreshed \in [Ids -> Tokens] /\ lastError \in [Ids -> Tokens]
    BY Zenon, <1>0, <2>2, Rows
  <2>4. first = [subs |-> e.subs, token |-> token, refreshed |-> e.refreshed,
                 lastError |-> e.lastError, version |-> e.version, keyedBy |-> e.keyedBy, key |-> e.key]
    <3>1. [e.token EXCEPT ![i] = 0] = token
      BY Zenon, <1>1
    <3> HIDE DEF token
    <3> QED BY <1>1, <3>1, Rows
  <2> HIDE DEF first
  <2>5. second = [subs |-> e.subs, token |-> token, refreshed |-> refreshed,
                  lastError |-> e.lastError, version |-> e.version, keyedBy |-> e.keyedBy, key |-> e.key]
    <3>1. [first.refreshed EXCEPT ![i] = t] = refreshed
      <4> HIDE DEF token
      <4> QED BY Zenon, <1>1, <2>4
    <3> HIDE DEF token, refreshed
    <3> QED BY <2>4, <3>1
  <2> HIDE DEF second
  <2>6. file' = [subs |-> e.subs, token |-> token, refreshed |-> refreshed,
                 lastError |-> lastError, version |-> e.version, keyedBy |-> e.keyedBy, key |-> e.key]
    <3>1. [second.lastError EXCEPT ![i] = 0] = lastError
      <4> HIDE DEF token, refreshed
      <4> QED BY Zenon, <1>1, <2>5
    <3> HIDE DEF token, refreshed, lastError
    <3> QED BY <2>1, <2>5, <3>1
  <2> HIDE DEF token, refreshed, lastError
  <2>7. /\ file' \in Snapshot /\ file'.subs = e.subs /\ file'.token = token
        /\ file'.refreshed = refreshed /\ file'.lastError = lastError
        /\ file'.version = e.version /\ file'.key = e.key /\ file'.keyedBy = e.keyedBy
    <3>1. /\ e.subs \subseteq Ids /\ e.version \in [Ids -> Versions \cup {0}]
          /\ e.keyedBy \in [Ids -> Keys] /\ e.key \in Keys
      BY Zenon, <1>1, Rows
    <3> QED BY <2>3, <2>6, <3>1 DEF Snapshot
  <2> QED BY Zenon, <1>1, <2>7
<1> HIDE DEF e
<1>3. /\ v \in Nat /\ v # 0 /\ t \in Nat /\ t <= begun
      /\ file'.version[i] = v /\ file'.token[i] = 0 /\ file'.refreshed[i] = t /\ file'.lastError[i] = 0
      /\ \A j \in Ids : j # i => /\ file'.version[j] = file.version[j] /\ file'.token[j] = file.token[j]
                                 /\ file'.refreshed[j] = file.refreshed[j]
                                 /\ file'.lastError[j] = file.lastError[j]
  BY <1>0, <1>2, Basics, Rows DEF Versions
<1> HIDE DEF token, refreshed, lastError
<1>4. EndpointsOwned'
  BY <1>0, <1>2, <1>3, Basics DEF EndpointsOwned
<1>5. KeyedEndpoints'
  <2>1. \A j \in file.subs : file.version[j] # 0 /\ file.keyedBy[j] = file.key /\ j \in Ids
    BY Zenon, Basics DEF EndpointsOwned, KeyedEndpoints
  <2> QED BY <1>1, <1>2, <2>1 DEF KeyedEndpoints
<1>6. ASSUME NEW j \in Ids
      PROVE  RowFits(j)' /\ (\/ file'.token[j] = file.token[j] /\ file'.version[j] = file.version[j]
                             \/ file'.token[j] = 0)
  <2>1. RowFits(j) /\ begun \in Nat
    BY Zenon, Basics
  <2>2. CASE j = i
    BY <1>2, <1>3, <2>1, <2>2 DEF RowFits
  <2>3. CASE j # i
    BY Zenon, <1>2, <1>3, <2>1, <2>3 DEF RowFits
  <2> QED BY Zenon, <2>2, <2>3
<1>7. \A j \in file.subs \cap file'.subs : file.version[j] <= file'.version[j]
  BY <1>3, Basics
<1>8. begun' \in Tokens /\ begun <= begun'
  BY Basics DEF SubInv, TypeOK
<1> QED BY Zenon, <1>1, <1>2, <1>4, <1>5, <1>6, <1>7, <1>8 DEF FileStep

\* A failed refresh that is not superseded leaves its error and its token goes.
LEMMA FailedIs ==
    ASSUME SubInv, NEW i \in file.subs, NEW t \in 1..begun, file.token[i] = t,
           file' = Failed(file, i, t), begun' = begun, published' = published
    PROVE  FileStep /\ file'.subs = file.subs
<1> DEFINE token == [file.token EXCEPT ![i] = 0]
           lastError == [file.lastError EXCEPT ![i] = t]
<1>0. file \in Snapshot /\ i \in Ids
  BY Zenon, Basics
<1>2. /\ file' \in Snapshot /\ file'.subs = file.subs /\ file'.token = token
      /\ file'.refreshed = file.refreshed /\ file'.lastError = lastError
      /\ file'.version = file.version /\ file'.key = file.key /\ file'.keyedBy = file.keyedBy
  <2> DEFINE first == [file EXCEPT !.token = token]
  <2>1. file' = [first EXCEPT !.lastError = [first.lastError EXCEPT ![i] = t]]
    BY Zenon DEF Failed
  <2>2. t \in Tokens /\ 0 \in Tokens
    BY Basics DEF Tokens, SubInv, TypeOK
  <2>3. token \in [Ids -> Tokens] /\ lastError \in [Ids -> Tokens]
    BY Zenon, <1>0, <2>2, Rows
  <2> HIDE DEF token
  <2>4. first = [subs |-> file.subs, token |-> token, refreshed |-> file.refreshed,
                 lastError |-> file.lastError, version |-> file.version, keyedBy |-> file.keyedBy,
                 key |-> file.key]
    BY <1>0, Rows
  <2> HIDE DEF first
  <2>5. [first.lastError EXCEPT ![i] = t] = lastError
    BY Zenon, <2>4
  <2> HIDE DEF lastError
  <2>6. file' = [subs |-> file.subs, token |-> token, refreshed |-> file.refreshed,
                 lastError |-> lastError, version |-> file.version, keyedBy |-> file.keyedBy,
                 key |-> file.key]
    BY <2>1, <2>4, <2>5
  <2> QED BY <1>0, <2>3, <2>6, Rows DEF Snapshot
<1>3. /\ t \in Nat /\ t <= begun /\ file'.token[i] = 0 /\ file'.lastError[i] = t
      /\ \A j \in Ids : j # i => file'.token[j] = file.token[j] /\ file'.lastError[j] = file.lastError[j]
  BY <1>0, <1>2, Basics, Rows
<1> HIDE DEF token, lastError
<1>4. EndpointsOwned' /\ KeyedEndpoints'
  BY <1>2, Basics DEF EndpointsOwned, KeyedEndpoints
<1>6. ASSUME NEW j \in Ids
      PROVE  RowFits(j)' /\ (\/ file'.token[j] = file.token[j] /\ file'.version[j] = file.version[j]
                             \/ file'.token[j] = 0)
  <2>1. RowFits(j) /\ begun \in Nat
    BY Zenon, Basics
  <2>2. CASE j = i
    BY <1>2, <1>3, <2>1, <2>2 DEF RowFits
  <2>3. CASE j # i
    BY Zenon, <1>2, <1>3, <2>1, <2>3 DEF RowFits
  <2> QED BY Zenon, <2>2, <2>3
<1>7. \A j \in file.subs \cap file'.subs : file.version[j] <= file'.version[j]
  BY <1>2, Basics
<1>8. begun' \in Tokens /\ begun <= begun'
  BY Basics DEF SubInv, TypeOK
<1> QED BY Zenon, <1>2, <1>4, <1>6, <1>7, <1>8 DEF FileStep

\* A removal clears the row.
LEMMA RemovedIs ==
    ASSUME SubInv, NEW i \in Ids, file' = Removed(file, i), begun' = begun, published' = published
    PROVE  FileStep /\ file'.subs = file.subs \ {i}
<1> DEFINE subs == file.subs \ {i}
           token == [file.token EXCEPT ![i] = 0]
           refreshed == [file.refreshed EXCEPT ![i] = 0]
           lastError == [file.lastError EXCEPT ![i] = 0]
           version == [file.version EXCEPT ![i] = 0]
           by == [file.keyedBy EXCEPT ![i] = NoKey]
<1>0. file \in Snapshot
  BY Zenon, Basics
<1>1. 0 \in Tokens /\ NoKey \in Keys
  BY Basics DEF Tokens, Keys
<1>2. /\ subs \subseteq Ids /\ token \in [Ids -> Tokens] /\ refreshed \in [Ids -> Tokens]
      /\ lastError \in [Ids -> Tokens] /\ version \in [Ids -> Versions \cup {0}]
      /\ by \in [Ids -> Keys]
  BY Zenon, <1>0, <1>1, Rows
<1>3. file' = [subs |-> subs, token |-> token, refreshed |-> refreshed, lastError |-> lastError,
               version |-> version, keyedBy |-> by, key |-> file.key]
  <2>1. PICK f : /\ f = [subs |-> file.subs, token |-> file.token, refreshed |-> file.refreshed,
                         lastError |-> file.lastError, version |-> file.version,
                         keyedBy |-> file.keyedBy, key |-> file.key]
                 /\ f = file
    BY Zenon, <1>0, Rows
  <2>2. file' = Removed(f, i)
    BY Zenon, <2>1
  <2> QED BY Zenon, <2>1, <2>2 DEF Removed
<1>4. /\ file' \in Snapshot /\ file'.subs = subs /\ file'.token = token
      /\ file'.refreshed = refreshed /\ file'.lastError = lastError
      /\ file'.version = version /\ file'.key = file.key /\ file'.keyedBy = by
  <2> HIDE DEF subs, token, refreshed, lastError, version, by
  <2> QED BY <1>0, <1>2, <1>3, Rows DEF Snapshot
<1>5. /\ file'.subs = file.subs \ {i}
      /\ file'.version[i] = 0 /\ file'.token[i] = 0 /\ file'.refreshed[i] = 0 /\ file'.lastError[i] = 0
      /\ \A j \in Ids : j # i => /\ file'.version[j] = file.version[j] /\ file'.token[j] = file.token[j]
                                 /\ file'.refreshed[j] = file.refreshed[j]
                                 /\ file'.lastError[j] = file.lastError[j]
                                 /\ file'.keyedBy[j] = file.keyedBy[j]
  BY <1>0, <1>4, Rows
<1>6. file'.key = file.key /\ file' \in Snapshot
  BY Zenon, <1>4
<1> HIDE DEF subs, token, refreshed, lastError, version, by
<1>7. EndpointsOwned' /\ KeyedEndpoints'
  BY <1>5, <1>6, Basics DEF EndpointsOwned, KeyedEndpoints
<1>8. ASSUME NEW j \in Ids
      PROVE  RowFits(j)' /\ (\/ file'.token[j] = file.token[j] /\ file'.version[j] = file.version[j]
                             \/ file'.token[j] = 0)
  <2>1. RowFits(j) /\ begun \in Nat /\ published[j] \in Nat
    BY Zenon, Basics
  <2>2. CASE j = i
    BY <1>5, <2>1, <2>2 DEF RowFits
  <2>3. CASE j # i
    BY Zenon, <1>5, <2>1, <2>3 DEF RowFits
  <2> QED BY Zenon, <2>2, <2>3
<1>9. \A j \in file.subs \cap file'.subs : file.version[j] <= file'.version[j]
  BY <1>5, Basics
<1>10. begun' \in Tokens /\ begun <= begun'
  BY Basics DEF SubInv, TypeOK
<1> QED BY Zenon, <1>5, <1>6, <1>7, <1>8, <1>9, <1>10 DEF FileStep

\* The migration keys the endpoints.
LEMMA MigratedIs ==
    ASSUME SubInv, NEW k \in Procs, file' = EnsureKey(file, k), begun' = begun, published' = published
    PROVE  FileStep /\ file'.subs = file.subs /\ file'.key # NoKey
<1>0. file \in Snapshot
  BY Zenon, Basics
<1>1. /\ file' \in Snapshot /\ file'.subs = file.subs /\ file'.token = file.token
      /\ file'.refreshed = file.refreshed /\ file'.lastError = file.lastError
      /\ file'.version = file.version /\ file'.key # NoKey /\ (file.key # NoKey => file'.key = file.key)
      /\ \A i \in Ids : file.version[i] # 0 /\ file.keyedBy[i] = file.key => file'.keyedBy[i] = file'.key
  BY Zenon, <1>0, KeyIs
<1>2. EndpointsOwned' /\ KeyedEndpoints'
  BY <1>1, Basics DEF EndpointsOwned, KeyedEndpoints
<1>3. \A j \in Ids : RowFits(j)'
  BY <1>1, Basics DEF RowFits
<1>4. \A j \in file.subs \cap file'.subs : file.version[j] <= file'.version[j]
  BY <1>1, Basics
<1>5. begun' \in Tokens /\ begun <= begun'
  BY Basics DEF SubInv, TypeOK
<1> QED BY Zenon, <1>1, <1>2, <1>3, <1>4, <1>5 DEF FileStep

\* A refresh begins with a token above all others.
LEMMA BegunIs ==
    ASSUME SubInv, NEW i \in file.subs, begun + 1 <= MaxBegins,
           file' = [file EXCEPT !.token[i] = begun + 1], begun' = begun + 1, published' = published
    PROVE  FileStep /\ file'.subs = file.subs /\ file'.token[i] = begun + 1
<1>0. file \in Snapshot /\ i \in Ids /\ begun \in Nat /\ MaxBegins \in Nat
  BY Zenon, Basics
<1>1. begun' \in Tokens /\ begun + 1 \in Tokens /\ begun <= begun'
  BY <1>0 DEF Tokens
<1>2. /\ file' \in Snapshot /\ file'.subs = file.subs /\ file'.token = [file.token EXCEPT ![i] = begun + 1]
      /\ file'.refreshed = file.refreshed /\ file'.lastError = file.lastError
      /\ file'.version = file.version /\ file'.key = file.key /\ file'.keyedBy = file.keyedBy
  BY Zenon, <1>0, <1>1 DEF Snapshot
<1>3. /\ file'.token[i] = begun + 1
      /\ \A j \in Ids : j # i => file'.token[j] = file.token[j]
  BY <1>0, <1>2, Rows
<1>4. EndpointsOwned' /\ KeyedEndpoints'
  BY Zenon, <1>2, Basics DEF EndpointsOwned, KeyedEndpoints
<1>5. ASSUME NEW j \in Ids
      PROVE  RowFits(j)' /\ (\/ file'.token[j] = file.token[j] /\ file'.version[j] = file.version[j]
                             \/ file'.token[j] > begun)
  <2>1. /\ RowFits(j) /\ file.token[j] \in Nat /\ file.refreshed[j] \in Nat
        /\ file.lastError[j] \in Nat /\ begun \in Nat
    BY Zenon, Basics
  <2>2. CASE j = i
    BY <1>2, <1>3, <2>1, <2>2 DEF RowFits
  <2>3. CASE j # i
    BY <1>2, <1>3, <2>1, <2>3 DEF RowFits
  <2> QED BY Zenon, <2>2, <2>3
<1>6. \A j \in file.subs \cap file'.subs : file.version[j] <= file'.version[j]
  BY <1>2, Basics
<1> QED BY Zenon, <1>1, <1>2, <1>3, <1>4, <1>5, <1>6 DEF FileStep

----------------------------------------------------------------------------
(* What a step of a call does to the rest.                                    *)

\* The identifier of call c, which goes on as f, is left to its owner.
OwnFits(c, f) ==
    /\ issued \subseteq issued' /\ file'.subs \subseteq issued'
    /\ Named(f) => /\ f.id \in issued'
                   /\ \A d \in Calls \ {c} : Fresh(call[d]) => call[d].id # f.id
    /\ Fresh(f) => /\ f.id \notin file'.subs
                   /\ \A d \in Calls \ {c} : Named(call[d]) => call[d].id # f.id
    /\ f.pc = "addCommit" => f.id \in secrets'
    /\ f.pc = "addUndo" => f.id \notin file'.subs
    /\ f.pc = "rmDelete" => f.had
    /\ \A d \in Calls \ {c} :
        /\ Named(call[d]) => call[d].id \notin file'.subs \ file.subs
        /\ Fresh(call[d]) => call[d].id \notin secrets \ secrets'

\* A secret that goes or comes is accounted for, and so is the end of what
\* accounted for one.
SecretFits(c, f) ==
    /\ lost \subseteq lost' /\ loose \subseteq loose'
    /\ \A i \in file'.subs \ file.subs : i \in secrets'
    /\ \A i \in file'.subs \cap (secrets \ secrets') : i \in lost' \/ (f.id = i /\ Holds(f))
    /\ Holds(call[c]) /\ call[c].id \in file'.subs \ (secrets' \cup lost')
           => f.id = call[c].id /\ Holds(f)
    /\ \A i \in secrets' \ file'.subs :
           i \in secrets \ file.subs \/ i \in loose' \/ (f.id = i /\ Adding(f))
    /\ Adding(call[c]) /\ call[c].id \in secrets' \ (file'.subs \cup loose')
           => f.id = call[c].id /\ Adding(f)
    /\ f.pc = "rmCommit" => f.id \notin secrets' \/ f.id \in loose'
    /\ \A i \in secrets' \ secrets :
           i \in loose' \/ \A d \in Calls : call[d].pc = "rmCommit" => call[d].id # i

\* A step of call c that goes on as f: one lemma for the shape of all of them.
Moves(c, f) ==
    /\ call' = [call EXCEPT ![c] = f]
    /\ published' = published
    /\ secrets' \subseteq Ids /\ issued' \subseteq Ids /\ lost' \subseteq Ids /\ loose' \subseteq Ids
    /\ cache' \in [Procs -> SUBSET EndpointId] /\ CacheKeyed'

\* Latencies that stay are still keyed: a key that was drawn is never replaced.
LEMMA CacheShrinks ==
    ASSUME SubInv, FileStep, cache' \in [Procs -> SUBSET EndpointId],
           \A p \in Procs : cache'[p] \subseteq cache[p]
    PROVE  CacheKeyed'
BY Zenon DEF SubInv, KeyInv, CacheKeyed, FileStep

\* The other calls still own what they own, and so does this one.
LEMMA OwnStep ==
    ASSUME SubInv, NEW c \in Calls, NEW f \in Frame, Moves(c, f), OwnFits(c, f)
    PROVE  AddInv'
<1>1. call'[c] = f /\ \A d \in Calls \ {c} : call'[d] = call[d]
  BY Zenon DEF Moves, SubInv, TypeOK
<1>2. \A d \in Calls : AddFits(d)
  BY Zenon DEF SubInv, AddInv
<1>3. ASSUME NEW d \in Calls
      PROVE  AddFits(d)'
  <2>1. CASE d = c
    BY Zenon, <1>1, <2>1 DEF OwnFits, AddFits
  <2>2. CASE d # c
    <3>1. AddFits(d) /\ call'[d] = call[d] /\ d \in Calls \ {c}
      BY Zenon, <1>1, <1>2, <2>2
    <3>2. Fresh(call[d]) => \A e \in Calls : e # d /\ Named(call'[e]) => call'[e].id # call[d].id
      BY Zenon, <1>1, <3>1 DEF OwnFits, AddFits
    <3>3. Fresh(call[d]) => Named(call[d]) /\ call[d].id \notin file'.subs
      BY Zenon, <3>1 DEF AddFits, Fresh, Named, AddSteps, OwnFits
    <3>4. call[d].pc = "addCommit" => call[d].id \in secrets'
      BY Zenon, <3>1 DEF AddFits, Fresh, OwnFits
    <3>5. call[d].pc = "addUndo" => call[d].id \notin file'.subs
      BY Zenon, <3>1 DEF AddFits, Named, AddSteps, OwnFits
    <3>6. Named(call[d]) => call[d].id \in issued'
      BY Zenon, <3>1 DEF AddFits, OwnFits
    <3> QED BY Zenon, <3>1, <3>2, <3>3, <3>4, <3>5, <3>6 DEF AddFits
  <2> QED BY Zenon, <2>1, <2>2
<1> QED BY Zenon, <1>3 DEF AddInv, OwnFits

\* Secrets and subscriptions stay accounted for.
LEMMA SecretStep ==
    ASSUME SubInv, NEW c \in Calls, NEW f \in Frame, Moves(c, f), SecretFits(c, f)
    PROVE  SecretKept' /\ OrphansExplained' /\ GoneInv'
<1>1. call'[c] = f /\ \A d \in Calls \ {c} : call'[d] = call[d]
  BY DEF Moves, SubInv, TypeOK
<1>2. ASSUME NEW i \in file'.subs, i \notin secrets' \cup lost'
      PROVE  \E d \in Calls : call'[d].id = i /\ Holds(call'[d])
  <2>1. i \in file.subs /\ i \notin lost
    BY Zenon, <1>2 DEF SecretFits
  <2>2. CASE i \in secrets
    BY Zenon, <1>1, <1>2, <2>2 DEF SecretFits
  <2>3. CASE i \notin secrets
    <3>1. PICK d \in Calls : call[d].id = i /\ Holds(call[d])
      BY Zenon, <2>1, <2>3 DEF SubInv, SecretKept
    <3>2. CASE d = c
      BY Zenon, <1>1, <1>2, <3>1, <3>2 DEF SecretFits
    <3>3. CASE d # c
      BY Zenon, <1>1, <3>1, <3>3
    <3> QED BY Zenon, <3>2, <3>3
  <2> QED BY Zenon, <2>2, <2>3
<1>3. ASSUME NEW i \in secrets' \ file'.subs, i \notin loose'
      PROVE  \E d \in Calls : call'[d].id = i /\ Adding(call'[d])
  <2>1. CASE f.id = i /\ Adding(f)
    BY Zenon, <1>1, <2>1
  <2>2. CASE ~(f.id = i /\ Adding(f))
    <3>1. i \in secrets \ file.subs /\ i \notin loose
      BY Zenon, <1>3, <2>2 DEF SecretFits
    <3>2. PICK d \in Calls : call[d].id = i /\ Adding(call[d])
      BY Zenon, <3>1 DEF SubInv, OrphansExplained
    <3>3. CASE d = c
      BY Zenon, <1>1, <1>3, <3>2, <3>3 DEF SecretFits
    <3>4. CASE d # c
      BY Zenon, <1>1, <3>2, <3>4
    <3> QED BY Zenon, <3>3, <3>4
  <2> QED BY Zenon, <2>1, <2>2
<1>4. ASSUME NEW d \in Calls, call'[d].pc = "rmCommit"
      PROVE  call'[d].id \notin secrets' \/ call'[d].id \in loose'
  <2>1. CASE d = c
    BY Zenon, <1>1, <1>4, <2>1 DEF SecretFits
  <2>2. CASE d # c
    <3>1. call'[d] = call[d] /\ (call[d].id \notin secrets \/ call[d].id \in loose)
      BY Zenon, <1>1, <1>4, <2>2 DEF SubInv, GoneInv
    <3> QED BY Zenon, <1>4, <3>1 DEF SecretFits
  <2> QED BY Zenon, <2>1, <2>2
<1> QED BY Zenon, <1>2, <1>3, <1>4 DEF SecretKept, OrphansExplained, GoneInv

\* Types, keys and tokens fit after a step of one call.
LEMMA CallStep ==
    ASSUME SubInv, FileStep, NEW c \in Calls, NEW f \in Frame, Moves(c, f), KeyFits(f)', TokenFits(f)'
    PROVE  TypeOK' /\ KeyInv' /\ TokenInv'
<1>1. call'[c] = f /\ \A d \in Calls \ {c} : call'[d] = call[d]
  BY Zenon DEF Moves, SubInv, TypeOK
<1>2. TypeOK'
  BY Zenon DEF Moves, FileStep, SubInv, TypeOK
<1>3. ASSUME NEW d \in Calls
      PROVE  KeyFits(call[d])' /\ TokenFits(call[d])'
  <2>1. CASE d = c
    BY Zenon, <1>1, <2>1 DEF KeyFits, Keyed, TokenFits
  <2>2. CASE d # c
    <3>1. call'[d] = call[d] /\ KeyFits(call[d]) /\ TokenFits(call[d])
      BY Zenon, <1>1, <2>2 DEF SubInv, KeyInv, TokenInv
    <3>2. PICK g \in Frame : g = call[d]
      BY Zenon DEF SubInv, TypeOK
    <3>3. KeyFits(g)'
      <4>1. KeyFits(g)
        BY Zenon, <3>1, <3>2
      <4> QED BY Zenon, <4>1 DEF KeyFits, Keyed, FileStep
    <3>4. TokenFits(g)'
      <4>1. TokenFits(g) /\ published' = published
        BY Zenon, <3>1, <3>2 DEF Moves
      <4>2. /\ begun \in Nat /\ begun' \in Nat /\ begun <= begun' /\ g.id \in Ids
            /\ g.token \in Nat /\ g.version \in Nat
        BY BoundAssumption, Basics DEF FileStep, Frame, Tokens, Versions
      <4>3. \/ file'.token[g.id] = file.token[g.id] /\ file'.version[g.id] = file.version[g.id]
            \/ file'.token[g.id] = 0
            \/ file'.token[g.id] > begun
        BY Zenon, <4>2 DEF FileStep
      <4>4. file'.token[g.id] \in Nat
        BY <4>2, BoundAssumption, Rows DEF FileStep, Tokens
      <4> QED BY <4>1, <4>2, <4>3, <4>4 DEF TokenFits
    <3>5. call'[d] = g
      BY Zenon, <3>1, <3>2
    <3>6. KeyFits(call[d])'
      BY Zenon, <3>3, <3>5 DEF KeyFits, Keyed
    <3>7. TokenFits(call[d])'
      BY Zenon, <3>4, <3>5 DEF TokenFits
    <3> QED BY Zenon, <3>6, <3>7
  <2> QED BY Zenon, <2>1, <2>2
<1>4. KeyInv'
  BY Zenon, <1>3 DEF KeyInv, Moves, FileStep
<1>5. TokenInv'
  BY Zenon, <1>3 DEF TokenInv, FileStep
<1> QED BY Zenon, <1>2, <1>4, <1>5

\* The invariant after a step of one call.
LEMMA WholeStep ==
    ASSUME SubInv, FileStep, NEW c \in Calls, NEW f \in Frame, Moves(c, f), KeyFits(f)', TokenFits(f)',
           OwnFits(c, f), SecretFits(c, f)
    PROVE  SubInv'
BY Zenon, CallStep, OwnStep, SecretStep DEF SubInv

\* A step that neither adds nor removes leaves secrets and identifiers alone.
LEMMA SideStep ==
    ASSUME SubInv, FileStep, NEW c \in Calls, NEW f \in Frame, call' = [call EXCEPT ![c] = f],
           UNCHANGED <<secrets, published, issued, lost, loose>>, file'.subs = file.subs,
           cache' \in [Procs -> SUBSET EndpointId], CacheKeyed', KeyFits(f)', TokenFits(f)',
           ~Named(f), ~Holds(call[c]), ~Adding(call[c])
    PROVE  SubInv'
<1>1. Moves(c, f)
  BY Zenon DEF Moves, SubInv, TypeOK
<1>2. ~Fresh(f) /\ f.pc \notin {"addCommit", "addUndo", "rmDelete", "rmCommit"}
  BY Zenon DEF Named, Fresh, AddSteps, RemoveSteps
<1>3. OwnFits(c, f)
  BY Zenon, <1>2 DEF OwnFits, SubInv, AddInv
<1>4. SecretFits(c, f)
  BY Zenon, <1>2 DEF SecretFits
<1> QED BY Zenon, <1>1, <1>3, <1>4, WholeStep

\* A call that returns has no locals.
LEMMA IdleFits ==
    /\ Idle \in Frame /\ ~Named(Idle) /\ KeyFits(Idle)' /\ TokenFits(Idle)'
    /\ Idle.pc = "idle" /\ Idle.todo = {} /\ Idle.token = 0 /\ Idle.version = 1 /\ Idle.seen = {}
<1>1. (CHOOSE i \in Ids : TRUE) \in Ids
  BY Zenon, CallAssumption
<1>2. 0 \in Tokens /\ 1 \in Versions
  BY BoundAssumption DEF Tokens, Versions
<1>3. PICK j \in Ids : j = CHOOSE i \in Ids : TRUE
  BY Zenon, <1>1
<1>4. Idle = [pc |-> "idle", id |-> j, todo |-> {}, token |-> 0, version |-> 1, had |-> FALSE, seen |-> {}]
  BY Zenon, <1>3 DEF Idle
<1>5. Idle \in Frame /\ Idle.pc = "idle" /\ Idle.todo = {} /\ Idle.token = 0 /\ Idle.version = 1 /\ Idle.seen = {}
  BY Zenon, <1>2, <1>4 DEF Frame
<1>6. KeyFits(Idle)' /\ TokenFits(Idle)' /\ ~Named(Idle)
  <2>1. PICK g : g = Idle
    OBVIOUS
  <2>2. g.pc = "idle"
    BY Zenon, <1>5, <2>1
  <2>3. KeyFits(g)' /\ TokenFits(g)' /\ ~Named(g)
    BY Zenon, <2>2 DEF KeyFits, TokenFits, Named, AddSteps, RemoveSteps
  <2> QED BY Zenon, <2>1, <2>3
<1> QED BY Zenon, <1>5, <1>6

\* A call in the state of a frame.
LEMMA FrameIs ==
    ASSUME SubInv, NEW c \in Calls
    PROVE  /\ call \in [Calls -> Frame] /\ call[c] \in Frame /\ call[c].id \in Ids /\ ProcOf[c] \in Procs
           /\ cache \in [Procs -> SUBSET EndpointId] /\ CacheKeyed
           /\ KeyFits(call[c]) /\ TokenFits(call[c]) /\ AddFits(c) /\ file \in Snapshot
BY Zenon, CallAssumption DEF SubInv, TypeOK, KeyInv, TokenInv, AddInv, Frame

\* A step that neither adds nor removes and returns.
LEMMA SideReturn ==
    ASSUME SubInv, FileStep, NEW c \in Calls, Return(c),
           UNCHANGED <<secrets, published, issued, lost, loose>>, file'.subs = file.subs,
           cache' = cache, ~Holds(call[c]), ~Adding(call[c])
    PROVE  SubInv'
<1>1. cache' \in [Procs -> SUBSET EndpointId] /\ CacheKeyed'
  BY Zenon, FrameIs, CacheShrinks
<1> QED BY Zenon, <1>1, IdleFits, SideStep DEF Return

\* Endpoints that are read from the file are endpoints, and keyed once it has a key.
LEMMA EndpointsAre ==
    ASSUME SubInv, NEW S \in SUBSET Ids
    PROVE  /\ EndpointsOf(file, S) \in SUBSET EndpointId
           /\ file.key # NoKey \/ EndpointsOf(file, S) = {} => Keyed(EndpointsOf(file, S))
<1>1. ASSUME NEW e \in EndpointsOf(file, S)
      PROVE  e \in EndpointId /\ e.key = file.key
  <2>1. PICK i \in S : /\ file.version[i] # 0
                       /\ e = [sub |-> i, key |-> file.keyedBy[i], version |-> file.version[i]]
    BY Zenon, <1>1 DEF EndpointsOf
  <2>2. i \in file.subs /\ file.version[i] \in Versions /\ file.keyedBy[i] \in Keys
    BY <2>1, Basics, Rows DEF EndpointsOwned
  <2>3. file.keyedBy[i] = file.key
    BY Zenon, <2>2, Basics DEF KeyedEndpoints
  <2> QED BY Zenon, <2>1, <2>2, <2>3 DEF EndpointId
<1> QED BY Zenon, <1>1 DEF Keyed

\* A call gives up where there is nothing to undo.
LEMMA GiveUpKeeps ==
    ASSUME SubInv, NEW c \in Calls, GiveUp(c)
    PROVE  FileStep /\ SubInv'
<1>1. FileStep
  BY Zenon, FileSame DEF GiveUp
<1>2. ~Holds(call[c]) /\ ~Adding(call[c])
  BY Zenon DEF GiveUp, Holds, Adding
<1> QED BY Zenon, <1>1, <1>2, SideReturn DEF GiveUp

----------------------------------------------------------------------------
(* Refreshes.                                                                 *)

\* A refresh that goes on to the next subscription, or returns.
LEMMA ContinueFits ==
    ASSUME NEW S \in SUBSET Ids, NEW f,
           f = IF S = {} THEN Idle ELSE [Idle EXCEPT !.pc = "begin", !.todo = S]
    PROVE  f \in Frame /\ ~Named(f) /\ KeyFits(f)' /\ TokenFits(f)'
<1>1. CASE S = {}
  BY Zenon, <1>1, IdleFits
<1>2. CASE S # {}
  <2>1. f = [Idle EXCEPT !.pc = "begin", !.todo = S]
    BY Zenon, <1>2
  <2>2. f \in Frame /\ f.pc = "begin"
    BY Zenon, <2>1, IdleFits DEF Frame, RefreshSteps
  <2> QED BY Zenon, <2>2 DEF KeyFits, TokenFits, Named, AddSteps, RemoveSteps
<1> QED BY Zenon, <1>1, <1>2

\* A refresh is called.
LEMMA RefreshCallKeeps ==
    ASSUME SubInv, NEW c \in Calls, NEW S \in SUBSET Ids, RefreshCall(c, S)
    PROVE  FileStep /\ SubInv'
<1>1. FileStep
  BY Zenon, FileSame DEF RefreshCall
<1>2. PICK f : f = IF S = {} THEN Idle ELSE [Idle EXCEPT !.pc = "begin", !.todo = S]
  OBVIOUS
<1>3. f \in Frame /\ ~Named(f) /\ KeyFits(f)' /\ TokenFits(f)'
  BY Zenon, <1>2, ContinueFits
<1>4. call' = [call EXCEPT ![c] = f] /\ ~Holds(call[c]) /\ ~Adding(call[c])
  BY Zenon, <1>2 DEF RefreshCall, At, Holds, Adding
<1>5. cache' \in [Procs -> SUBSET EndpointId] /\ CacheKeyed'
  BY Zenon, <1>1, FrameIs, CacheShrinks DEF RefreshCall
<1> QED BY Zenon, <1>1, <1>3, <1>4, <1>5, SideStep DEF RefreshCall

\* A refresh begins: the token of the call is the newest.
LEMMA RefreshBeginKeeps ==
    ASSUME SubInv, NEW c \in Calls, NEW i \in Ids, RefreshBegin(c, i)
    PROVE  FileStep /\ SubInv'
<1>1. /\ i \in file.subs /\ begun + 1 <= MaxBegins
      /\ file' = [file EXCEPT !.token[i] = begun + 1] /\ begun' = begun + 1 /\ published' = published
  BY Zenon DEF RefreshBegin
<1>2. FileStep /\ file'.subs = file.subs
  BY Zenon, <1>1, BegunIs
<1>3. begun \in Nat /\ MaxBegins \in Nat /\ begun + 1 \in Tokens
  BY <1>1, Basics DEF Tokens
<1>4. PICK s \in SUBSET EndpointId : s = EndpointsOf(file, {i})
  BY Zenon, EndpointsAre
<1>5. PICK g \in Frame : g = call[c]
  BY Zenon, FrameIs
<1>6. PICK f : f = [pc |-> "get", id |-> i, todo |-> g.todo \ {i}, token |-> begun + 1,
                    version |-> g.version, had |-> g.had, seen |-> s]
  OBVIOUS
<1>7. call' = [call EXCEPT ![c] = f]
  <2>1. call' = [call EXCEPT ![c].pc = "get", ![c].id = i, ![c].todo = @ \ {i},
                             ![c].token = begun + 1, ![c].seen = s]
    BY Zenon, <1>4 DEF RefreshBegin
  <2>2. PICK one : one = [call EXCEPT ![c].pc = "get", ![c].id = i]
    OBVIOUS
  <2>3. PICK two : two = [one EXCEPT ![c].todo = @ \ {i}, ![c].token = begun + 1]
    OBVIOUS
  <2>4. call' = [two EXCEPT ![c].seen = s]
    BY ZenonT(60), <2>1, <2>2, <2>3
  <2>5. /\ one = [call EXCEPT ![c] = [g EXCEPT !.pc = "get", !.id = i]]
        /\ [g EXCEPT !.pc = "get", !.id = i] \in Frame
    <3>1. call \in [Calls -> Frame]
      BY Zenon, FrameIs
    <3> QED BY Zenon, <1>5, <2>2, <3>1 DEF Frame, RefreshSteps
  <2>6. one \in [Calls -> Frame] /\ one[c] = [g EXCEPT !.pc = "get", !.id = i]
    BY Zenon, <2>5, FrameIs
  <2>7. PICK h \in Frame : h = one[c]
    BY Zenon, <2>6
  <2>8. /\ two = [one EXCEPT ![c] = [h EXCEPT !.todo = @ \ {i}, !.token = begun + 1]]
        /\ [h EXCEPT !.todo = @ \ {i}, !.token = begun + 1] \in Frame
    BY Zenon, <1>3, <2>3, <2>6, <2>7 DEF Frame
  <2>9. two \in [Calls -> Frame] /\ two[c] = [h EXCEPT !.todo = @ \ {i}, !.token = begun + 1]
    BY Zenon, <2>6, <2>8
  <2>10. call' = [two EXCEPT ![c] = [two[c] EXCEPT !.seen = s]]
    BY Zenon, <2>4, <2>9
  <2>11. h = [pc |-> "get", id |-> i, todo |-> g.todo, token |-> g.token,
              version |-> g.version, had |-> g.had, seen |-> g.seen]
    BY Zenon, <2>6, <2>7 DEF Frame
  <2>12. two[c] = [pc |-> "get", id |-> i, todo |-> g.todo \ {i}, token |-> begun + 1,
                   version |-> g.version, had |-> g.had, seen |-> g.seen]
    BY Zenon, <2>9, <2>11
  <2>13. [two[c] EXCEPT !.seen = s] = f
    BY <1>6, <2>12
  <2> QED BY Zenon, <2>5, <2>6, <2>8, <2>9, <2>10, <2>13, FrameIs
<1>8. f \in Frame /\ f.pc = "get" /\ f.token = begun'
  BY Zenon, <1>1, <1>3, <1>5, <1>6 DEF Frame, RefreshSteps
<1>9. ~Named(f) /\ KeyFits(f)' /\ TokenFits(f)'
  BY <1>1, <1>3, <1>8 DEF KeyFits, TokenFits, Named, AddSteps, RemoveSteps
<1>10. ~Holds(call[c]) /\ ~Adding(call[c])
  BY Zenon DEF RefreshBegin, At, Holds, Adding
<1>11. cache' \in [Procs -> SUBSET EndpointId] /\ CacheKeyed'
  BY Zenon, <1>2, FrameIs, CacheShrinks DEF RefreshBegin
<1> QED BY Zenon, <1>2, <1>7, <1>8, <1>9, <1>10, <1>11, SideStep DEF RefreshBegin

\* A refresh whose beginning was written and not acknowledged.
LEMMA RefreshBeginFailsKeeps ==
    ASSUME SubInv, NEW c \in Calls, NEW i \in Ids, RefreshBeginFails(c, i)
    PROVE  FileStep /\ SubInv'
<1>1. /\ i \in file.subs /\ begun + 1 <= MaxBegins
      /\ file' = [file EXCEPT !.token[i] = begun + 1] /\ begun' = begun + 1 /\ published' = published
  BY Zenon DEF RefreshBeginFails
<1>2. FileStep /\ file'.subs = file.subs
  BY <1>1, BegunIs
<1>3. ~Holds(call[c]) /\ ~Adding(call[c])
  BY Zenon DEF RefreshBeginFails, At, Holds, Adding
<1> QED BY Zenon, <1>2, <1>3, SideReturn DEF RefreshBeginFails

\* The secret is read, or something fails before the document is there.
LEMMA RefreshGoesOn ==
    ASSUME SubInv, NEW c \in Calls, RefreshGet(c) \/ RefreshFails(c)
    PROVE  FileStep /\ SubInv'
<1>1. UNCHANGED <<file, secrets, published, cache, issued, begun, lost, loose>>
  BY Zenon DEF RefreshGet, RefreshFails
<1>2. FileStep
  BY Zenon, <1>1, FileSame
<1>3. call[c].pc \in {"get", "fetch"}
  BY Zenon DEF RefreshGet, RefreshFails, At
<1>4. PICK pc \in {"fetch", "record"} : call' = [call EXCEPT ![c].pc = pc]
  BY Zenon DEF RefreshGet, RefreshFails, Goto
<1>5. PICK g \in Frame : g = call[c]
  BY Zenon, FrameIs
<1>6. PICK f : f = [g EXCEPT !.pc = pc]
  OBVIOUS
<1>7. f \in Frame /\ f.pc = pc /\ f.token = g.token
  BY Zenon, <1>6 DEF Frame, RefreshSteps
<1>8. call' = [call EXCEPT ![c] = f]
  BY Zenon, <1>4, <1>5, <1>6, FrameIs
<1>9. g.token \in 1..begun
  BY Zenon, <1>3, <1>5, FrameIs DEF TokenFits
<1>10. ~Named(f) /\ KeyFits(f)' /\ TokenFits(f)'
  BY Zenon, <1>1, <1>7, <1>9 DEF KeyFits, TokenFits, Named, AddSteps, RemoveSteps
<1>11. ~Holds(call[c]) /\ ~Adding(call[c])
  BY Zenon, <1>3 DEF Holds, Adding
<1>12. cache' \in [Procs -> SUBSET EndpointId] /\ CacheKeyed'
  BY Zenon, <1>1, <1>2, FrameIs, CacheShrinks
<1> QED BY Zenon, <1>1, <1>2, <1>7, <1>8, <1>10, <1>11, <1>12, SideStep

\* The document is fetched: it is what the provider serves now.
LEMMA RefreshFetchKeeps ==
    ASSUME SubInv, NEW c \in Calls, RefreshFetch(c)
    PROVE  FileStep /\ SubInv'
<1>1. UNCHANGED <<file, secrets, published, cache, issued, begun, lost, loose>>
  BY Zenon DEF RefreshFetch
<1>2. FileStep
  BY Zenon, <1>1, FileSame
<1>3. call[c].pc = "fetch"
  BY Zenon DEF RefreshFetch, At
<1>5. PICK g \in Frame : g = call[c]
  BY Zenon, FrameIs
<1>4. PICK v \in Versions : v = published[g.id]
  BY Zenon, <1>5 DEF SubInv, TypeOK, Frame
<1>6. PICK f : f = [g EXCEPT !.pc = "commit", !.version = v]
  OBVIOUS
<1>7. f \in Frame /\ f.pc = "commit" /\ f.token = g.token /\ f.id = g.id /\ f.version = v /\ g.id \in Ids
  BY Zenon, <1>6 DEF Frame, RefreshSteps
<1>8. call' = [call EXCEPT ![c] = f]
  <2>1. call' = [call EXCEPT ![c].pc = "commit", ![c].version = v]
    BY Zenon, <1>4, <1>5 DEF RefreshFetch
  <2> QED BY Zenon, <2>1, <1>5, <1>6, FrameIs DEF Frame
<1>9. g.token \in 1..begun
  BY Zenon, <1>3, <1>5, FrameIs DEF TokenFits
<1>10. v \in Nat /\ file.version[g.id] <= v
  BY Zenon, <1>4, <1>7, Basics DEF RowFits
<1>11. ~Named(f) /\ KeyFits(f)' /\ TokenFits(f)'
  <2>1. f.version <= published'[f.id] /\ file'.version[f.id] <= f.version /\ f.token \in 1..begun'
    BY <1>1, <1>4, <1>7, <1>9, <1>10
  <2> QED BY Zenon, <1>7, <2>1 DEF KeyFits, TokenFits, Named, AddSteps, RemoveSteps
<1>12. ~Holds(call[c]) /\ ~Adding(call[c])
  BY Zenon, <1>3 DEF Holds, Adding
<1>13. cache' \in [Procs -> SUBSET EndpointId] /\ CacheKeyed'
  BY Zenon, <1>1, <1>2, FrameIs, CacheShrinks
<1> QED BY Zenon, <1>1, <1>2, <1>7, <1>8, <1>11, <1>12, <1>13, SideStep

\* A superseded refresh returns and changes nothing.
LEMMA RefreshStaleKeeps ==
    ASSUME SubInv, NEW c \in Calls, RefreshStale(c)
    PROVE  FileStep /\ SubInv'
<1>1. FileStep
  BY Zenon, FileSame DEF RefreshStale
<1>2. ~Holds(call[c]) /\ ~Adding(call[c])
  BY Zenon DEF RefreshStale, Holds, Adding
<1> QED BY Zenon, <1>1, <1>2, SideReturn DEF RefreshStale

\* What a refresh writes that is not superseded: its document is not older than
\* the endpoints it replaces.
LEMMA CommitFile ==
    ASSUME SubInv, NEW c \in Calls, At(c, "commit"), ~Superseded(c), begun' = begun,
           published' = published,
           file' = Refreshed(file, call[c].id, call[c].token, call[c].version, Candidate(c))
    PROVE  FileStep /\ file'.subs = file.subs
<1>1. PICK g \in Frame : g = call[c]
  BY Zenon, FrameIs
<1>2. /\ g.pc = "commit" /\ g.id \in file.subs /\ file.token[g.id] = g.token
      /\ g.version \in Versions
  BY Zenon, <1>1 DEF At, Superseded, Frame
<1>3. TokenFits(g)
  BY Zenon, <1>1, FrameIs
<1>4. g.token \in 1..begun /\ g.version <= published[g.id] /\ file.version[g.id] <= g.version
  BY Zenon, <1>2, <1>3 DEF TokenFits
<1>5. PICK k \in Procs : k = Candidate(c)
  BY Zenon, FrameIs DEF Candidate
<1>6. file' = Refreshed(file, g.id, g.token, g.version, k)
  BY Zenon, <1>1, <1>5
<1> QED BY Zenon, <1>2, <1>4, <1>6, RefreshedIs

\* What a failed refresh writes that is not superseded.
LEMMA RecordFile ==
    ASSUME SubInv, NEW c \in Calls, At(c, "record"), ~Superseded(c), begun' = begun,
           published' = published, file' = Failed(file, call[c].id, call[c].token)
    PROVE  FileStep /\ file'.subs = file.subs
<1>1. PICK g \in Frame : g = call[c]
  BY Zenon, FrameIs
<1>2. g.pc = "record" /\ g.id \in file.subs /\ file.token[g.id] = g.token
  BY Zenon, <1>1 DEF At, Superseded
<1>3. TokenFits(g)
  BY Zenon, <1>1, FrameIs
<1>4. g.token \in 1..begun
  BY Zenon, <1>2, <1>3 DEF TokenFits
<1>5. file' = Failed(file, g.id, g.token)
  BY Zenon, <1>1
<1> QED BY Zenon, <1>2, <1>4, <1>5, FailedIs

\* A refresh is over and the call goes on to the next.
LEMMA ContinueKeeps ==
    ASSUME SubInv, FileStep, NEW c \in Calls, Continue(c), file'.subs = file.subs,
           UNCHANGED <<secrets, published, issued, lost, loose>>,
           cache' \in [Procs -> SUBSET EndpointId], \A p \in Procs : cache'[p] \subseteq cache[p],
           call[c].pc \in {"commit", "record"}
    PROVE  SubInv'
<1>1. PICK S \in SUBSET Ids : S = call[c].todo
  BY Zenon, FrameIs DEF Frame
<1>2. PICK f : f = IF S = {} THEN Idle ELSE [Idle EXCEPT !.pc = "begin", !.todo = S]
  OBVIOUS
<1>3. f \in Frame /\ ~Named(f) /\ KeyFits(f)' /\ TokenFits(f)'
  BY Zenon, <1>2, ContinueFits
<1>4. call' = [call EXCEPT ![c] = f]
  BY Zenon, <1>1, <1>2 DEF Continue
<1>5. CacheKeyed'
  BY Zenon, CacheShrinks
<1>6. ~Holds(call[c]) /\ ~Adding(call[c])
  BY Zenon DEF Holds, Adding
<1> QED BY Zenon, <1>3, <1>4, <1>5, <1>6, SideStep

\* A refresh writes its endpoints and forgets the latencies of the old ones.
LEMMA RefreshCommitKeeps ==
    ASSUME SubInv, NEW c \in Calls, RefreshCommit(c)
    PROVE  FileStep /\ SubInv'
<1>1. FileStep /\ file'.subs = file.subs
  BY Zenon, CommitFile DEF RefreshCommit
<1>2. cache' \in [Procs -> SUBSET EndpointId] /\ \A p \in Procs : cache'[p] \subseteq cache[p]
  <2>1. cache \in [Procs -> SUBSET EndpointId] /\ cache' = [cache EXCEPT ![ProcOf[c]] = @ \ call[c].seen]
    BY Zenon, FrameIs DEF RefreshCommit, ClearLatencies
  <2> QED BY Zenon, <2>1
<1>3. call[c].pc \in {"commit", "record"} /\ Continue(c)
  BY Zenon DEF RefreshCommit, At
<1> QED BY Zenon, <1>1, <1>2, <1>3, ContinueKeeps DEF RefreshCommit

\* A refresh whose write failed or was not acknowledged.
LEMMA RefreshCommitFailsKeeps ==
    ASSUME SubInv, NEW c \in Calls, RefreshCommitFails(c)
    PROVE  FileStep /\ SubInv'
<1>1. FileStep /\ file'.subs = file.subs
  <2>1. CASE file' = file
    BY Zenon, <2>1, FileSame DEF RefreshCommitFails
  <2>2. CASE file' = Refreshed(file, call[c].id, call[c].token, call[c].version, Candidate(c))
    BY Zenon, <2>2, CommitFile DEF RefreshCommitFails
  <2> QED BY Zenon, <2>1, <2>2 DEF RefreshCommitFails, UpdateFails
<1>2. ~Holds(call[c]) /\ ~Adding(call[c])
  BY Zenon DEF RefreshCommitFails, At, Holds, Adding
<1> QED BY Zenon, <1>1, <1>2, SideReturn DEF RefreshCommitFails

\* A failure is recorded.
LEMMA RefreshRecordKeeps ==
    ASSUME SubInv, NEW c \in Calls, RefreshRecord(c)
    PROVE  FileStep /\ SubInv'
<1>1. FileStep /\ file'.subs = file.subs
  BY Zenon, RecordFile DEF RefreshRecord
<1>2. cache' \in [Procs -> SUBSET EndpointId] /\ \A p \in Procs : cache'[p] \subseteq cache[p]
  BY Zenon, FrameIs DEF RefreshRecord
<1>3. call[c].pc \in {"commit", "record"} /\ Continue(c)
  BY Zenon DEF RefreshRecord, At
<1> QED BY Zenon, <1>1, <1>2, <1>3, ContinueKeeps DEF RefreshRecord

\* A failure could not be recorded, or so it seems.
LEMMA RefreshRecordFailsKeeps ==
    ASSUME SubInv, NEW c \in Calls, RefreshRecordFails(c)
    PROVE  FileStep /\ SubInv'
<1>1. FileStep /\ file'.subs = file.subs
  <2>1. CASE file' = file
    BY Zenon, <2>1, FileSame DEF RefreshRecordFails
  <2>2. CASE file' = Failed(file, call[c].id, call[c].token)
    BY Zenon, <2>2, RecordFile DEF RefreshRecordFails
  <2> QED BY Zenon, <2>1, <2>2 DEF RefreshRecordFails, UpdateFails
<1>2. ~Holds(call[c]) /\ ~Adding(call[c])
  BY Zenon DEF RefreshRecordFails, At, Holds, Adding
<1> QED BY Zenon, <1>1, <1>2, SideReturn DEF RefreshRecordFails

\* Every step of a refresh.
LEMMA RefreshKeeps ==
    ASSUME SubInv, NEW c \in Calls, RefreshStep(c)
    PROVE  FileStep /\ SubInv'
BY Zenon, RefreshCallKeeps, RefreshBeginKeeps, RefreshBeginFailsKeeps, RefreshGoesOn, RefreshFetchKeeps,
   RefreshStaleKeeps, RefreshCommitKeeps, RefreshCommitFailsKeeps, RefreshRecordKeeps,
   RefreshRecordFailsKeeps, Zenon DEF RefreshStep

----------------------------------------------------------------------------
(* The latency check.                                                         *)

\* The check reads keyed endpoints, or goes to key them first.
LEMMA CheckCallKeeps ==
    ASSUME SubInv, NEW c \in Calls, CheckCall(c)
    PROVE  FileStep /\ SubInv'
<1>1. FileStep
  BY Zenon, FileSame DEF CheckCall
<1>2. PICK s \in SUBSET EndpointId : s = EndpointsOf(file, Ids)
  BY Zenon, EndpointsAre
<1>3. PICK f : f = IF s = {} \/ file.key # NoKey THEN [Idle EXCEPT !.pc = "ckProbe", !.seen = s]
                   ELSE [Idle EXCEPT !.pc = "ckMigrate"]
  OBVIOUS
<1>4. call' = [call EXCEPT ![c] = f] /\ ~Holds(call[c]) /\ ~Adding(call[c])
  BY Zenon, <1>2, <1>3 DEF CheckCall, At, Holds, Adding
<1>5. f \in Frame /\ f.pc \in {"ckProbe", "ckMigrate"} /\ (f.pc = "ckProbe" => Keyed(f.seen))
  <2>1. CASE s = {} \/ file.key # NoKey
    <3>1. f = [Idle EXCEPT !.pc = "ckProbe", !.seen = s]
      BY Zenon, <1>3, <2>1
    <3>2. Keyed(s)
      BY Zenon, <1>2, <2>1, EndpointsAre
    <3>3. f \in Frame /\ f.pc = "ckProbe" /\ f.seen = s
      BY Zenon, <3>1, IdleFits DEF Frame, CheckSteps
    <3> QED BY Zenon, <3>2, <3>3
  <2>2. CASE ~(s = {} \/ file.key # NoKey)
    <3>1. f = [Idle EXCEPT !.pc = "ckMigrate"]
      BY Zenon, <1>3, <2>2
    <3> QED BY Zenon, <3>1, IdleFits DEF Frame, CheckSteps
  <2> QED BY Zenon, <2>1, <2>2
<1>6. ~Named(f) /\ KeyFits(f)' /\ TokenFits(f)'
  <2>1. file' = file
    BY Zenon DEF CheckCall
  <2> QED BY Zenon, <1>5, <2>1 DEF KeyFits, Keyed, TokenFits, Named, AddSteps, RemoveSteps
<1>7. cache' \in [Procs -> SUBSET EndpointId] /\ CacheKeyed'
  BY Zenon, <1>1, FrameIs, CacheShrinks DEF CheckCall
<1> QED BY Zenon, <1>1, <1>4, <1>5, <1>6, <1>7, SideStep DEF CheckCall

\* The endpoints are keyed, with the key of this process or of one that was first.
LEMMA CheckMigrateKeeps ==
    ASSUME SubInv, NEW c \in Calls, CheckMigrate(c)
    PROVE  FileStep /\ SubInv'
<1>1. FileStep /\ file'.subs = file.subs /\ file'.key # NoKey
  <2>1. PICK k \in Procs : k = Candidate(c)
    BY Zenon, FrameIs DEF Candidate
  <2> QED BY Zenon, <2>1, MigratedIs DEF CheckMigrate
<1>2. PICK g \in Frame : g = call[c]
  BY FrameIs
<1>3. PICK f : f = [g EXCEPT !.pc = "ckReload"]
  OBVIOUS
<1>4. f \in Frame /\ f.pc = "ckReload"
  BY Zenon, <1>3 DEF Frame, CheckSteps
<1>5. call' = [call EXCEPT ![c] = f] /\ ~Holds(call[c]) /\ ~Adding(call[c])
  BY Zenon, <1>2, <1>3, FrameIs DEF CheckMigrate, Goto, At, Holds, Adding
<1>6. ~Named(f) /\ KeyFits(f)' /\ TokenFits(f)'
  BY Zenon, <1>1, <1>4 DEF KeyFits, TokenFits, Named, AddSteps, RemoveSteps
<1>7. cache' \in [Procs -> SUBSET EndpointId] /\ CacheKeyed'
  <2>1. cache \in [Procs -> SUBSET EndpointId] /\ cache' = [cache EXCEPT ![ProcOf[c]] = {}]
    BY Zenon, FrameIs DEF CheckMigrate
  <2>2. {} \in SUBSET EndpointId
    OBVIOUS
  <2>3. cache' \in [Procs -> SUBSET EndpointId] /\ \A p \in Procs : cache'[p] \subseteq cache[p]
    BY Zenon, <2>1, <2>2
  <2> QED BY Zenon, <1>1, <2>3, CacheShrinks
<1> QED BY Zenon, <1>1, <1>4, <1>5, <1>6, <1>7, SideStep DEF CheckMigrate

\* The migration took effect and its call returns an error.
LEMMA CheckMigrateFailsKeeps ==
    ASSUME SubInv, NEW c \in Calls, CheckMigrateFails(c)
    PROVE  FileStep /\ SubInv'
<1>1. FileStep /\ file'.subs = file.subs
  <2>1. PICK k \in Procs : k = Candidate(c)
    BY FrameIs DEF Candidate
  <2> QED BY Zenon, <2>1, MigratedIs DEF CheckMigrateFails
<1>2. ~Holds(call[c]) /\ ~Adding(call[c])
  BY Zenon DEF CheckMigrateFails, At, Holds, Adding
<1> QED BY Zenon, <1>1, <1>2, SideReturn DEF CheckMigrateFails

\* After the migration the endpoints are read again.
LEMMA CheckReloadKeeps ==
    ASSUME SubInv, NEW c \in Calls, CheckReload(c)
    PROVE  FileStep /\ SubInv'
<1>1. FileStep
  BY Zenon, FileSame DEF CheckReload
<1>2. PICK g \in Frame : g = call[c]
  BY FrameIs
<1>3. PICK s \in SUBSET EndpointId : s = EndpointsOf(file, Ids)
  BY Zenon, EndpointsAre
<1>4. Keyed(s)
  BY Zenon, <1>3, EndpointsAre, FrameIs DEF CheckReload, At, KeyFits
<1>5. PICK f : f = [g EXCEPT !.pc = "ckProbe", !.seen = s]
  OBVIOUS
<1>6. f \in Frame /\ f.pc = "ckProbe" /\ f.seen = s
  BY Zenon, <1>5 DEF Frame, CheckSteps
<1>7. call' = [call EXCEPT ![c] = f] /\ ~Holds(call[c]) /\ ~Adding(call[c])
  <2>1. call' = [call EXCEPT ![c].pc = "ckProbe", ![c].seen = s]
    BY Zenon, <1>3 DEF CheckReload
  <2>2. call' = [call EXCEPT ![c] = f]
    BY Zenon, <1>2, <1>5, <2>1, FrameIs DEF Frame
  <2> QED BY Zenon, <2>2 DEF CheckReload, At, Holds, Adding
<1>8. ~Named(f) /\ KeyFits(f)' /\ TokenFits(f)'
  <2>1. file' = file
    BY Zenon DEF CheckReload
  <2> QED BY Zenon, <1>4, <1>6, <2>1 DEF KeyFits, Keyed, TokenFits, Named, AddSteps, RemoveSteps
<1>9. cache' \in [Procs -> SUBSET EndpointId] /\ CacheKeyed'
  BY Zenon, <1>1, FrameIs, CacheShrinks DEF CheckReload
<1> QED BY Zenon, <1>1, <1>6, <1>7, <1>8, <1>9, SideStep DEF CheckReload

\* Results come under the identifiers the check has read, which are keyed.
LEMMA CheckProbeKeeps ==
    ASSUME SubInv, NEW c \in Calls, CheckProbe(c)
    PROVE  FileStep /\ SubInv'
<1>1. FileStep
  BY Zenon, FileSame DEF CheckProbe
<1>2. PICK S \in SUBSET call[c].seen : cache' = [cache EXCEPT ![ProcOf[c]] = @ \cup S]
  BY Zenon DEF CheckProbe
<1>3. /\ call[c].seen \subseteq EndpointId /\ Keyed(call[c].seen) /\ ProcOf[c] \in Procs
      /\ cache \in [Procs -> SUBSET EndpointId] /\ CacheKeyed /\ file' = file
  BY Zenon, FrameIs DEF CheckProbe, At, KeyFits, Frame
<1>4. cache' \in [Procs -> SUBSET EndpointId]
  BY Zenon, <1>2, <1>3
<1>5. CacheKeyed'
  BY Zenon, <1>2, <1>3 DEF CacheKeyed, Keyed
<1>6. ~Holds(call[c]) /\ ~Adding(call[c])
  BY Zenon DEF CheckProbe, At, Holds, Adding
<1>7. call' = [call EXCEPT ![c] = Idle]
  BY Zenon DEF CheckProbe, Return
<1> QED BY Zenon, <1>1, <1>4, <1>5, <1>6, <1>7, IdleFits, SideStep DEF CheckProbe

\* Every step of a latency check.
LEMMA CheckKeeps ==
    ASSUME SubInv, NEW c \in Calls, CheckStep(c)
    PROVE  FileStep /\ SubInv'
BY Zenon, CheckCallKeeps, CheckMigrateKeeps, CheckMigrateFailsKeeps, CheckReloadKeeps, CheckProbeKeeps,
   Zenon DEF CheckStep

----------------------------------------------------------------------------
(* Additions and removals.                                                    *)

\* Call c, which adds or removes a subscription, goes on as f with it or returns;
\* of other subscriptions it touches neither the row nor the secret.
GoesOn(c, f) ==
    /\ issued' = issued
    /\ Named(call[c])
    /\ f = Idle \/ (Named(f) /\ f.id = call[c].id)
    /\ Fresh(f) => Fresh(call[c]) /\ f.id \notin file'.subs
    /\ f.pc \in {"addSet", "addCommit"} => f.version <= published[f.id]
    /\ f.pc = "addCommit" => f.id \in secrets'
    /\ f.pc = "addUndo" => f.id \notin file'.subs
    /\ f.pc = "rmDelete" => f.had
    /\ \A i \in file'.subs \ file.subs : i = call[c].id /\ Fresh(call[c])
    /\ \A i \in secrets \ secrets' : i = call[c].id

\* An addition or a removal takes a step with its own subscription only.
LEMMA NamedStep ==
    ASSUME SubInv, FileStep, NEW c \in Calls, NEW f \in Frame, Moves(c, f), GoesOn(c, f), SecretFits(c, f)
    PROVE  SubInv'
<1>1. /\ call[c].id \in issued /\ file.subs \subseteq issued
      /\ \A d \in Calls \ {c} : /\ Fresh(call[d]) => call[d].id # call[c].id
                                /\ Fresh(call[c]) /\ Named(call[d]) => call[d].id # call[c].id
  BY Zenon DEF SubInv, AddInv, AddFits, GoesOn
<1>2. CASE f = Idle
  <2>1. /\ ~Named(f) /\ ~Fresh(f) /\ KeyFits(f)' /\ TokenFits(f)'
        /\ f.pc \notin {"addCommit", "addUndo", "rmDelete"}
    BY Zenon, <1>2, IdleFits DEF Fresh
  <2>2. OwnFits(c, f)
    BY Zenon, <1>1, <2>1 DEF OwnFits, GoesOn
  <2> QED BY Zenon, <2>1, <2>2, WholeStep
<1>3. CASE Named(f) /\ f.id = call[c].id
  <2>1. OwnFits(c, f)
    BY Zenon, <1>1, <1>3 DEF OwnFits, GoesOn
  <2>2. KeyFits(f)'
    BY Zenon, <1>3 DEF KeyFits, Named, AddSteps, RemoveSteps
  <2>3. TokenFits(f)'
    <3>1. f.pc \in {"addSet", "addCommit"} => f.version <= published'[f.id]
      BY Zenon DEF GoesOn, Moves
    <3>2. f.pc \notin {"get", "fetch", "commit", "record"}
      BY Zenon, <1>3 DEF Named, AddSteps, RemoveSteps
    <3> QED BY Zenon, <3>1, <3>2 DEF TokenFits
  <2> QED BY Zenon, <2>1, <2>2, <2>3, WholeStep
<1> QED BY Zenon, <1>2, <1>3 DEF GoesOn

\* Where a call goes that only moves on.
LEMMA GotoIs ==
    ASSUME SubInv, NEW c \in Calls, NEW pc \in AddSteps \cup RemoveSteps, Goto(c, pc)
    PROVE  \E f \in Frame : /\ call' = [call EXCEPT ![c] = f] /\ f.pc = pc /\ f.id = call[c].id
                            /\ f.had = call[c].had /\ f.version = call[c].version
<1>1. PICK g \in Frame : g = call[c]
  BY Zenon, FrameIs
<1>2. PICK f : f = [g EXCEPT !.pc = pc]
  OBVIOUS
<1>3. f \in Frame /\ f.pc = pc /\ f.id = g.id /\ f.had = g.had /\ f.version = g.version
  BY Zenon, <1>2 DEF Frame
<1>4. call' = [call EXCEPT ![c] = f]
  BY Zenon, <1>1, <1>2, FrameIs DEF Goto
<1> QED BY Zenon, <1>1, <1>3, <1>4

\* The stores of a step keep their types when it names the subscriptions of calls.
LEMMA MovesIs ==
    ASSUME SubInv, FileStep, NEW c \in Calls, NEW f, call' = [call EXCEPT ![c] = f],
           published' = published, cache' = cache \/ ClearLatencies(c),
           secrets' \subseteq secrets \cup {call[c].id}, issued' = issued,
           lost' \subseteq lost \cup secrets \cup {call[c].id},
           loose' \subseteq loose \cup secrets \cup {call[c].id}
    PROVE  Moves(c, f)
<1>1. cache' \in [Procs -> SUBSET EndpointId] /\ CacheKeyed' /\ call[c].id \in Ids
  <2>1. cache \in [Procs -> SUBSET EndpointId] /\ call[c].id \in Ids
    BY Zenon, FrameIs
  <2>2. cache' \in [Procs -> SUBSET EndpointId] /\ \A p \in Procs : cache'[p] \subseteq cache[p]
    BY Zenon, <2>1 DEF ClearLatencies
  <2> QED BY Zenon, <2>1, <2>2, CacheShrinks
<1> QED BY Zenon, <1>1 DEF Moves, SubInv, TypeOK

\* A new subscription gets an identifier that nobody has.
LEMMA AddCallKeeps ==
    ASSUME SubInv, NEW c \in Calls, NEW i \in Ids, AddCall(c, i)
    PROVE  FileStep /\ SubInv'
<1>1. FileStep
  BY Zenon, FileSame DEF AddCall
<1>2. PICK f : f = [Idle EXCEPT !.pc = "addFetch", !.id = i]
  OBVIOUS
<1>3. f \in Frame /\ f.pc = "addFetch" /\ f.id = i
  BY Zenon, <1>2, IdleFits DEF Frame, AddSteps
<1>4. Moves(c, f)
  <2>1. cache' \in [Procs -> SUBSET EndpointId] /\ CacheKeyed'
    BY Zenon, <1>1, FrameIs, CacheShrinks DEF AddCall
  <2> QED BY Zenon, <1>2, <2>1 DEF Moves, AddCall, SubInv, TypeOK
<1>5. KeyFits(f)' /\ TokenFits(f)'
  BY Zenon, <1>3 DEF KeyFits, TokenFits
<1>6. OwnFits(c, f)
  <2>1. /\ i \notin issued /\ issued' = issued \cup {i} /\ file' = file /\ secrets' = secrets
        /\ file.subs \subseteq issued
    BY Zenon DEF AddCall, SubInv, AddInv
  <2>2. \A d \in Calls : Named(call[d]) => call[d].id \in issued
    BY Zenon DEF SubInv, AddInv, AddFits
  <2>3. \A d \in Calls : Fresh(call[d]) => Named(call[d])
    BY Zenon DEF Fresh, Named, AddSteps
  <2> QED BY Zenon, <1>3, <2>1, <2>2, <2>3 DEF OwnFits
<1>7. SecretFits(c, f)
  <2>1. ~Holds(call[c]) /\ ~Adding(call[c])
    BY Zenon DEF AddCall, At, Holds, Adding
  <2> QED BY Zenon, <1>3, <2>1 DEF SecretFits, AddCall
<1> QED BY Zenon, <1>1, <1>3, <1>4, <1>5, <1>6, <1>7, WholeStep

\* The document of the new subscription is fetched.
LEMMA AddFetchKeeps ==
    ASSUME SubInv, NEW c \in Calls, AddFetch(c)
    PROVE  FileStep /\ SubInv'
<1>1. UNCHANGED <<file, secrets, published, cache, issued, begun, lost, loose>> /\ call[c].pc = "addFetch"
  BY Zenon DEF AddFetch, At
<1>2. FileStep
  BY Zenon, <1>1, FileSame
<1>3. PICK g \in Frame : g = call[c]
  BY FrameIs
<1>4. PICK v \in Versions : v = published[g.id]
  BY <1>3 DEF SubInv, TypeOK, Frame
<1>5. PICK f : f = [g EXCEPT !.pc = "addSet", !.version = v]
  OBVIOUS
<1>6. f \in Frame /\ f.pc = "addSet" /\ f.id = g.id /\ f.version = v
  BY Zenon, <1>5 DEF Frame, AddSteps
<1>7. call' = [call EXCEPT ![c] = f]
  <2>1. call' = [call EXCEPT ![c].pc = "addSet", ![c].version = v]
    BY Zenon, <1>3, <1>4 DEF AddFetch
  <2> QED BY Zenon, <2>1, <1>3, <1>5, FrameIs DEF Frame
<1>8. Moves(c, f)
  BY Zenon, <1>1, <1>2, <1>7, MovesIs
<1>9. GoesOn(c, f)
  <2>1. Fresh(call[c]) /\ Named(call[c]) /\ call[c].id \notin file.subs
    BY Zenon, <1>1, FrameIs DEF AddFits, Fresh, Named, AddSteps
  <2>2. v \in Nat
    BY BoundAssumption DEF Versions
  <2> QED BY <1>1, <1>3, <1>4, <1>6, <2>1, <2>2 DEF GoesOn, Named, AddSteps
<1>10. SecretFits(c, f)
  <2>1. ~Holds(call[c]) /\ ~Adding(call[c])
    BY Zenon, <1>1 DEF Holds, Adding
  <2> QED BY Zenon, <1>1, <1>6, <2>1 DEF SecretFits
<1> QED BY Zenon, <1>2, <1>6, <1>8, <1>9, <1>10, NamedStep

\* The locals of an addition.
LEMMA AddingIs ==
    ASSUME SubInv, NEW c \in Calls, call[c].pc \in AddSteps
    PROVE  /\ call[c].id \in Ids /\ Named(call[c]) /\ ~Holds(call[c])
           /\ call[c].pc \in {"addFetch", "addSet", "addCommit"}
                  => Fresh(call[c]) /\ call[c].id \notin file.subs
           /\ call[c].pc = "addCommit" => call[c].id \in secrets
           /\ call[c].pc = "addUndo" => call[c].id \notin file.subs
           /\ call[c].pc \in {"addSet", "addCommit"} => call[c].version <= published[call[c].id]
BY Zenon, FrameIs DEF AddFits, TokenFits, Named, Fresh, Holds, AddSteps

\* No removal has the identifier of an addition that has not reached the file.
LEMMA FreshAlone ==
    ASSUME SubInv, NEW c \in Calls, call[c].pc = "addSet", NEW d \in Calls, call[d].pc = "rmCommit"
    PROVE  call[d].id # call[c].id
<1>1. Fresh(call[c]) /\ Named(call[d]) /\ d # c
  BY Zenon DEF Fresh, Named, RemoveSteps
<1> QED BY Zenon, <1>1, FrameIs DEF AddFits

\* The secret of the new subscription is stored.
LEMMA AddSetKeeps ==
    ASSUME SubInv, NEW c \in Calls, AddSet(c)
    PROVE  FileStep /\ SubInv'
<1>1. /\ UNCHANGED <<file, published, cache, issued, begun, lost, loose>> /\ call[c].pc = "addSet"
      /\ secrets' = secrets \cup {call[c].id} /\ Goto(c, "addCommit")
  BY Zenon DEF AddSet, At
<1>2. FileStep
  BY Zenon, <1>1, FileSame
<1>3. /\ call[c].id \in Ids /\ Named(call[c]) /\ ~Holds(call[c]) /\ Fresh(call[c])
      /\ call[c].id \notin file.subs /\ call[c].version <= published[call[c].id]
  BY Zenon, <1>1, AddingIs DEF AddSteps
<1>4. PICK f \in Frame : /\ call' = [call EXCEPT ![c] = f] /\ f.pc = "addCommit" /\ f.id = call[c].id
                         /\ f.version = call[c].version
  BY <1>1, GotoIs DEF AddSteps
<1>5. Moves(c, f)
  BY Zenon, <1>1, <1>2, <1>4, MovesIs
<1>6. GoesOn(c, f)
  BY Zenon, <1>1, <1>3, <1>4 DEF GoesOn, Named, AddSteps
<1>7. SecretFits(c, f)
  <2>1. \A d \in Calls : call[d].pc = "rmCommit" => call[d].id # call[c].id
    BY Zenon, <1>1, <1>3, FreshAlone
  <2> QED BY Zenon, <1>1, <1>3, <1>4, <2>1 DEF SecretFits, Adding
<1> QED BY Zenon, <1>2, <1>5, <1>6, <1>7, NamedStep

\* A return of an addition or a removal.
LEMMA ReturnStep ==
    ASSUME SubInv, FileStep, NEW c \in Calls, Return(c), Named(call[c]),
           published' = published, cache' = cache \/ ClearLatencies(c), issued' = issued,
           \A i \in file'.subs \ file.subs : i = call[c].id /\ Fresh(call[c]),
           \A i \in secrets \ secrets' : i = call[c].id,
           secrets' \subseteq secrets \cup {call[c].id},
           lost' \subseteq lost \cup secrets \cup {call[c].id},
           loose' \subseteq loose \cup secrets \cup {call[c].id},
           SecretFits(c, Idle)
    PROVE  SubInv'
<1>1. Idle \in Frame /\ call' = [call EXCEPT ![c] = Idle]
  BY Zenon, IdleFits DEF Return
<1>2. Moves(c, Idle)
  BY Zenon, <1>1, MovesIs
<1>3. GoesOn(c, Idle)
  BY Zenon, IdleFits DEF GoesOn, Fresh
<1> QED BY Zenon, <1>1, <1>2, <1>3, NamedStep

\* The secret could not be stored, or so it seems: it may be left behind.
LEMMA AddSetFailsKeeps ==
    ASSUME SubInv, NEW c \in Calls, AddSetFails(c)
    PROVE  FileStep /\ SubInv'
<1>1. /\ UNCHANGED <<file, published, cache, issued, begun, lost>> /\ call[c].pc = "addSet"
      /\ secrets' \in {secrets, secrets \cup {call[c].id}} /\ loose' = loose \cup (secrets' \ secrets)
      /\ Return(c)
  BY Zenon DEF AddSetFails, At, SecretWriteFails
<1>2. FileStep
  BY Zenon, <1>1, FileSame
<1>3. Named(call[c]) /\ ~Holds(call[c]) /\ ~Adding(call[c])
  BY Zenon, <1>1, AddingIs DEF AddSteps, Adding
<1>4. SecretFits(c, Idle)
  BY Zenon, <1>1, <1>3, IdleFits DEF SecretFits
<1> QED BY Zenon, <1>1, <1>2, <1>3, <1>4, ReturnStep

\* What an addition writes.
LEMMA AddedFile ==
    ASSUME SubInv, NEW c \in Calls, call[c].pc = "addCommit", begun' = begun, published' = published,
           file' = Added(file, call[c].id, call[c].version, Candidate(c))
    PROVE  FileStep /\ file'.subs = file.subs \cup {call[c].id}
<1>1. PICK g \in Frame : g = call[c]
  BY Zenon, FrameIs
<1>2. g.id \in Ids /\ g.version \in Versions /\ g.id \notin file.subs /\ g.version <= published[g.id]
  BY Zenon, <1>1, AddingIs DEF Frame, AddSteps
<1>3. PICK k \in Procs : k = Candidate(c)
  BY Zenon, FrameIs DEF Candidate
<1>4. file' = Added(file, g.id, g.version, k)
  BY Zenon, <1>1, <1>3
<1> QED BY Zenon, <1>1, <1>2, <1>4, AddedIs

\* The subscription is in the file, and its secret is stored.
LEMMA AddCommitKeeps ==
    ASSUME SubInv, NEW c \in Calls, AddCommit(c)
    PROVE  FileStep /\ SubInv'
<1>1. /\ UNCHANGED <<secrets, published, cache, issued, begun, lost, loose>> /\ call[c].pc = "addCommit"
      /\ file' = Added(file, call[c].id, call[c].version, Candidate(c)) /\ Return(c)
  BY Zenon DEF AddCommit, At
<1>2. FileStep /\ file'.subs = file.subs \cup {call[c].id}
  BY Zenon, <1>1, AddedFile
<1>3. Named(call[c]) /\ ~Holds(call[c]) /\ Fresh(call[c]) /\ call[c].id \in secrets
  BY Zenon, <1>1, AddingIs DEF AddSteps
<1>4. SecretFits(c, Idle)
  BY Zenon, <1>1, <1>2, <1>3, IdleFits DEF SecretFits
<1> QED BY Zenon, <1>1, <1>2, <1>3, <1>4, ReturnStep

\* An error of the write, which may have taken effect.
LEMMA AddCommitFailsKeeps ==
    ASSUME SubInv, NEW c \in Calls, AddCommitFails(c)
    PROVE  FileStep /\ SubInv'
<1>1. /\ UNCHANGED <<secrets, published, cache, issued, begun, lost, loose>> /\ call[c].pc = "addCommit"
      /\ Goto(c, "addCheck")
      /\ file' = file \/ file' = Added(file, call[c].id, call[c].version, Candidate(c))
  BY Zenon DEF AddCommitFails, At, UpdateFails
<1>2. FileStep /\ file'.subs \in {file.subs, file.subs \cup {call[c].id}}
  BY Zenon, <1>1, AddedFile, FileSame
<1>3. Named(call[c]) /\ ~Holds(call[c]) /\ Fresh(call[c]) /\ call[c].id \in secrets
  BY Zenon, <1>1, AddingIs DEF AddSteps
<1>4. PICK f \in Frame : call' = [call EXCEPT ![c] = f] /\ f.pc = "addCheck" /\ f.id = call[c].id
  BY <1>1, GotoIs DEF AddSteps
<1>5. Moves(c, f)
  BY Zenon, <1>1, <1>2, <1>4, MovesIs
<1>6. GoesOn(c, f)
  BY Zenon, <1>1, <1>2, <1>3, <1>4 DEF GoesOn, Named, AddSteps, Fresh
<1>7. SecretFits(c, f)
  BY Zenon, <1>1, <1>2, <1>3, <1>4 DEF SecretFits, Adding
<1> QED BY Zenon, <1>2, <1>5, <1>6, <1>7, NamedStep

\* The file is read again: the secret is undone only without a subscription.
LEMMA AddCheckKeeps ==
    ASSUME SubInv, NEW c \in Calls, AddCheck(c)
    PROVE  FileStep /\ SubInv'
<1>1. UNCHANGED <<file, secrets, published, cache, issued, begun, lost, loose>> /\ call[c].pc = "addCheck"
  BY Zenon DEF AddCheck, At
<1>2. FileStep
  BY Zenon, <1>1, FileSame
<1>3. Named(call[c]) /\ ~Holds(call[c])
  BY Zenon, <1>1, AddingIs DEF AddSteps
<1>4. CASE call[c].id \in file.subs
  <2>1. SecretFits(c, Idle)
    BY Zenon, <1>1, <1>3, <1>4, IdleFits DEF SecretFits
  <2>2. Return(c)
    BY Zenon, <1>4 DEF AddCheck
  <2> QED BY Zenon, <1>1, <1>2, <1>3, <2>1, <2>2, ReturnStep
<1>5. CASE call[c].id \notin file.subs
  <2>1. PICK f \in Frame : call' = [call EXCEPT ![c] = f] /\ f.pc = "addUndo" /\ f.id = call[c].id
    BY <1>5, GotoIs DEF AddCheck, AddSteps
  <2>2. Moves(c, f)
    BY Zenon, <1>1, <1>2, <2>1, MovesIs
  <2>3. GoesOn(c, f)
    BY Zenon, <1>1, <1>3, <1>5, <2>1 DEF GoesOn, Named, AddSteps, Fresh
  <2>4. SecretFits(c, f)
    BY Zenon, <1>1, <1>3, <2>1 DEF SecretFits, Adding
  <2> QED BY <1>2, <2>2, <2>3, <2>4, NamedStep
<1> QED BY Zenon, <1>4, <1>5

\* The file cannot be read: the secret stays.
LEMMA AddCheckFailsKeeps ==
    ASSUME SubInv, NEW c \in Calls, AddCheckFails(c)
    PROVE  FileStep /\ SubInv'
<1>1. /\ UNCHANGED <<file, secrets, published, cache, issued, begun, lost>> /\ call[c].pc = "addCheck"
      /\ loose' = loose \cup ({call[c].id} \ file.subs) /\ Return(c)
  BY Zenon DEF AddCheckFails, At
<1>2. FileStep
  BY Zenon, <1>1, FileSame
<1>3. Named(call[c]) /\ ~Holds(call[c])
  BY Zenon, <1>1, AddingIs DEF AddSteps
<1>4. SecretFits(c, Idle)
  BY Zenon, <1>1, <1>3, IdleFits DEF SecretFits
<1> QED BY Zenon, <1>1, <1>2, <1>3, <1>4, ReturnStep

\* The secret is undone, or its deletion fails and it may stay.
LEMMA AddUndoKeeps ==
    ASSUME SubInv, NEW c \in Calls, AddUndo(c) \/ AddUndoFails(c)
    PROVE  FileStep /\ SubInv'
<1>1. /\ UNCHANGED <<file, published, cache, issued, begun, lost>> /\ call[c].pc = "addUndo" /\ Return(c)
      /\ secrets' \in {secrets, secrets \ {call[c].id}} /\ loose \subseteq loose'
      /\ loose' \subseteq loose \cup {call[c].id}
      /\ call[c].id \in secrets' => call[c].id \in loose'
  BY Zenon DEF AddUndo, AddUndoFails, At, SecretWriteFails
<1>2. FileStep
  BY Zenon, <1>1, FileSame
<1>3. Named(call[c]) /\ ~Holds(call[c]) /\ call[c].id \notin file.subs
  BY Zenon, <1>1, AddingIs DEF AddSteps
<1>4. SecretFits(c, Idle)
  BY Zenon, <1>1, <1>3, IdleFits DEF SecretFits
<1> QED BY Zenon, <1>1, <1>2, <1>3, <1>4, ReturnStep

\* Every step of an addition.
LEMMA AddKeeps ==
    ASSUME SubInv, NEW c \in Calls, AddStep(c)
    PROVE  FileStep /\ SubInv'
BY Zenon, AddCallKeeps, AddFetchKeeps, AddSetKeeps, AddSetFailsKeeps, AddCommitKeeps, AddCommitFailsKeeps,
   AddCheckKeeps, AddCheckFailsKeeps, AddUndoKeeps, Zenon DEF AddStep

\* A removal begins with a subscription of the file.
LEMMA RemoveCallKeeps ==
    ASSUME SubInv, NEW c \in Calls, NEW i \in Ids, RemoveCall(c, i)
    PROVE  FileStep /\ SubInv'
<1>1. /\ UNCHANGED <<file, secrets, published, cache, issued, begun, lost, loose>>
      /\ call[c].pc = "idle" /\ i \in file.subs
  BY Zenon DEF RemoveCall, At
<1>2. FileStep
  BY Zenon, <1>1, FileSame
<1>3. PICK s \in SUBSET EndpointId : s = EndpointsOf(file, {i})
  BY EndpointsAre
<1>4. PICK f : f = [Idle EXCEPT !.pc = "rmGet", !.id = i, !.seen = s]
  OBVIOUS
<1>5. f \in Frame /\ f.pc = "rmGet" /\ f.id = i
  BY Zenon, <1>4, IdleFits DEF Frame, RemoveSteps
<1>6. Moves(c, f)
  BY Zenon, <1>1, <1>2, <1>3, <1>4, MovesIs DEF RemoveCall
<1>7. KeyFits(f)' /\ TokenFits(f)'
  BY Zenon, <1>5 DEF KeyFits, TokenFits
<1>8. OwnFits(c, f)
  <2>1. file.subs \subseteq issued /\ \A d \in Calls : Fresh(call[d]) => call[d].id \notin file.subs
    BY Zenon DEF SubInv, AddInv, AddFits
  <2> QED BY Zenon, <1>1, <1>5, <2>1 DEF OwnFits, Fresh
<1>9. SecretFits(c, f)
  <2>1. ~Holds(call[c]) /\ ~Adding(call[c])
    BY Zenon, <1>1 DEF Holds, Adding
  <2> QED BY Zenon, <1>1, <1>5, <2>1 DEF SecretFits
<1> QED BY Zenon, <1>2, <1>5, <1>6, <1>7, <1>8, <1>9, WholeStep

\* A removal is no addition.
LEMMA RemovingIs ==
    ASSUME SubInv, NEW c \in Calls, call[c].pc \in RemoveSteps
    PROVE  /\ call[c].id \in Ids /\ Named(call[c]) /\ ~Adding(call[c]) /\ ~Fresh(call[c])
           /\ call[c].pc = "rmDelete" => call[c].had
           /\ call[c].pc \in {"rmGet", "rmDelete"} => ~Holds(call[c])
BY Zenon, FrameIs DEF AddFits, Named, Fresh, Holds, Adding, RemoveSteps

\* The secret is read before it is deleted.
LEMMA RemoveGetKeeps ==
    ASSUME SubInv, NEW c \in Calls, RemoveGet(c)
    PROVE  FileStep /\ SubInv'
<1>1. UNCHANGED <<file, secrets, published, cache, issued, begun, lost, loose>> /\ call[c].pc = "rmGet"
  BY Zenon DEF RemoveGet, At
<1>2. FileStep
  BY Zenon, <1>1, FileSame
<1>3. PICK g \in Frame : g = call[c]
  BY FrameIs
<1>4. PICK had \in BOOLEAN, pc \in {"rmDelete", "rmCommit"} :
          /\ pc = "rmDelete" => had
          /\ pc = "rmCommit" => call[c].id \notin secrets
          /\ call' = [call EXCEPT ![c].pc = pc, ![c].had = had]
  <2>1. CASE call[c].id \in secrets
    BY Zenon, <2>1 DEF RemoveGet
  <2>2. CASE call[c].id \notin secrets
    <3>1. (call[c].id \in secrets) = FALSE
      BY <2>2
    <3>2. call' = [call EXCEPT ![c].pc = "rmCommit", ![c].had = FALSE]
      BY Zenon, <3>1 DEF RemoveGet
    <3> QED BY Zenon, <2>2, <3>2
  <2> QED BY Zenon, <2>1, <2>2
<1>5. PICK f : f = [g EXCEPT !.pc = pc, !.had = had]
  OBVIOUS
<1>6. f \in Frame /\ f.pc = pc /\ f.id = g.id /\ f.had = had
  BY Zenon, <1>4, <1>5 DEF Frame, RemoveSteps
<1>7. call' = [call EXCEPT ![c] = f]
  BY Zenon, <1>3, <1>4, <1>5, FrameIs DEF Frame
<1>8. Moves(c, f)
  BY Zenon, <1>1, <1>2, <1>7, MovesIs
<1>9. Named(call[c]) /\ ~Adding(call[c]) /\ ~Holds(call[c])
  BY Zenon, <1>1, RemovingIs DEF RemoveSteps
<1>10. GoesOn(c, f)
  BY Zenon, <1>1, <1>3, <1>4, <1>6, <1>9 DEF GoesOn, Named, RemoveSteps, Fresh
<1>11. SecretFits(c, f)
  BY Zenon, <1>1, <1>3, <1>4, <1>6, <1>9 DEF SecretFits
<1> QED BY Zenon, <1>2, <1>6, <1>8, <1>10, <1>11, NamedStep

\* The secret is deleted, and this call holds it.
LEMMA RemoveDeleteKeeps ==
    ASSUME SubInv, NEW c \in Calls, RemoveDelete(c)
    PROVE  FileStep /\ SubInv'
<1>1. /\ UNCHANGED <<file, published, cache, issued, begun, lost, loose>> /\ call[c].pc = "rmDelete"
      /\ secrets' = secrets \ {call[c].id} /\ Goto(c, "rmCommit")
  BY Zenon DEF RemoveDelete, At
<1>2. FileStep
  BY Zenon, <1>1, FileSame
<1>3. Named(call[c]) /\ ~Adding(call[c]) /\ ~Holds(call[c]) /\ call[c].had
  BY Zenon, <1>1, RemovingIs DEF RemoveSteps
<1>4. PICK f \in Frame : /\ call' = [call EXCEPT ![c] = f] /\ f.pc = "rmCommit" /\ f.id = call[c].id
                         /\ f.had = call[c].had
  BY <1>1, GotoIs DEF RemoveSteps
<1>5. Moves(c, f)
  BY Zenon, <1>1, <1>2, <1>4, MovesIs
<1>6. GoesOn(c, f)
  BY Zenon, <1>1, <1>3, <1>4 DEF GoesOn, Named, RemoveSteps, Fresh
<1>7. SecretFits(c, f)
  BY Zenon, <1>1, <1>3, <1>4 DEF SecretFits, Holds
<1> QED BY <1>2, <1>5, <1>6, <1>7, NamedStep

\* The deletion fails, and may have taken effect.
LEMMA RemoveDeleteFailsKeeps ==
    ASSUME SubInv, NEW c \in Calls, RemoveDeleteFails(c)
    PROVE  FileStep /\ SubInv'
<1>1. /\ UNCHANGED <<file, published, cache, issued, begun, loose>> /\ call[c].pc = "rmDelete" /\ Return(c)
      /\ secrets' \in {secrets, secrets \ {call[c].id}} /\ lost' = lost \cup (secrets \ secrets')
  BY Zenon DEF RemoveDeleteFails, At, SecretWriteFails
<1>2. FileStep
  BY Zenon, <1>1, FileSame
<1>3. Named(call[c]) /\ ~Adding(call[c]) /\ ~Holds(call[c])
  BY Zenon, <1>1, RemovingIs DEF RemoveSteps
<1>4. SecretFits(c, Idle)
  BY Zenon, <1>1, <1>3, IdleFits DEF SecretFits
<1> QED BY Zenon, <1>1, <1>2, <1>3, <1>4, ReturnStep

\* The subscription and its endpoints leave the file.
LEMMA RemoveCommitKeeps ==
    ASSUME SubInv, NEW c \in Calls, RemoveCommit(c)
    PROVE  FileStep /\ SubInv'
<1>1. /\ UNCHANGED <<secrets, published, issued, begun, lost, loose>> /\ call[c].pc = "rmCommit" /\ Return(c)
      /\ file' = Removed(file, call[c].id) /\ ClearLatencies(c)
  BY Zenon DEF RemoveCommit, At
<1>2. /\ Named(call[c]) /\ ~Adding(call[c]) /\ call[c].id \in Ids
      /\ call[c].id \notin secrets \/ call[c].id \in loose
  BY Zenon, <1>1, RemovingIs DEF RemoveSteps, SubInv, GoneInv
<1>3. FileStep /\ file'.subs = file.subs \ {call[c].id}
  BY Zenon, <1>1, <1>2, RemovedIs
<1>4. SecretFits(c, Idle)
  BY Zenon, <1>1, <1>2, <1>3, IdleFits DEF SecretFits
<1> QED BY Zenon, <1>1, <1>2, <1>3, <1>4, ReturnStep

\* An error of the write, which may have taken effect.
LEMMA RemoveCommitFailsKeeps ==
    ASSUME SubInv, NEW c \in Calls, RemoveCommitFails(c)
    PROVE  FileStep /\ SubInv'
<1>1. /\ UNCHANGED <<secrets, published, cache, issued, begun, lost, loose>> /\ call[c].pc = "rmCommit"
      /\ Goto(c, "rmCheck") /\ file' \in {file, Removed(file, call[c].id)}
  BY Zenon DEF RemoveCommitFails, At, UpdateFails
<1>2. /\ Named(call[c]) /\ ~Adding(call[c]) /\ call[c].id \in Ids
      /\ call[c].id \notin secrets \/ call[c].id \in loose
  BY Zenon, <1>1, RemovingIs DEF RemoveSteps, SubInv, GoneInv
<1>3. FileStep /\ file'.subs \in {file.subs, file.subs \ {call[c].id}}
  BY Zenon, <1>1, <1>2, RemovedIs, FileSame
<1>4. PICK f \in Frame : /\ call' = [call EXCEPT ![c] = f] /\ f.pc = "rmCheck" /\ f.id = call[c].id
                         /\ f.had = call[c].had
  BY <1>1, GotoIs DEF RemoveSteps
<1>5. Moves(c, f)
  BY Zenon, <1>1, <1>3, <1>4, MovesIs
<1>6. GoesOn(c, f)
  BY Zenon, <1>1, <1>2, <1>3, <1>4 DEF GoesOn, Named, RemoveSteps, Fresh
<1>7. SecretFits(c, f)
  BY Zenon, <1>1, <1>2, <1>3, <1>4 DEF SecretFits, Holds
<1> QED BY Zenon, <1>3, <1>5, <1>6, <1>7, NamedStep

\* The file is read again: a subscription that is still there is given its secret
\* back by this call.
LEMMA RemoveCheckKeeps ==
    ASSUME SubInv, NEW c \in Calls, RemoveCheck(c)
    PROVE  FileStep /\ SubInv'
<1>1. UNCHANGED <<file, secrets, published, cache, issued, begun, lost, loose>> /\ call[c].pc = "rmCheck"
  BY Zenon DEF RemoveCheck, At
<1>2. FileStep
  BY Zenon, <1>1, FileSame
<1>3. Named(call[c]) /\ ~Adding(call[c])
  BY Zenon, <1>1, RemovingIs DEF RemoveSteps
<1>4. CASE ~(call[c].id \in file.subs /\ call[c].had)
  <2>1. SecretFits(c, Idle)
    BY Zenon, <1>1, <1>3, <1>4, IdleFits DEF SecretFits, Holds
  <2>2. Return(c)
    BY Zenon, <1>4 DEF RemoveCheck
  <2> QED BY Zenon, <1>1, <1>2, <1>3, <2>1, <2>2, ReturnStep
<1>5. CASE call[c].id \in file.subs /\ call[c].had
  <2>1. PICK f \in Frame : /\ call' = [call EXCEPT ![c] = f] /\ f.pc = "rmRestore" /\ f.id = call[c].id
                           /\ f.had = call[c].had
    <3>1. Goto(c, "rmRestore")
      BY Zenon, <1>5 DEF RemoveCheck
    <3> QED BY <3>1, GotoIs DEF RemoveSteps
  <2>2. Moves(c, f)
    BY Zenon, <1>1, <1>2, <2>1, MovesIs
  <2>3. GoesOn(c, f)
    BY Zenon, <1>1, <1>3, <2>1 DEF GoesOn, Named, RemoveSteps, Fresh
  <2>4. SecretFits(c, f)
    BY Zenon, <1>1, <1>3, <1>5, <2>1 DEF SecretFits, Holds
  <2> QED BY <1>2, <2>2, <2>3, <2>4, NamedStep
<1> QED BY Zenon, <1>4, <1>5

\* The file cannot be read: the secret may be lost.
LEMMA RemoveCheckFailsKeeps ==
    ASSUME SubInv, NEW c \in Calls, RemoveCheckFails(c)
    PROVE  FileStep /\ SubInv'
<1>1. /\ UNCHANGED <<file, secrets, published, cache, issued, begun, loose>> /\ call[c].pc = "rmCheck"
      /\ lost' = lost \cup {i \in {call[c].id} : call[c].had} /\ Return(c)
  BY Zenon DEF RemoveCheckFails, At
<1>2. FileStep
  BY Zenon, <1>1, FileSame
<1>3. Named(call[c]) /\ ~Adding(call[c])
  BY Zenon, <1>1, RemovingIs DEF RemoveSteps
<1>4. SecretFits(c, Idle)
  BY Zenon, <1>1, <1>3, IdleFits DEF SecretFits, Holds
<1> QED BY Zenon, <1>1, <1>2, <1>3, <1>4, ReturnStep

\* The secret is put back, or that fails and it may be lost.
LEMMA RemoveRestoreKeeps ==
    ASSUME SubInv, NEW c \in Calls, RemoveRestore(c) \/ RemoveRestoreFails(c)
    PROVE  FileStep /\ SubInv'
<1>1. /\ UNCHANGED <<file, published, cache, issued, begun>> /\ call[c].pc = "rmRestore" /\ Return(c)
      /\ secrets' \in {secrets, secrets \cup {call[c].id}}
      /\ loose \subseteq loose' /\ loose' \subseteq loose \cup {call[c].id}
      /\ lost \subseteq lost' /\ lost' \subseteq lost \cup {call[c].id}
      /\ call[c].id \in secrets' \cup lost'
      /\ \A i \in secrets' \ secrets : Unwanted(i) => i \in loose'
  BY Zenon DEF RemoveRestore, RemoveRestoreFails, At, SecretWriteFails
<1>2. FileStep
  BY Zenon, <1>1, FileSame
<1>3. Named(call[c]) /\ ~Adding(call[c])
  BY Zenon, <1>1, RemovingIs DEF RemoveSteps
<1>4. SecretFits(c, Idle)
  <2>1. \A i \in secrets' \ secrets :
            \/ i \in loose'
            \/ i \in file.subs /\ \A d \in Calls : call[d].pc = "rmCommit" => call[d].id # i
    BY Zenon, <1>1 DEF Unwanted, At
  <2> HIDE DEF Unwanted
  <2> QED BY Zenon, <1>1, <1>3, <2>1, IdleFits DEF SecretFits
<1> QED BY Zenon, <1>1, <1>2, <1>3, <1>4, ReturnStep

\* Every step of a removal.
LEMMA RemoveKeeps ==
    ASSUME SubInv, NEW c \in Calls, RemoveStep(c)
    PROVE  FileStep /\ SubInv'
BY RemoveCallKeeps, RemoveGetKeeps, RemoveDeleteKeeps, RemoveDeleteFailsKeeps, RemoveCommitKeeps,
   RemoveCommitFailsKeeps, RemoveCheckKeeps, RemoveCheckFailsKeeps, RemoveRestoreKeeps,
   Zenon DEF RemoveStep

----------------------------------------------------------------------------
(* The environment, and the theorems.                                         *)

\* A provider publishes a newer document: what was fetched is not newer.
LEMMA PublishKeeps ==
    ASSUME SubInv, NEW i \in Ids, Publish(i)
    PROVE  SubInv'
<1>1. UNCHANGED <<file, secrets, call, cache, issued, begun, lost, loose>>
  BY Zenon DEF Publish
<1>2. /\ published' \in [Ids -> Versions]
      /\ \A j \in Ids : published[j] \in Nat /\ published'[j] \in Nat /\ published[j] <= published'[j]
  <2>1. /\ published \in [Ids -> Versions] /\ published[i] < MaxVersion
        /\ published' = [published EXCEPT ![i] = @ + 1] /\ MaxVersion \in Nat
    BY Zenon, BoundAssumption DEF Publish, SubInv, TypeOK
  <2>2. published[i] + 1 \in Versions
    BY <2>1 DEF Versions
  <2>3. published' \in [Ids -> Versions]
    BY Zenon, <2>1, <2>2
  <2>4. \A j \in Ids : published[j] \in Nat /\ published'[j] \in Nat
    BY <2>1, <2>3 DEF Versions
  <2>5. \A j \in Ids : published[j] <= published'[j]
    BY <2>1, <2>4
  <2> QED BY Zenon, <2>3, <2>4, <2>5
<1>3. TypeOK'
  BY Zenon, <1>1, <1>2 DEF SubInv, TypeOK
<1>4. \A j \in Ids : RowFits(j)'
  BY <1>1, <1>2, Basics DEF RowFits
<1>5. ASSUME NEW c \in Calls
      PROVE  TokenFits(call[c])'
  <2>1. PICK g \in Frame : g = call[c] /\ g = call'[c]
    BY Zenon, <1>1, FrameIs
  <2>2. TokenFits(g) /\ g.id \in Ids /\ g.version \in Nat
    <3>1. TokenFits(g)
      BY Zenon, <2>1, FrameIs
    <3>2. g.id \in Ids /\ g.version \in Versions
      BY Zenon DEF Frame
    <3> QED BY <3>1, <3>2, BoundAssumption DEF Versions
  <2>3. TokenFits(g)'
    BY <1>1, <1>2, <2>2 DEF TokenFits
  <2> QED BY Zenon, <2>1, <2>3 DEF TokenFits
<1>6. TokenInv'
  BY Zenon, <1>4, <1>5 DEF TokenInv
<1>7. KeyInv' /\ AddInv' /\ SecretKept' /\ OrphansExplained' /\ GoneInv'
  <2>1. KeyInv /\ AddInv /\ SecretKept /\ OrphansExplained /\ GoneInv
    BY Zenon DEF SubInv
  <2>2. KeyInv'
    BY Zenon, <1>1, <2>1 DEF KeyInv, EndpointsOwned, KeyedEndpoints, CacheKeyed, KeyFits, Keyed
  <2>3. AddInv'
    BY Zenon, <1>1, <2>1 DEF AddInv, AddFits
  <2>4. SecretKept' /\ OrphansExplained' /\ GoneInv'
    BY Zenon, <1>1, <2>1 DEF SecretKept, OrphansExplained, GoneInv
  <2> QED BY Zenon, <2>2, <2>3, <2>4
<1> QED BY Zenon, <1>3, <1>6, <1>7 DEF SubInv

\* A process crashes: what its calls held is noted as lost or loose.
LEMMA CrashKeeps ==
    ASSUME SubInv, NEW p \in Procs, Crash(p)
    PROVE  SubInv'
<1> DEFINE F == {call[c] : c \in {d \in Calls : ProcOf[d] = p}}
<1>1. /\ UNCHANGED <<file, secrets, published, issued, begun>>
      /\ call' = [c \in Calls |-> IF ProcOf[c] = p THEN Idle ELSE call[c]]
      /\ cache' = [cache EXCEPT ![p] = {}]
      /\ lost' = lost \cup {f.id : f \in {g \in F : Holds(g)}}
      /\ loose' = loose \cup ({f.id : f \in {g \in F : Adding(g)}} \ file.subs)
  BY Zenon DEF Crash
<1>2. FileStep
  BY Zenon, <1>1, FileSame
<1>3. /\ call \in [Calls -> Frame]
      /\ \A c \in Calls : call'[c] = Idle \/ call'[c] = call[c]
      /\ \A c \in Calls : call'[c] = call[c] \/ ProcOf[c] = p
  BY Zenon, <1>1 DEF SubInv, TypeOK
<1>4. lost \subseteq lost' /\ loose \subseteq loose' /\ lost' \subseteq Ids /\ loose' \subseteq Ids
  <2>1. \A f \in F : f.id \in Ids
    BY Zenon, <1>3 DEF Frame
  <2> QED BY Zenon, <1>1, <2>1 DEF SubInv, TypeOK
<1>5. \A c \in Calls : call'[c] # call[c] => /\ Holds(call[c]) => call[c].id \in lost'
                                             /\ Adding(call[c]) => call[c].id \in loose' \cup file.subs
  <2>1. SUFFICES ASSUME NEW c \in Calls, call'[c] # call[c]
                 PROVE  /\ Holds(call[c]) => call[c].id \in lost'
                        /\ Adding(call[c]) => call[c].id \in loose' \cup file.subs
    OBVIOUS
  <2>2. call[c] \in F
    BY Zenon, <1>3, <2>1
  <2> QED BY Zenon, <1>1, <2>2
<1> HIDE DEF F
<1>6. cache' \in [Procs -> SUBSET EndpointId] /\ CacheKeyed'
  <2>1. cache \in [Procs -> SUBSET EndpointId] /\ {} \in SUBSET EndpointId
    BY Zenon DEF SubInv, TypeOK
  <2>2. cache' \in [Procs -> SUBSET EndpointId] /\ \A q \in Procs : cache'[q] \subseteq cache[q]
    BY Zenon, <1>1, <2>1
  <2> QED BY Zenon, <1>2, <2>2, CacheShrinks
<1>7. TypeOK'
  <2>1. call' \in [Calls -> Frame]
    BY Zenon, <1>1, <1>3, IdleFits
  <2> QED BY Zenon, <1>1, <1>4, <1>6, <2>1 DEF SubInv, TypeOK
<1>8. ASSUME NEW c \in Calls
      PROVE  KeyFits(call[c])' /\ TokenFits(call[c])' /\ AddFits(c)'
  <2>1. ~Named(Idle) /\ Idle.pc = "idle"
    BY Zenon, IdleFits
  <2>2. CASE call'[c] = Idle
    BY Zenon, <2>1, <2>2 DEF KeyFits, TokenFits, AddFits, Named, Fresh
  <2>3. CASE call'[c] = call[c]
    <3>1. KeyFits(call[c]) /\ TokenFits(call[c]) /\ AddFits(c)
      BY Zenon, FrameIs
    <3>2. KeyFits(call[c])'
      BY Zenon, <1>1, <2>3, <3>1 DEF KeyFits, Keyed
    <3>3. TokenFits(call[c])'
      BY Zenon, <1>1, <2>3, <3>1 DEF TokenFits
    <3>4. AddFits(c)'
      BY Zenon, <1>1, <1>3, <2>1, <2>3, <3>1 DEF AddFits
    <3> QED BY Zenon, <3>2, <3>3, <3>4
  <2> QED BY Zenon, <1>3, <2>2, <2>3
<1>9. KeyInv' /\ TokenInv' /\ AddInv'
  <2>1. file.subs \subseteq issued
    BY Zenon DEF SubInv, AddInv
  <2> QED BY Zenon, <1>1, <1>2, <1>6, <1>8, <2>1 DEF FileStep, KeyInv, TokenInv, AddInv
<1>10. SecretKept'
  <2>1. ASSUME NEW i \in file.subs, i \notin secrets \cup lost'
        PROVE  \E c \in Calls : call'[c].id = i /\ Holds(call'[c])
    <3>1. PICK c \in Calls : call[c].id = i /\ Holds(call[c])
      BY Zenon, <1>4, <2>1 DEF SubInv, SecretKept
    <3>2. call'[c] = call[c]
      BY Zenon, <1>5, <2>1, <3>1
    <3> QED BY Zenon, <3>1, <3>2
  <2>2. file' = file /\ secrets' = secrets
    BY Zenon, <1>1
  <2> QED BY Zenon, <2>1, <2>2 DEF SecretKept
<1>11. OrphansExplained'
  <2>1. ASSUME NEW i \in secrets \ file.subs, i \notin loose'
        PROVE  \E c \in Calls : call'[c].id = i /\ Adding(call'[c])
    <3>1. PICK c \in Calls : call[c].id = i /\ Adding(call[c])
      BY Zenon, <1>4, <2>1 DEF SubInv, OrphansExplained
    <3>2. call'[c] = call[c]
      BY Zenon, <1>5, <2>1, <3>1
    <3> QED BY Zenon, <3>1, <3>2
  <2>2. file' = file /\ secrets' = secrets
    BY <1>1
  <2> QED BY Zenon, <2>1, <2>2 DEF OrphansExplained
<1>12. GoneInv'
  <2>1. Idle.pc = "idle"
    BY Zenon, IdleFits
  <2> QED BY Zenon, <1>1, <1>3, <1>4, <2>1 DEF SubInv, GoneInv
<1> QED BY Zenon, <1>7, <1>9, <1>10, <1>11, <1>12 DEF SubInv

\* A state file without a key, as an older version left it.
LEMMA InitFits ==
    ASSUME Init
    PROVE  SubInv
<1>1. PICK S \in SUBSET Ids :
        /\ file = [subs |-> S, token |-> [i \in Ids |-> 0], refreshed |-> [i \in Ids |-> 0],
                   lastError |-> [i \in Ids |-> 0], version |-> [i \in Ids |-> IF i \in S THEN 1 ELSE 0],
                   keyedBy |-> [i \in Ids |-> NoKey], key |-> NoKey]
        /\ secrets = S /\ published = [i \in Ids |-> 1] /\ call = [c \in Calls |-> Idle]
        /\ cache = [p \in Procs |-> {}] /\ issued = S /\ begun = 0 /\ lost = {} /\ loose = {}
  BY Zenon DEF Init
<1>2. 0 \in Tokens /\ 1 \in Versions /\ NoKey \in Keys
  BY BoundAssumption DEF Tokens, Versions, Keys
<1>3. /\ [i \in Ids |-> 0] \in [Ids -> Tokens] /\ [i \in Ids |-> NoKey] \in [Ids -> Keys]
      /\ [i \in Ids |-> IF i \in S THEN 1 ELSE 0] \in [Ids -> Versions \cup {0}]
  BY Zenon, <1>2
<1>4. file \in Snapshot
  BY Zenon, <1>1, <1>2, <1>3 DEF Snapshot
<1>5. TypeOK
  <2>1. call \in [Calls -> Frame]
    BY Zenon, <1>1, IdleFits
  <2>2. cache \in [Procs -> SUBSET EndpointId] /\ published \in [Ids -> Versions]
    BY Zenon, <1>1, <1>2
  <2>3. begun \in Tokens /\ secrets \subseteq Ids /\ issued \subseteq Ids /\ lost \subseteq Ids /\ loose \subseteq Ids
    BY Zenon, <1>1, <1>2
  <2> QED BY Zenon, <1>4, <2>1, <2>2, <2>3 DEF TypeOK
<1>6. /\ file.subs = S /\ file.key = NoKey
      /\ \A i \in Ids : /\ file.token[i] = 0 /\ file.refreshed[i] = 0 /\ file.lastError[i] = 0
                        /\ file.version[i] = (IF i \in S THEN 1 ELSE 0) /\ file.keyedBy[i] = NoKey
                        /\ published[i] = 1
  BY Zenon, <1>1
<1>7. \A c \in Calls : call[c] = Idle /\ Idle.pc = "idle"
  BY Zenon, <1>1, IdleFits
<1>8. KeyInv
  <2>1. \A c \in Calls : KeyFits(call[c])
    BY Zenon, <1>7 DEF KeyFits
  <2>2. CacheKeyed
    BY Zenon, <1>1 DEF CacheKeyed
  <2> QED BY <1>6, <2>1, <2>2 DEF KeyInv, EndpointsOwned, KeyedEndpoints
<1>9. AddInv
  <2>1. \A c \in Calls : AddFits(c)
    BY Zenon, <1>7 DEF AddFits, Named, Fresh, AddSteps, RemoveSteps
  <2> QED BY Zenon, <1>1, <1>6, <2>1 DEF AddInv
<1>10. TokenInv
  <2>1. \A c \in Calls : TokenFits(call[c])
    BY Zenon, <1>7 DEF TokenFits
  <2>2. begun = 0
    BY Zenon, <1>1
  <2>3. \A i \in Ids : RowFits(i)
    BY <1>6, <2>2 DEF RowFits
  <2> QED BY Zenon, <2>1, <2>3 DEF TokenInv
<1>11. SecretKept /\ OrphansExplained /\ GoneInv
  BY Zenon, <1>1, <1>6, <1>7 DEF SecretKept, OrphansExplained, GoneInv
<1> QED BY Zenon, <1>5, <1>8, <1>9, <1>10, <1>11 DEF SubInv

\* Every step keeps the invariant, and no step replaces endpoints by older ones.
LEMMA NextKeeps ==
    ASSUME SubInv, [Next]_vars
    PROVE  /\ SubInv'
           /\ \A i \in file.subs \cap file'.subs : file.version[i] <= file'.version[i]
<1>1. ASSUME NEW c \in Calls,
             GiveUp(c) \/ AddStep(c) \/ RefreshStep(c) \/ RemoveStep(c) \/ CheckStep(c)
      PROVE  FileStep /\ SubInv'
  BY <1>1, GiveUpKeeps, AddKeeps, RefreshKeeps, RemoveKeeps, CheckKeeps, Zenon
<1>2. ASSUME NEW i \in Ids, Publish(i)
      PROVE  SubInv' /\ file' = file
  BY Zenon, <1>2, PublishKeeps DEF Publish
<1>3. ASSUME NEW p \in Procs, Crash(p)
      PROVE  SubInv' /\ file' = file
  <2>1. file' = file
    BY Zenon, <1>3 DEF Crash
  <2> QED BY Zenon, <1>3, <2>1, CrashKeeps
<1>4. CASE UNCHANGED vars
  <2>1. UNCHANGED <<file, secrets, published, call, cache, issued, begun, lost, loose>>
    BY Zenon, <1>4 DEF vars
  <2>2. SubInv'
    BY Zenon, <2>1 DEF SubInv, TypeOK, KeyInv, EndpointsOwned, KeyedEndpoints, CacheKeyed, KeyFits, Keyed,
                AddInv, AddFits, TokenInv, RowFits, TokenFits, SecretKept, OrphansExplained, GoneInv
  <2> QED BY <2>1, <2>2, Basics
<1>5. file' = file => \A i \in file.subs \cap file'.subs : file.version[i] <= file'.version[i]
  BY Basics
<1>6. FileStep => \A i \in file.subs \cap file'.subs : file.version[i] <= file'.version[i]
  BY Zenon DEF FileStep
<1> QED BY Zenon, <1>1, <1>2, <1>3, <1>4, <1>5, <1>6 DEF Next

\* The inductive invariant holds in every reachable state.
THEOREM SubInvariance == Spec => []SubInv
<1>1. Init => SubInv
  BY Zenon, InitFits
<1>2. SubInv /\ [Next]_vars => SubInv'
  BY Zenon, NextKeeps
<1> QED BY <1>1, <1>2, PTL DEF Spec

\* Endpoints belong to subscriptions, and endpoints and latencies are identified
\* under the one key of the state file, whichever process drew it
\* (ensureEndpointIdentityKey, loadEndpointSnapshot).
THEOREM EndpointsBelong == Spec => []EndpointsFit
<1>1. SubInv => EndpointsFit
  BY DEF SubInv, KeyInv, EndpointsFit
<1> QED BY <1>1, SubInvariance, PTL

\* A subscription has its secret unless a removal took it (RemoveSubscription
\* deletes the secret before the row, and puts it back if the row stays).
THEOREM SecretsAreKept == Spec => []SecretKept
<1>1. SubInv => SecretKept
  BY Zenon DEF SubInv
<1> QED BY <1>1, SubInvariance, PTL

\* A secret without a subscription was left by an addition that failed or crashed
\* (AddSubscription stores the secret before the row, and deletes it if the row
\* did not get there), or put back by one of two overlapping removals; a removal
\* that nothing overlaps leaves none (RemoveSubscription).
THEOREM OrphansAreExplained == Spec => []OrphansExplained
<1>1. SubInv => OrphansExplained
  BY Zenon DEF SubInv
<1> QED BY <1>1, SubInvariance, PTL

\* However refreshes overlap, endpoints are never replaced by those of an older
\* document, and no error of an older refresh stays (the refresh token).
THEOREM RefreshesNeverGoBack == Spec => NeverOlder
<1> DEFINE A == /\ \A i \in file.subs \cap file'.subs : file.version[i] <= file'.version[i]
                /\ \A i \in Ids : file'.lastError[i] # 0 => file'.refreshed[i] < file'.lastError[i]
<1>1. SubInv /\ [Next]_vars => [A]_vars
  <2>1. SUFFICES ASSUME SubInv, [Next]_vars
                 PROVE  A
    OBVIOUS
  <2>2. SubInv' /\ \A i \in file.subs \cap file'.subs : file.version[i] <= file'.version[i]
    BY Zenon, <2>1, NextKeeps
  <2>3. \A i \in Ids : file'.lastError[i] # 0 => file'.refreshed[i] < file'.lastError[i]
    BY Zenon, <2>2 DEF SubInv, TokenInv, RowFits
  <2> QED BY Zenon, <2>2, <2>3
<1> QED BY <1>1, SubInvariance, PTL DEF Spec, NeverOlder
=============================================================================
