------------------------------ MODULE StateStore ------------------------------
(* The state file of the client (internal/state/store.go): Load, Save, Update,*)
(* CommitSubscriptionRefresh and Close of several store handles over one file,*)
(* with process crashes and power failures.                                   *)
EXTENDS LockedFile

CONSTANTS
    Subs,         \* subscription ids
    Kinds,        \* the kinds of changes callers ask for
    MaxEdits,     \* bound: writing calls of a behaviour
    MaxRevision   \* stands for math.MaxUint64

ASSUME BoundsAssumption == MaxEdits \in Nat /\ MaxRevision \in Nat

VARIABLES
    copies,  \* the snapshot a caller got from its last Load
    drawn,   \* history: edits started so far
    acked    \* history: edits whose call returned nil

vars == <<content, survivors, lock, frame, lifecycle, copies, drawn, acked>>

Edits == 1..MaxEdits

\* endpoints[s] is the edit that stored the endpoints of s, 0 when there are
\* none; edits is a history field, the edits the snapshot was made by.
Snapshots == [revision : 0..MaxRevision, subscriptions : SUBSET Subs,
              endpoints : [Subs -> 0..MaxEdits], edits : SUBSET Edits]

ASSUME TornAssumption == Torn \notin Snapshots

EmptySnapshot == [revision |-> 0, subscriptions |-> {},
                  endpoints |-> [s \in Subs |-> 0], edits |-> {}]

\* The endpoints belong to subscriptions of the snapshot.
ValidateSnapshot(snap) ==
    \A s \in Subs : snap.endpoints[s] # 0 => s \in snap.subscriptions

HasSubscription(snap, s) == s \in snap.subscriptions

\* What a caller may ask for: the closures given to Update, the changes made
\* to a loaded snapshot before Save, and a finished refresh.
Ops == [name : {"update", "save"}, kind : {"add", "remove", "orphan"}, sub : Subs, edit : Edits]
         \cup [name : {"update"}, kind : {"nil", "revise"}, sub : Subs, edit : Edits]
         \cup [name : {"commit"}, kind : {"put", "empty"}, sub : Subs, edit : Edits]
         \cup [name : {"load"}, kind : {"read"}, sub : Subs, edit : {0}]

Changed(op, snap) ==
    CASE op.kind = "add"    -> [snap EXCEPT !.subscriptions = @ \cup {op.sub}]
      [] op.kind = "remove" -> [snap EXCEPT !.subscriptions = @ \ {op.sub},
                                            !.endpoints[op.sub] = 0]
      [] op.kind \in {"put", "orphan"} -> [snap EXCEPT !.endpoints[op.sub] = op.edit]
      [] OTHER              -> snap

\* The file as earlier processes left it, after any number of writes.
Init ==
    /\ \E r \in 0..MaxRevision : FileInit([EmptySnapshot EXCEPT !.revision = r])
    /\ copies = [c \in Calls |-> Nil]
    /\ drawn = 0
    /\ acked = {}

Call(c, op) ==
    /\ IF op.name = "load"
       THEN UNCHANGED drawn
       ELSE op.edit = drawn + 1 /\ drawn' = drawn + 1
    /\ op.kind \in Kinds
    /\ op.name = "save" => copies[c] # Nil
    /\ Start(c, op)
    /\ UNCHANGED <<copies, acked>>

Begin(c) == BeginOperation(c) /\ UNCHANGED <<copies, drawn, acked>>

\* The checks made before the lock is asked for: Save validates the snapshot
\* it was given, Commit returns false on a failed or empty refresh, Update
\* refuses a nil closure.
Admissible(c) ==
    LET op == frame[c].op IN
    /\ op.kind \notin {"nil", "empty"}
    /\ op.name = "save" => ValidateSnapshot(Changed(op, copies[c]))

Reject(c) ==
    /\ At(c, "poll") /\ ~Admissible(c)
    /\ Return(c)
    /\ UNCHANGED <<content, survivors, lifecycle, copies, drawn, acked>>

Acquire(c) == At(c, "poll") /\ Admissible(c) /\ AcquireLock(c) /\ UNCHANGED <<copies, drawn, acked>>
Expire(c) == At(c, "poll") /\ Admissible(c) /\ LockExpired(c) /\ UNCHANGED <<copies, drawn, acked>>
Fails(c) == Fail(c) /\ UNCHANGED <<copies, drawn, acked>>
LoadFile(c) == LoadLocked(c) /\ UNCHANGED <<copies, drawn, acked>>

LoadReturns(c) ==
    /\ At(c, "loaded") /\ frame[c].op.name = "load"
    /\ copies' = [copies EXCEPT ![c] = frame[c].snap]
    /\ Return(c)
    /\ UNCHANGED <<content, survivors, lifecycle, drawn, acked>>

\* MUTANT: the revision is not incremented.
Incremented_Same(snap) == snap

\* The addition of incrementRevision, which wraps as a uint64 does.
Incremented(snap) == [snap EXCEPT !.revision = (@ + 1) % (MaxRevision + 1)]

\* The new snapshot of a call that goes on to writeLocked, with the edit that
\* made it.
Successor(snap, e) == [Incremented(snap) EXCEPT !.edits = @ \cup {e}]

\* SaveContext compares the revision of the snapshot it was given with the
\* revision in the file.
SaveAllowed(given, current) ==
    given.revision = current.revision /\ given.revision < MaxRevision

Save(c) ==
    LET op == frame[c].op
        given == Changed(op, copies[c]) IN
    /\ At(c, "loaded") /\ op.name = "save"
    /\ IF SaveAllowed(given, frame[c].snap)
       THEN Replace(c, Successor(given, op.edit))
       ELSE Return(c) /\ UNCHANGED <<content, survivors, lifecycle>>
    /\ UNCHANGED <<copies, drawn, acked>>

\* MUTANT: the changed snapshot is not validated.
UpdateAllowed_Unchecked(op, snap) ==
    /\ op.kind = "put" => HasSubscription(snap, op.sub)
    /\ op.kind # "revise"
    /\ snap.revision < MaxRevision

\* The checks of updateContext on what the closure returns.
UpdateAllowed(op, snap) ==
    /\ op.kind = "put" => HasSubscription(snap, op.sub)
    /\ op.kind # "revise"
    /\ ValidateSnapshot(Changed(op, snap))
    /\ snap.revision < MaxRevision

Update(c) ==
    LET op == frame[c].op
        snap == frame[c].snap IN
    /\ At(c, "loaded") /\ op.name \in {"update", "commit"}
    /\ IF UpdateAllowed(op, snap)
       THEN Replace(c, Successor(Changed(op, snap), op.edit))
       ELSE Return(c) /\ UNCHANGED <<content, survivors, lifecycle>>
    /\ UNCHANGED <<copies, drawn, acked>>

Stage(c) == WriteTemp(c) /\ UNCHANGED <<copies, drawn, acked>>
Install(c) == Rename(c) /\ UNCHANGED <<copies, drawn, acked>>

Finish(c) ==
    /\ SyncRoot(c)
    /\ acked' = acked \cup {frame[c].op.edit}
    /\ UNCHANGED <<copies, drawn>>

Close(h) == (CloseHandle(h) \/ CloseGranted(h)) /\ UNCHANGED <<copies, drawn, acked>>

Die(h) ==
    /\ Crash(h)
    /\ copies' = [c \in Calls |-> IF HandleOf[c] = h THEN Nil ELSE copies[c]]
    /\ UNCHANGED <<drawn, acked>>

LosePower ==
    /\ PowerLoss
    /\ copies' = [c \in Calls |-> Nil]
    /\ UNCHANGED <<drawn, acked>>

Step(c) ==
    \/ Begin(c) \/ Reject(c) \/ Acquire(c) \/ Expire(c) \/ Fails(c) \/ LoadFile(c)
    \/ LoadReturns(c) \/ Save(c) \/ Update(c) \/ Stage(c) \/ Install(c) \/ Finish(c)

Next ==
    \/ \E c \in Calls : Step(c) \/ \E op \in Ops : Call(c, op)
    \/ \E h \in Handles : Close(h) \/ Die(h)
    \/ LosePower

Spec == Init /\ [][Next]_vars

\* A call goes on while it can, and polls the flock; nothing is assumed of the
\* callers, of failures, of winning the flock against other processes, or of the
\* context of a call, which in the commands and the terminal interface has no
\* deadline.
GoesOn(c) ==
    \/ Begin(c) \/ Reject(c) \/ Acquire(c) \/ LoadFile(c) \/ LoadReturns(c)
    \/ Save(c) \/ Update(c) \/ Stage(c) \/ Install(c) \/ Finish(c)

Fairness ==
    /\ \A c \in Calls : WF_vars(GoesOn(c))
    /\ \A h \in Handles : WF_vars(CloseGranted(h) /\ UNCHANGED <<copies, drawn, acked>>)

FairSpec == Spec /\ Fairness

-----------------------------------------------------------------------------
TypeOK ==
    /\ content \in Snapshots
    /\ survivors \subseteq Snapshots
    /\ lock \in Calls \cup {Nil}
    /\ \A c \in Calls :
         /\ frame[c].pc \in {"idle", "begin", "poll"} \cup UnderLock
         /\ frame[c].op \in Ops \cup {Nil}
         /\ frame[c].snap \in Snapshots \cup {Nil}
         /\ frame[c].next \in Snapshots \cup {Nil}
    /\ lifecycle \in [Handles -> {"open", "closing", "closed"}]
    /\ copies \in [Calls -> Snapshots \cup {Nil}]
    /\ drawn \in 0..MaxEdits
    /\ acked \subseteq Edits

\* An edit whose call returned nil stays in the file, whatever other processes
\* write afterwards, whoever crashes and whenever the power fails: loads and
\* writes are one transaction under the flock, and the directory is synced
\* before the call returns.
AckedKept == \A snap \in survivors \cup {content} : acked \subseteq snap.edits

\* A revision identifies a snapshot: a caller whose copy has the revision of
\* the file has the file's content, which is what Save relies on.
RevisionIdentifies ==
    \A c \in Calls :
        copies[c] # Nil /\ copies[c].revision = content.revision => copies[c] = content

\* Every file that a reader or a power failure can find is whole and one that
\* loadLocked accepts: no Save, Update or Commit stores endpoints of a
\* subscription that is gone, and none leaves a part of a file.
StoredIsValid ==
    /\ WholeFile /\ TypeOK
    /\ \A snap \in survivors \cup {content} : ValidateSnapshot(snap)

EditLogSpec == INSTANCE EditLog WITH value <- content.edits, acked <- acked

\* The handles together implement an atomic log of edits: Update and Save of
\* several processes lose no edit that one of them was told is stored.
ImplementsEditLog == EditLogSpec!Spec
=============================================================================
