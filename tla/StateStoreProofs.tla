--------------------------- MODULE StateStoreProofs ---------------------------
(* Proofs about StateStore for every number of handles, calls, edits and      *)
(* revisions: calls exclude each other, an acknowledged edit is kept, a       *)
(* revision identifies a snapshot, and the store implements EditLog.  And     *)
(* about SecretFile: an acknowledged secret is kept.                          *)
EXTENDS StateStore, SecretFile, TLAPS

PCs == {"idle", "begin", "poll"} \cup UnderLock

Frames == [pc : PCs, op : Ops \cup {Nil}, snap : Snapshots \cup {Nil},
           next : Snapshots \cup {Nil}, synced : BOOLEAN]

Types ==
    /\ content \in Snapshots
    /\ survivors \subseteq Snapshots
    /\ lock \in Calls \cup {Nil}
    /\ frame \in [Calls -> Frames]
    /\ lifecycle \in [Handles -> {"open", "closing", "closed"}]
    /\ copies \in [Calls -> Snapshots \cup {Nil}]
    /\ drawn \in 0..MaxEdits
    /\ acked \subseteq Edits

Writing(c) == ~At(c, "idle") /\ frame[c].op.name # "load"

\* What holds of a call in progress.
CallOK(c) ==
    /\ ~At(c, "idle") => frame[c].op \in Ops
    /\ Inside(c) => lifecycle[HandleOf[c]] # "closed"
    /\ frame[c].pc \in UnderLock => lock = c
    /\ frame[c].pc \in UnderLock /\ frame[c].op.name = "save" =>
         ValidateSnapshot(Changed(frame[c].op, copies[c]))
    /\ At(c, "loaded") => frame[c].snap = content
    /\ frame[c].pc \in {"write", "temp"} =>
         /\ Writing(c)
         /\ frame[c].next \in Snapshots
         /\ ValidateSnapshot(frame[c].next)
         /\ frame[c].next.edits = content.edits \cup {frame[c].op.edit}
         /\ frame[c].next.revision = content.revision + 1
    /\ At(c, "temp") => frame[c].synced
    /\ At(c, "renamed") => Writing(c) /\ frame[c].op.edit \in content.edits
    /\ ~At(c, "idle") /\ frame[c].op.name = "save" => copies[c] # Nil
    /\ Writing(c) => frame[c].op.edit \in 1..drawn
    /\ Writing(c) /\ ~At(c, "renamed") => frame[c].op.edit \notin content.edits

\* What holds of a caller's copy.
CopyOK(c) ==
    copies[c] # Nil =>
        /\ copies[c].revision <= content.revision
        /\ copies[c].revision = content.revision => copies[c] = content

EditsDistinct ==
    \A c, d \in Calls :
        Writing(c) /\ Writing(d) /\ frame[c].op.edit = frame[d].op.edit => c = d

DiskOK ==
    /\ content \in survivors
    /\ content.edits \subseteq 1..drawn
    /\ \A s \in survivors :
         /\ ValidateSnapshot(s)
         /\ acked \subseteq s.edits /\ s.edits \subseteq content.edits

\* The inductive invariant.
IInv ==
    /\ Types
    /\ \A c \in Calls : CallOK(c) /\ CopyOK(c)
    /\ EditsDistinct
    /\ DiskOK

-----------------------------------------------------------------------------
\* The fields of what a caller asks for.
LEMMA OpFields ==
    ASSUME NEW op \in Ops
    PROVE  /\ op.sub \in Subs
           /\ op.edit \in 0..MaxEdits
           /\ op.name # "load" => op.edit \in Edits
           /\ op.name \in {"update", "save", "commit", "load"}
  BY BoundsAssumption DEF Ops, Edits

\* A change keeps the revision and the history of a snapshot.
LEMMA ChangedKeeps ==
    ASSUME NEW op \in Ops, NEW snap \in Snapshots
    PROVE  /\ Changed(op, snap) \in Snapshots
           /\ Changed(op, snap).edits = snap.edits
           /\ Changed(op, snap).revision = snap.revision
  <1>1. op.sub \in Subs /\ op.edit \in 0..MaxEdits /\ 0 \in 0..MaxEdits
    BY OpFields, BoundsAssumption
  <1>2. CASE op.kind = "add"
    BY <1>1, <1>2 DEF Changed, Snapshots
  <1>3. CASE op.kind = "remove"
    BY Zenon, <1>1, <1>3 DEF Changed, Snapshots
  <1>4. CASE op.kind = "orphan"
    BY <1>1, <1>4 DEF Changed, Snapshots
  <1>5. CASE op.kind = "put"
    BY <1>1, <1>5 DEF Changed, Snapshots
  <1>6. CASE op.kind \notin {"add", "remove", "orphan", "put"}
    BY <1>6 DEF Changed
  <1> QED
    BY <1>2, <1>3, <1>4, <1>5, <1>6

\* Below the largest revision the addition of incrementRevision does not wrap.
LEMMA SuccessorAdds ==
    ASSUME NEW snap \in Snapshots, NEW e \in Edits, snap.revision < MaxRevision
    PROVE  /\ Successor(snap, e) \in Snapshots
           /\ Successor(snap, e).edits = snap.edits \cup {e}
           /\ Successor(snap, e).revision = snap.revision + 1
           /\ ValidateSnapshot(snap) => ValidateSnapshot(Successor(snap, e))
  <1>1. snap.revision \in 0..MaxRevision /\ MaxRevision \in Nat
    BY BoundsAssumption DEF Snapshots
  <1>2. \A r, m \in Nat : r < m => (r + 1) % (m + 1) = r + 1
    OBVIOUS
  <1>3. (snap.revision + 1) % (MaxRevision + 1) = snap.revision + 1
    BY <1>1, <1>2
  <1>4. /\ Incremented(snap) \in Snapshots
        /\ Incremented(snap).edits = snap.edits
        /\ Incremented(snap).revision = snap.revision + 1
        /\ Incremented(snap).endpoints = snap.endpoints
        /\ Incremented(snap).subscriptions = snap.subscriptions
    BY <1>1, <1>3 DEF Incremented, Snapshots
  <1>5. /\ Successor(snap, e) \in Snapshots
        /\ Successor(snap, e).edits = snap.edits \cup {e}
        /\ Successor(snap, e).revision = snap.revision + 1
        /\ Successor(snap, e).endpoints = snap.endpoints
        /\ Successor(snap, e).subscriptions = snap.subscriptions
    BY <1>4 DEF Successor, Snapshots
  <1> QED
    BY <1>5 DEF ValidateSnapshot

-----------------------------------------------------------------------------
\* A call that a step of another does not touch keeps what holds of it.
LEMMA OthersKept ==
    ASSUME IInv, NEW d \in Calls,
           frame'[d] = frame[d], copies'[d] = copies[d], content' = content,
           drawn' \in Nat, drawn <= drawn', lock = d => lock' = d,
           lifecycle'[HandleOf[d]] = lifecycle[HandleOf[d]]
    PROVE  CallOK(d)' /\ CopyOK(d)'
  <1>1. CallOK(d) /\ CopyOK(d) /\ drawn \in Nat
    BY BoundsAssumption DEF IInv, Types
  <1>2. CopyOK(d)'
    BY <1>1 DEF CopyOK
  <1>3. 1..drawn \subseteq 1..drawn'
    BY <1>1
  <1>4. CallOK(d)'
    BY <1>1, <1>3 DEF CallOK, At, Inside, Writing
  <1> QED
    BY <1>2, <1>4

\* A step that leaves the disk, the copies and the histories alone and moves
\* one call, to a state in which what holds of a call still holds, keeps IInv.
LEMMA OneCallMoves ==
    ASSUME IInv, NEW c \in Calls,
           frame' = [frame EXCEPT ![c] = frame'[c]], frame'[c] \in Frames,
           frame'[c].pc = "idle" \/ (frame'[c].op = frame[c].op /\ ~At(c, "idle")),
           lock' \in Calls \cup {Nil},
           \A d \in Calls \ {c} : lock = d => lock' = d,
           lifecycle' = lifecycle,
           UNCHANGED <<content, survivors, copies, drawn, acked>>,
           CallOK(c)'
    PROVE  IInv'
  <1>1. Types'
    BY DEF IInv, Types
  <1>2. \A d \in Calls \ {c} : frame'[d] = frame[d]
    BY DEF IInv, Types
  <1>3. drawn' \in Nat /\ drawn <= drawn'
    BY BoundsAssumption DEF IInv, Types
  <1>4. \A d \in Calls \ {c} : CallOK(d)' /\ CopyOK(d)'
    BY <1>2, <1>3, OthersKept
  <1>5. CopyOK(c)'
    BY DEF IInv, CopyOK
  <1>6. \A d \in Calls : Writing(d)' => Writing(d) /\ frame'[d].op = frame[d].op
    BY <1>2 DEF Writing, At
  <1>7. EditsDistinct'
    BY <1>6 DEF IInv, EditsDistinct
  <1>8. DiskOK'
    BY DEF IInv, DiskOK
  <1> QED
    BY <1>1, <1>4, <1>5, <1>7, <1>8 DEF IInv

\* A call that returns without having changed the file keeps IInv.
LEMMA Returns ==
    ASSUME IInv, NEW c \in Calls, Return(c),
           UNCHANGED <<content, survivors, lifecycle, copies, drawn, acked>>
    PROVE  IInv'
  <1>1. IdleFrame \in Frames /\ IdleFrame.pc = "idle"
    BY DEF IdleFrame, Frames, PCs
  <1>2. frame'[c] = IdleFrame
    BY DEF Return, IInv, Types
  <1>3. CallOK(c)'
    BY <1>1, <1>2 DEF CallOK, At, Inside, Writing, UnderLock
  <1>4. lock' \in Calls \cup {Nil} /\ \A d \in Calls \ {c} : lock = d => lock' = d
    BY DEF Return, IInv, Types
  <1>5. frame' = [frame EXCEPT ![c] = frame'[c]] /\ lifecycle' = lifecycle
    BY Zenon, <1>2 DEF Return
  <1> QED
    BY <1>1, <1>2, <1>3, <1>4, <1>5, OneCallMoves

-----------------------------------------------------------------------------
\* Initially nothing is stored and nobody calls.
LEMMA InitEstablishes == Init => IInv
  <1> SUFFICES ASSUME Init PROVE IInv
    OBVIOUS
  <1> PICK r \in 0..MaxRevision : FileInit([EmptySnapshot EXCEPT !.revision = r])
    BY DEF Init
  <1> DEFINE first == [EmptySnapshot EXCEPT !.revision = r]
  <1>1. first \in Snapshots /\ first.edits = {} /\ ValidateSnapshot(first)
    BY BoundsAssumption DEF EmptySnapshot, Snapshots, ValidateSnapshot
  <1>2. IdleFrame \in Frames /\ IdleFrame.pc = "idle"
    BY DEF IdleFrame, Frames, PCs
  <1>3. \A c \in Calls : frame[c] = IdleFrame /\ copies[c] = Nil
    BY DEF Init, FileInit
  <1>4. Types
    BY <1>1, <1>2, BoundsAssumption DEF Init, FileInit, Types
  <1>5. \A c \in Calls : CallOK(c) /\ CopyOK(c)
    BY <1>2, <1>3 DEF CallOK, CopyOK, At, Inside, Writing, UnderLock
  <1>6. EditsDistinct
    BY <1>2, <1>3 DEF EditsDistinct, Writing, At
  <1>7. DiskOK
    BY <1>1 DEF DiskOK, Init, FileInit
  <1> QED
    BY <1>4, <1>5, <1>6, <1>7 DEF IInv

\* A new call draws an edit that no snapshot and no other call has.
LEMMA CallKeeps ==
    ASSUME IInv, NEW c \in Calls, NEW op \in Ops, Call(c, op)
    PROVE  IInv'
  <1> DEFINE f == [IdleFrame EXCEPT !.pc = "begin", !.op = op]
  <1>1. f \in Frames /\ f.pc = "begin" /\ f.op = op
    BY Zenon DEF IdleFrame, Frames, PCs
  <1>2. /\ frame' = [frame EXCEPT ![c] = f] /\ At(c, "idle")
        /\ UNCHANGED <<content, survivors, lock, lifecycle, copies, acked>>
    BY DEF Call, Start
  <1>3. frame'[c] = f /\ \A d \in Calls \ {c} : frame'[d] = frame[d]
    BY <1>2 DEF IInv, Types
  <1>4. /\ op.name # "load" => op.edit = drawn + 1 /\ drawn' = drawn + 1 /\ op.edit \in Edits
        /\ op.name = "load" => drawn' = drawn
    BY OpFields DEF Call
  <1>5. drawn \in Nat /\ drawn' \in 0..MaxEdits /\ drawn <= drawn'
    BY <1>4, BoundsAssumption DEF IInv, Types, Edits
  <1> HIDE DEF f
  <1>6. Types'
    BY <1>1, <1>2, <1>5 DEF IInv, Types
  <1>7. \A d \in Calls \ {c} : CallOK(d)' /\ CopyOK(d)'
    BY <1>2, <1>3, <1>5, OthersKept
  <1>8. CopyOK(c)'
    BY <1>2 DEF IInv, CopyOK
  <1>9. content.edits \subseteq 1..drawn /\ content' = content
    BY <1>2 DEF IInv, DiskOK
  <1>10. CallOK(c)'
    <2>1. op.name = "save" => copies[c] # Nil
      BY DEF Call
    <2>2. op.name # "load" => op.edit \in 1..drawn' /\ op.edit \notin content.edits
      BY <1>4, <1>5, <1>9
    <2> QED
      BY <1>1, <1>2, <1>3, <2>1, <2>2 DEF CallOK, At, Inside, Writing, UnderLock
  <1>11. EditsDistinct'
    <2>1. \A d \in Calls \ {c} : Writing(d)' = Writing(d)
      BY <1>3 DEF Writing, At
    <2>2. \A d \in Calls \ {c} : Writing(d) => frame[d].op.edit \in 1..drawn
      BY DEF IInv, CallOK
    <2>3. Writing(c)' => frame'[c].op.edit = drawn + 1
      BY <1>1, <1>3, <1>4 DEF Writing
    <2>4. \A d \in Calls \ {c} : Writing(c)' /\ Writing(d)' => frame'[c].op.edit # frame'[d].op.edit
      BY <1>3, <1>5, <2>1, <2>2, <2>3
    <2> QED
      BY <1>3, <2>1, <2>4 DEF IInv, EditsDistinct
  <1>12. DiskOK'
    BY <1>2, <1>5 DEF IInv, DiskOK
  <1> QED
    BY <1>6, <1>7, <1>8, <1>10, <1>11, <1>12 DEF IInv

\* Before the lock: beginOperation, the early returns, and the flock.
LEMMA BeforeLockKeeps ==
    ASSUME IInv, NEW c \in Calls,
           Begin(c) \/ Reject(c) \/ Acquire(c) \/ Expire(c) \/ Fails(c)
    PROVE  IInv'
  <1>1. CASE Reject(c) \/ Expire(c) \/ Fails(c)
    BY <1>1, Returns DEF Reject, Expire, LockExpired, Fails, Fail
  <1>2. CASE Begin(c) /\ lifecycle[HandleOf[c]] = "closed"
    BY <1>2, Returns DEF Begin, BeginOperation
  <1>3. CASE Begin(c) /\ lifecycle[HandleOf[c]] # "closed"
    <2>1. frame' = [frame EXCEPT ![c].pc = "poll"] /\ At(c, "begin") /\ lock' = lock
      BY <1>3 DEF Begin, BeginOperation, Goto
    <2>2. frame'[c] \in Frames /\ frame'[c].pc = "poll" /\ frame'[c].op = frame[c].op
      BY <2>1 DEF IInv, Types, Frames, PCs
    <2>3. frame' = [frame EXCEPT ![c] = frame'[c]] /\ ~At(c, "idle")
      BY <2>1 DEF IInv, Types, At
    <2>4. CallOK(c)'
      BY <1>3, <2>1, <2>2 DEF IInv, CallOK, At, Inside, Writing, UnderLock, Begin, BeginOperation
    <2>5. lock' \in Calls \cup {Nil} /\ lock' = lock
      BY <2>1 DEF IInv, Types
    <2> QED
      BY <1>3, <2>2, <2>3, <2>4, <2>5, OneCallMoves DEF Begin, BeginOperation
  <1>4. CASE Acquire(c)
    <2>1. frame' = [frame EXCEPT ![c].pc = "locked"] /\ At(c, "poll") /\ lock = Nil /\ lock' = c
      BY <1>4 DEF Acquire, AcquireLock, Goto
    <2>2. frame'[c] \in Frames /\ frame'[c].pc = "locked" /\ frame'[c].op = frame[c].op
      BY Zenon, <2>1 DEF IInv, Types, Frames, PCs, UnderLock
    <2>3. frame' = [frame EXCEPT ![c] = frame'[c]] /\ ~At(c, "idle")
      BY <2>1 DEF IInv, Types, At
    <2>4. CallOK(c)'
      <3>1. /\ frame[c].op.name = "save" => ValidateSnapshot(Changed(frame[c].op, copies[c]))
            /\ UNCHANGED <<content, lifecycle, copies, drawn>>
        BY <1>4 DEF Acquire, AcquireLock, Admissible
      <3> QED
        BY <2>1, <2>2, <3>1 DEF IInv, CallOK, At, Inside, Writing, UnderLock
    <2>5. lock' \in Calls \cup {Nil} /\ \A d \in Calls \ {c} : lock = d => lock' = d
      BY <2>1, NilAssumption
    <2> QED
      BY <1>4, <2>2, <2>3, <2>4, <2>5, OneCallMoves DEF Acquire, AcquireLock
  <1> QED
    BY <1>1, <1>2, <1>3, <1>4

\* The file does not change between the load and the write of one call.
LEMMA LoadKeeps ==
    ASSUME IInv, NEW c \in Calls, LoadFile(c)
    PROVE  IInv'
  <1>1. frame' = [frame EXCEPT ![c].pc = "loaded", ![c].snap = content] /\ At(c, "locked")
    BY DEF LoadFile, LoadLocked
  <1>2. /\ frame'[c] \in Frames /\ frame'[c].pc = "loaded"
        /\ frame'[c].op = frame[c].op /\ frame'[c].snap = content
    BY Zenon, <1>1 DEF IInv, Types, Frames, PCs, UnderLock
  <1>3. frame' = [frame EXCEPT ![c] = frame'[c]] /\ ~At(c, "idle")
    BY Zenon, <1>1 DEF IInv, Types, At
  <1>4. CallOK(c)'
    BY Zenon, <1>1, <1>2 DEF IInv, CallOK, At, Inside, Writing, UnderLock, LoadFile, LoadLocked
  <1>5. lock' = lock /\ lock' \in Calls \cup {Nil}
    BY DEF LoadFile, LoadLocked, IInv, Types
  <1> QED
    BY Zenon, <1>2, <1>3, <1>4, <1>5, OneCallMoves DEF LoadFile, LoadLocked

\* The copy that Load returns is the file.
LEMMA LoadReturnsKeeps ==
    ASSUME IInv, NEW c \in Calls, LoadReturns(c)
    PROVE  IInv'
  <1>1. /\ copies' = [copies EXCEPT ![c] = content]
        /\ frame' = [frame EXCEPT ![c] = IdleFrame]
        /\ UNCHANGED <<content, survivors, lifecycle, drawn, acked>>
    BY Zenon DEF LoadReturns, Return, IInv, CallOK
  <1>2. lock' \in Calls \cup {Nil} /\ \A d \in Calls \ {c} : lock = d => lock' = d
    BY DEF LoadReturns, Return, IInv, Types
  <1>3. IdleFrame \in Frames /\ IdleFrame.pc = "idle"
    BY DEF IdleFrame, Frames, PCs
  <1>4. Types'
    BY <1>1, <1>2, <1>3 DEF IInv, Types
  <1>5. /\ frame'[c] = IdleFrame /\ copies'[c] = content
        /\ \A d \in Calls \ {c} : frame'[d] = frame[d] /\ copies'[d] = copies[d]
    BY <1>1 DEF IInv, Types
  <1>6. drawn' \in Nat /\ drawn <= drawn'
    BY <1>1, BoundsAssumption DEF IInv, Types
  <1>7. \A d \in Calls \ {c} : CallOK(d)' /\ CopyOK(d)'
    BY <1>1, <1>2, <1>5, <1>6, OthersKept
  <1>8. CallOK(c)'
    BY <1>3, <1>5 DEF CallOK, At, Inside, Writing, UnderLock
  <1>9. CopyOK(c)'
    <2>1. content.revision \in Nat /\ content' = content
      BY <1>1, BoundsAssumption DEF IInv, Types, Snapshots
    <2> QED
      BY <1>5, <2>1 DEF CopyOK
  <1>10. EditsDistinct'
    BY <1>3, <1>5 DEF IInv, EditsDistinct, Writing, At
  <1>11. DiskOK'
    BY <1>1 DEF IInv, DiskOK
  <1> QED
    BY <1>4, <1>7, <1>8, <1>9, <1>10, <1>11 DEF IInv

\* A call that decides to write writes the content of the file with its own
\* edit added: Update works on what it loaded, and the revision that Save
\* compares identifies what its caller had.
LEMMA DecideKeeps ==
    ASSUME IInv, NEW c \in Calls, Save(c) \/ Update(c)
    PROVE  IInv'
  <1> DEFINE op == frame[c].op
             snap == frame[c].snap
             given == Changed(op, copies[c])
  <1>1. At(c, "loaded") /\ op.name # "load" /\ UNCHANGED <<copies, drawn, acked>>
    BY DEF Save, Update
  <1>2. op \in Ops /\ snap = content /\ content \in Snapshots /\ op.edit \in Edits
    BY <1>1, OpFields DEF IInv, CallOK, At, Types
  <1>3. CASE Return(c) /\ UNCHANGED <<content, survivors, lifecycle>>
    BY <1>1, <1>3, Returns
  <1>4. ASSUME NEW n \in Snapshots, n.edits = content.edits \cup {op.edit},
               n.revision = content.revision + 1, ValidateSnapshot(n), Replace(c, n)
        PROVE  IInv'
    <2>1. /\ frame' = [frame EXCEPT ![c].pc = "write", ![c].next = n]
          /\ UNCHANGED <<content, survivors, lock, lifecycle>>
      BY <1>4 DEF Replace
    <2>2. /\ frame'[c] \in Frames /\ frame'[c].pc = "write"
          /\ frame'[c].op = op /\ frame'[c].next = n
      BY Zenon, <2>1 DEF IInv, Types, Frames, PCs, UnderLock
    <2>3. frame' = [frame EXCEPT ![c] = frame'[c]] /\ ~At(c, "idle")
      BY Zenon, <1>1, <2>1 DEF IInv, Types, At
    <2>4. CallOK(c)'
      BY Zenon, <1>1, <1>4, <2>1, <2>2 DEF IInv, CallOK, At, Inside, Writing, UnderLock
    <2>5. lock' = lock /\ lock' \in Calls \cup {Nil}
      BY <2>1 DEF IInv, Types
    <2> QED
      BY Zenon, <1>1, <2>1, <2>2, <2>3, <2>4, <2>5, OneCallMoves
  <1>5. CASE Save(c) /\ SaveAllowed(given, snap) /\ Replace(c, Successor(given, op.edit))
    <2>1. copies[c] \in Snapshots /\ copies[c] # Nil /\ CopyOK(c) /\ ValidateSnapshot(given)
      BY <1>1, <1>5 DEF Save, IInv, CallOK, At, Types, UnderLock
    <2>2. given \in Snapshots /\ given.edits = copies[c].edits /\ given.revision = copies[c].revision
      BY <1>2, <2>1, ChangedKeeps
    <2>3. given.revision = content.revision /\ given.revision < MaxRevision
      BY <1>2, <1>5 DEF SaveAllowed
    <2>4. given.edits = content.edits
      BY <2>1, <2>2, <2>3 DEF CopyOK
    <2> QED
      BY <1>2, <1>4, <1>5, <2>1, <2>2, <2>3, <2>4, SuccessorAdds
  <1>6. CASE Update(c) /\ UpdateAllowed(op, snap) /\ Replace(c, Successor(Changed(op, snap), op.edit))
    <2>1. /\ Changed(op, snap) \in Snapshots /\ Changed(op, snap).edits = content.edits
          /\ Changed(op, snap).revision = content.revision
      BY <1>2, ChangedKeeps
    <2>2. Changed(op, snap).revision < MaxRevision /\ ValidateSnapshot(Changed(op, snap))
      BY <1>2, <1>6, <2>1 DEF UpdateAllowed
    <2> QED
      BY <1>2, <1>4, <1>6, <2>1, <2>2, SuccessorAdds
  <1> QED
    BY <1>3, <1>5, <1>6 DEF Save, Update

\* The temporary file is complete and synced before it is renamed.
LEMMA StageKeeps ==
    ASSUME IInv, NEW c \in Calls, Stage(c)
    PROVE  IInv'
  <1>1. frame' = [frame EXCEPT ![c].pc = "temp", ![c].synced = TRUE] /\ At(c, "write")
    BY DEF Stage, WriteTemp
  <1>2. /\ frame'[c] \in Frames /\ frame'[c].pc = "temp" /\ frame'[c].synced
        /\ frame'[c].op = frame[c].op /\ frame'[c].next = frame[c].next
    BY Zenon, <1>1 DEF IInv, Types, Frames, PCs, UnderLock
  <1>3. frame' = [frame EXCEPT ![c] = frame'[c]] /\ ~At(c, "idle")
    BY Zenon, <1>1 DEF IInv, Types, At
  <1>4. CallOK(c)'
    BY Zenon, <1>1, <1>2 DEF IInv, CallOK, At, Inside, Writing, UnderLock, Stage, WriteTemp
  <1>5. lock' = lock /\ lock' \in Calls \cup {Nil}
    BY DEF Stage, WriteTemp, IInv, Types
  <1> QED
    BY Zenon, <1>2, <1>3, <1>4, <1>5, OneCallMoves DEF Stage, WriteTemp

\* What the rename of a call does to the file and to the call.
LEMMA InstallEffect ==
    ASSUME IInv, NEW c \in Calls, Install(c)
    PROVE  /\ content' \in Snapshots
           /\ content'.edits = content.edits \cup {frame[c].op.edit}
           /\ content'.revision = content.revision + 1 /\ ValidateSnapshot(content')
           /\ survivors' = survivors \cup {content'}
           /\ frame[c].op.edit \in 1..drawn /\ frame[c].op.edit \notin content.edits
           /\ Writing(c) /\ lock = c
           /\ frame'[c] \in Frames /\ frame'[c].pc = "renamed" /\ frame'[c].op = frame[c].op
           /\ \A d \in Calls \ {c} : frame'[d] = frame[d] /\ frame[d].pc \notin UnderLock
           /\ UNCHANGED <<lock, lifecycle, copies, drawn, acked>>
  <1>1. /\ At(c, "temp") /\ content' = frame[c].next
        /\ frame' = [frame EXCEPT ![c].pc = "renamed"]
        /\ UNCHANGED <<lock, lifecycle, copies, drawn, acked>>
    BY DEF Install, Rename, Goto
  <1>2. CallOK(c) /\ frame[c].pc = "temp"
    BY <1>1 DEF IInv, At
  <1>3. /\ content' \in Snapshots
        /\ content'.edits = content.edits \cup {frame[c].op.edit}
        /\ content'.revision = content.revision + 1 /\ ValidateSnapshot(content')
        /\ frame[c].op.edit \in 1..drawn /\ frame[c].op.edit \notin content.edits
        /\ Writing(c) /\ lock = c /\ frame[c].synced
    BY <1>1, <1>2 DEF CallOK, At, UnderLock
  <1>4. survivors' = survivors \cup {content'}
    BY <1>1, <1>3 DEF Install, Rename
  <1>5. frame'[c] \in Frames /\ frame'[c].pc = "renamed" /\ frame'[c].op = frame[c].op
    BY <1>1 DEF IInv, Types, Frames, PCs, UnderLock
  <1>6. \A d \in Calls \ {c} : frame'[d] = frame[d] /\ frame[d].pc \notin UnderLock
    BY <1>1, <1>3 DEF IInv, Types, CallOK
  <1> QED
    BY <1>1, <1>3, <1>4, <1>5, <1>6

\* The rename makes every other copy old and adds one edit.
LEMMA InstallKeeps ==
    ASSUME IInv, NEW c \in Calls, Install(c)
    PROVE  IInv'
  <1>1. frame' \in [Calls -> Frames]
    BY Zenon, InstallEffect DEF Install, Rename, Goto, IInv, Types
  <1>2. Types'
    BY <1>1, InstallEffect DEF IInv, Types
  <1>3. CallOK(c)'
    <2>1. /\ frame'[c].pc = "renamed" /\ frame'[c].op = frame[c].op
          /\ copies' = copies /\ lifecycle' = lifecycle /\ lock' = c /\ drawn' = drawn
          /\ frame[c].op.edit \in content'.edits
      BY InstallEffect
    <2>2. At(c, "temp") /\ CallOK(c)
      BY DEF Install, Rename, IInv
    <2> QED
      BY <2>1, <2>2 DEF CallOK, At, Inside, Writing, UnderLock
  <1>4. ASSUME NEW d \in Calls \ {c} PROVE CallOK(d)'
    <2>1. /\ frame'[d] = frame[d] /\ copies'[d] = copies[d] /\ drawn' = drawn
          /\ frame[d].pc \notin UnderLock /\ lifecycle' = lifecycle
      BY InstallEffect
    <2>2. Writing(d) => frame[d].op.edit # frame[c].op.edit
      BY InstallEffect DEF IInv, EditsDistinct
    <2>4. Writing(d) => frame[d].op.edit \notin content.edits
      BY <2>1 DEF IInv, CallOK, At, UnderLock
    <2>5. content'.edits = content.edits \cup {frame[c].op.edit}
      BY Zenon, InstallEffect
    <2>3. Writing(d) => frame[d].op.edit \notin content'.edits
      BY Zenon, <2>2, <2>4, <2>5
    <2> QED
      BY <2>1, <2>3 DEF IInv, CallOK, At, Inside, Writing, UnderLock
  <1>5. ASSUME NEW d \in Calls PROVE CopyOK(d)'
    <2>1. copies'[d] = copies[d] /\ content'.revision = content.revision + 1
      BY Zenon, InstallEffect
    <2>2. content.revision \in Nat /\ (copies[d] # Nil => copies[d].revision \in Nat)
      BY BoundsAssumption DEF IInv, Types, Snapshots
    <2> QED
      BY <2>1, <2>2 DEF IInv, CopyOK
  <1>6. EditsDistinct'
    <2>1. \A d \in Calls : Writing(d)' => Writing(d) /\ frame'[d].op = frame[d].op
      BY InstallEffect DEF Writing, At
    <2> QED
      BY <2>1 DEF IInv, EditsDistinct
  <1>7. DiskOK'
    BY InstallEffect DEF IInv, DiskOK
  <1> QED
    BY <1>2, <1>3, <1>4, <1>5, <1>6, <1>7 DEF IInv

\* The call that returns nil has its edit in the only file a power failure can
\* leave.
LEMMA FinishKeeps ==
    ASSUME IInv, NEW c \in Calls, Finish(c)
    PROVE  IInv'
  <1>1. /\ At(c, "renamed") /\ Return(c) /\ survivors' = {content}
        /\ acked' = acked \cup {frame[c].op.edit}
        /\ UNCHANGED <<content, lifecycle, copies, drawn>>
    BY DEF Finish, SyncRoot
  <1>2. frame[c].op.edit \in content.edits /\ frame[c].op.edit \in Edits
    BY <1>1, OpFields DEF IInv, CallOK, Writing
  <1>3. frame' = [frame EXCEPT ![c] = IdleFrame]
    BY <1>1 DEF Return
  <1>4. IdleFrame \in Frames /\ IdleFrame.pc = "idle"
    BY DEF IdleFrame, Frames, PCs
  <1>5. frame'[c] = IdleFrame /\ \A d \in Calls \ {c} : frame'[d] = frame[d]
    BY <1>3 DEF IInv, Types
  <1>6. lock' \in Calls \cup {Nil} /\ \A d \in Calls \ {c} : lock = d => lock' = d
    BY <1>1 DEF Return, IInv, Types
  <1>7. Types'
    BY <1>1, <1>2, <1>3, <1>4, <1>6 DEF IInv, Types
  <1>8. drawn' \in Nat /\ drawn <= drawn'
    BY <1>1, BoundsAssumption DEF IInv, Types
  <1>9. \A d \in Calls \ {c} : CallOK(d)' /\ CopyOK(d)'
    BY Zenon, <1>1, <1>5, <1>6, <1>8, OthersKept
  <1>10. CallOK(c)' /\ CopyOK(c)'
    BY Zenon, <1>1, <1>4, <1>5 DEF IInv, CallOK, CopyOK, At, Inside, Writing, UnderLock
  <1>11. EditsDistinct'
    BY Zenon, <1>4, <1>5 DEF IInv, EditsDistinct, Writing, At
  <1>12. DiskOK'
    BY Zenon, <1>1, <1>2 DEF IInv, DiskOK
  <1> QED
    BY <1>7, <1>9, <1>10, <1>11, <1>12 DEF IInv

\* Close is granted only when no operation of the handle is under way.
LEMMA CloseKeeps ==
    ASSUME IInv, NEW h \in Handles, Close(h)
    PROVE  IInv'
  <1>1. /\ UNCHANGED <<content, survivors, lock, frame, copies, drawn, acked>>
        /\ lifecycle' \in [Handles -> {"open", "closing", "closed"}]
    BY DEF Close, CloseHandle, CloseGranted, IInv, Types
  <1>2. Types' /\ DiskOK' /\ EditsDistinct'
    BY Zenon, <1>1 DEF IInv, Types, DiskOK, EditsDistinct, Writing, At
  <1>3. \A c \in Calls : Inside(c) => lifecycle'[HandleOf[c]] # "closed"
    BY Zenon, HandleOfAssumption DEF Close, CloseHandle, CloseGranted, IInv, Types, CallOK
  <1>4. \A c \in Calls : CallOK(c)' /\ CopyOK(c)'
    BY Zenon, <1>1, <1>3 DEF IInv, CallOK, CopyOK, Inside, Writing, At
  <1> QED
    BY <1>2, <1>4 DEF IInv

\* The death of a process takes its calls and its lock, not the file.
LEMMA DieKeeps ==
    ASSUME IInv, NEW h \in Handles, Die(h)
    PROVE  IInv'
  <1> DEFINE mine == {c \in Calls : HandleOf[c] = h}
  <1>1. /\ frame' = [c \in Calls |-> IF c \in mine THEN IdleFrame ELSE frame[c]]
        /\ lock' = (IF lock \in mine THEN Nil ELSE lock)
        /\ lifecycle' = [lifecycle EXCEPT ![h] = "open"]
        /\ copies' = [c \in Calls |-> IF HandleOf[c] = h THEN Nil ELSE copies[c]]
        /\ UNCHANGED <<content, survivors, drawn, acked>>
    BY DEF Die, Crash
  <1>2. IdleFrame \in Frames /\ IdleFrame.pc = "idle"
    BY DEF IdleFrame, Frames, PCs
  <1>3. Types'
    BY <1>1, <1>2 DEF IInv, Types
  <1>4. \A c \in mine : frame'[c] = IdleFrame /\ copies'[c] = Nil
    BY <1>1
  <1>5. \A c \in Calls \ mine : frame'[c] = frame[c] /\ copies'[c] = copies[c]
    BY <1>1
  <1>6. \A c \in mine : CallOK(c)' /\ CopyOK(c)'
    BY <1>2, <1>4 DEF CallOK, CopyOK, At, Inside, Writing, UnderLock
  <1>7. drawn' \in Nat /\ drawn <= drawn' /\ \A c \in Calls \ mine : lock = c => lock' = c
    BY <1>1, BoundsAssumption DEF IInv, Types
  <1>8. \A c \in Calls \ mine : CallOK(c)' /\ CopyOK(c)'
    BY <1>1, <1>5, <1>7, OthersKept
  <1>9. EditsDistinct'
    <2>1. \A c \in Calls : Writing(c)' => Writing(c) /\ frame'[c] = frame[c]
      BY <1>2, <1>4, <1>5 DEF Writing, At
    <2> QED
      BY <2>1 DEF IInv, EditsDistinct
  <1>10. DiskOK'
    BY <1>1 DEF IInv, DiskOK
  <1> QED
    BY <1>3, <1>6, <1>8, <1>9, <1>10 DEF IInv

\* A power failure ends every call and leaves one of the surviving files.
LEMMA LosePowerKeeps ==
    ASSUME IInv, LosePower
    PROVE  IInv'
  <1>1. /\ content' \in survivors /\ survivors' = {content'} /\ lock' = Nil
        /\ frame' = [c \in Calls |-> IdleFrame] /\ copies' = [c \in Calls |-> Nil]
        /\ lifecycle' = [h \in Handles |-> "open"]
        /\ UNCHANGED <<drawn, acked>>
    BY DEF LosePower, PowerLoss
  <1>2. IdleFrame \in Frames /\ IdleFrame.pc = "idle"
    BY DEF IdleFrame, Frames, PCs
  <1>3. Types'
    BY <1>1, <1>2 DEF IInv, Types
  <1>4. \A c \in Calls : frame'[c] = IdleFrame /\ copies'[c] = Nil
    BY <1>1
  <1>5. \A c \in Calls : CallOK(c)' /\ CopyOK(c)'
    BY <1>2, <1>4 DEF CallOK, CopyOK, At, Inside, Writing, UnderLock
  <1>6. EditsDistinct'
    BY <1>2, <1>4 DEF EditsDistinct, Writing, At
  <1>7. DiskOK'
    BY <1>1 DEF IInv, DiskOK
  <1> QED
    BY <1>3, <1>5, <1>6, <1>7 DEF IInv

\* Every step keeps the inductive invariant.
LEMMA NextKeeps == IInv /\ [Next]_vars => IInv'
  <1> SUFFICES ASSUME IInv, [Next]_vars PROVE IInv'
    OBVIOUS
  <1>1. CASE UNCHANGED vars
    <2>1. Types' /\ DiskOK' /\ EditsDistinct'
      BY <1>1 DEF vars, IInv, Types, DiskOK, EditsDistinct, Writing, At
    <2>2. \A c \in Calls : CallOK(c)' /\ CopyOK(c)'
      BY Zenon, <1>1 DEF vars, IInv, CallOK, CopyOK, Inside, Writing, At
    <2> QED
      BY <2>1, <2>2 DEF IInv
  <1>2. ASSUME NEW c \in Calls, Step(c) PROVE IInv'
    BY <1>2, BeforeLockKeeps, LoadKeeps, LoadReturnsKeeps, DecideKeeps, StageKeeps,
       InstallKeeps, FinishKeeps DEF Step
  <1>3. ASSUME NEW c \in Calls, NEW op \in Ops, Call(c, op) PROVE IInv'
    BY <1>3, CallKeeps
  <1>4. ASSUME NEW h \in Handles, Close(h) \/ Die(h) PROVE IInv'
    BY <1>4, CloseKeeps, DieKeeps
  <1>5. CASE LosePower
    BY <1>5, LosePowerKeeps
  <1> QED
    BY <1>1, <1>2, <1>3, <1>4, <1>5 DEF Next

\* The inductive invariant holds in every state of every behaviour of the
\* state store.
THEOREM Invariance == Spec => []IInv
  BY InitEstablishes, NextKeeps, PTL DEF Spec

\* For any number of processes and goroutines, two calls are never between
\* lock and unlock of the state file together, and once Close has returned no
\* operation of that handle is under way.
THEOREM LocksAreKept == Spec => []LockDiscipline
  <1>1. IInv => OneInside
    BY DEF IInv, CallOK, OneInside
  <1>2. IInv => ClosedIsQuiet
    BY DEF IInv, CallOK, ClosedIsQuiet
  <1> QED
    BY <1>1, <1>2, Invariance, PTL DEF LockDiscipline

\* Neither a reader nor a power failure finds a half-written file, and every
\* file on disk passes the validation of the next load.
THEOREM FileIsValid == Spec => []StoredIsValid
  <1>1. IInv => WholeFile
    BY TornAssumption DEF IInv, Types, WholeFile
  <1>2. IInv => TypeOK
    BY DEF IInv, Types, Frames, PCs, TypeOK
  <1>3. IInv => \A snap \in survivors \cup {content} : ValidateSnapshot(snap)
    BY DEF IInv, DiskOK
  <1>4. IInv => StoredIsValid
    BY <1>1, <1>2, <1>3 DEF StoredIsValid
  <1> QED
    BY <1>4, Invariance, PTL

\* An edit whose Save, Update or Commit returned nil is in every file that a
\* reader or a power failure can find, however many processes write and die.
THEOREM AcknowledgedIsKept == Spec => []AckedKept
  <1>1. IInv => AckedKept
    BY DEF IInv, DiskOK, AckedKept
  <1> QED
    BY <1>1, Invariance, PTL

\* A caller whose copy carries the revision of the file has the file's content,
\* which is what the comparison in Save stands for.
THEOREM RevisionIsIdentity == Spec => []RevisionIdentifies
  <1>1. IInv => RevisionIdentifies
    BY DEF IInv, CopyOK, RevisionIdentifies
  <1> QED
    BY <1>1, Invariance, PTL

\* What a step of the store is to the log of edits: the rename applies an edit,
\* the return of nil acknowledges it, a power failure forgets, and every other
\* step is invisible.
LEMMA StepRefines == IInv /\ [Next]_vars => [EditLogSpec!Next]_<<content.edits, acked>>
  <1> SUFFICES ASSUME IInv, [Next]_vars
               PROVE  EditLogSpec!Next \/ UNCHANGED <<content.edits, acked>>
    OBVIOUS
  <1>1. ASSUME NEW c \in Calls, Install(c) PROVE EditLogSpec!Next
    <2>1. /\ content'.edits = content.edits \cup {frame[c].op.edit}
          /\ frame[c].op.edit \notin content.edits /\ acked' = acked /\ Writing(c)
      BY <1>1, InstallEffect
    <2>2. frame[c].op.edit \in Edits
      BY <2>1, OpFields DEF IInv, CallOK, Writing
    <2>3. EditLogSpec!Apply(frame[c].op.edit)
      BY <2>1 DEF EditLogSpec!Apply
    <2> QED
      BY <2>2, <2>3 DEF EditLogSpec!Next
  <1>2. ASSUME NEW c \in Calls, Finish(c) PROVE EditLogSpec!Next
    <2>1. /\ At(c, "renamed") /\ content' = content
          /\ acked' = acked \cup {frame[c].op.edit}
      BY <1>2 DEF Finish, SyncRoot
    <2>2. frame[c].op.edit \in content.edits /\ frame[c].op.edit \in Edits
      BY Zenon, <2>1, OpFields DEF IInv, CallOK, Writing
    <2>3. EditLogSpec!Acknowledge(frame[c].op.edit)
      BY <2>1, <2>2 DEF EditLogSpec!Acknowledge
    <2> QED
      BY <2>2, <2>3 DEF EditLogSpec!Next
  <1>3. CASE LosePower
    <2>1. content' \in survivors /\ acked' = acked
      BY <1>3 DEF LosePower, PowerLoss
    <2>2. EditLogSpec!Forget
      BY <2>1 DEF IInv, DiskOK, EditLogSpec!Forget
    <2> QED
      BY <2>2 DEF EditLogSpec!Next
  <1>4. ASSUME NEW c \in Calls, Step(c), ~Install(c), ~Finish(c)
        PROVE  content' = content /\ acked' = acked
    BY <1>4 DEF Step, Begin, BeginOperation, Reject, Acquire, AcquireLock, Expire,
                LockExpired, Fails, Fail, LoadFile, LoadLocked, LoadReturns, Save, Update,
                Replace, Stage, WriteTemp
  <1>5. ASSUME NEW c \in Calls, NEW op \in Ops, Call(c, op)
        PROVE  content' = content /\ acked' = acked
    BY <1>5 DEF Call, Start
  <1>6. ASSUME NEW h \in Handles, Close(h) \/ Die(h)
        PROVE  content' = content /\ acked' = acked
    BY <1>6 DEF Close, CloseHandle, CloseGranted, Die, Crash
  <1>7. CASE UNCHANGED vars
    BY <1>7 DEF vars
  <1> QED
    BY <1>1, <1>2, <1>3, <1>4, <1>5, <1>6, <1>7 DEF Next

\* The store handles together implement the log of edits: the files, locks,
\* renames and syncs of any number of processes look to their callers like one
\* atomic log.
THEOREM Refinement == Spec => ImplementsEditLog
  <1>1. Init => EditLogSpec!Init
    <2> SUFFICES ASSUME Init PROVE EditLogSpec!Init
      OBVIOUS
    <2> PICK r \in 0..MaxRevision : content = [EmptySnapshot EXCEPT !.revision = r]
      BY DEF Init, FileInit
    <2>1. content.edits = {}
      BY DEF EmptySnapshot
    <2> QED
      BY <2>1 DEF Init, EditLogSpec!Init
  <1> QED
    BY <1>1, Invariance, StepRefines, PTL DEF Spec, ImplementsEditLog, EditLogSpec!Spec

-----------------------------------------------------------------------------
(* The file of secrets.                                                       *)

\* The locals of a call: the fields of a record.
SecretLocals(f) ==
    \E pc, op, snap, next, synced :
        f \in [pc : {pc}, op : {op}, snap : {snap}, next : {next}, synced : {synced}]

\* What a call under the lock knows is what the file holds, but for its key.
SecretFits(c) ==
    /\ secretFrame[c].pc = "loaded" => secretFrame[c].snap = secretContent
    /\ secretFrame[c].pc \in {"write", "temp"} =>
         /\ DOMAIN secretFrame[c].next = Keys
         /\ \A k \in Keys : k # secretFrame[c].op.key => secretFrame[c].next[k] = secretContent[k]
    /\ secretFrame[c].pc = "temp" => secretFrame[c].synced = TRUE

\* Of a key not renamed since the last sync a power failure leaves what is there.
DurableFits ==
    durable \subseteq Keys /\ \A k \in durable : \A values \in secretSurvivors : values[k] = secretContent[k]

SecretInv ==
    /\ DOMAIN promised = Keys /\ DurableFits
    /\ \A values \in secretSurvivors \cup {secretContent} : DOMAIN values = Keys
    /\ DOMAIN secretFrame = Calls
    /\ \A c \in Calls : SecretLocals(secretFrame[c]) /\ SecretFits(c)
    /\ \A c \in Calls : secretFrame[c].pc \in File!UnderLock => secretLock = c
    /\ PromisedKept

\* A call that has not begun.
LEMMA IdleSecret == SecretLocals(File!IdleFrame) /\ File!IdleFrame.pc = "idle"
  <1>1. File!IdleFrame \in [pc : {"idle"}, op : {Nil}, snap : {Nil}, next : {Nil}, synced : {FALSE}]
    BY Zenon DEF File!IdleFrame
  <1> QED
    BY Zenon, <1>1 DEF SecretLocals

\* A step of one call that leaves the file alone.
LEMMA QuietFits ==
    ASSUME SecretInv, NEW c \in Calls, DOMAIN secretFrame' = Calls,
           \A d \in Calls : d # c => secretFrame'[d] = secretFrame[d],
           SecretLocals(secretFrame'[c]), SecretFits(c)',
           secretFrame'[c].pc \in File!UnderLock => secretLock' = c,
           \A d \in Calls : d # c /\ secretLock = d => secretLock' = d,
           UNCHANGED <<secretContent, secretSurvivors, durable>>,
           UNCHANGED promised \/ (DOMAIN promised' = Keys /\ PromisedKept')
    PROVE  SecretInv'
  <1>1. \A d \in Calls : SecretLocals(secretFrame'[d])
    BY Zenon DEF SecretInv
  <1>2. \A d \in Calls : SecretFits(d)'
    <2> SUFFICES ASSUME NEW d \in Calls, d # c PROVE SecretFits(d)'
      BY Zenon
    <2>1. SecretFits(d)
      BY Zenon DEF SecretInv
    <2> QED
      BY Zenon, <2>1 DEF SecretFits
  <1>3. \A d \in Calls : secretFrame'[d].pc \in File!UnderLock => secretLock' = d
    BY Zenon DEF SecretInv, File!UnderLock
  <1>4. PromisedKept'
    BY Zenon DEF SecretInv, PromisedKept
  <1>5. DurableFits'
    BY Zenon DEF SecretInv, DurableFits
  <1> QED
    BY Zenon, <1>1, <1>2, <1>3, <1>4, <1>5 DEF SecretInv, File!UnderLock

\* A call returns and releases what it has.
LEMMA SecretReturns ==
    ASSUME SecretInv, NEW c \in Calls, File!Return(c),
           UNCHANGED <<secretContent, secretSurvivors, durable>>,
           UNCHANGED promised \/ (DOMAIN promised' = Keys /\ PromisedKept')
    PROVE  SecretInv'
  <1>1. /\ secretFrame' = [secretFrame EXCEPT ![c] = File!IdleFrame]
        /\ secretLock' = IF secretLock = c THEN Nil ELSE secretLock
    BY Zenon DEF File!Return
  <1>2. DOMAIN secretFrame' = Calls /\ secretFrame'[c] = File!IdleFrame
    BY Zenon, <1>1 DEF SecretInv
  <1>3. \A d \in Calls : d # c => secretFrame'[d] = secretFrame[d]
    BY Zenon, <1>1 DEF SecretInv
  <1>4. SecretLocals(secretFrame'[c]) /\ secretFrame'[c].pc = "idle"
    BY Zenon, <1>2, IdleSecret
  <1>5. SecretFits(c)' /\ secretFrame'[c].pc \notin File!UnderLock
    BY Zenon, <1>4 DEF SecretFits, File!UnderLock
  <1>6. \A d \in Calls : d # c /\ secretLock = d => secretLock' = d
    BY Zenon, <1>1
  <1> QED
    BY Zenon, <1>2, <1>3, <1>4, <1>5, <1>6, QuietFits

\* A call that has not got the lock, or goes on under it.
LEMMA SecretGoes ==
    ASSUME SecretInv, NEW c \in Calls, NEW f, SecretLocals(f),
           DOMAIN secretFrame' = Calls, secretFrame'[c] = f,
           \A d \in Calls : d # c => secretFrame'[d] = secretFrame[d],
           \/ f.pc \in {"begin", "poll"} /\ UNCHANGED secretLock
           \/ f.pc = "locked" /\ secretLock = Nil /\ secretLock' = c
           \/ /\ secretFrame[c].pc \in File!UnderLock /\ UNCHANGED secretLock
              /\ f.pc = "loaded" => f.snap = secretContent
              /\ f.pc \in {"write", "temp"} =>
                   DOMAIN f.next = Keys /\ \A k \in Keys : k # f.op.key => f.next[k] = secretContent[k]
              /\ f.pc = "temp" => f.synced = TRUE,
           UNCHANGED <<secretContent, secretSurvivors, promised, durable>>
    PROVE  SecretInv'
  <1>1. SecretFits(c)'
    BY Zenon DEF SecretFits
  <1>2. secretFrame'[c].pc \in File!UnderLock => secretLock' = c
    BY Zenon DEF File!UnderLock, SecretInv
  <1>3. \A d \in Calls : d # c /\ secretLock = d => secretLock' = d
    BY Zenon, NilAssumption
  <1> QED
    BY Zenon, <1>1, <1>2, <1>3, QuietFits

\* The locals of a call that only goes to another place.
LEMMA SecretGoto ==
    ASSUME SecretInv, NEW c \in Calls, NEW p, File!Goto(c, p)
    PROVE  /\ DOMAIN secretFrame' = Calls /\ \A d \in Calls : d # c => secretFrame'[d] = secretFrame[d]
           /\ SecretLocals(secretFrame'[c]) /\ secretFrame'[c].pc = p
  <1>1. DOMAIN secretFrame' = Calls /\ \A d \in Calls : d # c => secretFrame'[d] = secretFrame[d]
    BY Zenon DEF SecretInv, File!Goto
  <1>2. PICK f : f = secretFrame[c]
    OBVIOUS
  <1>3. PICK pc, op, snap, next, synced :
          f \in [pc : {pc}, op : {op}, snap : {snap}, next : {next}, synced : {synced}]
    BY Zenon, <1>2 DEF SecretInv, SecretLocals
  <1>5. secretFrame'[c] = [f EXCEPT !.pc = p]
    BY Zenon, <1>2 DEF SecretInv, File!Goto
  <1>6. secretFrame'[c] \in [pc : {p}, op : {op}, snap : {snap}, next : {next}, synced : {synced}]
    BY Zenon, <1>3, <1>5
  <1>7. SecretLocals(secretFrame'[c]) /\ secretFrame'[c].pc = p
    BY Zenon, <1>6 DEF SecretLocals
  <1> QED
    BY Zenon, <1>1, <1>7

\* A call begins.
LEMMA SecretStarts == ASSUME SecretInv, NEW c \in Calls, NEW op, SecretCall(c, op) PROVE SecretInv'
  <1>1. /\ secretFrame' = [secretFrame EXCEPT ![c] = [File!IdleFrame EXCEPT !.pc = "begin", !.op = op]]
        /\ UNCHANGED <<secretContent, secretSurvivors, secretLock, promised, durable>>
    BY Zenon DEF SecretCall, history, File!Start
  <1>2. /\ DOMAIN secretFrame' = Calls /\ \A d \in Calls : d # c => secretFrame'[d] = secretFrame[d]
        /\ secretFrame'[c] = [File!IdleFrame EXCEPT !.pc = "begin", !.op = op]
    BY Zenon, <1>1 DEF SecretInv
  <1>3. secretFrame'[c] \in [pc : {"begin"}, op : {op}, snap : {Nil}, next : {Nil}, synced : {FALSE}]
    BY Zenon, <1>2 DEF File!IdleFrame
  <1>4. SecretLocals(secretFrame'[c]) /\ secretFrame'[c].pc = "begin"
    BY Zenon, <1>3 DEF SecretLocals
  <1> QED
    BY Zenon, <1>1, <1>2, <1>4, SecretGoes

\* A call gets the lifecycle lock, or the flock, or gives up.
LEMMA SecretPolls ==
    ASSUME SecretInv, NEW c \in Calls, SecretBegin(c) \/ SecretReject(c) \/ SecretLock(c)
    PROVE  SecretInv'
  <1>1. UNCHANGED <<secretContent, secretSurvivors, promised, durable>>
    BY Zenon DEF SecretBegin, SecretReject, SecretLock, history, File!BeginOperation, File!AcquireLock, File!LockExpired
  <1>2. \/ File!Return(c)
        \/ File!Goto(c, "poll") /\ UNCHANGED secretLock
        \/ File!Goto(c, "locked") /\ secretLock = Nil /\ secretLock' = c
    BY Zenon DEF SecretBegin, SecretReject, SecretLock, File!BeginOperation, File!AcquireLock, File!LockExpired
  <1>3. CASE File!Return(c)
    BY Zenon, <1>1, <1>3, SecretReturns
  <1>4. CASE File!Goto(c, "poll") /\ UNCHANGED secretLock
    BY Zenon, <1>1, <1>4, SecretGoto, SecretGoes
  <1>5. CASE File!Goto(c, "locked") /\ secretLock = Nil /\ secretLock' = c
    BY Zenon, <1>1, <1>5, SecretGoto, SecretGoes
  <1> QED
    BY Zenon, <1>2, <1>3, <1>4, <1>5

\* A call loads the file.
LEMMA SecretLoads == ASSUME SecretInv, NEW c \in Calls, SecretLoad(c) PROVE SecretInv'
  <1> USE DEF SecretLoad, history
  <1>1. DOMAIN secretFrame' = Calls /\ \A d \in Calls : d # c => secretFrame'[d] = secretFrame[d]
    BY Zenon DEF SecretInv, File!LoadLocked
  <1>2. PICK f : f = secretFrame[c]
    OBVIOUS
  <1>3. PICK pc, op, snap, next, synced :
          f \in [pc : {pc}, op : {op}, snap : {snap}, next : {next}, synced : {synced}]
    BY Zenon, <1>2 DEF SecretInv, SecretLocals
  <1>5. secretFrame'[c] = [f EXCEPT !.pc = "loaded", !.snap = secretContent]
    BY Zenon, <1>2 DEF SecretInv, File!LoadLocked
  <1>6. secretFrame'[c] \in [pc : {"loaded"}, op : {op}, snap : {secretContent}, next : {next}, synced : {synced}]
    BY Zenon, <1>3, <1>5
  <1>7. SecretLocals(secretFrame'[c]) /\ secretFrame'[c].pc = "loaded" /\ secretFrame'[c].snap = secretContent
    BY Zenon, <1>6 DEF SecretLocals
  <1>8. /\ secretFrame[c].pc \in File!UnderLock
        /\ UNCHANGED <<secretContent, secretSurvivors, secretLock, promised, durable>>
    BY Zenon DEF File!LoadLocked, File!At, File!UnderLock
  <1> QED
    BY Zenon, <1>1, <1>7, <1>8, SecretGoes

\* A call that has only read returns, and so does one that fails.
LEMMA SecretEnds == ASSUME SecretInv, NEW c \in Calls, SecretRead(c) \/ SecretFail(c) PROVE SecretInv'
  <1>1. PICK key : key = secretFrame[c].op.key
    OBVIOUS
  <1>2. /\ File!Return(c) /\ UNCHANGED <<secretContent, secretSurvivors, durable>>
        /\ \/ UNCHANGED promised
           \/ /\ secretFrame[c].pc = "loaded" /\ secretFrame[c].snap[key] = NoSecret
              /\ promised' = [promised EXCEPT ![key] = NoSecret]
    BY Zenon, <1>1 DEF SecretRead, SecretFail, history, File!Fail, File!At
  <1>3. CASE UNCHANGED promised
    BY Zenon, <1>2, <1>3, SecretReturns
  <1>4. CASE /\ secretFrame[c].pc = "loaded" /\ secretFrame[c].snap[key] = NoSecret
             /\ promised' = [promised EXCEPT ![key] = NoSecret]
    <2>1. secretContent[key] = NoSecret
      BY Zenon, <1>4 DEF SecretInv, SecretFits
    <2>2. /\ DOMAIN promised' = Keys
          /\ \A k \in Keys : promised'[k] = IF k = key THEN NoSecret ELSE promised[k]
      BY Zenon, <1>4 DEF SecretInv
    <2>3. PromisedKept'
      <3> SUFFICES ASSUME NEW k \in Keys, promised'[k] # Nil
                   PROVE  /\ secretContent[k] = promised'[k]
                          /\ k \in durable => \A values \in secretSurvivors : values[k] = promised'[k]
        BY Zenon, <1>2 DEF PromisedKept
      <3>1. secretContent[k] = promised'[k]
        BY Zenon, <2>1, <2>2 DEF SecretInv, PromisedKept
      <3> QED
        BY Zenon, <3>1 DEF SecretInv, DurableFits
    <2> QED
      BY Zenon, <1>2, <2>2, <2>3, SecretReturns
  <1> QED
    BY Zenon, <1>2, <1>3, <1>4

\* A call has decided what to write: what it has loaded, but for its key.
LEMMA SecretDecides == ASSUME SecretInv, NEW c \in Calls, SecretSet(c) \/ SecretDelete(c) PROVE SecretInv'
  <1>0. PICK v : /\ secretFrame[c].pc = "loaded"
                 /\ File!Replace(c, [secretFrame[c].snap EXCEPT ![secretFrame[c].op.key] = v])
                 /\ UNCHANGED <<promised, durable>>
    BY Zenon DEF SecretSet, SecretDelete, history, File!At
  <1> DEFINE new == [secretFrame[c].snap EXCEPT ![secretFrame[c].op.key] = v]
  <1> USE <1>0
  <1>1. DOMAIN secretFrame' = Calls /\ \A d \in Calls : d # c => secretFrame'[d] = secretFrame[d]
    BY Zenon DEF SecretInv, File!Replace
  <1>2. PICK f : f = secretFrame[c]
    OBVIOUS
  <1>3. PICK pc, op, snap, next, synced :
          f \in [pc : {pc}, op : {op}, snap : {snap}, next : {next}, synced : {synced}]
    BY Zenon, <1>2 DEF SecretInv, SecretLocals
  <1>4. secretFrame[c].op = op /\ secretFrame[c].next = next
    BY Zenon, <1>2, <1>3
  <1>5. secretFrame'[c] = [f EXCEPT !.pc = "write", !.next = new]
    BY Zenon, <1>2 DEF SecretInv, File!Replace
  <1>6. secretFrame'[c] \in [pc : {"write"}, op : {op}, snap : {snap}, next : {new}, synced : {synced}]
    BY Zenon, <1>3, <1>5
  <1>7. SecretLocals(secretFrame'[c]) /\ secretFrame'[c].pc = "write" /\ secretFrame'[c].next = new /\ secretFrame'[c].op = op
    BY Zenon, <1>6 DEF SecretLocals
  <1>8. secretFrame[c].snap = secretContent /\ DOMAIN secretContent = Keys
    BY Zenon DEF SecretInv, SecretFits
  <1>9. DOMAIN new = Keys /\ \A k \in Keys : k # op.key => new[k] = secretContent[k]
    BY Zenon, <1>4, <1>8
  <1>10. /\ secretFrame[c].pc \in File!UnderLock
         /\ UNCHANGED <<secretContent, secretSurvivors, secretLock, promised, durable>>
    BY Zenon DEF File!Replace, File!UnderLock
  <1> HIDE DEF new
  <1> QED
    BY Zenon, <1>1, <1>7, <1>9, <1>10, SecretGoes

\* The temporary file is written and synced.
LEMMA SecretStages == ASSUME SecretInv, NEW c \in Calls, File!WriteTemp(c), UNCHANGED <<promised, durable>> PROVE SecretInv'
  <1>1. DOMAIN secretFrame' = Calls /\ \A d \in Calls : d # c => secretFrame'[d] = secretFrame[d]
    BY Zenon DEF SecretInv, File!WriteTemp
  <1>2. PICK f : f = secretFrame[c]
    OBVIOUS
  <1>3. PICK pc, op, snap, next, synced :
          f \in [pc : {pc}, op : {op}, snap : {snap}, next : {next}, synced : {synced}]
    BY Zenon, <1>2 DEF SecretInv, SecretLocals
  <1>4. secretFrame[c].op = op /\ secretFrame[c].next = next
    BY Zenon, <1>2, <1>3
  <1>5. secretFrame'[c] = [f EXCEPT !.pc = "temp", !.synced = TRUE]
    BY Zenon, <1>2 DEF SecretInv, File!WriteTemp
  <1>6. secretFrame'[c] \in [pc : {"temp"}, op : {op}, snap : {snap}, next : {next}, synced : {TRUE}]
    BY Zenon, <1>3, <1>5
  <1>7. /\ SecretLocals(secretFrame'[c]) /\ secretFrame'[c].pc = "temp" /\ secretFrame'[c].next = next
        /\ secretFrame'[c].op = op /\ secretFrame'[c].synced = TRUE
    BY Zenon, <1>6 DEF SecretLocals
  <1>8. secretFrame[c].pc = "write" /\ UNCHANGED <<secretContent, secretSurvivors, secretLock, promised, durable>>
    BY Zenon DEF File!WriteTemp, File!At
  <1>9. DOMAIN next = Keys /\ \A k \in Keys : k # op.key => next[k] = secretContent[k]
    BY Zenon, <1>4, <1>8 DEF SecretInv, SecretFits
  <1>10. secretFrame[c].pc \in File!UnderLock
    BY Zenon, <1>8 DEF File!UnderLock
  <1> QED
    BY Zenon, <1>1, <1>7, <1>8, <1>9, <1>10, SecretGoes

\* The rename puts the new file in place; nothing is promised of its key.
LEMMA SecretRenames ==
    ASSUME SecretInv, NEW c \in Calls, File!Rename(c),
           promised' = [promised EXCEPT ![secretFrame[c].op.key] = Nil],
           durable' = durable \ {secretFrame[c].op.key}
    PROVE  SecretInv'
  <1>1. PICK key, new : key = secretFrame[c].op.key /\ new = secretFrame[c].next
    BY Zenon
  <1>2. /\ secretFrame[c].pc = "temp" /\ File!Goto(c, "renamed")
        /\ secretContent' = new /\ UNCHANGED secretLock
        /\ secretSurvivors' = secretSurvivors \cup {IF secretFrame[c].synced THEN new ELSE Torn}
    BY Zenon, <1>1 DEF File!Rename, File!At
  <1>3. /\ DOMAIN new = Keys /\ secretFrame[c].synced = TRUE
        /\ \A k \in Keys : k # key => new[k] = secretContent[k]
    BY Zenon, <1>1, <1>2 DEF SecretInv, SecretFits
  <1>4. secretSurvivors' = secretSurvivors \cup {new}
    BY Zenon, <1>2, <1>3
  <1>5. /\ DOMAIN secretFrame' = Calls /\ \A d \in Calls : d # c => secretFrame'[d] = secretFrame[d]
        /\ SecretLocals(secretFrame'[c]) /\ secretFrame'[c].pc = "renamed"
    BY Zenon, <1>2, SecretGoto
  <1>6. secretLock = c
    BY Zenon, <1>2 DEF SecretInv, File!UnderLock
  <1>7. \A d \in Calls : SecretLocals(secretFrame'[d])
    BY Zenon, <1>5 DEF SecretInv
  <1>8. ASSUME NEW d \in Calls PROVE SecretFits(d)'
    <2>1. CASE d = c
      BY Zenon, <1>5, <2>1 DEF SecretFits
    <2>2. CASE d # c
      <3>1. secretFrame'[d].pc \notin File!UnderLock
        BY Zenon, <1>5, <1>6, <2>2 DEF SecretInv
      <3> QED
        BY Zenon, <3>1 DEF SecretFits, File!UnderLock
    <2> QED
      BY Zenon, <2>1, <2>2
  <1>9. \A d \in Calls : secretFrame'[d].pc \in File!UnderLock => secretLock' = d
    BY Zenon, <1>2, <1>5, <1>6 DEF SecretInv
  <1>10. DOMAIN promised' = Keys /\ \A k \in Keys : promised'[k] = IF k = key THEN Nil ELSE promised[k]
    BY Zenon, <1>1 DEF SecretInv
  <1>11. PromisedKept'
    <2> SUFFICES ASSUME NEW k \in Keys, promised'[k] # Nil
                 PROVE  /\ secretContent'[k] = promised'[k]
                        /\ k \in durable' => \A values \in secretSurvivors' : values[k] = promised'[k]
      BY Zenon DEF PromisedKept
    <2>1. k # key /\ promised'[k] = promised[k] /\ (k \in durable' => k \in durable)
      BY Zenon, <1>1, <1>10
    <2>2. /\ secretContent[k] = promised[k]
          /\ k \in durable => \A old \in secretSurvivors : old[k] = promised[k]
      BY Zenon, <2>1 DEF SecretInv, PromisedKept
    <2>3. secretContent' = new /\ \A values \in secretSurvivors' : values \in secretSurvivors \/ values = new
      BY Zenon, <1>2, <1>4
    <2> QED
      BY Zenon, <1>3, <2>1, <2>2, <2>3
  <1>12. \A values \in secretSurvivors' \cup {secretContent'} : DOMAIN values = Keys
    BY Zenon, <1>2, <1>3, <1>4 DEF SecretInv
  <1>13. DurableFits'
    <2>1. durable' \subseteq Keys /\ \A k \in durable' : k \in Keys /\ k # key /\ k \in durable
      BY Zenon, <1>1 DEF SecretInv, DurableFits
    <2>2. \A k \in durable : \A values \in secretSurvivors : values[k] = secretContent[k]
      BY Zenon DEF SecretInv, DurableFits
    <2> QED
      BY Zenon, <1>2, <1>3, <1>4, <2>1, <2>2 DEF DurableFits
  <1> QED
    BY Zenon, <1>5, <1>7, <1>8, <1>9, <1>10, <1>11, <1>12, <1>13 DEF SecretInv, File!UnderLock

\* Only one file is left when the directory is synced, and it is what is
\* promised.
LEMMA SecretSyncs ==
    ASSUME SecretInv, NEW c \in Calls, File!SyncRoot(c),
           promised' = [promised EXCEPT ![secretFrame[c].op.key] = secretContent[secretFrame[c].op.key]],
           durable' = Keys
    PROVE  SecretInv'
  <1>1. PICK key : key = secretFrame[c].op.key
    OBVIOUS
  <1>2. /\ File!Return(c) /\ secretContent' = secretContent /\ secretSurvivors' = {secretContent}
        /\ secretFrame' = [secretFrame EXCEPT ![c] = File!IdleFrame]
        /\ secretLock' = IF secretLock = c THEN Nil ELSE secretLock
    BY Zenon DEF File!SyncRoot, File!Return
  <1>3. /\ DOMAIN secretFrame' = Calls /\ secretFrame'[c] = File!IdleFrame
        /\ \A d \in Calls : d # c => secretFrame'[d] = secretFrame[d]
    BY Zenon, <1>2 DEF SecretInv
  <1>4. SecretLocals(secretFrame'[c]) /\ secretFrame'[c].pc = "idle"
    BY Zenon, <1>3, IdleSecret
  <1>5. \A d \in Calls : SecretLocals(secretFrame'[d])
    BY Zenon, <1>3, <1>4 DEF SecretInv
  <1>6. ASSUME NEW d \in Calls PROVE SecretFits(d)'
    <2>1. CASE d = c
      BY Zenon, <1>4, <2>1 DEF SecretFits
    <2>2. CASE d # c
      <3>1. SecretFits(d) /\ secretFrame'[d] = secretFrame[d]
        BY Zenon, <1>3, <2>2 DEF SecretInv
      <3> QED
        BY Zenon, <1>2, <3>1 DEF SecretFits
    <2> QED
      BY Zenon, <2>1, <2>2
  <1>7. \A d \in Calls : secretFrame'[d].pc \in File!UnderLock => secretLock' = d
    <2>1. secretFrame'[c].pc \notin File!UnderLock
      BY Zenon, <1>4 DEF File!UnderLock
    <2> QED
      BY Zenon, <1>2, <1>3, <2>1 DEF SecretInv
  <1>8. /\ DOMAIN promised' = Keys
        /\ \A k \in Keys : promised'[k] = IF k = key THEN secretContent[k] ELSE promised[k]
    BY Zenon, <1>1 DEF SecretInv
  <1>9. PromisedKept'
    BY Zenon, <1>2, <1>8 DEF SecretInv, PromisedKept
  <1>10. \A values \in secretSurvivors' \cup {secretContent'} : DOMAIN values = Keys
    BY Zenon, <1>2 DEF SecretInv
  <1>11. DurableFits'
    BY Zenon, <1>2 DEF DurableFits
  <1> QED
    BY Zenon, <1>3, <1>5, <1>6, <1>7, <1>8, <1>9, <1>10, <1>11 DEF SecretInv, File!UnderLock

\* A step that changes neither the file nor a call.
LEMMA SecretStays ==
    ASSUME SecretInv, UNCHANGED <<secretContent, secretSurvivors, secretLock, secretFrame, promised, durable>>
    PROVE  SecretInv'
  <1>1. PromisedKept' /\ DurableFits'
    BY Zenon DEF SecretInv, PromisedKept, DurableFits
  <1>2. \A c \in Calls : SecretFits(c)'
    BY Zenon DEF SecretInv, SecretFits
  <1>3. \A c \in Calls : secretFrame'[c].pc \in File!UnderLock => secretLock' = c
    BY Zenon DEF SecretInv, File!UnderLock
  <1>4. \A c \in Calls : SecretLocals(secretFrame'[c])
    BY Zenon DEF SecretInv
  <1> QED
    BY Zenon, <1>1, <1>2, <1>3, <1>4 DEF SecretInv

\* Close changes no file.
LEMMA SecretCloses == ASSUME SecretInv, NEW h \in Handles, SecretClose(h) PROVE SecretInv'
  <1>1. UNCHANGED <<secretContent, secretSurvivors, secretLock, secretFrame, promised, durable>>
    BY Zenon DEF SecretClose, history, File!CloseHandle, File!CloseGranted
  <1> QED
    BY Zenon, <1>1, SecretStays

\* A process dies and its calls with it.
LEMMA SecretDies == ASSUME SecretInv, NEW h \in Handles, File!Crash(h), UNCHANGED <<promised, durable>> PROVE SecretInv'
  <1> DEFINE mine == {c \in Calls : HandleOf[c] = h}
  <1>1. /\ secretFrame' = [c \in Calls |-> IF c \in mine THEN File!IdleFrame ELSE secretFrame[c]]
        /\ secretLock' = IF secretLock \in mine THEN Nil ELSE secretLock
        /\ UNCHANGED <<secretContent, secretSurvivors>>
    BY Zenon DEF File!Crash
  <1> HIDE DEF mine
  <1>2. DOMAIN secretFrame' = Calls
    BY Zenon, <1>1
  <1>3. ASSUME NEW c \in Calls
        PROVE  /\ SecretLocals(secretFrame'[c]) /\ SecretFits(c)'
               /\ secretFrame'[c].pc \in File!UnderLock => secretLock' = c
    <2>1. CASE c \in mine
      <3>1. SecretLocals(secretFrame'[c]) /\ secretFrame'[c].pc = "idle"
        BY Zenon, <1>1, <2>1, IdleSecret
      <3> QED
        BY Zenon, <3>1 DEF SecretFits, File!UnderLock
    <2>2. CASE c \notin mine
      <3>1. secretFrame'[c] = secretFrame[c] /\ SecretLocals(secretFrame[c]) /\ SecretFits(c)
        BY Zenon, <1>1, <2>2 DEF SecretInv
      <3>2. SecretFits(c)'
        BY Zenon, <1>1, <3>1 DEF SecretFits
      <3>3. secretFrame'[c].pc \in File!UnderLock => secretLock' = c
        BY Zenon, <1>1, <2>2, <3>1 DEF SecretInv
      <3> QED
        BY Zenon, <3>1, <3>2, <3>3
    <2> QED
      BY Zenon, <2>1, <2>2
  <1>4. PromisedKept'
    BY Zenon, <1>1 DEF SecretInv, PromisedKept
  <1>5. DurableFits'
    BY Zenon, <1>1 DEF SecretInv, DurableFits
  <1> QED
    BY Zenon, <1>1, <1>2, <1>3, <1>4, <1>5 DEF SecretInv, File!UnderLock

\* A power failure leaves one of the files that might be left.
LEMMA SecretPowerLoss ==
    ASSUME SecretInv, File!PowerLoss,
           promised' = [k \in Keys |-> IF k \in durable THEN promised[k] ELSE Nil], durable' = Keys
    PROVE  SecretInv'
  <1>1. /\ secretContent' \in secretSurvivors /\ secretSurvivors' = {secretContent'}
        /\ secretFrame' = [c \in Calls |-> File!IdleFrame]
    BY Zenon DEF File!PowerLoss
  <1>2. DOMAIN secretFrame' = Calls /\ \A c \in Calls : secretFrame'[c] = File!IdleFrame
    BY Zenon, <1>1
  <1>3. \A c \in Calls : SecretLocals(secretFrame'[c]) /\ secretFrame'[c].pc = "idle"
    BY Zenon, <1>2, IdleSecret
  <1>4. \A c \in Calls : SecretFits(c)' /\ secretFrame'[c].pc \notin File!UnderLock
    BY Zenon, <1>3 DEF SecretFits, File!UnderLock
  <1>5. PromisedKept' /\ DurableFits' /\ DOMAIN promised' = Keys
    BY Zenon, <1>1 DEF SecretInv, DurableFits, PromisedKept
  <1>6. \A values \in secretSurvivors' \cup {secretContent'} : DOMAIN values = Keys
    BY Zenon, <1>1 DEF SecretInv
  <1> QED
    BY Zenon, <1>2, <1>3, <1>4, <1>5, <1>6 DEF SecretInv, File!UnderLock

\* Every step keeps the invariant.
LEMMA SecretStep == SecretInv /\ [SecretNext]_secretVars => SecretInv'
  <1> SUFFICES ASSUME SecretInv, [SecretNext]_secretVars PROVE SecretInv'
    OBVIOUS
  <1>1. ASSUME NEW c \in Calls, NEW op \in SecretOps, SecretCall(c, op) PROVE SecretInv'
    BY Zenon, <1>1, SecretStarts
  <1>2. ASSUME NEW c \in Calls, SecretBegin(c) \/ SecretReject(c) \/ SecretLock(c) PROVE SecretInv'
    BY Zenon, <1>2, SecretPolls
  <1>3. ASSUME NEW c \in Calls, SecretLoad(c) PROVE SecretInv'
    BY Zenon, <1>3, SecretLoads
  <1>4. ASSUME NEW c \in Calls, SecretRead(c) \/ SecretFail(c) PROVE SecretInv'
    BY Zenon, <1>4, SecretEnds
  <1>5. ASSUME NEW c \in Calls, SecretSet(c) \/ SecretDelete(c) PROVE SecretInv'
    BY Zenon, <1>5, SecretDecides
  <1>6. ASSUME NEW c \in Calls, SecretWrite(c) PROVE SecretInv'
    BY Zenon, <1>6, SecretStages, SecretRenames, SecretSyncs DEF SecretWrite, history
  <1>7. ASSUME NEW h \in Handles, SecretClose(h) PROVE SecretInv'
    BY Zenon, <1>7, SecretCloses
  <1>8. CASE SecretCrash
    BY Zenon, <1>8, SecretDies, SecretPowerLoss DEF SecretCrash, history
  <1>9. CASE UNCHANGED secretVars
    BY Zenon, <1>9, SecretStays DEF secretVars
  <1> QED
    BY Zenon, <1>1, <1>2, <1>3, <1>4, <1>5, <1>6, <1>7, <1>8, <1>9 DEF SecretNext

\* The file of secrets is empty at first.
LEMMA SecretBegins == SecretInit => SecretInv
  <1> SUFFICES ASSUME SecretInit PROVE SecretInv
    OBVIOUS
  <1>1. /\ secretContent = [k \in Keys |-> NoSecret] /\ secretSurvivors = {secretContent}
        /\ promised = [k \in Keys |-> NoSecret] /\ durable = Keys
        /\ secretFrame = [c \in Calls |-> File!IdleFrame]
    BY Zenon DEF SecretInit, File!FileInit
  <1>2. DOMAIN secretFrame = Calls /\ \A c \in Calls : secretFrame[c] = File!IdleFrame
    BY Zenon, <1>1
  <1>3. \A c \in Calls : SecretLocals(secretFrame[c]) /\ secretFrame[c].pc = "idle"
    BY Zenon, <1>2, IdleSecret
  <1>4. \A c \in Calls : SecretFits(c) /\ secretFrame[c].pc \notin File!UnderLock
    BY Zenon, <1>3 DEF SecretFits, File!UnderLock
  <1>5. PromisedKept /\ DurableFits /\ DOMAIN promised = Keys
    BY Zenon, <1>1 DEF PromisedKept, DurableFits
  <1>6. \A values \in secretSurvivors \cup {secretContent} : DOMAIN values = Keys
    BY Zenon, <1>1
  <1> QED
    BY Zenon, <1>2, <1>3, <1>4, <1>5, <1>6 DEF SecretInv

\* What a Set or Delete that returned nil said of a secret stays true, whatever
\* the other processes write and whichever of them die, and once the directory is
\* synced whenever the power fails (fileStore.Set, fileStore.Delete and writeLocked).
THEOREM PromisesAreKept == SecretSpec => []PromisedKept
  <1>1. SecretInit => SecretInv
    BY Zenon, SecretBegins
  <1>2. SecretInv /\ [SecretNext]_secretVars => SecretInv'
    BY Zenon, SecretStep
  <1>3. SecretInv => PromisedKept
    BY Zenon DEF SecretInv
  <1> QED
    BY <1>1, <1>2, <1>3, PTL DEF SecretSpec
=============================================================================
