------------------------------ MODULE LockedFile ------------------------------
(* A file that several processes replace as a whole under an advisory lock:   *)
(* the part that state.Store (internal/state/store.go) and secrets.fileStore  *)
(* (internal/secrets/file_store.go) share with internal/filelock and          *)
(* internal/securepath.  A call takes the handle's lifecycle lock for reading,*)
(* polls the flock, loads the file, and either returns or writes a temporary  *)
(* file, syncs it, renames it over the file and syncs the directory.          *)
(* What a call does between the load and the write is the business of the     *)
(* modules that extend this one.                                              *)
EXTENDS Naturals, FiniteSets, StoreHandles

VARIABLES
    content,    \* what the file holds for whoever reads it
    survivors,  \* what it may hold after a power failure
    lock,       \* the call that holds the flock
    frame,      \* what a call in progress knows
    lifecycle   \* the handle's RWMutex and its closed flag

fileVars == <<content, survivors, lock, frame, lifecycle>>

IdleFrame == [pc |-> "idle", op |-> Nil, snap |-> Nil, next |-> Nil,
              synced |-> FALSE]

FileInit(empty) ==
    /\ content = empty
    /\ survivors = {empty}
    /\ lock = Nil
    /\ frame = [c \in Calls |-> IdleFrame]
    /\ lifecycle = [h \in Handles |-> "open"]

At(c, pc) == frame[c].pc = pc

Goto(c, pc) == frame' = [frame EXCEPT ![c].pc = pc]

\* A call returns: its deferred calls remove the temporary file, release the
\* flock and the lifecycle lock.
Return(c) ==
    /\ frame' = [frame EXCEPT ![c] = IdleFrame]
    /\ lock' = IF lock = c THEN Nil ELSE lock

Start(c, op) ==
    /\ At(c, "idle")
    /\ frame' = [frame EXCEPT ![c] = [IdleFrame EXCEPT !.pc = "begin", !.op = op]]
    /\ UNCHANGED <<content, survivors, lock, lifecycle>>

\* MUTANT: an operation is admitted although a Close waits for the handle.
BeginOperation_Overtakes(c) ==
    /\ At(c, "begin")
    /\ IF lifecycle[HandleOf[c]] = "closed"
       THEN Return(c)
       ELSE Goto(c, "poll") /\ UNCHANGED lock
    /\ UNCHANGED <<content, survivors, lifecycle>>

\* The RLock of a handle that a Close waits for is not granted.
BeginOperation(c) ==
    /\ At(c, "begin")
    /\ lifecycle[HandleOf[c]] # "closing"
    /\ IF lifecycle[HandleOf[c]] = "closed"
       THEN Return(c)
       ELSE Goto(c, "poll") /\ UNCHANGED lock
    /\ UNCHANGED <<content, survivors, lifecycle>>

\* MUTANT: the attempt is taken for a success whoever holds the lock.
AcquireLock_Shared(c) ==
    /\ At(c, "poll")
    /\ lock' = c
    /\ Goto(c, "locked")
    /\ UNCHANGED <<content, survivors, lifecycle>>

\* One LOCK_EX|LOCK_NB attempt that succeeds; the ones that do not change nothing.
AcquireLock(c) ==
    /\ At(c, "poll")
    /\ lock = Nil
    /\ lock' = c
    /\ Goto(c, "locked")
    /\ UNCHANGED <<content, survivors, lifecycle>>

\* The context of a waiting call ends, or the lock file cannot be used.
LockExpired(c) ==
    /\ At(c, "poll")
    /\ Return(c)
    /\ UNCHANGED <<content, survivors, lifecycle>>

\* A step under the lock fails and the call returns its error: the context has
\* ended by the time the flock is granted, the lock file was replaced, the file
\* is not valid, the encoding is too large, or a file operation fails.  The
\* failure after the rename leaves the new file in place.
UnderLock == {"locked", "loaded", "write", "temp", "renamed"}

Fail(c) ==
    /\ frame[c].pc \in UnderLock
    /\ Return(c)
    /\ UNCHANGED <<content, survivors, lifecycle>>

\* MUTANT: the load falls back to the previous file, kept until the directory is
\* synced.
LoadLocked_Backup(c) ==
    /\ At(c, "locked")
    /\ \E old \in survivors : frame' = [frame EXCEPT ![c].pc = "loaded", ![c].snap = old]
    /\ UNCHANGED <<content, survivors, lock, lifecycle>>

LoadLocked(c) ==
    /\ At(c, "locked")
    /\ frame' = [frame EXCEPT ![c].pc = "loaded", ![c].snap = content]
    /\ UNCHANGED <<content, survivors, lock, lifecycle>>

\* The operation has decided to replace the file by next.
Replace(c, next) ==
    /\ frame' = [frame EXCEPT ![c].pc = "write", ![c].next = next]
    /\ UNCHANGED <<content, survivors, lock, lifecycle>>

\* MUTANT: the temporary file is not synced.
WriteTemp_NoSync(c) ==
    /\ At(c, "write")
    /\ Goto(c, "temp")
    /\ UNCHANGED <<content, survivors, lock, lifecycle>>

\* The first half of writeLocked: temporary file, Write, Sync, Stat, Close.
WriteTemp(c) ==
    /\ At(c, "write")
    /\ frame' = [frame EXCEPT ![c].pc = "temp", ![c].synced = TRUE]
    /\ UNCHANGED <<content, survivors, lock, lifecycle>>

\* Until the directory is synced a power failure may leave the old file or the
\* new one, and of the new one only what was synced.
Rename(c) ==
    /\ At(c, "temp")
    /\ content' = frame[c].next
    /\ survivors' = survivors \cup
                       {IF frame[c].synced THEN frame[c].next ELSE Torn}
    /\ Goto(c, "renamed")
    /\ UNCHANGED <<lock, lifecycle>>

\* SyncRoot succeeds and the call returns nil.
SyncRoot(c) ==
    /\ At(c, "renamed")
    /\ survivors' = {content}
    /\ Return(c)
    /\ UNCHANGED <<content, lifecycle>>

\* Close asks for the lifecycle lock, and gets it when no operation holds it.
CloseHandle(h) ==
    /\ lifecycle[h] = "open"
    /\ lifecycle' = [lifecycle EXCEPT ![h] = "closing"]
    /\ UNCHANGED <<content, survivors, lock, frame>>

Inside(c) == frame[c].pc \notin {"idle", "begin"}

\* MUTANT: Close does not wait for the operations in flight.
CloseGranted_NoWait(h) ==
    /\ lifecycle[h] = "closing"
    /\ lifecycle' = [lifecycle EXCEPT ![h] = "closed"]
    /\ UNCHANGED <<content, survivors, lock, frame>>

CloseGranted(h) ==
    /\ lifecycle[h] = "closing"
    /\ \A c \in Calls : HandleOf[c] = h => ~Inside(c)
    /\ lifecycle' = [lifecycle EXCEPT ![h] = "closed"]
    /\ UNCHANGED <<content, survivors, lock, frame>>

\* The process of a handle dies, the kernel drops its flock, and a new process
\* opens the directory.
Crash(h) ==
    LET mine == {c \in Calls : HandleOf[c] = h} IN
    /\ frame' = [c \in Calls |-> IF c \in mine THEN IdleFrame ELSE frame[c]]
    /\ lock' = IF lock \in mine THEN Nil ELSE lock
    /\ lifecycle' = [lifecycle EXCEPT ![h] = "open"]
    /\ UNCHANGED <<content, survivors>>

PowerLoss ==
    /\ content' \in survivors
    /\ survivors' = {content'}
    /\ lock' = Nil
    /\ frame' = [c \in Calls |-> IdleFrame]
    /\ lifecycle' = [h \in Handles |-> "open"]

-----------------------------------------------------------------------------
\* A file is never left half written: neither a reader nor a power failure at
\* any step of writeLocked finds anything but a whole old or new file.
WholeFile == content # Torn /\ Torn \notin survivors

\* Once Close has returned no operation of the handle is under way, so none
\* uses the closed directory (beginOperation, endOperation and Close).
ClosedIsQuiet ==
    \A c \in Calls : lifecycle[HandleOf[c]] = "closed" => ~Inside(c)

\* Two calls are never between lock and unlock together, whichever process
\* they are in and however the earlier holder ended.
OneInside ==
    \A c, d \in Calls :
        frame[c].pc \in UnderLock /\ frame[d].pc \in UnderLock => c = d

\* The two locks do what they are for: the flock admits one call, and the
\* lifecycle lock keeps a closed handle quiet.
LockDiscipline == OneInside /\ ClosedIsQuiet

\* A Close that has been asked for returns, although new operations keep
\* arriving and other processes take the flock, unless one of the handle's own
\* operations waits for the flock for ever: the RWMutex lets no operation
\* overtake a Close (beginOperation, Close).
CloseReturns ==
    \A h \in Handles :
        (\A c \in Calls : HandleOf[c] = h => []<>~At(c, "poll"))
            => (lifecycle[h] = "closing" ~> lifecycle[h] # "closing")
=============================================================================
