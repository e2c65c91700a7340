------------------------------ MODULE SecretFile ------------------------------
(* The fallback secret store (internal/secrets/file_store.go): Get, Set,      *)
(* Delete and Close of several handles over one file of secrets.              *)
EXTENDS StoreHandles

CONSTANTS
    Keys,     \* secret keys that validSecretKey accepts
    Secrets,  \* secret values within maxSecretBytes
    NoSecret  \* the value of a key that is not in the file

VARIABLES
    secretContent, secretSurvivors, secretLock,  \* the variables of the file
    secretFrame, secretLifecycle,
    promised, \* history: the value of a key as the last Set or Delete of it that
              \* returned nil left or found it, Nil once a later one, or a power
              \* failure before the directory was synced, may have replaced it
    durable   \* history: keys not renamed into the file since the last sync

secretVars ==
    <<secretContent, secretSurvivors, secretLock, secretFrame, secretLifecycle, promised, durable>>

history == <<promised, durable>>

File ==
    INSTANCE LockedFile WITH
        content <- secretContent, survivors <- secretSurvivors, lock <- secretLock,
        frame <- secretFrame, lifecycle <- secretLifecycle

SecretMaps == [Keys -> Secrets \cup {NoSecret}]

SecretOps ==
    [name : {"set"}, key : Keys, value : Secrets]
      \cup [name : {"delete", "get"}, key : Keys, value : {NoSecret}]
      \cup [name : {"invalid"}, key : Keys, value : {NoSecret}]

SecretInit ==
    /\ File!FileInit([k \in Keys |-> NoSecret])
    /\ promised = [k \in Keys |-> NoSecret]
    /\ durable = Keys

SecretCall(c, op) == File!Start(c, op) /\ UNCHANGED history
SecretBegin(c) == File!BeginOperation(c) /\ UNCHANGED history

\* An unusable key or a secret that is too large is refused before the lock.
SecretReject(c) ==
    /\ File!At(c, "poll") /\ secretFrame[c].op.name = "invalid"
    /\ File!Return(c)
    /\ UNCHANGED <<secretContent, secretSurvivors, secretLifecycle, history>>

SecretLock(c) ==
    /\ File!At(c, "poll") /\ secretFrame[c].op.name # "invalid"
    /\ File!AcquireLock(c) \/ File!LockExpired(c)
    /\ UNCHANGED history

SecretLoad(c) == File!LoadLocked(c) /\ UNCHANGED history

\* Get returns what it loaded, and a Delete of an absent key returns nil, without
\* a sync.
SecretRead(c) ==
    LET op == secretFrame[c].op IN
    /\ File!At(c, "loaded")
    /\ \/ op.name = "get" /\ UNCHANGED promised
       \/ /\ op.name = "delete" /\ secretFrame[c].snap[op.key] = NoSecret
          /\ promised' = [promised EXCEPT ![op.key] = NoSecret]
    /\ File!Return(c)
    /\ UNCHANGED <<secretContent, secretSurvivors, secretLifecycle, durable>>

SecretSet(c) ==
    LET op == secretFrame[c].op IN
    /\ File!At(c, "loaded") /\ op.name = "set"
    /\ File!Replace(c, [secretFrame[c].snap EXCEPT ![op.key] = op.value])
    /\ UNCHANGED history

SecretDelete(c) ==
    LET op == secretFrame[c].op IN
    /\ File!At(c, "loaded") /\ op.name = "delete"
    /\ secretFrame[c].snap[op.key] # NoSecret
    /\ File!Replace(c, [secretFrame[c].snap EXCEPT ![op.key] = NoSecret])
    /\ UNCHANGED history

SecretFail(c) == File!Fail(c) /\ UNCHANGED history

\* MUTANT: the secret is acknowledged before the directory is synced.
SecretWrite_Unsynced(c) ==
    LET key == secretFrame[c].op.key IN
    \/ File!WriteTemp(c) /\ UNCHANGED history
    \/ /\ File!Rename(c)
       /\ promised' = [promised EXCEPT ![key] = secretFrame[c].next[key]]
       /\ UNCHANGED durable
    \/ File!SyncRoot(c) /\ UNCHANGED history

\* writeLocked: the temporary file, the rename, the directory.
SecretWrite(c) ==
    LET key == secretFrame[c].op.key IN
    \/ File!WriteTemp(c) /\ UNCHANGED history
    \/ /\ File!Rename(c)
       /\ promised' = [promised EXCEPT ![key] = Nil]
       /\ durable' = durable \ {key}
    \/ /\ File!SyncRoot(c)
       /\ promised' = [promised EXCEPT ![key] = secretContent[key]]
       /\ durable' = Keys

SecretClose(h) == (File!CloseHandle(h) \/ File!CloseGranted(h)) /\ UNCHANGED history

SecretCrash ==
    \/ (\E h \in Handles : File!Crash(h)) /\ UNCHANGED history
    \/ /\ File!PowerLoss
       /\ promised' = [k \in Keys |-> IF k \in durable THEN promised[k] ELSE Nil]
       /\ durable' = Keys

SecretNext ==
    \/ \E c \in Calls :
         \/ \E op \in SecretOps : SecretCall(c, op)
         \/ SecretBegin(c) \/ SecretReject(c) \/ SecretLock(c) \/ SecretLoad(c)
         \/ SecretRead(c) \/ SecretSet(c) \/ SecretDelete(c) \/ SecretFail(c)
         \/ SecretWrite(c)
    \/ \E h \in Handles : SecretClose(h)
    \/ SecretCrash

SecretSpec == SecretInit /\ [][SecretNext]_secretVars

-----------------------------------------------------------------------------
\* What a Set or Delete that returned nil said of a secret holds until another
\* call replaces that very secret, whatever other processes write and whichever
\* of them die.  Once the directory is synced a power failure does not bring an
\* older value back either; a Delete that finds nothing to delete does not sync
\* it (fileStore.Set, fileStore.Delete and writeLocked).
PromisedKept ==
    \A k \in Keys : promised[k] # Nil =>
        /\ secretContent[k] = promised[k]
        /\ k \in durable => \A values \in secretSurvivors : values[k] = promised[k]
=============================================================================
