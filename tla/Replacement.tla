----------------------------- MODULE Replacement -----------------------------
(* The update of the installed executables (internal/update/install.go): the  *)
(* privileged helper stages the new files, moves each old file aside, moves   *)
(* the new one into place, and on failure puts the old files back.  Helpers   *)
(* may overlap, because a cancelled Apply kills sudo and not the helper; a    *)
(* helper may be killed and the power may fail at any step.                   *)
EXTENDS Naturals, Sequences, FiniteSets

CONSTANTS
    Targets,   \* the executables in the order they are replaced
    Helpers,   \* runs of the update helper
    None,      \* no file
    Old        \* the installed executable; a new one is named by its helper

Names == {Targets[i] : i \in DOMAIN Targets}

\* The executables have different names, and no helper is called like the old
\* file or like no file.
Sane ==
    /\ Targets \in Seq(Names) /\ Len(Targets) # 0
    /\ \A i, j \in DOMAIN Targets : Targets[i] = Targets[j] => i = j
    /\ Old # None /\ Old \notin Helpers /\ None \notin Helpers

ASSUME SaneAssumption == Sane

VARIABLES
    dir,     \* the installation directory
    images,  \* the directories a power failure may leave
    pc,      \* where a helper is
    at,      \* the index of the executable it is working on
    snap,    \* the snapshots of the targets it took when it prepared
    flags,   \* backedUp and installed of each replacement
    result   \* what the helper returned

vars == <<dir, images, pc, at, snap, flags, result>>

\* Files by name: the target, and per helper the staged file and the backup.
Init ==
    /\ dir = [target |-> [t \in Names |-> Old],
              staged |-> [h \in Helpers |-> [t \in Names |-> None]],
              backup |-> [h \in Helpers |-> [t \in Names |-> None]],
              marker |-> [h \in Helpers |-> {}]]
    /\ images = {dir}
    /\ pc = [h \in Helpers |-> "idle"]
    /\ at = [h \in Helpers |-> 0]
    /\ snap = [h \in Helpers |-> [t \in Names |-> None]]
    /\ flags = [h \in Helpers |-> [t \in Names |-> {}]]
    /\ result = [h \in Helpers |-> "none"]

This(h) == Targets[at[h]]

Go(h, l) == pc' = [pc EXCEPT ![h] = l]
Say(h, answer) == result' = [result EXCEPT ![h] = answer]
GoAt(h, l, i) == Go(h, l) /\ at' = [at EXCEPT ![h] = i]

\* A change of the directory, durable or not, and a sync of it.
Change(d) == dir' = d /\ images' = images \cup {d}
Synced == images' = {dir} /\ UNCHANGED dir
SameDir == UNCHANGED <<dir, images>>
SameLocals == UNCHANGED <<snap, flags, result>>

-----------------------------------------------------------------------------
\* Apply runs the installed helper through sudo; its checks, the comparison of
\* versions (a new helper is not older than the release), the download and the
\* unpacking change nothing.
Begin(h) ==
    /\ pc[h] = "idle"
    /\ \/ /\ \A t \in Names : dir.target[t] # None
          /\ dir.target[Targets[Len(Targets)]] = Old
          /\ GoAt(h, "prepare", 1)
          /\ UNCHANGED result
       \/ /\ Go(h, "returned") /\ UNCHANGED at
          /\ Say(h, "refused")
    /\ SameDir /\ UNCHANGED <<snap, flags>>

\* prepareReplacement: snapshot of the target, staged file, reserved name.
Prepare(h) ==
    LET t == This(h) IN
    /\ pc[h] = "prepare"
    /\ dir.target[t] # None
    /\ snap' = [snap EXCEPT ![h][t] = dir.target[t]]
    /\ Change([dir EXCEPT !.staged[h][t] = h])
    /\ IF at[h] = Len(Targets) THEN GoAt(h, "check", 1) ELSE GoAt(h, "prepare", at[h] + 1)
    /\ UNCHANGED <<flags, result>>

\* cleanupStagedReplacements: the staged files that can be removed go.
Unstaged(h, d) ==
    {[d EXCEPT !.staged[h] = [t \in Names |-> IF t \in kept THEN d.staged[h][t] ELSE None]] :
        kept \in SUBSET Names}

PrepareFails(h) ==
    /\ pc[h] = "prepare"
    /\ \E d \in Unstaged(h, dir) : Change(d)
    /\ Say(h, "failed")
    /\ Go(h, "returned")
    /\ UNCHANGED <<at, snap, flags>>

-----------------------------------------------------------------------------
\* installReplacements: check, move aside, sync and check, move in, sync and
\* check, for one executable after the other.
Fail(h) == GoAt(h, "rollback", Len(Targets))

CheckTarget(h) ==
    LET t == This(h) IN
    /\ pc[h] = "check"
    /\ \/ dir.target[t] = snap[h][t] /\ dir.staged[h][t] = h /\ Go(h, "backup") /\ UNCHANGED at
       \/ Fail(h)
    /\ SameDir /\ SameLocals

Backup(h) ==
    LET t == This(h) IN
    /\ pc[h] = "backup" /\ dir.target[t] # None
    /\ Change([dir EXCEPT !.backup[h][t] = dir.target[t], !.target[t] = None])
    /\ flags' = [flags EXCEPT ![h][t] = {"backedUp"}]
    /\ Go(h, "aside")
    /\ UNCHANGED <<at, snap, result>>

CheckBackup(h) ==
    LET t == This(h) IN
    /\ pc[h] = "aside"
    /\ Synced
    /\ IF dir.backup[h][t] = snap[h][t] THEN Go(h, "install") /\ UNCHANGED at ELSE Fail(h)
    /\ SameLocals

Install(h) ==
    LET t == This(h) IN
    /\ pc[h] = "install"
    /\ Change([dir EXCEPT !.target[t] = dir.staged[h][t], !.staged[h][t] = None])
    /\ flags' = [flags EXCEPT ![h][t] = {"backedUp", "installed"}]
    /\ Go(h, "inside")
    /\ UNCHANGED <<at, snap, result>>

CheckInstalled(h) ==
    LET t == This(h) IN
    /\ pc[h] = "inside"
    /\ Synced
    /\ IF dir.target[t] # h THEN Fail(h)
       ELSE IF at[h] < Len(Targets) THEN GoAt(h, "check", at[h] + 1) ELSE GoAt(h, "commit", 1)
    /\ SameLocals

\* A rename, a sync or a check fails.
InstallFails(h) ==
    /\ pc[h] \in {"backup", "aside", "install", "inside"}
    /\ Fail(h)
    /\ SameDir /\ SameLocals

-----------------------------------------------------------------------------
\* rollbackReplacements, from the last executable to the first.
Previous(h, answer) ==
    IF at[h] > 1
    THEN GoAt(h, "rollback", at[h] - 1) /\ Say(h, answer)
    ELSE Go(h, "returned") /\ UNCHANGED at /\ Say(h, IF answer = "none" THEN "failed" ELSE answer)

\* When the loop is done the staged files are removed.
Swept(h, d) == IF at[h] > 1 THEN {d} ELSE Unstaged(h, d)

NothingToRestore(h) ==
    LET t == This(h) IN
    /\ pc[h] = "rollback" /\ "backedUp" \notin flags[h][t]
    /\ \E d \in Swept(h, dir) : Change(d)
    /\ Previous(h, result[h])
    /\ UNCHANGED <<snap, flags>>

\* The new file is removed if it can be, and the old one is moved back over it.
RemoveInstalled(h) ==
    LET t == This(h) IN
    /\ pc[h] = "rollback" /\ "backedUp" \in flags[h][t]
    /\ \/ "installed" \in flags[h][t] /\ Change([dir EXCEPT !.target[t] = None])
       \/ SameDir
    /\ Go(h, "restore")
    /\ UNCHANGED at /\ SameLocals

Restore(h) ==
    LET t == This(h)
        d == [dir EXCEPT !.target[t] = dir.backup[h][t], !.backup[h][t] = None] IN
    /\ pc[h] = "restore"
    /\ flags' = [flags EXCEPT ![h][t] = {}]
    /\ \/ /\ d.target[t] = snap[h][t]
          /\ dir' \in Swept(h, d) /\ images' = {d, dir'}
          /\ Previous(h, result[h])
       \/ /\ \E e \in Swept(h, d) : Change(e)
          /\ Previous(h, "incomplete")
    /\ UNCHANGED snap

\* MUTANT: the failed restore is not remembered.
RestoreFails_Forgotten(h) ==
    /\ pc[h] = "restore"
    /\ \E d \in Swept(h, dir) : Change(d)
    /\ Previous(h, result[h])
    /\ UNCHANGED <<snap, flags>>

\* MUTANT: the backups are cleaned up after a failure as after a success.
RestoreFails_Cleaned(h) ==
    LET t == This(h) IN
    /\ pc[h] = "restore"
    /\ \E d \in Swept(h, [dir EXCEPT !.backup[h][t] = None]) : Change(d)
    /\ Previous(h, "incomplete")
    /\ UNCHANGED <<snap, flags>>

\* The old file cannot be moved back: its backup stays, with a marker beside it
\* unless that cannot be written either.
RestoreFails(h) ==
    LET t == This(h) IN
    /\ pc[h] = "restore"
    /\ \E m \in {{}, {t}} : \E d \in Swept(h, [dir EXCEPT !.marker[h] = @ \cup m]) : Change(d)
    /\ Previous(h, "incomplete")
    /\ UNCHANGED <<snap, flags>>

-----------------------------------------------------------------------------
\* cleanupCommittedReplacements: the backups go, those that can be removed.
Commit(h) ==
    LET t == This(h)
        d == [dir EXCEPT !.backup[h][t] = None] IN
    /\ pc[h] = "commit"
    /\ \/ SameDir
       \/ Change(d)
       \/ dir' = d /\ images' = {d}
    /\ IF at[h] < Len(Targets)
       THEN GoAt(h, "commit", at[h] + 1) /\ UNCHANGED result
       ELSE Go(h, "returned") /\ UNCHANGED at /\ Say(h, "ok")
    /\ UNCHANGED <<snap, flags>>

Kill(h) ==
    /\ pc[h] \notin {"idle", "returned", "dead", "off"}
    /\ Go(h, "dead")
    /\ UNCHANGED <<dir, images, at, snap, flags, result>>

PowerLoss ==
    /\ \E h \in Helpers : pc[h] # "off"
    /\ dir' \in images /\ images' = {dir'}
    /\ pc' = [h \in Helpers |-> "off"]
    /\ UNCHANGED <<at, snap, flags, result>>

HelperStep(h) ==
    \/ Begin(h) \/ Prepare(h) \/ PrepareFails(h)
    \/ CheckTarget(h) \/ Backup(h) \/ CheckBackup(h) \/ Install(h) \/ CheckInstalled(h)
    \/ InstallFails(h) \/ NothingToRestore(h) \/ RemoveInstalled(h) \/ Restore(h)
    \/ RestoreFails(h) \/ Commit(h)

Next == PowerLoss \/ \E h \in Helpers : HelperStep(h) \/ Kill(h)

Spec == Init /\ [][Next]_vars

-----------------------------------------------------------------------------
TypeOK ==
    /\ dir.target \in [Names -> Helpers \cup {Old, None}]
    /\ dir.backup \in [Helpers -> [Names -> Helpers \cup {Old, None}]]
    /\ dir \in images
    /\ at \in [Helpers -> 0..Len(Targets)]
    /\ flags \in [Helpers -> [Names -> SUBSET {"backedUp", "installed"}]]

\* An executable is at its place or in a backup, in the directory and in what a
\* power failure may leave of it.
SomewhereKept ==
    \A d \in images : \A t \in Names :
        d.target[t] # None \/ \E h \in Helpers : d.backup[h][t] # None

\* No executable is ever lost: at every moment, after every crash and with two
\* helpers at work, it is at its place or in a backup (installReplacements and
\* rollbackReplacements).
NothingLost == TypeOK /\ SomewhereKept

\* A helper that ran alone says what it did: after "ok" every executable is the
\* new one, after a plain failure every one is the old one and no backup is
\* left, and only ErrRollbackIncomplete may leave one missing, with its old
\* file in the backup.
HonestResult ==
    \A h \in Helpers : pc[h] = "returned" /\ (\A g \in Helpers \ {h} : pc[g] = "idle") =>
        /\ result[h] = "ok" => \A t \in Names : dir.target[t] = h
        /\ result[h] \in {"failed", "refused"} =>
             \A t \in Names : dir.target[t] = Old /\ dir.backup[h][t] = None
        /\ result[h] = "incomplete" =>
             \A t \in Names : dir.target[t] = Old \/ dir.backup[h][t] = Old
=============================================================================
