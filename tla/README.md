# TuiBox: a TLA+ verification project

TuiBox is a terminal client (`tuibox`, run by the user) and a root daemon
(`tuiboxd`) that manages one sing-box process, the *core*. This directory holds
TLA+ models of the program, TLC configurations that check them on small
instances, and TLAPS proofs. File names below are relative to `src/`.

## The system

| component | state | operations | what makes it correct |
|---|---|---|---|
| session service, `internal/daemon/service.go` | gate token, `closed`, `generation`, `active` session, `status`; per session: stopping flag, roll-back target | Connect, Disconnect, Status, Health, Close; one monitor goroutine per session | one core at a time; a failed replacement brings the old session back; the status is true; every call returns |
| core runner, `internal/core/process.go` | map of prepared configurations, their files, `closed` | Prepare, Check, Start, PreparedConfig.Close, Close; Signal, Kill, Wait of a process | only a checked configuration is started; no file is forgotten |
| RPC server and client, `internal/rpc/` | set of connections, semaphore, socket file | Serve, one request per connection, Close | bounded connections; Close waits for all; an answer is true |
| daemon program, `cmd/tuiboxd/main.go` | what it has opened | start, wait for a signal, close server, then service | the order of the shutdown |
| application service, `internal/app/service.go` | latency cache; otherwise state file and secrets | AddSubscription, UpdateSubscriptions, RemoveSubscription, CheckLatency, Connect, CheckUpdate, ApplyUpdate | a subscription and its secret stay together; a stale refresh changes nothing; the endpoint that is connected is the one that was chosen |
| state store, file lock, `internal/state`, `internal/filelock` | `state.json`, its revision, the lock file | Load, Save, Update, CommitSubscriptionRefresh, Close | updates are serialised across processes; a crash leaves the old or the new file |
| secret stores, `internal/secrets` | secret file or platform credential store | Get, Set, Delete, Close | as for the state store |
| latency checker, `internal/latency` | worker pool | Check, Best | one result per endpoint in input order; Best is the minimum |
| updater, `internal/update` | three executables, staged files and backups | Check, Apply; the helper's download and replacement | what was offered is installed; the result that is reported is the one on disk |
| terminal interface, `internal/tui` | Model: servers, selection, cursor, generation, busy | keys, results of asynchronous commands | results of superseded commands are ignored; the selection exists |
| client program, `cmd/tuibox/main.go`, `internal/cli` | the two stores | every command, opening, closing, exit status | what was opened is closed; the status tells the outcome |
| parsers, fetcher, configuration generator, telemetry, text and path helpers, release tooling | none that outlives a call | functions, input and output | not modelled, see below |

**How they interact.** The terminal interface and the commands call the
application service. It reads and writes the state file (under the file lock) and
the secret store, fetches subscriptions, probes endpoints, and sends one request
per connection to the daemon. The RPC server runs each request in a goroutine with
a context that ends with the client's connection, the operation time-out or the
server; the goroutine calls the session service, which calls the runner. On a
signal, `tuiboxd` closes the server, which waits for the requests, and then the
service. An update is chosen by the client, which hands only the version to a
privileged helper; the helper chooses again and replaces the executables.

**What is hard.** Inside the daemon, one token guards operations that wait for
processes, while processes exit, monitors collect them, contexts expire and timers
fire; somebody else often has to finish what a caller gave up. On the client's
side, several processes share two files without a common transaction, and any of
them may fail after its write took effect, crash, or lose power. In the interface,
results arrive after the user has gone on. `PROJECT.json` lists these hazards line
by line, with the properties that would catch them.

## Modules

| module | models | |
|---|---|---|
| `CoreRunner` | `internal/core/process.go`, `process_unix.go` | prepared configurations, their files, processes |
| `DaemonService` | `internal/daemon/service.go` | extends `CoreRunner`; the session service, its callers and its monitors |
| `CoreSlot` | | abstract: one slot for a core process |
| `RpcProtocol` | `internal/rpc/protocol.go` | requests, error codes, answers, as operators |
| `RpcServer` | `internal/rpc/server.go`, `client.go` | extends `RpcProtocol`; accept loop, connections, handlers, Close, and the callers |
| `Daemon` | `cmd/tuiboxd/main.go` | extends `RpcServer`; the process around it |
| `SocketPath` | `internal/rpc/server.go` | the socket file, over several daemons |
| `Subscriptions` | `internal/app/service.go` | add, refresh, remove, latency check, identity key |
| `StoreHandles` | | the handles, the calls and the special values of both stores |
| `LockedFile` | `internal/filelock`, `internal/state/store.go`, `internal/securepath` | a file that is replaced as a whole under a lock |
| `StateStore` | `internal/state/store.go` | extends `LockedFile`; Load, Save, Update, Commit, Close |
| `EditLog` | | abstract: a set of edits that only grows |
| `SecretFile` | `internal/secrets/file_store.go` | a `LockedFile` of its own (`File`, an instance); Get, Set, Delete, Close |
| `LatencyChecker` | `internal/latency/checker.go` | the worker pool, Best |
| `AppConnect` | `internal/app/service.go` | extends `LatencyChecker`; Connect and CheckLatency |
| `ClientProgram` | `internal/cli/root.go`, `cmd/tuibox/main.go`, `internal/tui/runner.go`, `internal/secrets/command_store.go` | command line, opening and closing of the stores, exit status |
| `ReleaseFeed` | `internal/update/github.go`, `archive.go`, `install.go` | choice, download and unpacking of a release |
| `Replacement` | `internal/update/install.go` | replacing the executables |
| `Slices` | | loops over a slice, shared by three modules |
| `TuiModel` | `internal/tui/update.go`, `model.go`, `adapter.go`, `runner.go` | keys, commands and results |
| `DaemonServiceProofs`, `DaemonOutcomeProofs`, `DaemonProofs`, `SubscriptionsProofs`, `StateStoreProofs`, `ClientProgramProofs`, `ReplacementProofs`, `TuiModelProofs` | | theorems |
| `MCDaemonService`, `MCDaemon`, `MCSubscriptions`, `MCStores`, `MCClient`, `MCUpdate`, `MCTuiModel` | | instances for TLC |

### CoreRunner

Every method of the runner holds `runner.mu` throughout, so each outcome of a
method is one action. A configuration is a number with a state: `open` (it has an
entry in the map), `checked` (its digest passed `sing-box check`), `closed` (the
entry was deleted), or `unnamed` (Prepare failed after its rename and could not remove
the file again, so there never was an entry). The
file is separate (`onDisk`), because removing it may fail. The checks of digests,
permissions and file identity, and the generator, show up as the failure of the
method that makes them. A process is `running`, `killed` (SIGKILL was delivered),
`exited`, or `reaped` (Wait returned). A process that was sent SIGTERM is still
`running`, and may or may not exit. `removeFailed` is a history variable: the files
for which a removal failed.

### DaemonService

`gate` says who holds the token; `frame` holds the local variables of the
operation inside the gate and the statement it is at. A client is idle, waiting in
`acquire`, or holding; its context may expire at any moment in between. A session
is named by its generation.

| code | actions |
|---|---|
| `acquire` | `Acquire`, `AcquireExpired`, `Refused`, `Release` |
| `Connect` | `ConnectPrepare`, `ConnectRejected`, `ConnectChecked`, `ReplaceReaped`, `ReplaceStuck`, `ConnectExpired`, `ConnectStartFails`, `ConnectStarted`, `ConnectStartedLate`, `AbortReaped`, `StopStuck` |
| `stopSessionUntil` | SIGTERM is part of the step that calls it; `StopKill`; it returns in the `...Reaped` and `...Stuck` actions |
| `rollbackLocked` | `RollbackStarted`, `RollbackLate`, `RollbackFails` |
| `Disconnect`, `Status`, `Health` | `Disconnect`, `DisconnectReaped`, `StopStuck`, `Query` |
| `monitor` | `MonitorWait`, `MonitorAcquire`, `MonitorSuperseded`, `MonitorRollback`, `MonitorRetire`, `MonitorRelease` |
| `Close` | `CloseCall`, `CloseBegin`, `CloseReaped`, `CloseStuck`, `CloseRelease`, `CloseTimeout`, `CloseRunner` |
| `command.Cancel` in `process.go`, called by os/exec | `ContextKills` |

Steps are cut where something outside the gate can matter: a process, a monitor in
Wait, a context or a timer. `installSessionLocked` and the fields its caller sets
afterwards are one step, since nobody reads them without the gate. A timer is a
step that is enabled while the code waits for it. Status and Health look at the
same state and are one operation, `query`. The mode and the route of a request are
one profile. When a context that a process was started with is cancelled, the
lifetime of the service by Close or that of a late roll-back, os/exec kills the process
from a goroutine of its own: at some later time, if at all, since the signal may fail.

`CoreSlot` is what the service promises, without how: a core is launched only into
an empty slot and never after the halt has begun, and leaves it when its exit is
collected. `DaemonService` implements it with `cores <- Unreaped`,
`launched <- starts`, `halted <- closed`.

### RpcProtocol, RpcServer, Daemon

An error is the set of the sentinels joined in it; `CodeForError` and
`ErrorForCode` go through one table in the order of the code, so that a joined
error gets the code the code gives it. A request is what the server can tell about
a line: whether it decodes, version, identifier, operation and payload.

A caller has one connection at a time, which carries its name. The server's side of
a connection is in the backlog, in the accept loop (`Accept`, `BeginConnection`,
`AuthenticateConnection`, `Admit`), or in a goroutine (`ReadRequest`, `ReadFails`,
`HandlerReturn`, `WriteResponse`, `EndConnection`), with
`WatchClientDisconnect` beside it. `Server.Close` takes five steps in the order of
its statements. The caller may give up, or lose the connection, at any moment. The
handler returns any error of the service; what it does is `DaemonService`'s
business. `Daemon` adds the main goroutine: it opens runner, service and server,
each of which may fail, and stops when told to or when Serve returns. It ends
`exited` (status 0) or `failed` (status 1); after an error of the session service, whose
core could not be collected, the runner may still be open then.

### SocketPath

`NewServer` looks at the path, probes the socket it finds there, looks again,
removes it, binds, looks up what it has bound (`Learn`) and configures it; `Close`
looks and removes, and so does the clean-up of a `NewServer` that fails. Each is a step,
since another daemon may act in between. A socket is an inode number: `sock` is the one
a daemon listens on, `own` the one it found at the path afterwards, which with a second
daemon at work need not be the same. A daemon that has crashed leaves its socket
behind. `SystemFails` is a dial, Lstat, listen, chown, chmod or Remove that fails for a
reason of the system's; the history variable `faulty` remembers it until the daemon
is started again. `managed` is a service manager that starts a daemon only when no
other is alive.

### Subscriptions

Several processes share `state.json` (`file`) and the secret store (`secrets`). A
store holds its lock for the length of a call, so a step is one call of a store or
of the network, and `call` holds the locals between two of them.

| code | actions |
|---|---|
| `AddSubscription` | `AddCall`, `AddFetch`, `AddSet`, `AddCommit`; after an error `AddCheck`, `AddUndo` |
| `UpdateSubscriptions`, `refreshSubscription` | `RefreshCall`, `RefreshBegin`, `RefreshGet`, `RefreshFetch`, `RefreshCommit`, `RefreshStale`, `Continue` for the loop |
| `recordRefreshFailure` | `RefreshFails`, `RefreshRecord` |
| `RemoveSubscription` | `RemoveCall`, `RemoveGet`, `RemoveDelete`, `RemoveCommit`; after an error `RemoveCheck`, `RemoveRestore` |
| `CheckLatency`, `loadEndpointSnapshot` | `CheckCall`, `CheckMigrate`, `CheckReload`, `CheckProbe` |

An action `...Fails` is the same call returning an error. A write that fails may
have taken effect (`UpdateFails`, `SecretWriteFails`): `writeLocked` renames before
it verifies and syncs, and a keyring command may time out after its work.
`GiveUp` is a context that ends, or a failing read, where the code just returns.
`Crash` ends all calls of a process.

A document has a version and every version its own endpoint, so an endpoint
identifier is subscription, version and the key it was made with; a key is named
after the process that drew it. Refresh tokens are drawn in ascending order.
`LastRefresh` and `LastError` are the token of the refresh that set them.
`generateID` draws 128 random bits and never repeats itself in the model. Names,
formats, warnings and time stamps are left out. `lost` and `loose` are history
variables. `lost` has the subscriptions whose secret a removal that failed or crashed
may have taken away. `loose` has the secrets that an addition left behind when it
crashed or could not undo its write, and those that a failing removal put back although
the subscription was gone or another removal was already past deleting the secret
(`Unwanted`).

### LockedFile, StateStore, SecretFile, EditLog

`LockedFile` is what the two stores have in common. A call takes the handle's
lifecycle lock for reading (`BeginOperation`), polls the flock (`AcquireLock`,
`LockExpired`), loads (`LoadLocked`), and returns or replaces the file:
`WriteTemp`, `Rename`, `SyncRoot`; `Fail` is an error at any step. `content` is
what a reader finds; `survivors` is what a power failure may leave: until the
directory is synced, the old file as well as the new one, and part of the new one
if it was not synced before the rename. `Crash` ends a process, and with it its
flock. `CloseHandle` and `CloseGranted` are the two halves of taking the lifecycle
lock for writing: once asked for, no reader gets it any more.

`StateStore` adds what Load, Save, Update and CommitSubscriptionRefresh do between
load and write, the check of the revision in Save, the largest revision, and the
validation of a snapshot. A snapshot is its revision, its subscriptions, their
endpoints, and as history the edits that made it. `SecretFile` does the same for
Get, Set and Delete; encryption is not modelled. Its history variables are `promised`,
what the last call that returned nil said of a key, and `durable`, the keys that were not
renamed into the file since the directory was last synced. `EditLog` is what the state file
promises: edits are applied one at a time and only those that were never
acknowledged can be taken back by a power failure. `StateStore` implements it with
`value <- content.edits`.

### LatencyChecker, AppConnect

Sender, workers and the closing of the job channel are steps of their own, and the
context may end between any two. Time is an outcome of a probe. `AppConnect` reads
the endpoints, probes or selects, and calls the daemon, while `Change` replaces
what is stored. `ConnectSound` has four parts: `CallTypeOK`; `BestIsLeast`, that Best
returns the least; `SentIsStored`, that what is sent is what was read and asked for;
and `AutoIsBest`, that for Auto Best it is the best one.

### ClientProgram

The main goroutine parses a command line, opens the two stores and the rest of the
service, serves, and closes; `task` says which store a goroutine of the interface
is working on. Command lines are combinations of a command, a number of arguments
and the flags that matter to its checks. What a command does with the stores is any
sequence of operations on them.

### ReleaseFeed, Replacement

`ReleaseFeed` has the pure functions as operators (`parseStableVersion`,
`latestStableRelease`, `findStableRelease`, `selectAssets`, `parseChecksum`,
`readTarBinaries`; a loop over a slice is a fold of its turn: `Latest`, `ReadLine`,
`ReadEntry`), and around them the client that offers a release and the helper
that asks again. The release service is external and may answer each request
differently. One client and its helper go step by step; `OtherInstalls` is any other
helper, which has compared versions at a time of its own, also one whose client was
cancelled (that kills `sudo`, not the helper). The history variable `overtaken` says
that this happened after the helper had compared.

`Replacement` begins where the helper has the new files: it prepares, moves each
old file aside and the new one in, and on failure puts the old ones back in reverse
order. `dir` is the directory, `images` the directories a power failure may leave:
all since the last sync. A second helper may work on the same paths, because a
cancelled Apply kills `sudo` and not the helper.

### TuiModel

`m` is the Bubble Tea model. A command runs in a goroutine (`flight`), does its
work and reads lists and status in steps, and becomes a message (`mail`).
`SnapshotArrives` and `ResultArrives` are the two cases of Update for messages,
`Press` is a key, with the guards of `updateKey` and `updateInput`. `world` is what
the commands read: which list is stored and what the daemon's session is; other
processes change it too. `at` and `statusAt` are history fields: the version of the
world that is shown.

## What TLC checks

Components that share no state are checked in one run: an MC module extends
them all, and a variable `focus`, chosen in the initial state, says
which of them takes steps. A behaviour is that of one part, from any of its initial
states; that the parts do not interleave cannot matter to properties of one part's
state.

Within a part, `focus` also keeps rare inputs apart, so that they multiply no more
than needed; this bounds the instance like any other bound. In `rpc_daemon` strangers,
malformed requests and errors of the service come with one caller while the other is
idle. In `client_stores` handles are closed where at most one edit is made. In
`update` unusual documents and archives come with the usual feed, and the other way
round, and helpers that overtake another come with the usual documents and archives.
In `tui` lists and sessions change while no input field is open, and the input
fields are used over one list. No such restriction blocks a step that fairness
speaks of without leaving it another outcome, so none makes a liveness property hold
for want of behaviours; the mutants of the liveness properties confirm it.

| run | instance | distinct states | properties |
|---|---|---|---|
| `daemon_interleaving` | 2 clients, 2 profiles, 2 configurations, 3 starts | 1 293 000 | `IInv`, `StatusMatchesSession`, `StopsForAReason` |
| `daemon_sequence` | 1 client, 1 profile, 3 configurations, 5 starts | 808 000 | `RollbackUsable`, `ConnectOutcome`, `ImplementsSlot` |
| `daemon_files` | 1 client, 2 profiles, 2 configurations, 3 starts, 1 removal failure | 518 000 | `FilesAccounted` |
| `daemon_progress` | 1 client, 1 profile, 2 configurations, 3 starts, fairness | 52 000 | `CallsReturn`, `KilledIsRetired`, `CloseCompletes` |
| `rpc_daemon` | 2 callers, 1 slot, 2 users; 2 daemons, 3 sockets; fairness | 140 000 | `SlotsAreServed`, `TruthfulAnswer`, `OrderlyStop`, `PathUsable`, `StopExits`, `SlotsReturn` |
| `subs` | 2 processes with a call each, 1 subscription, all operations, 2 versions, 2 refreshes | 521 000 | `SecretKept`, `OrphansExplained`, `NeverOlder`, `EndpointsFit` |
| `subs_restore` | as `subs`, 1 version, no refreshes | | `RestoresOwned`, violated |
| `client_stores` | 2 processes with a caller each, 2 edits, 2 revisions; 2 keys, 1 secret; fairness | 167 000 | `StoredIsValid`, `ImplementsEditLog`, `RevisionIdentifies`, `LockDiscipline`, `PromisedKept`, `CloseReturns` |
| `client` | every command line, 2 goroutines; 2 workers, up to 3 endpoints; fairness | 53 000 | `ExitIsClean`, `ExitTellsOutcome`, `CheckIsComplete`, `ConnectSound`, `QuitReturns`, `CallReturns` |
| `client_status` | as `client` | | `FailuresExitWithOne`, violated |
| `update` | feeds of up to 3 of 6 releases, documents of up to 3 lines, archives of up to 4 entries; 2 helpers, 2 executables | 382 000 | `ChoiceIsRight`, `DownloadsAreJudged`, `NothingLost`, `HonestResult`, `InstalledAsOffered` |
| `tui` | 4 lists, 17 keys, 2 actions, 3 sessions | 486 000 | `BusyIsOneAction`, `ModelFits`, `NeverShowsOlder` |

What the properties say is stated above each of them in its module; in short:

* **Daemon.** `IInv` is the inductive invariant of the proofs; it contains
  `SingleCore`: the unreaped cores are at most one, the active session's.
  `StatusMatchesSession`: the reported status is what there is.
  `StopsForAReason`: a working session is stopped only by a Disconnect, by Close or
  for a checked replacement. `RollbackUsable`: the configuration to go back to still
  has its entry, its file and its check. `ConnectOutcome`: after a success the new
  configuration is active, after an ordinary failure the old one is again.
  `FilesAccounted`: between operations every file belongs to the active session or to
  the one it would go back to, or its removal failed; an entry is deleted only when
  its file is gone, so that a removal can be tried again; and the runner is closed last.
  `CallsReturn`: every call returns. `KilledIsRetired`: a session whose process got
  SIGKILL is retired. `CloseCompletes`: Close returns, with every core collected and the
  runner closed or with a stuck process to report.
* **RPC and daemon program.** A slot is taken for a connection that is served and
  for no other; a caller is told the outcome of its own request; the program stops
  in order, and with success only if nothing is left open; a daemon that starts alone is
  refused only when a system call fails, and then serves at the path; a stop ends, and
  a slot comes back, whatever the callers do.
* **Subscriptions.** A subscription has its secret unless a removal is under way, has
  crashed or has failed; a secret has its subscription unless an addition is under
  way or one of the two cases in `loose` happened, so a removal by itself leaves no
  secret whatever fails in it; no refresh replaces
  newer endpoints or errors by older ones; everything is identified under the one
  key in the file.
* **Stores.** What a reader or a power failure finds is whole and valid;
  acknowledged edits stay; a revision identifies a snapshot (which is what Save's
  check relies on); one call is under the flock and none in a closed handle; what a Set
  or Delete acknowledged stays. Close returns, however many operations keep arriving,
  if none of its handle waits for the flock for ever.
* **Client.** What was opened is closed, and no store is closed under an operation;
  the exit status tells the outcome; every endpoint gets its own result; Connect
  sends the endpoint that was asked for, or the best; a quit ends, and a call returns
  that does not wait for the lock of the state file.
* **Update.** The choice of a release, the checksum and the archive are compared
  with reference definitions; what is installed was offered and published, and is
  not older unless the helper was overtaken after it compared; an executable or its
  backup is always there; what a helper that ran alone reports is what is on disk.
* **Interface.** One action at a time; cursor, selection and input fit; what is
  shown never goes back to an older list or session.

### Bounds

Constants cap what the code leaves unbounded: starts, configurations, refreshes,
versions, edits, sockets, actions. Each bound is a guard of the action that counts.
They are chosen so that the interesting cases fit: three starts are a session, its
replacement and the roll-back; five with one caller let a roll-back follow a
roll-back; two callers and Close are enough for every pair to race for the gate,
which treats all waiters alike. Two processes are enough for everything that
concerns one subscription or one file, because the lock admits one at a time, and
two revisions reach the largest. One slot and two callers have one connection served
and one refused. Three sockets let both daemons bind and one bind again. Three releases hold two candidates and something to be passed over;
four entries hold both executables, a repetition and a directory. Three endpoints
over two workers make a worker come back for more. Callers and profiles are
interchangeable, so the safety runs use symmetry; the fair ones do not.

The daemon runs end when the service is closed or the bounds are used up, and `tui`
when the interface has quit; their configurations switch the deadlock check off. In
the other runs TLC reports a state in which nothing can happen, except where the MC
module lets a program that has ended stutter.

### Fairness

* **Daemon.** The holder of the gate goes on, as every wait inside it ends by a
  timer (`stopTimeout`, the kill wait); waiters for the gate are served (strong
  fairness: receivers of a Go channel queue in order); a monitor whose process has
  exited returns from Wait; Close's timer fires; the kernel ends a process that got
  SIGKILL. Nothing is assumed of processes that only got SIGTERM, of the kill that
  os/exec sends when a context is cancelled, of Wait otherwise, or of callers.
* **RPC.** The main goroutine, the accept loop and each connection's goroutine go
  on: reads and writes have deadlines, and a handler returns once its context has
  ended. Nothing is assumed of callers.
* **Stores.** A call goes on, and polls the flock while it is free. Nothing is assumed
  about who gets it, nor of contexts: the ones that the commands and the interface pass
  have no deadline (`cmd/tuibox/main.go:79`, `internal/tui/model.go:79`), and
  `defaultOperationContext` serves only wrappers nobody calls. `CloseReturns` therefore
  speaks of handles none of whose calls polls for ever. Go's RWMutex lets a waiting
  writer in before new readers.
* **Client.** Main goes on. An operation of a store returns: a command's before the
  command does, one of the interface because quitting cancels its context (`updateKey`).
  A load waits for the lock without a deadline, so nothing is assumed of it until its
  context ends; probes and daemon calls have deadlines.

### Mutants

For every property `PROJECT.json` names at least one changed definition, written
before the original in its module and marked `MUTANT`, with which TLC finds that
property violated: a dropped guard, a missing sync, a slot that is not returned, a
deadline left out. Properties that combine several statements have a mutant for the
parts.

## What the checks found

* **A failed removal can restore the secret of a removed subscription**
  (`subs_restore`). After its update failed, `RemoveSubscription` reads the state
  and then puts the secret back (`internal/app/service.go:523`). A removal by another
  process in between leaves a secret without a subscription. A test
  (`service_test.go:713`) treats this outcome as a failure, for a removal that comes
  earlier.
* **A state store that cannot be opened ends the client with a panic**
  (`client_status`). The nil `*Store` becomes an interface that is not nil
  (`cmd/tuibox/main.go:146`), whose Close is called (`:201`). The status is then 2, which
  `README.md:148` reserves for usage errors.

Modelling also showed some limits that no statement in the repository denies:

* Two daemons over one path, not serialised by a service manager: one may remove the
  other's socket, since `removeOwnedStaleSocket` and `removeOwnedSocket` check and remove
  by name in two steps (`internal/rpc/server.go:312`, `:597`). `AloneStarts` therefore
  asks for `managed`. An Lstat or Remove that fails leaves the socket of a daemon that
  has closed; the next one replaces it.
* Two update helpers that overlap can leave executables of different versions while
  one reports success (`internal/update/install.go:430`). `HonestResult` is about a
  helper that ran alone. A crash in the middle can leave a target missing; its backup
  is there (`NothingLost`), but nothing restores it at the next start. A helper compares
  its version with the new one once, before it downloads (`:228`): one that is overtaken
  by a second one installs the older release over the newer.
* A Delete that finds no secret returns nil without a sync
  (`internal/secrets/file_store.go:123`). If an earlier Delete failed between its rename
  and its sync, a power failure may still bring the secret back. `PromisedKept` holds
  such an answer to the file that is there, and to the ones a power failure may leave
  only once the directory is synced.
* When the directory sync in Prepare fails and the new file cannot be removed either, a
  configuration file stays that no entry names (`internal/core/process.go:319`), and no
  code looks for it later.
* No wait for the state file's lock has a deadline, so a process that holds it and hangs
  holds up every command of the others.
* A cancelled Auto Best caches "unavailable" for endpoints it never probed
  (`internal/app/service.go:644`), which `CheckLatency` avoids. Auto Best connects to an
  endpoint of its snapshot also when that was removed meanwhile (`:653`).
* The interface does not wait for its goroutines when it quits, so an
  `AddSubscription` can be cut off between its two stores, and Close waits for a
  platform credential command that has no deadline of its own.
* The first snapshot is dropped once an action was started (`internal/tui/update.go:16`,
  as its test wants), and a failed action leaves the status that was shown.
* When Close of the session service returns with a stuck process, the program exits
  with status 1, possibly before the runner is closed: the configuration file stays, and
  so may the core, if the signal to it failed.

## What is proved

The proofs hold for all values of the constants, under the assumptions named in the
modules: bounds are naturals, every call belongs to a handle or a process, and the
special values (no profile, no call, no key, a torn file) are none of the ordinary
ones. Three assumptions say more. `RpcServer!ServiceAssumption`: the session service
returns none of the errors with which the server refuses a request itself; in
`service.go` only `acquire` names one, for a nil service or a nil context.
`Replacement!SaneAssumption`: the executables to replace are at least one and have
different names. `Subscriptions!CallAssumption`: there is an identifier to draw.
The pool of latency workers is finite (`LatencyChecker!WorkersAssumption`) and a probe
takes no negative time (`DurationsAssumption`). Stored lists are sequences of endpoints
with different, ordered identifiers (`AppConnect!ListsAssumption`), which the
validation of a snapshot demands. Of the release service only the types are assumed:
feeds, documents and archives are sequences, parts of versions are numbers or not,
sizes are integers, a proper digest is not empty (`ReleaseFeed!FeedAssumption`,
`DownloadAssumption`); and the version installed first is a stable one
(`FirstAssumption`).
TLC evaluates each of them in the runs of the module that states it.

| theorem | states |
|---|---|
| `DaemonServiceProofs!Invariance` | `IInv` is an invariant |
| `DaemonServiceProofs!OneCore` | at most one core |
| `DaemonServiceProofs!Refinement` | the session service implements `CoreSlot` |
| `DaemonOutcomeProofs!StatusIsTrue` | `StatusMatchesSession` |
| `DaemonOutcomeProofs!RollbackStaysPossible` | `RollbackUsable` |
| `DaemonOutcomeProofs!AnswerIsTrue` | `ConnectOutcome` |
| `DaemonOutcomeProofs!FilesAreAccounted` | `FilesAccounted` |
| `DaemonOutcomeProofs!StopsOnlyForAReason` | the action property `StopsForAReason` |
| `DaemonProofs!SlotsAreHeld` | `SlotsAreServed` |
| `DaemonProofs!AnswersAreTrue` | `TruthfulAnswer` |
| `DaemonProofs!StopIsOrderly` | `OrderlyStop` |
| `DaemonProofs!PathStaysUsable` | `PathUsable` |
| `SubscriptionsProofs!EndpointsBelong` | `EndpointsFit` |
| `SubscriptionsProofs!SecretsAreKept` | `SecretKept` |
| `SubscriptionsProofs!OrphansAreExplained` | `OrphansExplained` |
| `SubscriptionsProofs!RefreshesNeverGoBack` | the action property `NeverOlder` |
| `StateStoreProofs!LocksAreKept` | `LockDiscipline` |
| `StateStoreProofs!FileIsValid` | `StoredIsValid` |
| `StateStoreProofs!AcknowledgedIsKept` | an acknowledged edit is in every file that can survive |
| `StateStoreProofs!RevisionIsIdentity` | `RevisionIdentifies` |
| `StateStoreProofs!Refinement` | the state store implements `EditLog` |
| `StateStoreProofs!PromisesAreKept` | `PromisedKept`, of the secret file |
| `ClientProgramProofs!CleanExit` | `ExitIsClean` |
| `ClientProgramProofs!StatusTellsOutcome` | `ExitTellsOutcome` |
| `ClientProgramProofs!CheckCompletes` | `CheckIsComplete` |
| `ClientProgramProofs!ConnectIsSound` | `ConnectSound` |
| `ReplacementProofs!InstallsWhatWasOffered` | the action property `InstalledAsOffered` |
| `ReplacementProofs!ChoosesRight` | `ChoiceIsRight` |
| `ReplacementProofs!JudgesDownloads` | `DownloadsAreJudged` |
| `ReplacementProofs!NothingIsLost` | `NothingLost` |
| `ReplacementProofs!ResultIsHonest` | `HonestResult` |
| `TuiModelProofs!OneActionAtATime` | `BusyIsOneAction` |
| `TuiModelProofs!ModelAlwaysFits` | `ModelFits` |
| `TuiModelProofs!ShowsNothingOlder` | the action property `NeverShowsOlder` |

**DaemonService.** `SingleCore` is not inductive: that a start meets an empty slot
depends on where the operation inside the gate is. `IInv` adds three facts.
`GateInv`: the gate has one holder and the frame is in use exactly then.
`SessionInv`: every started process became a session, and a monitor leaves Wait only
when its process is collected. `FrameInv`: what holds at each statement inside the
gate, above all that no session is active where a core is about to be started, and
that the service is then open. The refinement follows from `IInv`, action by action.

**What the service promises** (`DaemonOutcomeProofs`). `OutInv` rests on `IInv` and
has five parts that need each other. `PlaceInv`: the active session is the newest,
its monitor still has work to do, and the locals of whoever stops it agree with it.
`StatusInv`: what the status is at each statement, and that a session to go back to
was left as "connected". `FilesInv`: `Kept` names the sessions whose configuration is
in use or may be needed; each can be started again, a fresh configuration is newer
than all of them, and every other file is gone or resisted removal. This carries both
`RollbackUsable` and `FilesAccounted`. `AnswerInv`: an abort and a roll-back inside
Connect have an error to report. `EndInv`: a closed runner serves nobody.
Each action
is first reduced to what it does field by field (the lemmas `...Does`), and those
are what the five step lemmas use. The part of `FilesAccounted` about another attempt,
`RetryPossible`, is inductive beside `IInv` and is shown in `DaemonServiceProofs`.

**Daemon and RpcServer** (`DaemonProofs`). `DaemonInv` says how stage of the accept
loop, connections, handlers and slots of the semaphore correspond, what is open and
closed at each place of `runDaemon`, and, for each caller, that what it was told or
will be told is an answer to its own request: a code the server wrote for the
handler's error, or one of the errors the client makes up itself.

**SocketPath** (also in `DaemonProofs`, as `MCDaemon` holds both). A daemon that looks
at the path remembers an inode that existed; the socket it listens on was created by it
alone; and while a service manager starts only one, the socket at the path is that
daemon's or one nobody serves, so what it found at the path is what it has bound, and
it fails only after a system call did.

**Subscriptions.** `SubInv` adds to the three invariants what overlapping calls rely
on. `KeyInv`: what a latency check has read is already keyed, and a key that was
drawn is never replaced. `AddInv`: the identifier of an addition belongs to no other
call until its row is in the file, its secret is stored before that, and the secret
is deleted again only without a row. `GoneInv`: a removal that is about to commit has
seen the secret gone, and it stays so unless another removal puts it back, which `loose`
then records. `TokenInv`: a refresh under way is newer than
what its row holds, and a call whose token is still in the row has fetched a document
that is not older than the row's. The last one makes `NeverOlder` go through: a row
that changes clears its token or gets one above all that were drawn, so a call whose
token still matches has seen no change. `FileStep` states this of every write, once;
`Moves`, `OwnFits` and `SecretFits` state what a call may do to everyone else's
secrets, and each action is shown to be such a step.

**StateStore.** The strengthening says that a call that is at work inside the store
holds the flock; that what it has loaded is what the file holds; that the temporary
file was synced before it is renamed; that every survivor contains the acknowledged
edits and is contained in the file's; and that a caller's copy has a revision not
above the file's, equal only if it is the same snapshot. The last one makes Save's
comparison of revisions safe, also after a power failure took the file back.

**SecretFile** (also in `StateStoreProofs`). `SecretInv`: a call under the flock has
loaded what the file holds, and what it is about to write differs from the file in its
own key alone; the temporary file is synced before the rename. So a rename changes no
key but the one whose promise its call has taken back, and what a power failure may
leave agrees with the file in every durable key (`DurableFits`).

**ClientProgram.** The strengthening says which stores are open at each place of the
main goroutine, that whoever works on a store finds it open or closing, and, for the
exit status, which errors have been met at each place.

**LatencyChecker, AppConnect** (also in `ClientProgramProofs`, as `MCClient` holds
them). `CheckInv` says where each endpoint is while a check runs: a result without a
status was not offered yet, or is in a worker's hand, or the context has ended
(`ResultsInv`); a worker has a job that was offered, and dials only a proper
endpoint (`WorkersInv`); an open connection belongs to the worker that has dialled it
(`ConnsInv`); and the channel is closed only when all was offered or the context has
ended (`StageInv`). When the last worker has gone, only endpoints that cancellation
kept from being probed are without a status, and ReturnResults fills in those.

`ConnectSound` rests on three more invariants and a lemma. `SentInv` adds to `SentIsStored` that an Auto Best
probes a snapshot it has validated. `JudgeInv`: every endpoint is judged
once, since no two workers have the same job and what is in a worker's hand or was
not offered yet has no status; and what was probed in time is successful. With
`CheckInv` this makes the results those of the endpoints, in their order, so
`projectLatencyResults` changes nothing. `ChoiceInv`: an Auto Best probes the snapshot it
has read, and the check it chose from stays as it is while the daemon is called. The
lemma, `BestIsRight`, is that Best returns the least, by induction along its loop.

**Loops.** What a loop computes is proved for lists of any length
(`ClientProgramProofs`, `ReplacementProofs`). A fold is defined as *the* function on
the prefixes of the list that satisfies its recursion; `LoopRuns` shows, once for all
loops, that there is one, from a least length for which there would be none. For each
loop this gives the first value and one step to the next (`BestRuns`, `LatestRuns`,
`ChecksumRuns`, `ReadRuns`, `SizeRuns`). What holds of the first value and passes from
each to the next holds of the last (`Along`, again by a least counterexample), and a
proof about a loop is then one about its turn: the loop invariants are `BestOf`,
`LatestOf`, `SumOf` and `ReadOf`, kept by the lemmas `PickKeeps`, `LatestKeeps`,
`LineKeeps` and `EntryKeeps`.

**ReleaseFeed** (also in `ReplacementProofs`, as `MCUpdate` holds both). `FeedInv`: the
helper works for the version the client was offered, and the release it has selected is
published, has that version in canonical form, and is newer than the installed one
unless the helper was overtaken. It
rests on three lemmas on versions: `canonicalVersion` keeps the parts, versions of one
canonical form compare alike, and what `findStableRelease` finds is published and of
the version asked for. `ChoiceIsRight` compares `latestStableRelease` with the first of
the greatest published versions in the lexicographic order (`AtMost`); that
`CompareVersions`, which looks for the first difference, decides this order is
`ComparesByOrder`. `LatestOf` says of the release chosen so far that it is published,
at least as new as all before it and newer than all before its own place; since the
helper looks for the first release of one version, it then finds the same one
(`FeedFound`). `VersionsInv`: the versions that run and are installed are
stable. `SumOf`: an error has been met exactly if a line is malformed or a second
one names the archive. `ReadOf`: entries are accepted as long as each is safe and
whole, they are within the three limits, and no executable came twice; the bytes are
those of the files so far.

**Replacement.** `NothingLost` speaks of all directories that a power loss may leave
(`images`), and the strengthening of the one that is there: an executable that is not
at its place is in the backup of a helper that will not take the backup away before it
has put the executable back (`Keeper`). `HonestResult` needs, of a helper that ran
alone, that at each place of the loop the files it is done with are as its flags say,
and those it has not come to are as it found them (`AloneFits`).

**TuiModel.** `TuiInv` has four parts. `TypeInv`: where the fields range, and which
calls a command of each kind still has to make. `FitInv`: what `ModelFits` says.
`BusyInv`: at most one snapshot and one action run or wait, an action has the model's
generation, and none runs while the user types; the last one makes the Enter that
ends an input start its action from an idle model. `ShownInv`: nothing shown, read or
waiting is newer than the world; before the first action an outstanding snapshot
finds nothing shown; and a result that waits is not older than what is shown. It
carries `NeverShowsOlder`, because between the reading of a list and the arrival of
its message nothing but that message may change what is shown. Each kind of step is
one lemma: a key that changes the model alone (`LikeStep`), the start of an action
(`StartLike`), a command that goes on (`ContinueStep`) or ends (`AnswerStep`), and the
arrival of either message.

Only model-checked is liveness, because fairness and ENABLED are beyond the prover:
`CallsReturn`, `KilledIsRetired`, `CloseCompletes`, `StopExits`, `SlotsReturn`,
`CloseReturns`, `QuitReturns` and `CallReturns`. Every other property of a passing run
is a theorem.

## What is not modelled

* The subscription fetcher: which address a request reaches depends on net/http's
  connection pool and on the resolver; its outcome is an input of `Subscriptions`.
* Parsers, the configuration generator, terminal rendering, redaction, telemetry,
  help and completion: text and formats without state that another step depends on.
  Their success or failure is an outcome in the models that call them.
* Ownership and permission checks, peer credentials, encryption, HTTP: outcomes.
* The platforms' credential commands, and the choice between them and the secret
  file, made at each start by a probe of two seconds.
* Release tooling.

Components are checked apart or composed where they share state (`DaemonService` with
`CoreRunner`, `Daemon` with `RpcServer`, the stores with `LockedFile`, `AppConnect`
with `LatencyChecker`). `RpcServer` sees the session service as a handler that ends
when its context ends, which `CallsReturn` shows of `DaemonService`; `Subscriptions`
sees a store as atomic calls that may fail after taking effect, which is what
`ImplementsEditLog` shows of `StateStore`.

## Running

    tlc -config MCDaemonService_sequence.cfg MCDaemonService
    tlapm StateStoreProofs.tla

`PROJECT.json` names module and configuration of every run, the source lines of
every definition, the hazards, the mutants and the theorems.
