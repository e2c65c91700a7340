------------------------------- MODULE TuiModel -------------------------------
(* The terminal interface (internal/tui: update.go, model.go, adapter.go,      *)
(* runner.go): the Bubble Tea model, the commands it starts, which run in      *)
(* goroutines of their own and call the application, and their results, which  *)
(* arrive as messages.  The servers and the daemon change meanwhile, by these  *)
(* commands and by other processes.                                            *)
EXTENDS Integers, Sequences, FiniteSets, Functions, Slices

CONSTANTS
    Lists,     \* the lists of servers the state holds one after the other
    Keys,      \* the keys the user presses
    AutoTarget,  \* app.AutoTarget
    NoServer,  \* no identifier
    MaxText,   \* the bound of an input field
    MaxGen,    \* bound on the actions started
    MaxEpoch   \* bound on the changes of the daemon's session

\* Some list is stored; it and the others are sequences.
ASSUME TuiAssumption ==
    /\ MaxText \in Nat /\ MaxGen \in Nat
    /\ Lists # <<>> /\ Lists \in Seq(Range(Lists))
    /\ \A i \in DOMAIN Lists : Lists[i] \in Seq(Range(Lists[i]))

VARIABLES
    m,        \* the Model
    flight,   \* commands that run
    mail,     \* messages that have not been processed
    world,    \* version: which of Lists is stored; daemon: its state; epoch: its changes
    program   \* "running", "quit", "closed"

vars == <<m, flight, mail, world, program>>

DaemonStates == {"disconnected", "connected", "failed"}
ListActions == {"refresh", "latency", "add"}

Command(kind, gen, target) ==
    [kind |-> kind, gen |-> gen, target |-> target, step |-> IF kind = "snapshot" THEN "list" ELSE "work",
     at |-> 0]

\* NewModel, and the command Init returns.  at and statusAt are the versions of
\* the world that servers and status were read from.
Init ==
    /\ m = [servers |-> <<>>, at |-> 0, status |-> "disconnected", statusAt |-> 0, cursor |-> 0,
            selection |-> "auto", selected |-> NoServer, mode |-> "tun", route |-> "global",
            input |-> "none", name |-> <<>>, secret |-> <<>>, gen |-> 0, busy |-> FALSE]
    /\ flight = {Command("snapshot", 0, NoServer)}
    /\ mail = {}
    /\ world \in [version : {1}, daemon : {"disconnected", "connected"}, epoch : {1}]
    /\ program = "running"

-----------------------------------------------------------------------------

\* MUTANT: the cursor is left where it was.
Clamped_Kept(k) == k

\* clampCursor; positions count from zero.
Clamped(k) ==
    IF k.servers = <<>> THEN [k EXCEPT !.cursor = 0]
    ELSE IF k.cursor >= Len(k.servers) THEN [k EXCEPT !.cursor = Len(k.servers) - 1] ELSE k

\* reconcileSelection
Reconciled(k) ==
    IF k.selection = "manual" /\ k.selected \notin Range(k.servers)
    THEN [k EXCEPT !.selection = "auto", !.selected = NoServer] ELSE k

WithServers(k, msg) == Reconciled(Clamped([k EXCEPT !.servers = msg.servers, !.at = msg.at]))

\* moveCursor, around both ends.
Moved(k, delta) ==
    IF k.servers = <<>> THEN [k EXCEPT !.cursor = 0]
    ELSE [k EXCEPT !.cursor = (k.cursor + delta + Len(k.servers)) % Len(k.servers)]

Take(msg) == mail' = mail \ {msg}

\* MUTANT: the first snapshot is shown whenever it comes.
SnapshotArrives_Always ==
    /\ program = "running"
    /\ \E msg \in mail :
        /\ msg.kind = "snapshot" /\ Take(msg)
        /\ m' = [WithServers(m, msg) EXCEPT !.status = msg.status, !.statusAt = msg.statusAt]
    /\ UNCHANGED <<flight, world, program>>

\* Update of a snapshotMsg, which is dropped once an action has been started.
SnapshotArrives ==
    /\ program = "running"
    /\ \E msg \in mail :
        /\ msg.kind = "snapshot" /\ Take(msg)
        /\ m' = IF m.gen # 0 THEN m
                ELSE [WithServers(m, msg) EXCEPT !.status = msg.status, !.statusAt = msg.statusAt]
    /\ UNCHANGED <<flight, world, program>>

\* Update of an actionResultMsg.
ResultArrives ==
    /\ program = "running"
    /\ \E msg \in mail :
        LET idle == [m EXCEPT !.busy = FALSE] IN
        /\ msg.kind # "snapshot" /\ Take(msg)
        /\ m' = IF msg.gen # m.gen THEN m
                ELSE IF msg.err THEN idle
                ELSE IF msg.kind \in ListActions THEN WithServers(idle, msg)
                ELSE [idle EXCEPT !.status = msg.status, !.statusAt = msg.statusAt]
    /\ UNCHANGED <<flight, world, program>>

-----------------------------------------------------------------------------
\* startAction and the command it returns.
StartAction(k, kind, target) ==
    /\ k.gen < MaxGen
    /\ m' = [k EXCEPT !.gen = @ + 1, !.busy = TRUE]
    /\ flight' = flight \cup {Command(kind, k.gen + 1, target)}

\* MUTANT: what was typed stays in the model.
CancelInput_Kept(k) == [k EXCEPT !.input = "none"]

\* cancelInput
CancelInput(k) == [k EXCEPT !.input = "none", !.name = <<>>, !.secret = <<>>]

Quit == program' = "quit" /\ UNCHANGED flight

\* MUTANT: the new subscription may be entered while an action runs.
isSideEffectKey_NotN(key) == key \in {"u", "l", "c", "d"}

isSideEffectKey(key) == key \in {"n", "u", "l", "c", "d"}

Target ==
    IF m.route = "direct" THEN NoServer
    ELSE IF m.selection = "auto" THEN AutoTarget ELSE m.selected

\* updateKey outside of an input field.
PlainKey(key) ==
    /\ m.input = "none" /\ key # "ctrl+c"
    /\ IF m.busy /\ isSideEffectKey(key) THEN UNCHANGED <<m, flight, program>>
       ELSE \/ key = "q" /\ Quit /\ UNCHANGED m
            \/ /\ \/ key = "down" /\ m' = Moved(m, 1)
                  \/ key = "up" /\ m' = Moved(m, -1)
                  \/ /\ key = "enter"
                     /\ m' = IF m.servers = <<>> THEN m
                             ELSE [m EXCEPT !.selection = "manual", !.selected = m.servers[m.cursor + 1]]
                  \/ key = "a" /\ m' = [m EXCEPT !.selection = "auto", !.selected = NoServer]
                  \/ key = "m" /\ m' = [m EXCEPT !.mode = IF m.mode = "tun" THEN "proxy" ELSE "tun"]
                  \/ /\ key = "r"
                     /\ m' = [m EXCEPT !.route = CASE m.route = "global" -> "rule"
                                                   [] m.route = "rule" -> "direct"
                                                   [] m.route = "direct" -> "global"]
                  \/ key = "n" /\ m' = [m EXCEPT !.input = "name", !.name = <<>>, !.secret = <<>>]
               /\ UNCHANGED <<flight, program>>
            \/ /\ \/ key = "u" /\ StartAction(m, "refresh", NoServer)
                  \/ key = "l" /\ StartAction(m, "latency", NoServer)
                  \/ /\ key = "c"
                     /\ IF m.route # "direct" /\ Target = NoServer THEN UNCHANGED <<m, flight>>
                        ELSE StartAction(m, "connect", Target)
                  \/ key = "d" /\ StartAction(m, "disconnect", NoServer)
               /\ UNCHANGED program

Blank(text) == \A i \in DOMAIN text : text[i] = " "

\* appendRunesWithinBytes, appendSecretRunes: what does not fit is left out.
Typed(text, c) == IF Len(text) < MaxText THEN Append(text, c) ELSE text

\* updateInput
InputKey(key) ==
    /\ m.input # "none" /\ key # "ctrl+c"
    /\ UNCHANGED program
    /\ \/ key = "esc" /\ m' = CancelInput(m) /\ UNCHANGED flight
       \/ /\ key = "backspace" /\ UNCHANGED flight
          /\ m' = IF m.input = "name" THEN [m EXCEPT !.name = IF @ = <<>> THEN @ ELSE Front(@)]
                  ELSE [m EXCEPT !.secret = IF @ = <<>> THEN @ ELSE Front(@)]
       \/ /\ key = "enter" /\ m.input = "name" /\ UNCHANGED flight
          /\ m' = IF Blank(m.name) THEN m ELSE [m EXCEPT !.input = "url"]
       \/ /\ key = "enter" /\ m.input = "url"
          /\ IF Blank(m.secret) THEN UNCHANGED <<m, flight>> ELSE StartAction(CancelInput(m), "add", NoServer)
       \/ /\ key \in {"x", " "} /\ UNCHANGED flight
          /\ m' = IF m.input = "name" THEN [m EXCEPT !.name = Typed(@, key)]
                  ELSE [m EXCEPT !.secret = Typed(@, key)]

\* Update of a KeyMsg.
Press ==
    /\ program = "running"
    /\ \E key \in Keys :
        \/ key = "ctrl+c" /\ m' = CancelInput(m) /\ Quit
        \/ PlainKey(key)
        \/ InputKey(key)
    /\ UNCHANGED <<mail, world>>

-----------------------------------------------------------------------------
(* The commands: the Adapter calls the application.                           *)

Message(c, err, listed, seen) ==
    [kind |-> c.kind, gen |-> c.gen, err |-> err,
     servers |-> IF listed = 0 THEN <<>> ELSE Lists[listed], at |-> listed,
     status |-> seen.status, statusAt |-> seen.at]

NotSeen == [status |-> "", at |-> 0]
Seen(w) == [status |-> w.daemon, at |-> w.epoch]

Answer(c, msg) == flight' = flight \ {c} /\ mail' = mail \cup {msg}
Continue(c, d) == flight' = (flight \ {c}) \cup {d} /\ UNCHANGED mail

\* What the stored servers may become, and the daemon's session.
Later == {w \in [version : world.version..Len(Lists), daemon : {world.daemon}, epoch : {world.epoch}] :
            w.version <= world.version + 1}
Session == {[world EXCEPT !.daemon = d, !.epoch = @ + 1] : d \in IF world.epoch < MaxEpoch THEN DaemonStates ELSE {}}

\* The first call of Refresh, CheckLatency or AddSubscription.
Work(c) ==
    /\ c.kind \in ListActions /\ c.step = "work"
    /\ world' \in IF c.kind = "latency" THEN {world} ELSE Later
    /\ \/ Continue(c, [c EXCEPT !.step = "list"])
       \/ Answer(c, Message(c, TRUE, 0, NotSeen))

\* servers: ListServers, for a snapshot or at the end of an action.
ListServers(c) ==
    /\ c.step = "list"
    /\ \/ /\ c.kind = "snapshot"
          /\ Continue(c, [c EXCEPT !.step = "status", !.at = world.version])
       \/ c.kind # "snapshot" /\ Answer(c, Message(c, FALSE, world.version, NotSeen))
       \/ Answer(c, Message(c, TRUE, 0, NotSeen))
    /\ UNCHANGED world

\* Status, whose failure safeStatus turns into "failed".
ReadStatus(c) ==
    /\ c.step = "status"
    /\ \/ Answer(c, Message(c, FALSE, c.at, Seen(world)))
       \/ Answer(c, Message(c, TRUE, c.at, [NotSeen EXCEPT !.status = "failed"]))
    /\ UNCHANGED world

\* Connect and Disconnect, whose error may come after the session has changed.
ChangeSession(c) ==
    /\ c.kind \in {"connect", "disconnect"}
    /\ \/ /\ world' \in Session
          /\ world'.daemon = (IF c.kind = "connect" THEN "connected" ELSE "disconnected")
          /\ Answer(c, Message(c, FALSE, 0, Seen(world')))
       \/ /\ world' \in Session \cup {world}
          /\ Answer(c, Message(c, TRUE, 0, NotSeen))

Backend(c) == (Work(c) \/ ListServers(c) \/ ReadStatus(c) \/ ChangeSession(c)) /\ UNCHANGED <<m, program>>

\* Another process changes the servers or the session, or the core exits.
Others ==
    /\ world' \in Later \cup Session
    /\ UNCHANGED <<m, flight, mail, program>>

\* Run closes the service when the program has quit; commands may still run.
CloseService ==
    /\ program = "quit" /\ program' = "closed"
    /\ UNCHANGED <<m, flight, mail, world>>

Next ==
    \/ SnapshotArrives \/ ResultArrives \/ Press \/ Others \/ CloseService
    \/ \E c \in flight : Backend(c)

Spec == Init /\ [][Next]_vars

-----------------------------------------------------------------------------
TypeOK ==
    /\ m.status \in DaemonStates \cup {""}
    /\ m.gen \in 0..MaxGen
    /\ m.input \in {"none", "name", "url"}
    /\ Len(m.name) <= MaxText /\ Len(m.secret) <= MaxText
    /\ m.mode \in {"tun", "proxy"} /\ m.route \in {"global", "rule", "direct"}

Running(kind) == {c \in flight \cup mail : c.kind \in kind}
Actions == ListActions \cup {"connect", "disconnect"}

\* The cursor is on a server of the list and a manual selection is in the list,
\* whatever lists arrive and whatever was selected before.
PointsAtServers ==
    /\ m.cursor \in 0..(IF m.servers = <<>> THEN 0 ELSE Len(m.servers) - 1)
    /\ m.selection = "manual" => m.selected \in Range(m.servers)

\* One action at a time: the model is busy exactly while the command of its
\* last action runs or its result waits, and no other action does.
BusyIsOneAction ==
    program = "running" =>
        /\ Cardinality(Running(Actions)) = (IF m.busy THEN 1 ELSE 0)
        /\ \A c \in Running(Actions) : c.gen = m.gen

\* Nothing typed survives its input: neither the name nor the address.
InputForgotten == m.input = "none" => m.name = <<>> /\ m.secret = <<>>

\* The model fits its lists and its input, whatever arrives and in which order
\* (clampCursor, reconcileSelection, updateInput and cancelInput).
ModelFits == TypeOK /\ PointsAtServers /\ InputForgotten

\* What is shown never goes back to an older list or an older session.
NeverShowsOlder ==
    [][/\ m'.at # 0 => m'.at >= m.at
       /\ m'.statusAt # 0 => m'.statusAt >= m.statusAt]_vars
=============================================================================
