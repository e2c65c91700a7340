----------------------------- MODULE SocketPath -----------------------------
(* The socket file of the daemon (NewServer and Close in                      *)
(* internal/rpc/server.go): a daemon replaces the socket a dead one left      *)
(* behind, binds its own, and unlinks it when it closes.  The steps between   *)
(* which another daemon can act on the path are steps of their own.           *)
EXTENDS Naturals, FiniteSets

CONSTANTS
    Daemons,     \* daemon processes
    MaxSockets,  \* bound: sockets created
    None

ASSUME SocketAssumption == None \notin Nat /\ MaxSockets \in Nat

VARIABLES
    path,      \* the socket file at the path: its inode, or None
    created,   \* sockets created so far, which are the inodes 1..created
    pc,        \* where a daemon is in NewServer or Close
    seen,      \* the inode it saw at the path before it decided to remove it
    sock,      \* the inode its listener is bound to
    own,       \* the inode it takes for its own socket (createdInfo)
    listening, \* the inodes whose listener is open
    faulty,    \* history: a system call of its last run failed
    managed    \* a service manager starts a daemon when no other is alive

socketVars == <<path, created, pc, seen, sock, own, listening, faulty, managed>>

SocketInit ==
    /\ path = None
    /\ created = 0
    /\ pc = [d \in Daemons |-> "off"]
    /\ seen = [d \in Daemons |-> None]
    /\ sock = [d \in Daemons |-> None]
    /\ own = [d \in Daemons |-> None]
    /\ listening = {}
    /\ faulty = [d \in Daemons |-> FALSE]
    /\ managed \in BOOLEAN

\* Not running: never started or crashed, closed, or refused by NewServer.
Gone == {"off", "closed", "failed"}

Goto(d, l) == pc' = [pc EXCEPT ![d] = l]

\* openSocketRoot and the first Lstat of removeOwnedStaleSocket.
Start(d) ==
    /\ pc[d] \in Gone /\ created < MaxSockets
    /\ managed => \A e \in Daemons : pc[e] \in Gone
    /\ seen' = [seen EXCEPT ![d] = path]
    /\ faulty' = [faulty EXCEPT ![d] = FALSE]
    /\ Goto(d, IF path = None THEN "bind" ELSE "probe")
    /\ UNCHANGED <<path, created, sock, own, listening>>

\* MUTANT: a refused dial is taken for an error like any other.
Probe_RefusedIsError(d) ==
    /\ pc[d] = "probe"
    /\ Goto(d, "failed")
    /\ UNCHANGED <<path, created, seen, sock, own, listening, faulty>>

\* The dial: answered by a listening daemon, refused by a dead one's socket,
\* any other error if the file is gone.
Probe(d) ==
    /\ pc[d] = "probe"
    /\ Goto(d, IF path = None \/ path \in listening THEN "failed" ELSE "recheck")
    /\ UNCHANGED <<path, created, seen, sock, own, listening, faulty>>

\* The second Lstat must find the same socket.
Recheck(d) ==
    /\ pc[d] = "recheck"
    /\ Goto(d, IF path = seen[d] THEN "remove" ELSE "failed")
    /\ UNCHANGED <<path, created, seen, sock, own, listening, faulty>>

\* Remove takes a name, not an inode; it fails if there is nothing.
RemoveStale(d) ==
    /\ pc[d] = "remove"
    /\ Goto(d, IF path = None THEN "failed" ELSE "bind")
    /\ path' = None
    /\ UNCHANGED <<created, seen, sock, own, listening, faulty>>

\* ListenUnix fails when the name exists.
Bind(d) ==
    /\ pc[d] = "bind"
    /\ IF path # None \/ created = MaxSockets
       THEN Goto(d, "failed") /\ UNCHANGED <<path, created, sock, listening>>
       ELSE /\ created' = created + 1
            /\ path' = created + 1
            /\ sock' = [sock EXCEPT ![d] = created + 1]
            /\ listening' = listening \cup {created + 1}
            /\ Goto(d, "learn")
    /\ UNCHANGED <<seen, own, faulty>>

\* The Lstat after ListenUnix: the socket at the path, whoever put it there, is
\* taken for the daemon's own.
Learn(d) ==
    /\ pc[d] = "learn"
    /\ IF path = None
       THEN Goto(d, "failed") /\ listening' = listening \ {sock[d]} /\ UNCHANGED own
       ELSE Goto(d, "configure") /\ own' = [own EXCEPT ![d] = path] /\ UNCHANGED listening
    /\ UNCHANGED <<path, created, seen, sock, faulty>>

\* Owner, mode and the comparison with what Lstat found; on failure the deferred
\* cleanup closes the listener.
ConfigureSocket(d) ==
    /\ pc[d] = "configure"
    /\ IF path = own[d]
       THEN Goto(d, "serving") /\ UNCHANGED listening
       ELSE Goto(d, "undo") /\ listening' = listening \ {sock[d]}
    /\ UNCHANGED <<path, created, seen, sock, own, faulty>>

\* MUTANT: Close leaves the socket file where it is.
Close_Leaves(d) ==
    /\ pc[d] = "serving"
    /\ listening' = listening \ {sock[d]}
    /\ Goto(d, "closed")
    /\ UNCHANGED <<path, created, seen, sock, own, faulty>>

\* Close closes the listener first and unlinks when the connections are gone.
Close(d) ==
    /\ pc[d] = "serving"
    /\ listening' = listening \ {sock[d]}
    /\ Goto(d, "unlink")
    /\ UNCHANGED <<path, created, seen, sock, own, faulty>>

\* removeOwnedSocket, called by Close ("unlink") and by the cleanup of NewServer
\* ("undo"): an Lstat that must find its own socket, then Remove.
CheckOwn(d) ==
    /\ \/ pc[d] = "unlink" /\ Goto(d, IF path = own[d] THEN "unlinking" ELSE "closed")
       \/ pc[d] = "undo" /\ Goto(d, IF path = own[d] THEN "undoing" ELSE "failed")
    /\ UNCHANGED <<path, created, seen, sock, own, listening, faulty>>

RemoveOwn(d) ==
    /\ \/ pc[d] = "unlinking" /\ Goto(d, "closed")
       \/ pc[d] = "undoing" /\ Goto(d, "failed")
    /\ path' = None
    /\ UNCHANGED <<created, seen, sock, own, listening, faulty>>

\* A dial, Lstat, listen, chown, chmod or Remove fails for a reason of the
\* system's.  removeOwnedSocket then gives up and leaves the socket.
SystemFails(d) ==
    /\ \/ /\ pc[d] \in {"probe", "recheck", "remove", "bind", "undo", "undoing"}
          /\ Goto(d, "failed") /\ UNCHANGED listening
       \/ pc[d] = "learn" /\ Goto(d, "failed") /\ listening' = listening \ {sock[d]}
       \/ pc[d] = "configure" /\ Goto(d, "undo") /\ listening' = listening \ {sock[d]}
       \/ pc[d] \in {"unlink", "unlinking"} /\ Goto(d, "closed") /\ UNCHANGED listening
    /\ faulty' = [faulty EXCEPT ![d] = TRUE]
    /\ UNCHANGED <<path, created, seen, sock, own>>

\* The process dies and its socket file stays.
Crash(d) ==
    /\ pc[d] \notin Gone
    /\ listening' = listening \ {sock[d]}
    /\ Goto(d, "off")
    /\ UNCHANGED <<path, created, seen, sock, own, faulty>>

Step(d) ==
    \/ Start(d) \/ Probe(d) \/ Recheck(d) \/ RemoveStale(d) \/ Bind(d) \/ Learn(d)
    \/ ConfigureSocket(d) \/ CheckOwn(d) \/ RemoveOwn(d) \/ SystemFails(d)

SocketNext == (\E d \in Daemons : Step(d) \/ Close(d) \/ Crash(d)) /\ UNCHANGED managed

SocketSpec == SocketInit /\ [][SocketNext]_socketVars

-----------------------------------------------------------------------------
\* A daemon that a service manager starts is never refused because of a socket
\* that a crashed, failed or closed one left behind (removeOwnedStaleSocket): it
\* fails only if a system call fails.  While it serves, the socket at the path
\* is its own and is answered.
AloneStarts ==
    managed => \A d \in Daemons :
        /\ pc[d] = "failed" => faulty[d]
        /\ pc[d] = "serving" => path = sock[d] /\ path \in listening

\* Close leaves no socket of its own at the path, though other daemons start
\* and close meanwhile, unless Lstat or Remove fails.
ClosedLeavesNoSocket == \A d \in Daemons : pc[d] = "closed" /\ path = sock[d] => faulty[d]

\* The socket path stays usable: NewServer and removeOwnedSocket leave it so
\* that a restarted daemon can listen.
PathUsable == AloneStarts /\ ClosedLeavesNoSocket
=============================================================================
