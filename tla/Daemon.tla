-------------------------------- MODULE Daemon --------------------------------
(* The daemon process (cmd/tuiboxd/main.go): it opens the runner, the service *)
(* and the RPC server, serves until a signal or until Serve returns, closes   *)
(* the server, joins Serve and closes the service.                            *)
EXTENDS RpcServer

VARIABLES
    main,    \* where runDaemon is; "exited" with status 0, "failed" with 1
    opened,  \* what it has opened and not closed
    orphaned \* history: a handler was running when the service was closed

daemonVars == <<client, conn, ended, reply, expired, ran, outcome, acceptor, slots,
                closing, hangup, main, opened, orphaned>>

Init == ServerInit /\ main = "starting" /\ opened = {} /\ orphaned = FALSE

\* requireRoot, parseOptions and NewRunner fail with nothing opened yet.
StartFails ==
    /\ main = "starting" /\ opened = {}
    /\ main' = "failed"
    /\ UNCHANGED <<serverVars, opened, orphaned>>

OpenRunner ==
    /\ main = "starting" /\ opened = {}
    /\ opened' = {"runner"}
    /\ UNCHANGED <<serverVars, main, orphaned>>

OpenService ==
    /\ main = "starting" /\ opened = {"runner"}
    /\ \/ opened' = {"runner", "service"} /\ UNCHANGED main
       \/ opened' = {} /\ main' = "failed"
    /\ UNCHANGED <<serverVars, orphaned>>

\* MUTANT: a server that cannot listen leaves the service open.
OpenServer_Leaks ==
    /\ main = "starting" /\ opened = {"runner", "service"}
    /\ \/ opened' = opened \cup {"server"} /\ main' = "serving" /\ acceptor' = "accepting"
       \/ UNCHANGED <<opened, acceptor>> /\ main' = "failed"
    /\ UNCHANGED <<client, conn, ended, reply, expired, ran, outcome, slots, closing, hangup, orphaned>>

\* Closing the service closes its runner: no core has been started yet.
OpenServer ==
    /\ main = "starting" /\ opened = {"runner", "service"}
    /\ \/ opened' = opened \cup {"server"} /\ main' = "serving" /\ acceptor' = "accepting"
       \/ opened' = {} /\ main' = "failed" /\ UNCHANGED acceptor
    /\ UNCHANGED <<client, conn, ended, reply, expired, ran, outcome, slots, closing, hangup, orphaned>>

\* waitForServerShutdown: a signal arrives or Serve has returned, and
\* Server.Close begins.
StopServing ==
    /\ main = "serving"
    /\ main' = "closing"
    /\ MarkClosed
    /\ UNCHANGED <<opened, orphaned>>

\* MUTANT: the service is closed as soon as the shutdown begins.
CloseService_Early ==
    /\ main = "closing"
    /\ opened' = {}
    /\ orphaned' = (\E c \in Clients : conn[c] = "running")
    /\ main' = "exited"
    /\ acceptor' = "returned" /\ closing' = "closed" /\ slots' = 0
    /\ conn' = [c \in Clients |-> "none"]
    /\ ended' = [c \in Clients |-> {"client", "server"}]
    /\ UNCHANGED <<client, reply, expired, ran, outcome, hangup>>

\* Server.Close has returned and Serve is joined.  The errors of Serve, of Close
\* and of the service are joined; a service whose core cannot be collected
\* returns ErrProcessStuck and leaves its runner open.
CloseService ==
    /\ main = "closing"
    /\ closing = "closed" /\ acceptor = "returned"
    /\ orphaned' = (\E c \in Clients : conn[c] = "running")
    /\ \/ opened' = {} /\ main' \in {"exited", "failed"}
       \/ opened' = {"runner"} /\ main' = "failed"
    /\ UNCHANGED serverVars

MainStep ==
    \/ StartFails \/ OpenRunner \/ OpenService \/ OpenServer \/ StopServing \/ CloseService

Running == main \in {"serving", "closing"}

Serve ==
    /\ Running
    /\ \/ AcceptFails
       \/ \E c \in Clients : LoopStep(c) \/ ServeStep(c)
       \/ CloseStep
    /\ UNCHANGED <<main, opened, orphaned>>

Call ==
    /\ \E c \in Clients : ClientStep(c)
    /\ UNCHANGED <<main, opened, orphaned>>

Next == MainStep \/ Serve \/ Call

Spec == Init /\ [][Next]_daemonVars

\* The main goroutine, the accept loop and the goroutine of an admitted
\* connection go on while they can: the deadlines that the server sets on reads
\* and operations pass, and a handler returns once its context has ended.
\* Nothing is assumed of the clients, nor of accepting before stopping.
InServer(A) == Running /\ A /\ UNCHANGED <<main, opened, orphaned>>

MainGoesOn == CloseService \/ InServer(CloseStep)

LoopGoesOn ==
    InServer(\/ closing # "open" /\ AcceptFails
             \/ \E c \in Clients : BeginConnection(c) \/ AuthenticateConnection(c) \/ Admit(c))

ConnectionGoesOn(c) ==
    InServer(\/ ReadFails(c) \/ WatchClientDisconnect(c) \/ WriteResponse(c) \/ EndConnection(c)
             \/ Cancelled(c) /\ HandlerReturn(c))

Fairness ==
    /\ WF_daemonVars(MainGoesOn)
    /\ WF_daemonVars(LoopGoesOn)
    /\ \A c \in Clients : WF_daemonVars(ConnectionGoesOn(c))

FairSpec == Spec /\ Fairness

-----------------------------------------------------------------------------
TypeOK ==
    /\ ServerTypeOK
    /\ main \in {"starting", "serving", "closing", "exited", "failed"}
    /\ opened \subseteq {"runner", "service", "server"}

\* The daemon stops in order.  When Server.Close has returned no connection is
\* being served and none will be, and the service is closed when no handler uses
\* it any more.  A daemon that reports success has closed what it opened.  One
\* that fails has too, but for the runner of a core that would not die, and that
\* only once the server is closed (runDaemon, Server.Close, Service.Close).
OrderlyStop ==
    /\ TypeOK
    /\ ClosedIsDrained
    /\ ~orphaned
    /\ main = "exited" => opened = {}
    /\ main = "failed" /\ opened # {} => opened = {"runner"} /\ closing = "closed"

\* A daemon that is told to stop exits, whatever its clients do or do not do.
StopExits == main = "closing" ~> main \in {"exited", "failed"}

\* A connection that was admitted gives its slot back, though the client may
\* send nothing, read nothing or stay for ever.
SlotsReturn == \A c \in Clients : conn[c] = "reading" ~> conn[c] = "none"
=============================================================================
