------------------------------- MODULE MCDaemon -------------------------------
(* The daemon for TLC: its server with two callers and one slot, and the      *)
(* socket file over several daemons.  The two share no state once a server    *)
(* listens, so a behaviour is about one of them, as focus says.               *)
EXTENDS Daemon, SocketPath

CONSTANTS c1, c2

VARIABLE focus

Good(op, payload) == [decodes |-> TRUE, version |-> 1, id |-> "valid", op |-> op, connect |-> payload]

PlainRequest == {Good("connect", "good")}

\* One request for every way in which a line can be refused.
ManyRequests ==
    {Good(op, p) : op \in {"connect", "health", "other"}, p \in {"absent", "good", "bad"}}
      \cup {[Good("connect", "good") EXCEPT !.version = 2],
            [Good("connect", "good") EXCEPT !.id = "invalid"],
            [Good("connect", "good") EXCEPT !.version = 2, !.id = "invalid"],
            [Good("connect", "good") EXCEPT !.decodes = FALSE]}

\* What internal/daemon/service.go returns, errors it joins included, and an
\* error that is no sentinel.
AllServiceErrors ==
    {{e} : e \in {"ErrUnavailable", "ErrProcessStuck", "ErrCoreValidation", "ErrProcessFailure",
                  "ErrRollbackFailure", "Canceled", "DeadlineExceeded", "other"}}
      \cup {{"ErrRollbackFailure", "ErrProcessStuck"}, {"ErrProcessFailure", "ErrRollbackFailure"},
            {"ErrProcessFailure", "DeadlineExceeded", "ErrProcessStuck"}}

AllRequests == ManyRequests \cup PlainRequest

\* Strangers, other requests than the plain one, errors of the service and
\* answers cut short come with c1, while c2 has not called yet.
Special(c) ==
    \/ client[c].uid \notin Allowed \cup {NoConn}
    \/ client[c].req \notin PlainRequest \cup {NoConn}
    \/ outcome[c] # {}
    \/ client[c].result = "ErrInvalidResponse"

Focused ==
    /\ ~Special(c2) /\ (Special(c1) => client[c2].pc = "idle")
    /\ client[c1].uid \notin Allowed => client[c1].req \in PlainRequest \cup {NoConn}

allVars == <<daemonVars, socketVars, focus>>

MCInit == Init /\ SocketInit /\ focus \in {"server", "socket"}

MCNext ==
    \/ focus = "server" /\ Next /\ Focused' /\ UNCHANGED <<socketVars, focus>>
    \/ focus = "socket" /\ SocketNext /\ UNCHANGED <<daemonVars, focus>>
    \/ focus = "socket" /\ created = MaxSockets /\ UNCHANGED allVars

MCSpec == MCInit /\ [][MCNext]_allVars /\ Fairness
=============================================================================
