------------------------------ MODULE RpcServer ------------------------------
(* The daemon's RPC server and its clients (internal/rpc/server.go and        *)
(* client.go): dialling, the accept loop, authentication, the limit of        *)
(* concurrent connections, one request per connection, the watcher that       *)
(* cancels an operation whose client has gone, deadlines, and Close.          *)
(* A client has at most one connection at a time, which carries its name.     *)
EXTENDS RpcProtocol, FiniteSets

CONSTANTS
    Clients,        \* the callers that dial the socket, one call at a time each
    Users,          \* the uids they dial with
    Allowed,        \* the uids on the allowlist
    Asked,          \* the requests they send
    HandlerErrors,  \* the errors the daemon service returns
    MaxConcurrent,  \* capacity of the semaphore
    NoConn          \* no connection, no answer

ASSUME LimitAssumption == MaxConcurrent \in Nat \ {0}

\* The sentinels with which the server refuses a request by itself.  A service
\* that is called with a context returns none of them: acquire alone names one,
\* for a nil service or a nil context.
Refusals == {"ErrAccessDenied", "ErrInvalidRequest", "ErrUnsupportedVersion"}

ASSUME ServiceAssumption == \A err \in HandlerErrors : err \cap Refusals = {}

VARIABLES
    client,     \* a client's call: where it is, its request and its result
    conn,       \* its connection as the server sees it
    ended,      \* the ends of the connection that are closed
    reply,      \* the answer written to the connection
    expired,    \* operation contexts that ended on their own or by the watcher
    ran,        \* what the handler did for the request: "no", "started", "returned"
    outcome,    \* the error it returned, {} for success
    acceptor,   \* the connection in the accept loop, or its state
    slots,      \* elements in the semaphore channel
    closing,    \* progress of Server.Close
    hangup      \* the connections Close has collected

serverVars == <<client, conn, ended, reply, expired, ran, outcome, acceptor, slots, closing, hangup>>

\* The progress of Close, in the order of its statements.
CloseStage == [open |-> 0, marked |-> 1, cancelled |-> 2, unlistened |-> 3, hungup |-> 4, closed |-> 5]

Reached(stage) == CloseStage[stage] <= CloseStage[closing]

Listening == acceptor # "unstarted" /\ ~Reached("unlistened")

ServerInit ==
    /\ client = [c \in Clients |-> [pc |-> "idle", uid |-> NoConn, req |-> NoConn, sent |-> FALSE,
                                result |-> "none"]]
    /\ conn = [c \in Clients |-> "none"]
    /\ ended = [c \in Clients |-> {}]
    /\ reply = [c \in Clients |-> NoConn]
    /\ expired = [c \in Clients |-> FALSE]
    /\ ran = [c \in Clients |-> "no"]
    /\ outcome = [c \in Clients |-> {}]
    /\ acceptor = "unstarted"
    /\ slots = 0
    /\ closing = "open"
    /\ hangup = {}

-----------------------------------------------------------------------------
\* The client: dial, write the line, read the answer, within a deadline.
Done(c, result) == client' = [client EXCEPT ![c].pc = "done", ![c].result = result]

HangUp(c) == ended' = [ended EXCEPT ![c] = @ \cup {"client"}]

Dial(c, u, r) ==
    /\ client[c].pc \in {"idle", "done"} /\ conn[c] = "none"
    /\ client' = [client EXCEPT ![c] =
          [pc |-> IF Listening THEN "dialled" ELSE "done", uid |-> u, req |-> r, sent |-> FALSE,
           result |-> IF Listening THEN "none" ELSE "ErrUnavailable"]]
    /\ conn' = [conn EXCEPT ![c] = IF Listening THEN "backlog" ELSE "none"]
    /\ ended' = [ended EXCEPT ![c] = {}]
    /\ reply' = [reply EXCEPT ![c] = NoConn]
    /\ expired' = [expired EXCEPT ![c] = FALSE]
    /\ ran' = [ran EXCEPT ![c] = "no"]
    /\ outcome' = [outcome EXCEPT ![c] = {}]
    /\ UNCHANGED <<acceptor, slots, closing, hangup>>

Send(c) ==
    /\ client[c].pc = "dialled" /\ "server" \notin ended[c]
    /\ client' = [client EXCEPT ![c].pc = "sent", ![c].sent = TRUE]
    /\ UNCHANGED <<conn, ended, reply, expired, ran, outcome, acceptor, slots, closing, hangup>>

Waiting(c) == client[c].pc \in {"dialled", "sent"}

Receive(c) ==
    /\ Waiting(c) /\ reply[c] # NoConn
    /\ Done(c, ClientResult(client[c].req.op, reply[c]))
    /\ HangUp(c)
    /\ UNCHANGED <<conn, reply, expired, ran, outcome, acceptor, slots, closing, hangup>>

\* The server closed the connection without an answer: a failed write, a reset
\* or an end of file where the answer should be.
Lost(c) ==
    /\ Waiting(c) /\ reply[c] = NoConn /\ "server" \in ended[c]
    /\ \E e \in {"ErrUnavailable", "ErrInvalidResponse"} : Done(c, e)
    /\ HangUp(c)
    /\ UNCHANGED <<conn, reply, expired, ran, outcome, acceptor, slots, closing, hangup>>

\* The deadline of the call passes or its context is cancelled.
GiveUp(c) ==
    /\ Waiting(c)
    /\ Done(c, "ErrTimeout")
    /\ HangUp(c)
    /\ UNCHANGED <<conn, reply, expired, ran, outcome, acceptor, slots, closing, hangup>>

-----------------------------------------------------------------------------
\* The accept loop.
Accept(c) ==
    /\ acceptor = "accepting" /\ Listening /\ conn[c] = "backlog"
    /\ acceptor' = c
    /\ conn' = [conn EXCEPT ![c] = "accepted"]
    /\ UNCHANGED <<client, ended, reply, expired, ran, outcome, slots, closing, hangup>>

\* Accept returns an error: of a closed listener, or another one.
AcceptFails ==
    /\ acceptor = "accepting"
    /\ acceptor' = "returned"
    /\ UNCHANGED <<client, conn, ended, reply, expired, ran, outcome, slots, closing, hangup>>

\* What endConnection leaves behind, and the loop's continue.
Ended(c, admitted) ==
    /\ conn' = [conn EXCEPT ![c] = "none"]
    /\ ended' = [ended EXCEPT ![c] = @ \cup {"server"}]
    /\ slots' = IF admitted THEN slots - 1 ELSE slots

\* MUTANT: a connection is registered whether or not the server is closed.
BeginConnection_Always(c) ==
    /\ acceptor = c /\ conn[c] = "accepted"
    /\ conn' = [conn EXCEPT ![c] = "registered"]
    /\ UNCHANGED <<client, ended, reply, expired, ran, outcome, acceptor, slots, closing, hangup>>

BeginConnection(c) ==
    /\ acceptor = c /\ conn[c] = "accepted"
    /\ IF closing # "open"
       THEN Ended(c, FALSE) /\ acceptor' = "accepting"
       ELSE /\ conn' = [conn EXCEPT ![c] = "registered"]
            /\ UNCHANGED <<ended, slots, acceptor>>
    /\ UNCHANGED <<client, reply, expired, ran, outcome, closing, hangup>>

\* A write reaches a client that is still there.
Write(c, response) ==
    reply' = [reply EXCEPT ![c] = IF ended[c] = {} THEN response ELSE @]

Authorized(c) == client[c].uid \in Allowed

AuthenticateConnection(c) ==
    /\ acceptor = c /\ conn[c] = "registered"
    /\ IF "server" \in ended[c]
       THEN Ended(c, FALSE) /\ acceptor' = "accepting" /\ UNCHANGED reply
       ELSE IF Authorized(c)
       THEN /\ conn' = [conn EXCEPT ![c] = "authorized"]
            /\ UNCHANGED <<ended, slots, acceptor, reply>>
       ELSE /\ Write(c, ResponseForError("", {"ErrAccessDenied"}))
            /\ Ended(c, FALSE) /\ acceptor' = "accepting"
    /\ UNCHANGED <<client, expired, ran, outcome, closing, hangup>>

\* MUTANT: a connection over the limit is dropped without endConnection.
Admit_Dropped(c) ==
    /\ acceptor = c /\ conn[c] = "authorized"
    /\ IF slots < MaxConcurrent
       THEN conn' = [conn EXCEPT ![c] = "reading"] /\ slots' = slots + 1
       ELSE UNCHANGED <<conn, slots>>
    /\ acceptor' = "accepting"
    /\ UNCHANGED <<client, ended, reply, expired, ran, outcome, closing, hangup>>

Admit(c) ==
    /\ acceptor = c /\ conn[c] = "authorized"
    /\ IF slots < MaxConcurrent
       THEN /\ conn' = [conn EXCEPT ![c] = "reading"]
            /\ slots' = slots + 1
            /\ UNCHANGED ended
       ELSE Ended(c, FALSE)
    /\ acceptor' = "accepting"
    /\ UNCHANGED <<client, reply, expired, ran, outcome, closing, hangup>>

-----------------------------------------------------------------------------
\* serveConnection: one goroutine for an admitted connection.
\* The request line arrives, is decoded and validated, and is dispatched.
RequestError(r) ==
    IF ~r.decodes THEN {"ErrInvalidRequest"}
    ELSE IF ValidateRequest(r) # {} THEN ValidateRequest(r) ELSE CoreRequest(r)

ReadRequest(c) ==
    LET r == client[c].req IN
    /\ conn[c] = "reading" /\ client[c].sent /\ "server" \notin ended[c]
    /\ IF RequestError(r) = {}
       THEN /\ conn' = [conn EXCEPT ![c] = "running"]
            /\ ran' = [ran EXCEPT ![c] = "started"]
            /\ UNCHANGED reply
       ELSE /\ conn' = [conn EXCEPT ![c] = "answered"]
            /\ Write(c, ResponseForError(ResponseID(r), RequestError(r)))
            /\ UNCHANGED ran
    /\ UNCHANGED <<client, ended, expired, outcome, acceptor, slots, closing, hangup>>

\* MUTANT: no read deadline is set.
ReadFails_NoDeadline(c) ==
    /\ conn[c] = "reading" /\ ended[c] # {}
    /\ conn' = [conn EXCEPT ![c] = "answered"]
    /\ Write(c, ResponseForError("", {"ErrInvalidRequest"}))
    /\ UNCHANGED <<client, ended, expired, ran, outcome, acceptor, slots, closing, hangup>>

\* The read deadline passes, or an end of the connection is closed.
ReadFails(c) ==
    /\ conn[c] = "reading"
    /\ conn' = [conn EXCEPT ![c] = "answered"]
    /\ Write(c, ResponseForError("", {"ErrInvalidRequest"}))
    /\ UNCHANGED <<client, ended, expired, ran, outcome, acceptor, slots, closing, hangup>>

\* The watcher's Read returns because an end of the connection is closed or
\* the deadline of the operation has passed, and cancels the operation.
Cancelled(c) == expired[c] \/ Reached("cancelled")

WatchClientDisconnect(c) ==
    /\ conn[c] = "running" /\ ~expired[c]
    /\ expired' = [expired EXCEPT ![c] = TRUE]
    /\ UNCHANGED <<client, conn, ended, reply, ran, outcome, acceptor, slots, closing, hangup>>

\* The handler returns, by itself or because its context has ended; a panic
\* in it becomes ErrInternal.
HandlerReturns(c, err) ==
    /\ conn[c] = "running"
    /\ err \cap {"Canceled", "DeadlineExceeded"} # {} => Cancelled(c)
    /\ conn' = [conn EXCEPT ![c] = "handled"]
    /\ ran' = [ran EXCEPT ![c] = "returned"]
    /\ outcome' = [outcome EXCEPT ![c] = err]
    /\ expired' = [expired EXCEPT ![c] = FALSE]
    /\ UNCHANGED <<client, ended, reply, acceptor, slots, closing, hangup>>

\* MUTANT: the answer is written whether the handler failed or not.
WriteResponse_AlwaysOK(c) ==
    /\ conn[c] = "handled"
    /\ conn' = [conn EXCEPT ![c] = "answered"]
    /\ Write(c, Success(client[c].req))
    /\ UNCHANGED <<client, ended, expired, ran, outcome, acceptor, slots, closing, hangup>>

\* The watcher is joined and the answer is written.
WriteResponse(c) ==
    LET r == client[c].req IN
    /\ conn[c] = "handled"
    /\ conn' = [conn EXCEPT ![c] = "answered"]
    /\ Write(c, IF outcome[c] = {} THEN Success(r)
                ELSE ResponseForError(ResponseID(r), outcome[c]))
    /\ UNCHANGED <<client, ended, expired, ran, outcome, acceptor, slots, closing, hangup>>

\* MUTANT: a goroutine ends without giving its slot back.
EndConnection_KeepsSlot(c) ==
    /\ conn[c] = "answered"
    /\ Ended(c, FALSE)
    /\ UNCHANGED <<client, reply, expired, ran, outcome, acceptor, closing, hangup>>

EndConnection(c) ==
    /\ conn[c] = "answered"
    /\ Ended(c, TRUE)
    /\ UNCHANGED <<client, reply, expired, ran, outcome, acceptor, closing, hangup>>

-----------------------------------------------------------------------------
\* Server.Close, a step per statement that others can observe.
Registered == {c \in Clients : conn[c] \notin {"none", "backlog", "accepted"}}

MarkClosed ==
    /\ closing = "open"
    /\ closing' = "marked"
    /\ hangup' = Registered
    /\ UNCHANGED <<client, conn, ended, reply, expired, ran, outcome, acceptor, slots>>

CancelOperations ==
    /\ closing = "marked"
    /\ closing' = "cancelled"
    /\ UNCHANGED <<client, conn, ended, reply, expired, ran, outcome, acceptor, slots, hangup>>

\* A closed listener resets the connections that were not accepted yet.
CloseListener ==
    LET queued == {c \in Clients : conn[c] = "backlog"} IN
    /\ closing = "cancelled"
    /\ closing' = "unlistened"
    /\ conn' = [c \in Clients |-> IF c \in queued THEN "none" ELSE conn[c]]
    /\ ended' = [c \in Clients |-> IF c \in queued THEN ended[c] \cup {"server"} ELSE ended[c]]
    /\ UNCHANGED <<client, reply, expired, ran, outcome, acceptor, slots, hangup>>

CloseConnections ==
    /\ closing = "unlistened"
    /\ closing' = "hungup"
    /\ ended' = [c \in Clients |->
           IF c \in hangup \cap Registered THEN ended[c] \cup {"server"} ELSE ended[c]]
    /\ UNCHANGED <<client, conn, reply, expired, ran, outcome, acceptor, slots, hangup>>

WaitConnections ==
    /\ closing = "hungup" /\ Registered = {}
    /\ closing' = "closed"
    /\ UNCHANGED <<client, conn, ended, reply, expired, ran, outcome, acceptor, slots, hangup>>

CloseStep == CancelOperations \/ CloseListener \/ CloseConnections \/ WaitConnections

ClientStep(c) ==
    \/ \E u \in Users, r \in Asked : Dial(c, u, r)
    \/ Send(c) \/ Receive(c) \/ Lost(c) \/ GiveUp(c)

LoopStep(c) == Accept(c) \/ BeginConnection(c) \/ AuthenticateConnection(c) \/ Admit(c)

HandlerReturn(c) == \E err \in HandlerErrors \cup {{}} : HandlerReturns(c, err)

ServeStep(c) ==
    \/ ReadRequest(c) \/ ReadFails(c) \/ WatchClientDisconnect(c) \/ HandlerReturn(c)
    \/ WriteResponse(c) \/ EndConnection(c)

-----------------------------------------------------------------------------
ServerTypeOK ==
    /\ \A c \in Clients :
         /\ client[c].pc \in {"idle", "dialled", "sent", "done"}
         /\ client[c].uid \in Users \cup {NoConn}
         /\ client[c].req \in Asked \cup {NoConn}
         /\ client[c].result \in Errors \cup {"none", "ok", "ErrInvalidResponse"}
         /\ conn[c] \in {"none", "backlog", "accepted", "registered", "authorized",
                         "reading", "running", "handled", "answered"}
         /\ ended[c] \subseteq {"client", "server"}
    /\ acceptor \in Clients \cup {"unstarted", "accepting", "returned"}
    /\ slots \in 0..MaxConcurrent
    /\ hangup \subseteq Clients

\* A slot of the semaphore is taken for every connection that is being served
\* and for no other, so the limit is neither exceeded nor used up by the dead.
SlotsAreServed ==
    /\ ServerTypeOK
    /\ slots = Cardinality({c \in Clients :
                  conn[c] \in {"reading", "running", "handled", "answered"}})

\* A client that is told an outcome is told the outcome of its own request:
\* "ok" only if the handler succeeded, a refusal only if it never ran, and
\* any other code only if the handler returned it, a failed rollback before
\* anything it is joined with.
TruthfulAnswer ==
    \A c \in Clients : client[c].pc = "done" =>
        LET result == client[c].result IN
        /\ result = "ok" => ran[c] = "returned" /\ outcome[c] = {}
        /\ result \in {"ErrAccessDenied", "ErrInvalidRequest", "ErrUnsupportedVersion"}
              => ran[c] = "no"
        /\ result \notin {"ok", "ErrAccessDenied", "ErrInvalidRequest", "ErrUnsupportedVersion",
                          "ErrTimeout", "ErrUnavailable", "ErrInvalidResponse"}
              => /\ ran[c] = "returned"
                 /\ result \in outcome[c] \/ (result = "ErrInternal" /\ outcome[c] \cap Errors = {})
        /\ result = "ErrProcessStuck" => "ErrRollbackFailure" \notin outcome[c]

\* When Close has returned no connection is being served and none will be.
ClosedIsDrained == closing = "closed" => Registered = {}
=============================================================================
