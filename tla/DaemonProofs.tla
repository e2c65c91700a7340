---------------------------- MODULE DaemonProofs ----------------------------
(* What the daemon process keeps true for any number of clients, any          *)
(* requests, any allowlist, any errors of the service and any limit.          *)
EXTENDS Daemon, SocketPath, FiniteSetTheorems, WellFoundedInduction, TLAPS

-----------------------------------------------------------------------------
(* The table of codes.                                                        *)

\* The table has twelve rows.
LEMMA Rows == DOMAIN CodeTable = 1..12 /\ Len(CodeTable) = 12
BY DEF CodeTable

\* A set of natural numbers that is not empty has a least element, which Min
\* chooses.
LEMMA MinIsLeast ==
    ASSUME NEW S, S \subseteq Nat, S # {}
    PROVE  Min(S) \in S /\ \A y \in S : Min(S) <= y
<1>1. \E x \in S : \A y \in S : ~ (<<y, x>> \in OpToRel(<, Nat))
  BY Zenon, WFMin, NatLessThanWellFounded
<1>2. PICK x \in S : \A y \in S : ~ (<<y, x>> \in OpToRel(<, Nat))
  BY Zenon, <1>1
<1>3. \A y \in S : ~ (y < x)
  BY Zenon, <1>2 DEF OpToRel
<1>4. \A y \in S : x <= y
  BY <1>3
<1> QED BY Zenon, <1>4 DEF Min

\* codeForError takes the first row of the table whose sentinel is joined in the
\* error, and "internal" if there is none.
LEMMA CodeIsFirst ==
    ASSUME NEW err
    PROVE  \/ err \cap Errors = {} /\ CodeForError(err) = "internal"
           \/ \E i \in 1..12 : /\ CodeTable[i][1] \in err
                               /\ \A j \in 1..12 : CodeTable[j][1] \in err => i <= j
                               /\ CodeForError(err) = CodeTable[i][2]
<1> DEFINE I == {i \in 1..Len(CodeTable) : CodeTable[i][1] \in err}
<1>1. I = {i \in 1..12 : CodeTable[i][1] \in err}
  BY Zenon, Rows
<1>2. CASE I = {}
  <2>1. CodeForError(err) = "internal"
    BY Zenon, <1>2 DEF CodeForError
  <2> QED BY Zenon, <1>1, <1>2, <2>1, Rows DEF Errors
<1>3. CASE I # {}
  <2>1. Min(I) \in I /\ \A y \in I : Min(I) <= y
    <3>1. I \subseteq Nat
      BY <1>1
    <3> HIDE DEF I
    <3> QED BY Zenon, <1>3, <3>1, MinIsLeast
  <2>2. CodeForError(err) = CodeTable[Min(I)][2]
    BY Zenon, <1>3 DEF CodeForError
  <2> QED BY Zenon, <1>1, <2>1, <2>2
<1> QED BY Zenon, <1>2, <1>3

\* errorForCode takes the first row of the table that has the code.
LEMMA ErrorIsFirst ==
    ASSUME NEW code, NEW i \in 1..12, CodeTable[i][2] = code,
           \A j \in 1..12 : CodeTable[j][2] = code => i <= j
    PROVE  ErrorForCode(code) = CodeTable[i][1]
<1> DEFINE I == {j \in 1..Len(CodeTable) : CodeTable[j][2] = code}
<1>1. I = {j \in 1..12 : CodeTable[j][2] = code}
  BY Zenon, Rows
<1>2. i \in I /\ \A j \in I : i <= j
  BY Zenon, <1>1
<1>3. I \subseteq Nat /\ I # {}
  BY <1>1, <1>2
<1>4. Min(I) \in I /\ \A y \in I : Min(I) <= y
  <2> HIDE DEF I
  <2> QED BY Zenon, <1>3, MinIsLeast
<1>5. Min(I) = i
  <2>1. Min(I) \in Nat /\ Min(I) <= i /\ i <= Min(I)
    <3> HIDE DEF I
    <3> QED BY Zenon, <1>2, <1>3, <1>4
  <2> HIDE DEF I
  <2> QED BY <2>1
<1> QED BY Zenon, <1>3, <1>5 DEF ErrorForCode

\* A code is read back as the sentinel it was made from, save that the codes of
\* the two context errors are read as ErrTimeout.
LEMMA RoundTrip ==
    ASSUME NEW i \in 1..12
    PROVE  ErrorForCode(CodeTable[i][2]) =
              IF i \in {10, 11} THEN "ErrTimeout" ELSE CodeTable[i][1]
<1>1. \E k \in 1..12 : /\ CodeTable[k][2] = CodeTable[i][2]
                       /\ \A j \in 1..12 : CodeTable[j][2] = CodeTable[i][2] => k <= j
                       /\ CodeTable[k][1] = IF i \in {10, 11} THEN "ErrTimeout" ELSE CodeTable[i][1]
  <2>1. CASE i \in {10, 11}
    <3>1. /\ CodeTable[9][2] = CodeTable[i][2]
          /\ \A j \in 1..12 : CodeTable[j][2] = CodeTable[i][2] => 9 <= j
      BY <2>1 DEF CodeTable
    <3> QED BY <2>1, <3>1 DEF CodeTable
  <2>2. CASE i \notin {10, 11}
    <3>1. \A j \in 1..12 : CodeTable[j][2] = CodeTable[i][2] => i <= j
      BY <2>2 DEF CodeTable
    <3> QED BY Zenon, <2>2, <3>1
  <2> QED BY Zenon, <2>1, <2>2
<1> QED BY Zenon, <1>1, ErrorIsFirst

-----------------------------------------------------------------------------
(* The inductive invariant.                                                   *)

Results == Errors \cup {"none", "ok", "ErrInvalidResponse"}

\* Results that say nothing of what the daemon did.
Unknown == {"ErrTimeout", "ErrUnavailable", "ErrInvalidResponse"}

\* The connections whose goroutine runs, each of which holds a slot.
Served == {c \in Clients : conn[c] \in {"reading", "running", "handled", "answered"}}

Unhandled == {"backlog", "accepted", "registered", "authorized", "reading"}

Calls == [pc : {"idle", "dialled", "sent", "done"}, uid : Users \cup {NoConn},
          req : Asked \cup {NoConn}, sent : BOOLEAN, result : Results]

\* Where the fields range and which functions they are.
TypeInv ==
    /\ client \in [Clients -> Calls]
    /\ conn \in [Clients -> {"none", "backlog", "accepted", "registered", "authorized",
                             "reading", "running", "handled", "answered"}]
    /\ ended \in [Clients -> SUBSET {"client", "server"}]
    /\ DOMAIN reply = Clients
    /\ DOMAIN expired = Clients
    /\ DOMAIN ran = Clients
    /\ DOMAIN outcome = Clients
    /\ acceptor \in Clients \cup {"unstarted", "accepting", "returned"}
    /\ hangup \subseteq Clients
    /\ main \in {"starting", "serving", "closing", "exited", "failed"}
    /\ opened \subseteq {"runner", "service", "server"}

\* The semaphore channel holds an element for each served connection.
SlotInv ==
    /\ IsFiniteSet(Served)
    /\ slots = Cardinality(Served)
    /\ slots \in 0..MaxConcurrent

StopInv ==
    /\ ClosedIsDrained
    /\ ~orphaned
    /\ main = "exited" => opened = {}
    /\ main = "failed" /\ opened # {} => opened = {"runner"} /\ closing = "closed"

\* What a result may say when the handler did `did` and returned err.
TrueTold(result, did, err) ==
    /\ result = "ok" => did = "returned" /\ err = {}
    /\ result \in Refusals => did = "no"
    /\ result \notin {"ok"} \cup Refusals \cup Unknown
          => /\ did = "returned"
             /\ result \in err \/ (result = "ErrInternal" /\ err \cap Errors = {})
    /\ result = "ErrProcessStuck" => "ErrRollbackFailure" \notin err

\* The answers the server may have written by then.
Refused(response) == \E id : \E e \in Refusals : response = ResponseForError(id, {e})

Succeeded(response) ==
    \E id : \E body \in {"health", "status"} : response = [id |-> id, ok |-> TRUE, body |-> body]

Failed(response, err) == \E id : response = ResponseForError(id, err)

TrueAnswer(response, did, err) ==
    \/ did = "no" /\ Refused(response)
    \/ did = "returned" /\ err = {} /\ Succeeded(response)
    \/ did = "returned" /\ err \cap Refusals = {} /\ Failed(response, err)

\* Before the handler starts nothing has been done, and an answer or a result
\* that reports an outcome is there only when the outcome no longer changes.
Fits(call, state, answer, did, err) ==
    /\ state \in Unhandled => did = "no"
    /\ state = "handled" => did = "returned" /\ err \cap Refusals = {}
    /\ answer # NoConn => state \in {"answered", "none"} /\ TrueAnswer(answer, did, err)
    /\ call.pc = "done" /\ call.result \notin Unknown
          => state \in {"answered", "none"} /\ TrueTold(call.result, did, err)

CallInv == \A c \in Clients : Fits(client[c], conn[c], reply[c], ran[c], outcome[c])

DaemonInv == TypeInv /\ SlotInv /\ StopInv /\ CallInv

-----------------------------------------------------------------------------
(* What a client makes of an answer.                                          *)

\* A code that the server makes of an error is read back as a sentinel of that
\* error, as ErrTimeout, or as ErrInternal if it names no sentinel at all; a
\* failed rollback comes before a stuck process.
LEMMA CodeTells ==
    ASSUME NEW err
    PROVE  LET told == ErrorForCode(CodeForError(err)) IN
           /\ told \in Errors
           /\ \/ told \in err
              \/ told = "ErrTimeout"
              \/ told = "ErrInternal" /\ err \cap Errors = {}
           /\ told = "ErrProcessStuck" => "ErrRollbackFailure" \notin err
<1>1. CASE err \cap Errors = {} /\ CodeForError(err) = "internal"
  <2>1. ErrorForCode("internal") = "ErrInternal"
    <3>1. CodeTable[12][2] = "internal" /\ CodeTable[12][1] = "ErrInternal"
      BY Zenon DEF CodeTable
    <3> QED BY <3>1, RoundTrip
  <2>2. "ErrInternal" \in Errors
    BY Rows DEF Errors, CodeTable
  <2> QED BY Zenon, <1>1, <2>1, <2>2
<1>2. ASSUME NEW i \in 1..12, CodeTable[i][1] \in err,
             \A j \in 1..12 : CodeTable[j][1] \in err => i <= j,
             CodeForError(err) = CodeTable[i][2]
      PROVE  LET told == ErrorForCode(CodeForError(err)) IN
             /\ told \in Errors
             /\ told \in err \/ told = "ErrTimeout"
             /\ told = "ErrProcessStuck" => "ErrRollbackFailure" \notin err
  <2>1. ErrorForCode(CodeForError(err)) = IF i \in {10, 11} THEN "ErrTimeout" ELSE CodeTable[i][1]
    BY Zenon, <1>2, RoundTrip
  <2>2. CodeTable[i][1] \in Errors /\ "ErrTimeout" \in Errors
    BY Rows DEF Errors, CodeTable
  <2>3. ASSUME CodeTable[i][1] = "ErrProcessStuck" PROVE "ErrRollbackFailure" \notin err
    <3>1. i = 6
      BY <2>3 DEF CodeTable
    <3>2. CodeTable[5][1] = "ErrRollbackFailure"
      BY Zenon DEF CodeTable
    <3> QED BY <1>2, <3>1, <3>2
  <2> QED BY Zenon, <1>2, <2>1, <2>2, <2>3
<1> QED BY Zenon, <1>1, <1>2, CodeIsFirst

\* Only an access that was denied is answered with "access_denied".
LEMMA DeniedTells ==
    ASSUME NEW err, CodeForError(err) = "access_denied"
    PROVE  "ErrAccessDenied" \in err
<1>1. ASSUME NEW i \in 1..12, CodeTable[i][1] \in err, CodeForError(err) = CodeTable[i][2]
      PROVE  "ErrAccessDenied" \in err
  <2>1. i = 3
    BY <1>1 DEF CodeTable
  <2> QED BY Zenon, <1>1, <2>1 DEF CodeTable
<1> QED BY Zenon, <1>1, CodeIsFirst

\* Client.call makes of a true answer a true result.
LEMMA ResultIsTrue ==
    ASSUME NEW op, NEW response, NEW did, NEW err, TrueAnswer(response, did, err)
    PROVE  /\ ClientResult(op, response) \in Results
           /\ TrueTold(ClientResult(op, response), did, err)
<1> DEFINE told == ClientResult(op, response)
<1>0. Refusals \subseteq Errors /\ "ErrAccessDenied" \in Refusals /\ "ErrAccessDenied" \in Results
  BY Rows DEF Errors, CodeTable, Refusals, Results
<1>1. ASSUME NEW id, NEW joined, response = ResponseForError(id, joined)
      PROVE  \/ told = "ErrAccessDenied" /\ "ErrAccessDenied" \in joined
             \/ told = "ErrInvalidResponse"
             \/ told = ErrorForCode(CodeForError(joined))
  <2>1. response.id = id /\ response.ok = FALSE /\ response.body = CodeForError(joined)
    BY Zenon, <1>1 DEF ResponseForError
  <2>2. CASE id = "" /\ response.body = "access_denied"
    BY Zenon, <2>1, <2>2, DeniedTells DEF ClientResult
  <2>3. CASE id = "" /\ response.body # "access_denied"
    BY Zenon, <2>1, <2>3 DEF ClientResult
  <2>4. CASE id # ""
    BY Zenon, <2>1, <2>4 DEF ClientResult
  <2> QED BY Zenon, <2>2, <2>3, <2>4
<1>2. CASE did = "no" /\ Refused(response)
  <2>0. PICK id : \E e \in Refusals : response = ResponseForError(id, {e})
    BY Zenon, <1>2 DEF Refused
  <2>1. PICK e \in Refusals : response = ResponseForError(id, {e})
    BY Zenon, <2>0
  <2>2. \/ told = "ErrAccessDenied" \/ told = "ErrInvalidResponse"
        \/ told = ErrorForCode(CodeForError({e}))
    BY Zenon, <1>1, <2>1
  <2>3. ErrorForCode(CodeForError({e})) \in Refusals \cup {"ErrTimeout"}
    BY Zenon, <1>0, CodeTells
  <2>4. ErrorForCode(CodeForError({e})) \in Errors
    BY Zenon, CodeTells
  <2> HIDE DEF told
  <2>5. told \in Refusals \cup Unknown /\ told \in Results
    BY Zenon, <1>0, <2>2, <2>3, <2>4 DEF Unknown, Results
  <2>6. TrueTold(told, did, err)
    BY Zenon, <1>2, <2>5 DEF TrueTold, Unknown, Refusals
  <2> QED BY Zenon, <2>5, <2>6 DEF told
<1>3. CASE did = "returned" /\ err = {} /\ Succeeded(response)
  <2>0. PICK id : \E body \in {"health", "status"} :
                    response = [id |-> id, ok |-> TRUE, body |-> body]
    BY Zenon, <1>3 DEF Succeeded
  <2>1. PICK body \in {"health", "status"} : response = [id |-> id, ok |-> TRUE, body |-> body]
    BY Zenon, <2>0
  <2>2. response.id = id /\ response.ok = TRUE /\ response.body = body
    BY Zenon, <2>1
  <2>3. told \in {"ok", "ErrInvalidResponse"}
    <3>1. CASE id = ""
      BY Zenon, <2>2, <3>1 DEF ClientResult
    <3>2. CASE id # ""
      BY Zenon, <2>2, <3>2 DEF ClientResult
    <3> QED BY Zenon, <3>1, <3>2
  <2> HIDE DEF told
  <2>4. told \in Results /\ TrueTold(told, did, err)
    BY Zenon, <1>3, <2>3 DEF TrueTold, Unknown, Refusals, Results
  <2> QED BY Zenon, <2>4 DEF told
<1>4. CASE did = "returned" /\ err \cap Refusals = {} /\ Failed(response, err)
  <2>1. PICK id : response = ResponseForError(id, err)
    BY Zenon, <1>4 DEF Failed
  <2>2. told = "ErrInvalidResponse" \/ told = ErrorForCode(CodeForError(err))
    BY Zenon, <1>0, <1>1, <1>4, <2>1
  <2> HIDE DEF told
  <2>3. told \in Results /\ TrueTold(told, did, err)
    <3>1. CASE told = "ErrInvalidResponse"
      BY Zenon, <3>1 DEF TrueTold, Unknown, Refusals, Results
    <3>2. CASE told = ErrorForCode(CodeForError(err))
      <4>1. /\ told \in Errors
            /\ \/ told \in err
               \/ told = "ErrTimeout"
               \/ told = "ErrInternal" /\ err \cap Errors = {}
            /\ told = "ErrProcessStuck" => "ErrRollbackFailure" \notin err
        BY Zenon, <3>2, CodeTells
      <4>2. told \notin Refusals
        BY Zenon, <1>4, <4>1 DEF Refusals
      <4>3. told # "ok"
        BY <4>1, Rows DEF Errors, CodeTable
      <4> QED BY Zenon, <1>4, <4>1, <4>2, <4>3 DEF TrueTold, Unknown, Results
    <3> QED BY Zenon, <2>2, <3>1, <3>2
  <2> QED BY Zenon, <2>3 DEF told
<1> QED BY Zenon, <1>2, <1>3, <1>4 DEF TrueAnswer

-----------------------------------------------------------------------------
(* Every step keeps the invariant.                                            *)

\* The first state satisfies it: nobody has called and nothing is open.
LEMMA DaemonInit == Init => DaemonInv
<1> SUFFICES ASSUME Init PROVE DaemonInv
  OBVIOUS
<1> USE DEF Init, ServerInit
<1>1. TypeInv
  BY Zenon DEF TypeInv, Calls, Results
<1>2. SlotInv
  <2>1. Served = {}
    BY Zenon DEF Served
  <2> QED BY <2>1, FS_EmptySet, LimitAssumption DEF SlotInv
<1>3. StopInv
  BY Zenon DEF StopInv, ClosedIsDrained
<1>4. CallInv
  BY Zenon DEF CallInv, Fits, Unhandled
<1> QED BY Zenon, <1>1, <1>2, <1>3, <1>4 DEF DaemonInv

\* No step takes a variable out of its range.
LEMMA TypeStep == DaemonInv /\ [Next]_daemonVars => TypeInv'
<1> SUFFICES ASSUME DaemonInv, [Next]_daemonVars PROVE TypeInv'
  OBVIOUS
<1>0. TypeInv /\ CallInv
  BY Zenon DEF DaemonInv
<1>1. CASE UNCHANGED daemonVars
  BY Zenon, <1>0, <1>1 DEF daemonVars, TypeInv
<1>2. CASE MainStep
  <2>1. CASE StartFails \/ OpenRunner \/ OpenService \/ CloseService
    BY Zenon, <1>0, <2>1 DEF StartFails, OpenRunner, OpenService, CloseService, serverVars, TypeInv
  <2>2. CASE OpenServer
    BY Zenon, <1>0, <2>2 DEF OpenServer, TypeInv
  <2>3. CASE StopServing
    BY Zenon, <1>0, <2>3 DEF StopServing, MarkClosed, Registered, TypeInv
  <2> QED BY Zenon, <1>2, <2>1, <2>2, <2>3 DEF MainStep
<1>3. ASSUME AcceptFails \/ CloseStep, UNCHANGED <<main, opened, orphaned>> PROVE TypeInv'
  <2>1. CASE AcceptFails
    BY Zenon, <1>0, <1>3, <2>1 DEF AcceptFails, TypeInv
  <2>2. CASE CancelOperations \/ WaitConnections
    BY Zenon, <1>0, <1>3, <2>2 DEF CancelOperations, WaitConnections, TypeInv
  <2>3. CASE CloseListener
    BY Zenon, <1>0, <1>3, <2>3 DEF CloseListener, TypeInv
  <2>4. CASE CloseConnections
    BY Zenon, <1>0, <1>3, <2>4 DEF CloseConnections, TypeInv
  <2> QED BY Zenon, <1>3, <2>1, <2>2, <2>3, <2>4 DEF CloseStep
<1>4. ASSUME NEW c \in Clients, LoopStep(c), UNCHANGED <<main, opened, orphaned>> PROVE TypeInv'
  <2>1. CASE Accept(c)
    BY Zenon, <1>0, <1>4, <2>1 DEF Accept, TypeInv
  <2>2. CASE BeginConnection(c)
    BY <1>0, <1>4, <2>2 DEF BeginConnection, Ended, TypeInv
  <2>3. CASE AuthenticateConnection(c)
    <3>1. CASE "server" \in ended[c]
      BY <1>0, <1>4, <2>3, <3>1 DEF AuthenticateConnection, Ended, TypeInv
    <3>2. CASE "server" \notin ended[c] /\ Authorized(c)
      BY Zenon, <1>0, <1>4, <2>3, <3>2 DEF AuthenticateConnection, TypeInv
    <3>3. CASE "server" \notin ended[c] /\ ~Authorized(c)
      <4>1. DOMAIN reply' = Clients
        BY Zenon, <1>0, <2>3, <3>3 DEF AuthenticateConnection, Write, TypeInv
      <4>2. /\ conn' = [conn EXCEPT ![c] = "none"]
            /\ ended' = [ended EXCEPT ![c] = @ \cup {"server"}]
            /\ acceptor' = "accepting"
            /\ UNCHANGED <<client, expired, ran, outcome, closing, hangup>>
        BY Zenon, <2>3, <3>3 DEF AuthenticateConnection, Ended
      <4> QED BY Zenon, <1>0, <1>4, <4>1, <4>2 DEF TypeInv
    <3> QED BY Zenon, <3>1, <3>2, <3>3
  <2>4. CASE Admit(c)
    BY <1>0, <1>4, <2>4 DEF Admit, Ended, TypeInv
  <2> QED BY Zenon, <1>4, <2>1, <2>2, <2>3, <2>4 DEF LoopStep
<1>5. ASSUME NEW c \in Clients, ServeStep(c), UNCHANGED <<main, opened, orphaned>> PROVE TypeInv'
  <2>1. CASE ReadRequest(c)
    BY Zenon, <1>0, <1>5, <2>1 DEF ReadRequest, Write, TypeInv
  <2>2. CASE ReadFails(c)
    BY Zenon, <1>0, <1>5, <2>2 DEF ReadFails, Write, TypeInv
  <2>3. CASE WatchClientDisconnect(c)
    BY Zenon, <1>0, <1>5, <2>3 DEF WatchClientDisconnect, TypeInv
  <2>4. ASSUME NEW err, HandlerReturns(c, err) PROVE TypeInv'
    BY Zenon, <1>0, <1>5, <2>4 DEF HandlerReturns, TypeInv
  <2>5. CASE WriteResponse(c)
    BY Zenon, <1>0, <1>5, <2>5 DEF WriteResponse, Write, TypeInv
  <2>6. CASE EndConnection(c)
    BY Zenon, <1>0, <1>5, <2>6 DEF EndConnection, Ended, TypeInv
  <2> QED BY Zenon, <1>5, <2>1, <2>2, <2>3, <2>4, <2>5, <2>6 DEF ServeStep, HandlerReturn
<1>6. ASSUME NEW c \in Clients, ClientStep(c), UNCHANGED <<main, opened, orphaned>> PROVE TypeInv'
  <2>1. ASSUME NEW u \in Users, NEW r \in Asked, Dial(c, u, r) PROVE TypeInv'
    <3>1. "ErrUnavailable" \in Results
      BY Rows DEF Results, Errors, CodeTable
    <3> QED BY Zenon, <1>0, <1>6, <2>1, <3>1 DEF Dial, TypeInv, Calls, Results
  <2>2. CASE Send(c)
    <3>1. [client[c] EXCEPT !.pc = "sent", !.sent = TRUE] \in Calls
      <4>1. client[c] \in Calls
        BY Zenon, <1>0 DEF TypeInv
      <4> QED BY Zenon, <4>1 DEF Calls
    <3>2. client' = [client EXCEPT ![c] = [client[c] EXCEPT !.pc = "sent", !.sent = TRUE]]
      BY Zenon, <2>2 DEF Send
    <3> QED BY <1>0, <1>6, <2>2, <3>1, <3>2 DEF Send, TypeInv
  <2>3. ASSUME NEW result \in Results, Done(c, result), HangUp(c),
               UNCHANGED <<conn, reply, expired, ran, outcome, acceptor, slots, closing, hangup>>
        PROVE  TypeInv'
    <3>1. [client[c] EXCEPT !.pc = "done", !.result = result] \in Calls
      <4>1. client[c] \in Calls
        BY Zenon, <1>0 DEF TypeInv
      <4> QED BY Zenon, <4>1 DEF Calls
    <3>2. client' = [client EXCEPT ![c] = [client[c] EXCEPT !.pc = "done", !.result = result]]
      BY Zenon, <2>3 DEF Done
    <3> QED BY Zenon, <1>0, <1>6, <2>3, <3>1, <3>2 DEF HangUp, TypeInv
  <2>4. CASE Receive(c)
    <3>1. ClientResult(client[c].req.op, reply[c]) \in Results
      BY Zenon, <1>0, <2>4, ResultIsTrue DEF Receive, CallInv, Fits
    <3> QED BY Zenon, <2>3, <2>4, <3>1 DEF Receive
  <2>5. {"ErrUnavailable", "ErrInvalidResponse", "ErrTimeout"} \subseteq Results
    BY Rows DEF Results, Errors, CodeTable
  <2>6. CASE Lost(c)
    BY Zenon, <2>3, <2>5, <2>6 DEF Lost
  <2>7. CASE GiveUp(c)
    BY Zenon, <2>3, <2>5, <2>7 DEF GiveUp
  <2> QED BY Zenon, <1>6, <2>1, <2>2, <2>4, <2>6, <2>7 DEF ClientStep
<1> QED BY Zenon, <1>1, <1>2, <1>3, <1>4, <1>5, <1>6 DEF Next, Serve, Call

\* A step that serves the same connections and leaves the semaphore alone.
LEMMA SlotSame ==
    ASSUME SlotInv, UNCHANGED slots,
           \A c \in Clients : conn'[c] \in {"reading", "running", "handled", "answered"}
                                <=> conn[c] \in {"reading", "running", "handled", "answered"}
    PROVE  SlotInv'
<1>1. Served' = Served
  BY Zenon DEF Served
<1> QED BY Zenon, <1>1 DEF SlotInv

\* Admit takes a slot for the connection it admits.
LEMMA SlotTaken ==
    ASSUME TypeInv, SlotInv, NEW c \in Clients, conn[c] = "authorized", slots < MaxConcurrent,
           conn' = [conn EXCEPT ![c] = "reading"], slots' = slots + 1
    PROVE  SlotInv'
<1>1. Served' = Served \cup {c}
  BY Zenon DEF Served, TypeInv
<1>2. c \notin Served
  BY Zenon DEF Served
<1>3. IsFiniteSet(Served') /\ Cardinality(Served') = Cardinality(Served) + 1
  BY Zenon, <1>1, <1>2, FS_AddElement DEF SlotInv
<1> QED BY <1>3, LimitAssumption DEF SlotInv

\* endConnection gives back the slot of a connection that was admitted.
LEMMA SlotReturned ==
    ASSUME TypeInv, SlotInv, NEW c \in Clients, conn[c] = "answered",
           conn' = [conn EXCEPT ![c] = "none"], slots' = slots - 1
    PROVE  SlotInv'
<1>1. Served' = Served \ {c}
  BY Zenon DEF Served, TypeInv
<1>2. c \in Served
  BY Zenon DEF Served
<1>3. IsFiniteSet(Served') /\ Cardinality(Served') = Cardinality(Served) - 1
  BY Zenon, <1>1, <1>2, FS_RemoveElement DEF SlotInv
<1>4. Cardinality(Served') \in Nat
  BY Zenon, <1>3, FS_CardinalityType
<1> QED BY <1>3, <1>4, LimitAssumption DEF SlotInv

\* No step takes a slot that it does not use or keeps one that it no longer uses.
LEMMA SlotStep == DaemonInv /\ [Next]_daemonVars => SlotInv'
<1> SUFFICES ASSUME DaemonInv, [Next]_daemonVars PROVE SlotInv'
  OBVIOUS
<1>0. TypeInv /\ SlotInv
  BY Zenon DEF DaemonInv
<1>1. CASE UNCHANGED <<conn, slots>>
  BY Zenon, <1>0, <1>1, SlotSame
<1>2. ASSUME NEW c \in Clients, NEW s, UNCHANGED slots, conn' = [conn EXCEPT ![c] = s],
             \/ /\ conn[c] \in {"none", "backlog", "accepted", "registered", "authorized"}
                /\ s \in {"none", "backlog", "accepted", "registered", "authorized"}
             \/ /\ conn[c] \in {"reading", "running", "handled", "answered"}
                /\ s \in {"reading", "running", "handled", "answered"}
      PROVE  SlotInv'
  <2>1. \A d \in Clients : conn'[d] = IF d = c THEN s ELSE conn[d]
    BY Zenon, <1>0, <1>2 DEF TypeInv
  <2> QED BY Zenon, <1>0, <1>2, <2>1, SlotSame
<1>3. CASE MainStep
  BY Zenon, <1>1, <1>3 DEF MainStep, StartFails, OpenRunner, OpenService, OpenServer, StopServing,
                    MarkClosed, CloseService, serverVars
<1>4. CASE AcceptFails \/ CancelOperations \/ CloseConnections \/ WaitConnections
  BY Zenon, <1>1, <1>4 DEF AcceptFails, CancelOperations, CloseConnections, WaitConnections
<1>5. CASE CloseListener
  <2>1. \A c \in Clients : conn'[c] = IF conn[c] = "backlog" THEN "none" ELSE conn[c]
    BY Zenon, <1>5 DEF CloseListener
  <2>2. UNCHANGED slots
    BY Zenon, <1>5 DEF CloseListener
  <2> QED BY Zenon, <1>0, <2>1, <2>2, SlotSame
<1>6. ASSUME NEW c \in Clients, LoopStep(c) PROVE SlotInv'
  <2>1. CASE Accept(c)
    BY Zenon, <1>2, <2>1 DEF Accept
  <2>2. CASE BeginConnection(c)
    BY Zenon, <1>2, <2>2 DEF BeginConnection, Ended
  <2>3. CASE AuthenticateConnection(c)
    BY Zenon, <1>2, <2>3 DEF AuthenticateConnection, Ended
  <2>4. CASE Admit(c)
    <3>1. CASE slots < MaxConcurrent
      BY Zenon, <1>0, <2>4, <3>1, SlotTaken DEF Admit
    <3>2. CASE ~(slots < MaxConcurrent)
      BY Zenon, <1>2, <2>4, <3>2 DEF Admit, Ended
    <3> QED BY Zenon, <3>1, <3>2
  <2> QED BY Zenon, <1>6, <2>1, <2>2, <2>3, <2>4 DEF LoopStep
<1>7. ASSUME NEW c \in Clients, ServeStep(c) PROVE SlotInv'
  <2>1. CASE ReadRequest(c)
    BY Zenon, <1>2, <2>1 DEF ReadRequest
  <2>2. CASE ReadFails(c)
    BY Zenon, <1>2, <2>2 DEF ReadFails
  <2>3. CASE WatchClientDisconnect(c)
    BY Zenon, <1>1, <2>3 DEF WatchClientDisconnect
  <2>4. ASSUME NEW err, HandlerReturns(c, err) PROVE SlotInv'
    BY Zenon, <1>2, <2>4 DEF HandlerReturns
  <2>5. CASE WriteResponse(c)
    BY Zenon, <1>2, <2>5 DEF WriteResponse
  <2>6. CASE EndConnection(c)
    BY Zenon, <1>0, <2>6, SlotReturned DEF EndConnection, Ended
  <2> QED BY Zenon, <1>7, <2>1, <2>2, <2>3, <2>4, <2>5, <2>6 DEF ServeStep, HandlerReturn
<1>8. ASSUME NEW c \in Clients, ClientStep(c) PROVE SlotInv'
  <2>1. ASSUME NEW u, NEW r, Dial(c, u, r) PROVE SlotInv'
    BY Zenon, <1>2, <2>1 DEF Dial
  <2>2. CASE Send(c) \/ Receive(c) \/ Lost(c) \/ GiveUp(c)
    BY Zenon, <1>1, <2>2 DEF Send, Receive, Lost, GiveUp
  <2> QED BY Zenon, <1>8, <2>1, <2>2 DEF ClientStep
<1> QED BY Zenon, <1>1, <1>3, <1>4, <1>5, <1>6, <1>7, <1>8 DEF Next, Serve, Call, CloseStep, daemonVars

\* A step of the server after which Close has returned leaves none registered
\* if there was none.
LEMMA StopSame ==
    ASSUME StopInv, UNCHANGED <<closing, main, opened, orphaned>>,
           \A c \in Clients : conn'[c] \notin {"none", "backlog", "accepted"}
                => closing # "closed" \/ conn[c] \notin {"none", "backlog", "accepted"}
    PROVE  StopInv'
BY Zenon DEF StopInv, ClosedIsDrained, Registered

\* Close stays ahead of the accept loop, and main of Close.
LEMMA StopStep == DaemonInv /\ [Next]_daemonVars => StopInv'
<1> SUFFICES ASSUME DaemonInv, [Next]_daemonVars PROVE StopInv'
  OBVIOUS
<1>0. TypeInv /\ StopInv
  BY Zenon DEF DaemonInv
<1>1. CASE UNCHANGED <<conn, closing, main, opened, orphaned>>
  BY Zenon, <1>0, <1>1, StopSame
<1>2. ASSUME NEW c \in Clients, NEW s, conn' = [conn EXCEPT ![c] = s],
             UNCHANGED <<closing, main, opened, orphaned>>,
             \/ s \in {"none", "backlog", "accepted"}
             \/ closing # "closed"
             \/ conn[c] \notin {"none", "backlog", "accepted"}
      PROVE  StopInv'
  <2>1. \A d \in Clients : conn'[d] = IF d = c THEN s ELSE conn[d]
    BY Zenon, <1>0, <1>2 DEF TypeInv
  <2> QED BY Zenon, <1>0, <1>2, <2>1, StopSame
<1>3. CASE MainStep
  <2>1. CASE StartFails \/ OpenRunner \/ OpenService
    BY <1>0, <2>1 DEF StartFails, OpenRunner, OpenService, serverVars, StopInv, ClosedIsDrained,
                      Registered
  <2>2. CASE OpenServer
    BY Zenon, <1>0, <2>2 DEF OpenServer, StopInv, ClosedIsDrained, Registered
  <2>3. CASE StopServing
    BY Zenon, <1>0, <2>3 DEF StopServing, MarkClosed, StopInv, ClosedIsDrained
  <2>4. CASE CloseService
    <3>1. \A c \in Clients : conn[c] # "running"
      BY Zenon, <1>0, <2>4 DEF CloseService, StopInv, ClosedIsDrained, Registered
    <3> QED BY Zenon, <1>0, <2>4, <3>1 DEF CloseService, serverVars, StopInv, ClosedIsDrained, Registered
  <2> QED BY Zenon, <1>3, <2>1, <2>2, <2>3, <2>4 DEF MainStep
<1>4. ASSUME AcceptFails \/ CloseStep, UNCHANGED <<main, opened, orphaned>> PROVE StopInv'
  <2>1. CASE AcceptFails
    BY Zenon, <1>1, <1>4, <2>1 DEF AcceptFails
  <2>2. CASE CancelOperations \/ CloseListener \/ CloseConnections
    BY Zenon, <1>0, <1>4, <2>2 DEF CancelOperations, CloseListener, CloseConnections, StopInv, ClosedIsDrained
  <2>3. CASE WaitConnections
    BY Zenon, <1>0, <1>4, <2>3 DEF WaitConnections, StopInv, ClosedIsDrained, Registered
  <2> QED BY Zenon, <1>4, <2>1, <2>2, <2>3 DEF CloseStep
<1>5. ASSUME NEW c \in Clients, LoopStep(c), UNCHANGED <<main, opened, orphaned>> PROVE StopInv'
  <2>1. CASE Accept(c)
    BY Zenon, <1>2, <1>5, <2>1 DEF Accept
  <2>2. CASE BeginConnection(c)
    BY Zenon, <1>2, <1>5, <2>2 DEF BeginConnection, Ended
  <2>3. CASE AuthenticateConnection(c)
    BY Zenon, <1>2, <1>5, <2>3 DEF AuthenticateConnection, Ended
  <2>4. CASE Admit(c)
    BY Zenon, <1>2, <1>5, <2>4 DEF Admit, Ended
  <2> QED BY <1>5, <2>1, <2>2, <2>3, <2>4 DEF LoopStep
<1>6. ASSUME NEW c \in Clients, ServeStep(c), UNCHANGED <<main, opened, orphaned>> PROVE StopInv'
  <2>1. CASE ReadRequest(c)
    BY Zenon, <1>2, <1>6, <2>1 DEF ReadRequest
  <2>2. CASE ReadFails(c)
    BY Zenon, <1>2, <1>6, <2>2 DEF ReadFails
  <2>3. CASE WatchClientDisconnect(c)
    BY Zenon, <1>1, <1>6, <2>3 DEF WatchClientDisconnect
  <2>4. ASSUME NEW err, HandlerReturns(c, err) PROVE StopInv'
    BY Zenon, <1>2, <1>6, <2>4 DEF HandlerReturns
  <2>5. CASE WriteResponse(c)
    BY Zenon, <1>2, <1>6, <2>5 DEF WriteResponse
  <2>6. CASE EndConnection(c)
    BY Zenon, <1>2, <1>6, <2>6 DEF EndConnection, Ended
  <2> QED BY <1>6, <2>1, <2>2, <2>3, <2>4, <2>5, <2>6 DEF ServeStep, HandlerReturn
<1>7. ASSUME NEW c \in Clients, ClientStep(c), UNCHANGED <<main, opened, orphaned>> PROVE StopInv'
  <2>1. ASSUME NEW u, NEW r, Dial(c, u, r) PROVE StopInv'
    BY Zenon, <1>2, <1>7, <2>1 DEF Dial
  <2>2. CASE Send(c) \/ Receive(c) \/ Lost(c) \/ GiveUp(c)
    BY Zenon, <1>1, <1>7, <2>2 DEF Send, Receive, Lost, GiveUp
  <2> QED BY Zenon, <1>7, <2>1, <2>2 DEF ClientStep
<1> QED BY Zenon, <1>1, <1>3, <1>4, <1>5, <1>6, <1>7 DEF Next, Serve, Call, daemonVars

\* A step of one client, or of the server for one client, concerns no other.
OthersAlone(c) ==
    \A d \in Clients : d # c =>
        /\ client'[d] = client[d] /\ conn'[d] = conn[d] /\ reply'[d] = reply[d]
        /\ ran'[d] = ran[d] /\ outcome'[d] = outcome[d]

\* Such a step keeps the invariant if the client it is about still fits.
LEMMA CallOne ==
    ASSUME CallInv, NEW c \in Clients, OthersAlone(c),
           Fits(client'[c], conn'[c], reply'[c], ran'[c], outcome'[c])
    PROVE  CallInv'
<1>1. ASSUME NEW d \in Clients, d # c
      PROVE  Fits(client'[d], conn'[d], reply'[d], ran'[d], outcome'[d])
  BY Zenon, <1>1 DEF CallInv, OthersAlone
<1> QED BY Zenon, <1>1 DEF CallInv

\* A connection that moves on before its handler starts, or ends, takes no
\* answer and no result with it.
LEMMA FitsOn ==
    ASSUME NEW call, NEW from, NEW to, NEW answer, NEW did, NEW err,
           Fits(call, from, answer, did, err),
           \/ from \in Unhandled /\ to \in Unhandled \cup {"none", "answered", "running"}
           \/ from = "handled" /\ to = "answered"
           \/ from = "answered" /\ to = "none"
    PROVE  Fits(call, to, answer, did, err)
BY Zenon DEF Fits, Unhandled

\* A connection that leaves a state before the answer has neither an answer nor
\* a result that tells an outcome.
LEMMA FitsSilent ==
    ASSUME NEW call, NEW from, NEW to, NEW answer, NEW did, NEW err, NEW did2, NEW err2,
           Fits(call, from, answer, did, err), from \in Unhandled \cup {"running", "handled"},
           to \in Unhandled => did2 = "no",
           to = "handled" => did2 = "returned" /\ err2 \cap Refusals = {}
    PROVE  Fits(call, to, answer, did2, err2)
BY Zenon DEF Fits, Unhandled

\* A true answer that is written fits.
LEMMA FitsWritten ==
    ASSUME NEW call, NEW from, NEW to, NEW answer, NEW did, NEW err, NEW response,
           Fits(call, from, answer, did, err), from \in Unhandled \cup {"handled"},
           to \in {"answered", "none"}, TrueAnswer(response, did, err)
    PROVE  Fits(call, to, response, did, err) /\ Fits(call, to, answer, did, err)
BY Zenon DEF Fits, Unhandled

\* A result fits that says nothing of the outcome or says it as the answer does.
LEMMA FitsDone ==
    ASSUME NEW call, NEW call2, NEW state, NEW answer, NEW did, NEW err,
           Fits(call, state, answer, did, err), 
           \/ call2.pc # "done"
           \/ call2.result \in Unknown
           \/ /\ state \in {"answered", "none"}
              /\ TrueTold(call2.result, did, err)
    PROVE  Fits(call2, state, answer, did, err)
BY Zenon DEF Fits

\* The error of a request that is refused is one of the refusals.
LEMMA RefusalOf ==
    ASSUME NEW r, RequestError(r) # {}
    PROVE  \E e \in Refusals : RequestError(r) = {e}
<1>1. ValidateRequest(r) \in {{}, {"ErrUnsupportedVersion"}, {"ErrInvalidRequest"}}
  BY Zenon DEF ValidateRequest
<1>2. CoreRequest(r) \in {{}, {"ErrInvalidRequest"}}
  BY Zenon DEF CoreRequest
<1> QED BY Zenon, <1>1, <1>2 DEF RequestError, Refusals

\* No step makes an answer or a result untrue.
LEMMA CallStep == DaemonInv /\ [Next]_daemonVars => CallInv'
<1> SUFFICES ASSUME DaemonInv, [Next]_daemonVars PROVE CallInv'
  OBVIOUS
<1>0. TypeInv /\ CallInv
  BY DEF DaemonInv
<1>f. \A c \in Clients : Fits(client[c], conn[c], reply[c], ran[c], outcome[c])
  BY Zenon, <1>0 DEF CallInv
<1>1. CASE UNCHANGED <<client, conn, reply, ran, outcome>>
  BY Zenon, <1>0, <1>1 DEF CallInv
<1>2. ASSUME NEW c \in Clients, NEW to, conn' = [conn EXCEPT ![c] = to],
             UNCHANGED <<client, reply, ran, outcome>>,
             Fits(client[c], to, reply[c], ran[c], outcome[c])
      PROVE  CallInv'
  <2>1. /\ conn'[c] = to
        /\ OthersAlone(c)
    BY Zenon, <1>0, <1>2 DEF TypeInv, OthersAlone
  <2> QED BY Zenon, <1>0, <1>2, <2>1, CallOne
<1>3. ASSUME NEW c \in Clients, NEW to, NEW response, conn' = [conn EXCEPT ![c] = to],
             Write(c, response), UNCHANGED <<client, ran, outcome>>,
             conn[c] \in Unhandled \cup {"handled"}, to \in {"answered", "none"},
             TrueAnswer(response, ran[c], outcome[c])
      PROVE  CallInv'
  <2>1. /\ conn'[c] = to
        /\ OthersAlone(c)
        /\ reply'[c] \in {response, reply[c]}
    BY Zenon, <1>0, <1>3 DEF TypeInv, Write, OthersAlone
  <2>2. Fits(client[c], to, response, ran[c], outcome[c]) /\ Fits(client[c], to, reply[c], ran[c], outcome[c])
    BY Zenon, <1>f, <1>3, FitsWritten
  <2>3. Fits(client'[c], conn'[c], reply'[c], ran'[c], outcome'[c])
    BY Zenon, <1>3, <2>1, <2>2
  <2> QED BY Zenon, <1>0, <1>3, <2>1, <2>3, CallOne
<1>4. CASE MainStep
  BY Zenon, <1>1, <1>4 DEF MainStep, StartFails, OpenRunner, OpenService, OpenServer, StopServing,
                    MarkClosed, CloseService, serverVars
<1>5. CASE AcceptFails \/ CancelOperations \/ CloseConnections \/ WaitConnections
  BY Zenon, <1>1, <1>5 DEF AcceptFails, CancelOperations, CloseConnections, WaitConnections
<1>6. CASE CloseListener
  <2>1. /\ \A c \in Clients : conn'[c] = IF conn[c] = "backlog" THEN "none" ELSE conn[c]
        /\ UNCHANGED <<client, reply, ran, outcome>>
    BY Zenon, <1>6 DEF CloseListener
  <2>2. \A c \in Clients : Fits(client[c], conn'[c], reply[c], ran[c], outcome[c])
    BY Zenon, <1>f, <2>1, FitsOn DEF Unhandled
  <2> QED BY Zenon, <2>1, <2>2 DEF CallInv
<1>7. ASSUME NEW c \in Clients, LoopStep(c) PROVE CallInv'
  <2>1. CASE Accept(c)
    <3>1. Fits(client[c], "accepted", reply[c], ran[c], outcome[c])
      BY Zenon, <1>f, <2>1, FitsOn DEF Accept, Unhandled
    <3> QED BY Zenon, <1>2, <2>1, <3>1 DEF Accept
  <2>2. CASE BeginConnection(c)
    <3>1. /\ Fits(client[c], "none", reply[c], ran[c], outcome[c])
          /\ Fits(client[c], "registered", reply[c], ran[c], outcome[c])
      BY Zenon, <1>f, <2>2, FitsOn DEF BeginConnection, Unhandled
    <3> QED BY Zenon, <1>2, <2>2, <3>1 DEF BeginConnection, Ended
  <2>3. CASE AuthenticateConnection(c)
    <3>1. /\ Fits(client[c], "none", reply[c], ran[c], outcome[c])
          /\ Fits(client[c], "authorized", reply[c], ran[c], outcome[c])
      BY Zenon, <1>f, <2>3, FitsOn DEF AuthenticateConnection, Unhandled
    <3>2. CASE "server" \in ended[c] \/ Authorized(c)
      BY Zenon, <1>2, <2>3, <3>1, <3>2 DEF AuthenticateConnection, Ended
    <3>3. CASE ~("server" \in ended[c] \/ Authorized(c))
      <4>1. /\ conn' = [conn EXCEPT ![c] = "none"]
            /\ Write(c, ResponseForError("", {"ErrAccessDenied"}))
            /\ UNCHANGED <<client, ran, outcome>>
        BY Zenon, <2>3, <3>3 DEF AuthenticateConnection, Ended
      <4>2. conn[c] \in Unhandled
        BY Zenon, <2>3 DEF AuthenticateConnection, Unhandled
      <4>3. TrueAnswer(ResponseForError("", {"ErrAccessDenied"}), ran[c], outcome[c])
        BY Zenon, <1>f, <4>2 DEF Fits, TrueAnswer, Refused, Refusals
      <4> QED BY Zenon, <1>3, <4>1, <4>2, <4>3
    <3> QED BY Zenon, <3>2, <3>3
  <2>4. CASE Admit(c)
    <3>1. /\ Fits(client[c], "none", reply[c], ran[c], outcome[c])
          /\ Fits(client[c], "reading", reply[c], ran[c], outcome[c])
      BY Zenon, <1>f, <2>4, FitsOn DEF Admit, Unhandled
    <3> QED BY Zenon, <1>2, <2>4, <3>1 DEF Admit, Ended
  <2> QED BY <1>7, <2>1, <2>2, <2>3, <2>4 DEF LoopStep
<1>8. ASSUME NEW c \in Clients, ServeStep(c) PROVE CallInv'
  <2>1. CASE ReadRequest(c)
    <3> DEFINE r == client[c].req
    <3>0. conn[c] = "reading" /\ conn[c] \in Unhandled /\ ran[c] = "no"
      BY Zenon, <1>f, <2>1 DEF ReadRequest, Fits, Unhandled
    <3>1. CASE RequestError(r) = {}
      <4>1. /\ conn' = [conn EXCEPT ![c] = "running"]
            /\ ran' = [ran EXCEPT ![c] = "started"]
            /\ UNCHANGED <<client, reply, outcome>>
        BY Zenon, <2>1, <3>1 DEF ReadRequest
      <4>2. Fits(client[c], "running", reply[c], "started", outcome[c])
        BY Zenon, <1>f, <3>0, FitsSilent DEF Unhandled
      <4>3. /\ conn'[c] = "running" /\ ran'[c] = "started"
            /\ OthersAlone(c)
        BY Zenon, <1>0, <4>1 DEF TypeInv, OthersAlone
      <4> QED BY Zenon, <1>0, <4>1, <4>2, <4>3, CallOne
    <3>2. CASE RequestError(r) # {}
      <4>1. /\ conn' = [conn EXCEPT ![c] = "answered"]
            /\ Write(c, ResponseForError(ResponseID(r), RequestError(r)))
            /\ UNCHANGED <<client, ran, outcome>>
        BY Zenon, <2>1, <3>2 DEF ReadRequest
      <4>2. TrueAnswer(ResponseForError(ResponseID(r), RequestError(r)), ran[c], outcome[c])
        BY Zenon, <3>0, <3>2, RefusalOf DEF TrueAnswer, Refused
      <4> QED BY Zenon, <1>3, <3>0, <4>1, <4>2
    <3> QED BY Zenon, <3>1, <3>2
  <2>2. CASE ReadFails(c)
    <3>0. conn[c] \in Unhandled /\ ran[c] = "no"
      BY Zenon, <1>f, <2>2 DEF ReadFails, Fits, Unhandled
    <3>1. TrueAnswer(ResponseForError("", {"ErrInvalidRequest"}), ran[c], outcome[c])
      BY Zenon, <3>0 DEF TrueAnswer, Refused, Refusals
    <3> QED BY Zenon, <1>3, <2>2, <3>0, <3>1 DEF ReadFails
  <2>3. CASE WatchClientDisconnect(c)
    BY Zenon, <1>1, <2>3 DEF WatchClientDisconnect
  <2>4. ASSUME NEW err \in HandlerErrors \cup {{}}, HandlerReturns(c, err) PROVE CallInv'
    <3>1. err \cap Refusals = {}
      BY Zenon, ServiceAssumption
    <3>2. /\ conn[c] = "running"
          /\ conn' = [conn EXCEPT ![c] = "handled"]
          /\ ran' = [ran EXCEPT ![c] = "returned"]
          /\ outcome' = [outcome EXCEPT ![c] = err]
          /\ UNCHANGED <<client, reply>>
      BY Zenon, <2>4 DEF HandlerReturns
    <3>3. Fits(client[c], "handled", reply[c], "returned", err)
      BY Zenon, <1>f, <3>1, <3>2, FitsSilent DEF Unhandled
    <3>4. /\ conn'[c] = "handled" /\ ran'[c] = "returned" /\ outcome'[c] = err
          /\ OthersAlone(c)
      BY Zenon, <1>0, <3>2 DEF TypeInv, OthersAlone
    <3> QED BY Zenon, <1>0, <3>2, <3>3, <3>4, CallOne
  <2>5. CASE WriteResponse(c)
    <3> DEFINE r == client[c].req
               response == IF outcome[c] = {} THEN Success(r)
                           ELSE ResponseForError(ResponseID(r), outcome[c])
    <3>0. /\ conn[c] = "handled" /\ conn' = [conn EXCEPT ![c] = "answered"]
          /\ Write(c, response) /\ UNCHANGED <<client, ran, outcome>>
      BY Zenon, <2>5 DEF WriteResponse
    <3>1. ran[c] = "returned" /\ outcome[c] \cap Refusals = {}
      BY Zenon, <1>f, <3>0 DEF Fits
    <3>2. Succeeded(Success(r))
      BY Zenon DEF Succeeded, Success
    <3>3. TrueAnswer(response, ran[c], outcome[c])
      BY Zenon, <3>1, <3>2 DEF TrueAnswer, Failed
    <3> QED BY Zenon, <1>3, <3>0, <3>3
  <2>6. CASE EndConnection(c)
    <3>1. Fits(client[c], "none", reply[c], ran[c], outcome[c])
      BY Zenon, <1>f, <2>6, FitsOn DEF EndConnection
    <3> QED BY Zenon, <1>2, <2>6, <3>1 DEF EndConnection, Ended
  <2> QED BY Zenon, <1>8, <2>1, <2>2, <2>3, <2>4, <2>5, <2>6 DEF ServeStep, HandlerReturn
<1>9. ASSUME NEW c \in Clients, ClientStep(c) PROVE CallInv'
  <2>1. ASSUME NEW u, NEW r, Dial(c, u, r) PROVE CallInv'
    <3>1. /\ OthersAlone(c)
          /\ reply'[c] = NoConn /\ ran'[c] = "no" /\ conn'[c] \in {"none", "backlog"}
          /\ client'[c].pc = "dialled" \/ client'[c].result = "ErrUnavailable"
      BY Zenon, <1>0, <2>1 DEF Dial, TypeInv, OthersAlone
    <3>2. Fits(client'[c], conn'[c], reply'[c], ran'[c], outcome'[c])
      BY Zenon, <3>1 DEF Fits, Unhandled, Unknown
    <3> QED BY Zenon, <1>0, <3>1, <3>2, CallOne
  <2>2. ASSUME UNCHANGED <<conn, reply, ran, outcome>>,
               \A d \in Clients : d # c => client'[d] = client[d],
               \/ client'[c].pc # "done"
               \/ client'[c].result \in Unknown
               \/ conn[c] \in {"answered", "none"} /\ TrueTold(client'[c].result, ran[c], outcome[c])
        PROVE  CallInv'
    <3>1. Fits(client'[c], conn[c], reply[c], ran[c], outcome[c])
      BY Zenon, <1>f, <2>2, FitsDone
    <3>2. OthersAlone(c)
      BY Zenon, <2>2 DEF OthersAlone
    <3> QED BY Zenon, <1>0, <2>2, <3>1, <3>2, CallOne
  <2>3. CASE Send(c)
    <3>1. (\A d \in Clients : d # c => client'[d] = client[d]) /\ client'[c].pc = "sent"
      BY <1>0, <2>3 DEF Send, TypeInv, Calls
    <3> QED BY Zenon, <2>2, <2>3, <3>1 DEF Send
  <2>4. ASSUME NEW result, Done(c, result)
        PROVE  /\ \A d \in Clients : d # c => client'[d] = client[d]
               /\ client'[c].result = result
    <3>1. client[c] \in Calls /\ client \in [Clients -> Calls]
      BY Zenon, <1>0 DEF TypeInv
    <3>2. client' = [client EXCEPT ![c] = [client[c] EXCEPT !.pc = "done", !.result = result]]
      BY Zenon, <2>4 DEF Done
    <3>3. [client[c] EXCEPT !.pc = "done", !.result = result].result = result
      BY Zenon, <3>1 DEF Calls
    <3> QED BY Zenon, <3>1, <3>2, <3>3
  <2>5. CASE Receive(c)
    <3> DEFINE result == ClientResult(client[c].req.op, reply[c])
    <3>1. conn[c] \in {"answered", "none"} /\ TrueAnswer(reply[c], ran[c], outcome[c])
      BY Zenon, <1>f, <2>5 DEF Receive, Fits
    <3>2. TrueTold(result, ran[c], outcome[c])
      BY Zenon, <3>1, ResultIsTrue
    <3>3. (\A d \in Clients : d # c => client'[d] = client[d]) /\ client'[c].result = result
      BY Zenon, <2>4, <2>5 DEF Receive
    <3> HIDE DEF result
    <3> QED BY Zenon, <2>2, <2>5, <3>1, <3>2, <3>3 DEF Receive
  <2>6. CASE Lost(c)
    BY Zenon, <2>2, <2>4, <2>6 DEF Lost, Unknown
  <2>7. CASE GiveUp(c)
    BY Zenon, <2>2, <2>4, <2>7 DEF GiveUp, Unknown
  <2> QED BY Zenon, <1>9, <2>1, <2>3, <2>5, <2>6, <2>7 DEF ClientStep
<1> QED BY Zenon, <1>1, <1>4, <1>5, <1>6, <1>7, <1>8, <1>9 DEF Next, Serve, Call, CloseStep, daemonVars

-----------------------------------------------------------------------------
\* The inductive invariant holds throughout: the semaphore, the order of
\* runDaemon's shutdown and the answers of the server (server.go, main.go).
THEOREM DaemonInvariance == Spec => []DaemonInv
<1>1. DaemonInv /\ [Next]_daemonVars => DaemonInv'
  BY Zenon, TypeStep, SlotStep, StopStep, CallStep DEF DaemonInv
<1> QED BY <1>1, DaemonInit, PTL DEF Spec

\* The variables stay in their ranges.
LEMMA TypesHold == DaemonInv => TypeOK /\ ServerTypeOK
<1> SUFFICES ASSUME DaemonInv PROVE ServerTypeOK /\ TypeOK
  OBVIOUS
<1>0. TypeInv /\ SlotInv
  BY Zenon DEF DaemonInv
<1>1. ASSUME NEW c \in Clients
      PROVE  client[c] \in Calls /\ ended[c] \in SUBSET {"client", "server"}
  BY Zenon, <1>0, <1>1 DEF TypeInv
<1>2. ASSUME NEW c \in Clients
      PROVE  /\ client[c].pc \in {"idle", "dialled", "sent", "done"}
             /\ client[c].uid \in Users \cup {NoConn}
             /\ client[c].req \in Asked \cup {NoConn}
             /\ client[c].result \in Errors \cup {"none", "ok", "ErrInvalidResponse"}
  BY Zenon, <1>1 DEF Calls, Results
<1>3. ServerTypeOK
  BY Zenon, <1>0, <1>1, <1>2 DEF TypeInv, SlotInv, ServerTypeOK
<1> QED BY Zenon, <1>0, <1>3 DEF TypeInv, TypeOK

\* For any number of clients and any limit, a slot of the semaphore is taken for
\* every connection that is served and for no other (Serve, endConnection).
THEOREM SlotsAreHeld == Spec => []SlotsAreServed
<1>1. DaemonInv => SlotsAreServed
  BY Zenon, TypesHold DEF DaemonInv, SlotInv, Served, SlotsAreServed
<1> QED BY <1>1, DaemonInvariance, PTL

\* A client is told the outcome of its own request, whatever the requests and
\* whatever errors the service joins (codeForError, errorForCode, Client.call).
THEOREM AnswersAreTrue == Spec => []TruthfulAnswer
<1>1. DaemonInv => TruthfulAnswer
  BY Zenon DEF DaemonInv, CallInv, Fits, TrueTold, Refusals, Unknown, TruthfulAnswer
<1> QED BY <1>1, DaemonInvariance, PTL

\* The daemon stops in order: Close drains the connections, the service is
\* closed when no handler uses it, and an exit leaves nothing open but, if it
\* reports a failure, the runner of a core that would not die (runDaemon).
THEOREM StopIsOrderly == Spec => []OrderlyStop
<1>1. DaemonInv => OrderlyStop
  BY Zenon, TypesHold DEF DaemonInv, StopInv, OrderlyStop
<1> QED BY <1>1, DaemonInvariance, PTL

-----------------------------------------------------------------------------
(* The socket path stays usable with any number of daemons that start, close  *)
(* and crash in any order (internal/rpc/server.go).                           *)

\* A daemon that has bound a socket, and one that takes a socket for its own.
Bound == {"learn", "configure", "serving", "unlink", "undo", "unlinking", "undoing"}
Knows == Bound \ {"learn"}

States == Gone \cup Bound \cup {"probe", "recheck", "remove", "bind"}

Inodes == {None} \cup 1..created

\* A daemon whose own socket is at the path takes that one for its own, and a
\* closed one has left the path to others.
OwnInv ==
    /\ created \in Nat
    /\ path \in Inodes
    /\ pc \in [Daemons -> States]
    /\ sock \in [Daemons -> Inodes]
    /\ own \in [Daemons -> Inodes]
    /\ seen \in [Daemons -> Inodes]
    /\ faulty \in [Daemons -> BOOLEAN]
    /\ \A d \in Daemons :
         /\ pc[d] \in Bound \cup {"closed"} => sock[d] # None
         /\ pc[d] \in Knows /\ path = sock[d] => own[d] = sock[d]
    /\ ClosedLeavesNoSocket

\* Where a daemon that is alone stands, and what it has found or made at the
\* path by then.
AloneInv ==
    /\ \A d, e \in Daemons : pc[d] \notin Gone /\ pc[e] \notin Gone => d = e
    /\ \A i \in listening : \E d \in Daemons : pc[d] \in {"learn", "configure", "serving"} /\ sock[d] = i
    /\ \A d \in Daemons :
         /\ pc[d] \in {"failed", "undo", "undoing"} => faulty[d]
         /\ pc[d] \in {"probe", "recheck", "remove", "bind"} => created < MaxSockets
         /\ pc[d] = "bind" => path = None
         /\ pc[d] \in {"probe", "recheck", "remove"} => path # None
         /\ pc[d] \in {"probe", "recheck"} => path = seen[d]
         /\ pc[d] \in Bound => path = sock[d]
         /\ pc[d] \in Knows => path = own[d]
         /\ pc[d] \in {"learn", "configure", "serving"} => sock[d] \in listening

PathInv == OwnInv /\ (managed => AloneInv)

\* A step of one daemon leaves the others where they are, and two of them are
\* never alive at once under a service manager.
LEMMA Others ==
    ASSUME OwnInv, AloneInv, NEW d \in Daemons, pc[d] \notin Gone, NEW l, Goto(d, l)
    PROVE  /\ pc'[d] = l
           /\ \A e \in Daemons : e # d => pc'[e] = pc[e] /\ pc[e] \in Gone
BY DEF OwnInv, AloneInv, Goto

\* Every step keeps what a daemon knows of its own socket.
LEMMA OwnStep ==
    ASSUME None \notin Nat, MaxSockets \in Nat, OwnInv, SocketNext
    PROVE  OwnInv'
<1>1. PICK d \in Daemons : Step(d) \/ Close(d) \/ Crash(d)
  BY DEF SocketNext
<1>2. CASE Start(d)
  BY <1>2 DEF Start, Goto, OwnInv, States, Bound, Knows, Gone, Inodes, ClosedLeavesNoSocket
<1>3. CASE Probe(d)
  BY <1>3 DEF Probe, Goto, OwnInv, States, Bound, Knows, Gone, Inodes, ClosedLeavesNoSocket
<1>4. CASE Recheck(d)
  BY <1>4 DEF Recheck, Goto, OwnInv, States, Bound, Knows, Gone, Inodes, ClosedLeavesNoSocket
<1>5. CASE RemoveStale(d)
  BY <1>5 DEF RemoveStale, Goto, OwnInv, States, Bound, Knows, Gone, Inodes, ClosedLeavesNoSocket
<1>6. CASE Bind(d)
  <2>1. CASE path # None \/ created = MaxSockets
    BY <1>6, <2>1 DEF Bind, Goto, OwnInv, States, Bound, Knows, Gone, Inodes, ClosedLeavesNoSocket
  <2>2. CASE ~(path # None \/ created = MaxSockets)
    BY <1>6, <2>2 DEF Bind, Goto, OwnInv, States, Bound, Knows, Gone, Inodes, ClosedLeavesNoSocket
  <2> QED BY <2>1, <2>2
<1>7. CASE ConfigureSocket(d)
  BY <1>7 DEF ConfigureSocket, Goto, OwnInv, States, Bound, Knows, Gone, Inodes, ClosedLeavesNoSocket
<1>8. CASE CheckOwn(d)
  BY <1>8 DEF CheckOwn, Goto, OwnInv, States, Bound, Knows, Gone, Inodes, ClosedLeavesNoSocket
<1>9. CASE RemoveOwn(d)
  BY <1>9 DEF RemoveOwn, Goto, OwnInv, States, Bound, Knows, Gone, Inodes, ClosedLeavesNoSocket
<1>10. CASE Close(d)
  BY <1>10 DEF Close, Goto, OwnInv, States, Bound, Knows, Gone, Inodes, ClosedLeavesNoSocket
<1>11. CASE Crash(d)
  BY <1>11 DEF Crash, Goto, OwnInv, States, Bound, Knows, Gone, Inodes, ClosedLeavesNoSocket
<1>12. CASE Learn(d)
  BY <1>12 DEF Learn, Goto, OwnInv, States, Bound, Knows, Gone, Inodes, ClosedLeavesNoSocket
<1>13. CASE SystemFails(d)
  BY <1>13 DEF SystemFails, Goto, OwnInv, States, Bound, Knows, Gone, Inodes, ClosedLeavesNoSocket
<1> QED BY <1>1, <1>2, <1>3, <1>4, <1>5, <1>6, <1>7, <1>8, <1>9, <1>10, <1>11, <1>12, <1>13 DEF Step

\* Under a service manager every step of the one daemon that is alive succeeds.
LEMMA AloneStep ==
    ASSUME None \notin Nat, MaxSockets \in Nat, OwnInv, managed, AloneInv, SocketNext
    PROVE  AloneInv'
<1>1. PICK d \in Daemons : Step(d) \/ Close(d) \/ Crash(d)
  BY DEF SocketNext
<1>2. CASE Start(d)
  <2>1. \A e \in Daemons : pc[e] \in Gone
    BY <1>2 DEF Start
  <2>2. listening = {} /\ UNCHANGED <<listening, path, sock, own, created>>
    BY <1>2, <2>1 DEF Start, AloneInv, Bound, Knows, Gone
  <2>3. \A e \in Daemons : pc'[e] = IF e = d THEN IF path = None THEN "bind" ELSE "probe" ELSE pc[e]
    BY <1>2 DEF Start, Goto, OwnInv
  <2>4. /\ created < MaxSockets /\ seen'[d] = path
        /\ \A e \in Daemons : e # d => faulty'[e] = faulty[e]
    BY <1>2 DEF Start, OwnInv
  <2> QED BY <2>1, <2>2, <2>3, <2>4 DEF AloneInv, Bound, Knows, Gone
<1>3. CASE Probe(d)
  <2>1. path # None /\ path \notin listening
    BY <1>3 DEF Probe, AloneInv, Bound, Knows, Gone
  <2>2. Goto(d, "recheck") /\ UNCHANGED <<path, created, seen, sock, own, listening, faulty>>
    BY <1>3, <2>1 DEF Probe
  <2>3. pc'[d] = "recheck" /\ \A e \in Daemons : e # d => pc'[e] = pc[e] /\ pc[e] \in Gone
    BY <1>3, <2>2, Others DEF Probe, Gone
  <2> QED BY <1>3, <2>2, <2>3 DEF Probe, AloneInv, Bound, Knows, Gone
<1>4. CASE Recheck(d)
  <2>1. Goto(d, "remove") /\ UNCHANGED <<path, created, seen, sock, own, listening, faulty>>
    BY <1>4 DEF Recheck, AloneInv
  <2>2. pc'[d] = "remove" /\ \A e \in Daemons : e # d => pc'[e] = pc[e] /\ pc[e] \in Gone
    BY <1>4, <2>1, Others DEF Recheck, Gone
  <2> QED BY <1>4, <2>1, <2>2 DEF Recheck, AloneInv, Bound, Knows, Gone
<1>5. CASE RemoveStale(d)
  <2>1. Goto(d, "bind") /\ path' = None /\ UNCHANGED <<created, seen, sock, own, listening, faulty>>
    BY <1>5 DEF RemoveStale, AloneInv
  <2>2. pc'[d] = "bind" /\ \A e \in Daemons : e # d => pc'[e] = pc[e] /\ pc[e] \in Gone
    BY <1>5, <2>1, Others DEF RemoveStale, Gone
  <2> QED BY <1>5, <2>1, <2>2 DEF RemoveStale, AloneInv, Bound, Knows, Gone
<1>6. CASE Bind(d)
  <2>1. path = None /\ created # MaxSockets
    BY <1>6 DEF Bind, AloneInv, OwnInv
  <2>2. /\ Goto(d, "learn") /\ path' = created + 1 /\ listening' = listening \cup {created + 1}
        /\ sock' = [sock EXCEPT ![d] = created + 1] /\ UNCHANGED <<seen, own, faulty>>
    BY <1>6, <2>1 DEF Bind
  <2>3. pc'[d] = "learn" /\ \A e \in Daemons : e # d => pc'[e] = pc[e] /\ pc[e] \in Gone
    BY <1>6, <2>2, Others DEF Bind, Gone
  <2>4. listening = {}
    BY <1>6, <2>3 DEF Bind, AloneInv, Gone
  <2>5. sock'[d] = created + 1
    BY <2>2 DEF OwnInv
  <2> QED BY <2>2, <2>3, <2>4, <2>5 DEF AloneInv, Bound, Knows, Gone
<1>7. CASE ConfigureSocket(d)
  <2>1. Goto(d, "serving") /\ UNCHANGED <<path, created, seen, sock, own, listening, faulty>>
    BY <1>7 DEF ConfigureSocket, AloneInv, Bound, Knows
  <2>2. pc'[d] = "serving" /\ \A e \in Daemons : e # d => pc'[e] = pc[e] /\ pc[e] \in Gone
    BY <1>7, <2>1, Others DEF ConfigureSocket, Gone
  <2> QED BY <1>7, <2>1, <2>2 DEF ConfigureSocket, AloneInv, Bound, Knows, Gone
<1>8. CASE CheckOwn(d)
  <2>1. PICK l : /\ Goto(d, l) /\ UNCHANGED <<path, created, seen, sock, own, listening, faulty>>
                 /\ \/ pc[d] = "unlink" /\ l = "unlinking"
                    \/ pc[d] = "undo" /\ l = "undoing"
    BY <1>8 DEF CheckOwn, AloneInv, Bound, Knows
  <2>2. pc'[d] = l /\ \A e \in Daemons : e # d => pc'[e] = pc[e] /\ pc[e] \in Gone
    BY <2>1, Others DEF Gone
  <2> QED BY <2>1, <2>2 DEF AloneInv, Bound, Knows, Gone
<1>9. CASE RemoveOwn(d)
  <2>1. PICK l : /\ Goto(d, l) /\ UNCHANGED <<created, seen, sock, own, listening, faulty>>
                 /\ \/ pc[d] = "unlinking" /\ l = "closed"
                    \/ pc[d] = "undoing" /\ l = "failed"
    BY <1>9 DEF RemoveOwn
  <2>2. pc'[d] = l /\ \A e \in Daemons : e # d => pc'[e] = pc[e] /\ pc[e] \in Gone
    BY <2>1, Others DEF Gone
  <2> QED BY <2>1, <2>2 DEF AloneInv, Bound, Knows, Gone
<1>10. CASE Close(d)
  <2>1. Goto(d, "unlink") /\ listening' = listening \ {sock[d]} /\ UNCHANGED <<path, created, seen, sock, own, faulty>>
    BY <1>10 DEF Close
  <2>2. pc'[d] = "unlink" /\ \A e \in Daemons : e # d => pc'[e] = pc[e] /\ pc[e] \in Gone
    BY <1>10, <2>1, Others DEF Close, Gone
  <2> QED BY <1>10, <2>1, <2>2 DEF Close, AloneInv, Bound, Knows, Gone
<1>11. CASE Crash(d)
  <2>1. Goto(d, "off") /\ listening' = listening \ {sock[d]} /\ UNCHANGED <<path, created, seen, sock, own, faulty>>
    BY <1>11 DEF Crash
  <2>2. pc'[d] = "off" /\ \A e \in Daemons : e # d => pc'[e] = pc[e] /\ pc[e] \in Gone
    BY <1>11, <2>1, Others DEF Crash
  <2> QED BY <1>11, <2>1, <2>2 DEF Crash, AloneInv, Bound, Knows, Gone
<1>12. CASE Learn(d)
  <2>1. path = sock[d] /\ path # None
    BY <1>12 DEF Learn, AloneInv, OwnInv, Bound
  <2>2. /\ Goto(d, "configure") /\ own' = [own EXCEPT ![d] = path]
        /\ UNCHANGED <<path, created, seen, sock, listening, faulty>>
    BY <1>12, <2>1 DEF Learn
  <2>3. pc'[d] = "configure" /\ \A e \in Daemons : e # d => pc'[e] = pc[e] /\ pc[e] \in Gone
    BY <1>12, <2>2, Others DEF Learn, Gone
  <2>4. own'[d] = path
    BY <2>2 DEF OwnInv
  <2> QED BY <1>12, <2>1, <2>2, <2>3, <2>4 DEF Learn, AloneInv, Bound, Knows, Gone
<1>13. CASE SystemFails(d)
  <2>1. PICK l : Goto(d, l) /\ l \in {"failed", "undo", "closed"}
    BY <1>13 DEF SystemFails
  <2>2. /\ faulty' = [faulty EXCEPT ![d] = TRUE] /\ UNCHANGED <<path, created, seen, sock, own>>
        /\ listening' \in {listening, listening \ {sock[d]}}
        /\ l = "undo" => pc[d] = "configure"
        /\ pc[d] \notin Gone \cup {"serving"}
        /\ pc[d] \in {"learn", "configure"} => listening' = listening \ {sock[d]}
    BY <1>13, <2>1 DEF SystemFails, Goto, OwnInv, Gone
  <2>3. pc'[d] = l /\ \A e \in Daemons : e # d => pc'[e] = pc[e] /\ pc[e] \in Gone
    BY <2>1, <2>2, Others
  <2>4. faulty'[d] /\ \A e \in Daemons : e # d => faulty'[e] = faulty[e]
    BY Zenon, <2>2 DEF OwnInv
  <2>5. listening' = {}
    <3>1. \A i \in listening : pc[d] \in {"learn", "configure"} /\ i = sock[d]
      BY <2>2, <2>3 DEF AloneInv, Gone
    <3> QED BY <2>2, <3>1
  <2>6. \A e \in Daemons : pc'[e] \in Gone \/ (e = d /\ pc'[e] = "undo" /\ pc[d] = "configure")
    BY <2>1, <2>2, <2>3 DEF Gone
  <2>7. ASSUME NEW e \in Daemons, pc'[e] \in {"failed", "undo", "undoing"} PROVE faulty'[e]
    <3>1. CASE e = d
      BY Zenon, <2>4, <3>1
    <3>2. CASE e # d
      <4>1. pc[e] = pc'[e] /\ faulty[e]
        BY Zenon, <2>3, <2>7, <3>2 DEF AloneInv
      <4> QED BY Zenon, <2>4, <3>2, <4>1
    <3> QED BY Zenon, <3>1, <3>2
  <2>8. \A e \in Daemons : pc'[e] \in Bound => path = sock[e] /\ path = own[e]
    BY <2>6 DEF AloneInv, Bound, Knows, Gone
  <2>9. \A e \in Daemons : pc'[e] \notin {"probe", "recheck", "remove", "bind", "learn", "configure", "serving"}
    BY <2>6 DEF Gone
  <2>10. \A e \in Daemons : pc'[e] \notin Gone => e = d
    BY <2>6
  <2> QED BY Zenon, <2>2, <2>5, <2>7, <2>8, <2>9, <2>10 DEF AloneInv, Bound, Knows
<1> QED BY <1>1, <1>2, <1>3, <1>4, <1>5, <1>6, <1>7, <1>8, <1>9, <1>10, <1>11, <1>12, <1>13 DEF Step

\* However many daemons start, close, fail and crash, none that has closed leaves
\* its socket at the path unless a system call failed, and one that a service
\* manager starts is never refused because of a socket left there and serves at
\* the path (removeOwnedStaleSocket, removeOwnedSocket).
THEOREM PathStaysUsable == SocketSpec => []PathUsable
<1>1. SocketInit => PathInv
  BY SocketAssumption DEF SocketInit, PathInv, OwnInv, AloneInv, Inodes, States, Bound, Knows, Gone,
                           ClosedLeavesNoSocket
<1>2. PathInv /\ [SocketNext]_socketVars => PathInv'
  <2> SUFFICES ASSUME PathInv, [SocketNext]_socketVars PROVE PathInv'
    OBVIOUS
  <2>1. CASE UNCHANGED socketVars
    BY <2>1 DEF socketVars, PathInv, OwnInv, AloneInv, Inodes, ClosedLeavesNoSocket
  <2>2. CASE SocketNext
    <3>1. managed' = managed
      BY <2>2 DEF SocketNext
    <3> QED BY <2>2, <3>1, OwnStep, AloneStep, SocketAssumption DEF PathInv
  <2> QED BY <2>1, <2>2
<1>3. PathInv => PathUsable
  BY DEF PathInv, OwnInv, AloneInv, Bound, PathUsable, AloneStarts
<1> QED BY <1>1, <1>2, <1>3, PTL DEF SocketSpec
=============================================================================
