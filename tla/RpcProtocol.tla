----------------------------- MODULE RpcProtocol -----------------------------
(* The requests and answers of the daemon's RPC (internal/rpc/protocol.go):   *)
(* which requests a server accepts, how a failure becomes a code of an answer *)
(* and what a client makes of the answer.                                     *)
EXTENDS Naturals, Sequences, FiniteSetsExt

Operations == {"connect", "disconnect", "status", "health"}

\* What the server can tell about a line it reads: whether it decodes, and of
\* the decoded request the version, the id, the operation and the payload.
Requests == [decodes : BOOLEAN, version : {1, 2}, id : {"valid", "invalid"},
             op : Operations \cup {"other"}, connect : {"absent", "good", "bad"}]

\* The sentinel errors and their codes, in the order codeForError tries them.
CodeTable ==
    << <<"ErrUnsupportedVersion", "unsupported_version">>,
       <<"ErrInvalidRequest",     "invalid_request">>,
       <<"ErrAccessDenied",       "access_denied">>,
       <<"ErrCoreValidation",     "core_validation_failed">>,
       <<"ErrRollbackFailure",    "rollback_failed">>,
       <<"ErrProcessStuck",       "process_stuck">>,
       <<"ErrProcessFailure",     "process_failed">>,
       <<"ErrUnavailable",        "unavailable">>,
       <<"ErrTimeout",            "timeout">>,
       <<"DeadlineExceeded",      "timeout">>,
       <<"Canceled",              "timeout">>,
       <<"ErrInternal",           "internal">> >>

Errors == {CodeTable[i][1] : i \in DOMAIN CodeTable}

\* An error is the set of the sentinels joined in it.
CodeForError(err) ==
    LET rows == {i \in 1..Len(CodeTable) : CodeTable[i][1] \in err}
    IN  IF rows = {} THEN "internal" ELSE CodeTable[Min(rows)][2]

ErrorForCode(code) ==
    LET rows == {i \in 1..Len(CodeTable) : CodeTable[i][2] = code}
    IN  IF rows = {} THEN "ErrInvalidResponse" ELSE CodeTable[Min(rows)][1]

\* validateRequest, in the order of its checks; {} is a request to dispatch.
ValidateRequest(r) ==
    CASE r.version # 1 -> {"ErrUnsupportedVersion"}
      [] r.version = 1 /\ r.id # "valid" -> {"ErrInvalidRequest"}
      [] r.version = 1 /\ r.id = "valid" /\ (r.op = "connect") # (r.connect # "absent") ->
            {"ErrInvalidRequest"}
      [] r.version = 1 /\ r.id = "valid" /\ r.op = "other" -> {"ErrInvalidRequest"}
      [] OTHER -> {}

\* coreRequest refuses a payload that GenerateConfig refuses.
CoreRequest(r) == IF r.op = "connect" /\ r.connect = "bad" THEN {"ErrInvalidRequest"} ELSE {}

\* An answer carries the request's id only if that was read and valid.
ResponseID(r) == IF r.decodes /\ r.id = "valid" THEN "request" ELSE ""

ResponseForError(id, err) == [id |-> id, ok |-> FALSE, body |-> CodeForError(err)]

Success(r) == [id |-> ResponseID(r), ok |-> TRUE,
               body |-> IF r.op = "health" THEN "health" ELSE "status"]

\* What Client.call makes of an answer to a request of operation op.
ClientResult(op, response) ==
    CASE response.id = "" /\ response.body = "access_denied" -> "ErrAccessDenied"
      [] response.id = "" /\ response.body # "access_denied" -> "ErrInvalidResponse"
      [] response.id # "" /\ ~response.ok -> ErrorForCode(response.body)
      [] OTHER -> IF (op = "health") = (response.body = "health")
                  THEN "ok" ELSE "ErrInvalidResponse"
=============================================================================
