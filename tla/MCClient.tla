------------------------------- MODULE MCClient -------------------------------
(* The client for TLC: the program from its arguments to its exit status, and *)
(* a Connect or CheckLatency that its service executes.  The second touches   *)
(* none of the first one's state, so a behaviour is about one of them, as     *)
(* focus says: the program, or a call over few or three endpoints that change *)
(* meanwhile.                                                                 *)
EXTENDS ClientProgram, AppConnect

VARIABLE focus

Endpoint(id, rev, tcp, valid) == [id |-> id, rev |-> rev, tcp |-> tcp, valid |-> valid]

\* A list, the same after an endpoint was changed, one with an endpoint that is
\* not valid, and none.
FewLists ==
    {<<Endpoint(2, 1, TRUE, TRUE), Endpoint(1, 1, TRUE, TRUE)>>,
     <<Endpoint(1, 2, TRUE, TRUE)>>,
     <<Endpoint(1, 1, TRUE, TRUE), Endpoint(2, 1, FALSE, FALSE)>>,
     <<>>}
ThreeEndpoints ==
    {<<Endpoint(1, 1, TRUE, TRUE), Endpoint(3, 1, TRUE, TRUE), Endpoint(2, 1, FALSE, TRUE)>>,
     <<Endpoint(3, 1, TRUE, TRUE), Endpoint(1, 1, TRUE, FALSE), Endpoint(2, 1, TRUE, TRUE)>>}

AllLists == FewLists \cup ThreeEndpoints

allVars == <<vars, callVars, focus>>

MCInit ==
    /\ Init /\ CallInit
    /\ focus \in {"program", "few", "many"}
    /\ stored \in IF focus = "many" THEN ThreeEndpoints ELSE FewLists
    /\ focus # "program" => line = [command |-> "version", args |-> 0, flags |-> {}]
    /\ focus = "program" => stored = <<>>

\* No call begins once the results of one have been cached: it would find the
\* same state again but for the cache, which it does not read.
First == call.pc # "idle" \/ \A id \in DOMAIN cache : cache[id] = ""

\* A program that has ended does nothing more, nor does a service that has
\* cached results.
MCNext ==
    \/ focus = "program" /\ Next /\ UNCHANGED <<callVars, focus>>
    \/ /\ focus # "program" /\ CallNext /\ UNCHANGED <<vars, focus>>
       /\ First /\ stored' \in (IF focus = "few" THEN FewLists ELSE ThreeEndpoints)
    \/ main \in {"exited", "panicked"} /\ UNCHANGED allVars
    \/ focus # "program" /\ ~First /\ UNCHANGED allVars

MCSpec ==
    /\ MCInit /\ [][MCNext]_allVars
    /\ Fairness /\ CallFairness
=============================================================================
