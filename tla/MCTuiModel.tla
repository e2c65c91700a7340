------------------------------ MODULE MCTuiModel ------------------------------
(* The interface for TLC.  A behaviour looks at one half, as focus says: the  *)
(* lists and sessions that change under the interface, or the input fields,   *)
(* the switches that no message touches, and the end of the program.          *)
EXTENDS TuiModel

VARIABLE focus

\* Servers come, go, and all disappear.
FourLists == <<<<"s1", "s2">>, <<"s2">>, <<>>, <<"s1", "s2", "s3">>>>

AllKeys == {"ctrl+c", "q", "down", "up", "enter", "a", "m", "r", "n", "u", "l", "c", "d",
            "esc", "backspace", "x", " "}

allVars == <<vars, focus>>

MCInit == Init /\ focus \in {"lists", "inputs"}

\* Nothing below is forced: a command may always leave the world as it is.
MCNext ==
    /\ Next /\ UNCHANGED focus
    /\ focus = "lists" =>
         m'.input = "none" /\ m'.mode = "tun" /\ m'.route = "global" /\ program' = "running"
    /\ focus = "inputs" => world'.version = 1 /\ m'.selection = "auto"

MCSpec == MCInit /\ [][MCNext]_allVars
=============================================================================
