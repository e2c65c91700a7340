------------------------------- MODULE MCStores -------------------------------
(* The two files of the client for TLC: two processes with a caller each.     *)
(* The files have nothing in common, so a behaviour is about one of them, as  *)
(* focus says: the state file with writes, the state file with handles that   *)
(* are closed, or the secret file.                                            *)
EXTENDS StateStore, SecretFile, TLC

CONSTANTS h1, h2, c1, c2

VARIABLE focus

CallsOf == c1 :> h1 @@ c2 :> h2

allVars == <<vars, secretVars, focus>>

MCInit ==
    /\ Init /\ SecretInit
    /\ focus \in {"writes", "closes", "secrets"}
    /\ focus # "writes" => content.revision = 0

\* Close is the same code in both stores, so of the secret file only one handle
\* is closed, and only while the other process does nothing.
MCNext ==
    \/ focus = "writes" /\ Next /\ UNCHANGED <<lifecycle, secretVars, focus>>
    \/ focus = "closes" /\ Next /\ drawn' < 2 /\ UNCHANGED <<secretVars, focus>>
    \/ /\ focus = "secrets" /\ SecretNext
       /\ secretLifecycle'[h1] = "open"
       /\ secretLifecycle'[h2] # "open" => secretFrame'[c1].pc = "idle"
       /\ UNCHANGED <<vars, focus>>

MCSpec == MCInit /\ [][MCNext]_allVars /\ Fairness
=============================================================================
