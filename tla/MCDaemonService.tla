-------------------------- MODULE MCDaemonService --------------------------
(***************************************************************************)
(* Instances of DaemonService for TLC.                                     *)
(***************************************************************************)
EXTENDS DaemonService, TLC

\* Callers are interchangeable, and so are the profiles they ask for.
Symmetry == Permutations(Clients) \cup Permutations(Profiles)
=============================================================================
