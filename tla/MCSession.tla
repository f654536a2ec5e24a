----------------------------- MODULE MCSession -----------------------------
(***************************************************************************)
(* Small instances of MuxSession.                                          *)
(***************************************************************************)
EXTENDS MuxSession, TLC

\* Processes are alike.
Alike == Permutations(Procs)
=============================================================================
