------------------------------- MODULE MCExec -------------------------------
(* Small instances of Exec.                                                *)
EXTENDS Exec, TLC

Alike == Permutations(Execs) \cup Permutations(Cancels)
=============================================================================
