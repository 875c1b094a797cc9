----------------------------- MODULE MCTerminal -----------------------------
(* Terminal for TLC: calls, ids and folders are interchangeable.           *)
EXTENDS Terminal, TLC

Interchangeable ==
    Permutations(Calls) \cup Permutations(Ids) \cup Permutations(Cwds)
=============================================================================
