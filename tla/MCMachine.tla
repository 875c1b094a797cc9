----------------------------- MODULE MCMachine -----------------------------
(* Two processes at a time, two servers, one folder.                        *)
EXTENDS Machine

CONSTANTS p1, p2

Symmetric == Permutations(Procs)

\* The log's steps and those on config.json touch nothing in common: what two
\* processes can do to the config, and what many can do to it in turn, is
\* looked at with an empty log.
OneAtATime == entries # 0 => ~overlap /\ granted = {} /\ ids <= 1
=============================================================================
