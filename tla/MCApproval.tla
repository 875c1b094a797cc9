---------------------------- MODULE MCApproval ----------------------------
(* Small instances of Approval: one ticket of each kind for one act.       *)
EXTENDS Approval, TLC

CONSTANTS k1,  \* the device that signs the ticket
          a1   \* the act both tickets approve

Signed == [id |-> "signed", key |-> k1, act |-> a1, iat |-> 0, exp |-> 0]
FromApp == [id |-> "app", key |-> Nil, act |-> a1, iat |-> 0, exp |-> 0]

\* A ticket that is valid only from the second tick on.
Early == [id |-> "early", key |-> k1, act |-> a1, iat |-> 1, exp |-> 1]

TimedTickets == {Early, FromApp}

\* A file the user touched is looked at only while a ticket is still valid.
TouchedEarly == touches # 0 => now <= 1

Alike == Permutations(Calls) \cup Permutations(Reqs)
=============================================================================
