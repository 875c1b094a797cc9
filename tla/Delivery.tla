------------------------------ MODULE Delivery ------------------------------
(***************************************************************************)
(* What the way from Dispatch to the cloud promises about the results of   *)
(* all invokes (the headers of relay/protocol.go and of Host.Dispatch, and *)
(* postResult): they arrive in the order they were reported, each at most  *)
(* once; one may be lost, and then the ones behind it are not held up.     *)
(* A POST that ran into its timeout may still arrive at any later time.    *)
(***************************************************************************)
EXTENDS SequencesExt

VARIABLES
    pending,  \* results reported that have not left the machine
    landed,   \* results the cloud has, in the order they arrived
    late      \* results that may arrive yet, out of order

vars == <<pending, landed, late>>

Init ==
    /\ pending = <<>>
    /\ landed = <<>>
    /\ late = {}

Report ==
    /\ pending' # <<>>
    /\ pending' = Append(pending, Last(pending'))
    /\ UNCHANGED <<landed, late>>

Land ==
    /\ pending # <<>>
    /\ landed' = Append(landed, Head(pending))
    /\ pending' = Tail(pending)
    /\ UNCHANGED late

Lose ==
    /\ pending # <<>>
    /\ pending' = Tail(pending)
    /\ late' \in {late, late \cup {Head(pending)}}
    /\ UNCHANGED landed

LandLate ==
    \E r \in late :
        /\ landed' = Append(landed, r)
        /\ late' = late \ {r}
        /\ UNCHANGED pending

\* The process ends with what it has not sent.
Vanish ==
    /\ pending # <<>>
    /\ pending' = <<>>
    /\ late' \in {late, late \cup {Head(pending)}}
    /\ UNCHANGED landed

Next == Report \/ Land \/ Lose \/ LandLate \/ Vanish

\* Nothing waits for ever.
Spec == Init /\ [][Next]_vars /\ WF_vars(Land \/ Lose \/ Vanish)

=============================================================================
