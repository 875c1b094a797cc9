------------------------------ MODULE Outbound ------------------------------
(***************************************************************************)
(* From the cloud to the handler and back: the connection (relay.Client),  *)
(* Host.Dispatch, the redaction of a command's output, and the queue of    *)
(* results with the goroutine that drains it.                              *)
(*                                                                         *)
(* main lets client.Run return when the user stops the program, or when    *)
(* the machine was removed on the web page; then the process ends.  Every  *)
(* message of the cloud is handled in a goroutine of its own.  What exec   *)
(* and the terminal do before their results is in Exec and Terminal.       *)
(***************************************************************************)
EXTENDS Redact, FiniteSets

CONSTANTS
    Invokes,    \* what the cloud asks for
    OpsOf,      \* the operations each of them may be
    Chunks,     \* what a command may print at a time
    MaxPrints,  \* bound: chunks of one command
    MaxLate,    \* bound: results on the way although their POST is over
    Nil

ASSUME OutboundAssumption ==
    /\ OpsOf \in [Invokes -> SUBSET {"exec", "terminal", "update"}]
    /\ {MaxPrints, MaxLate} \subseteq Nat
    /\ \A c \in Chunks : c \in Seq(Range(c))
    /\ Nil \notin {"exec", "terminal", "update"}

VARIABLES
    conn,      \* where client.Run is; "gone": the process has ended
    op,        \* what was asked for with each invoke
    wire,      \* invokes that were sent and are not dispatched
    disp,      \* where the Dispatch of each invoke is
    printed,   \* history: the chunks its command has printed
    kept,      \* the stream's pending text
    reports,   \* history: how many results it has reported
    inflight,  \* Host.inflight
    queue,     \* Client.queue
    draining,  \* Client.draining
    drains,    \* drain goroutines at the top of their loop
    posting,   \* results in postResult
    landed,    \* results at the cloud, in the order they arrived
    late,      \* results whose POST timed out, and which may arrive yet
    unsent     \* history: commands of which a result was lost or delayed

hostVars == <<disp, printed, kept, reports, inflight>>
sendVars == <<queue, draining, drains>>
vars == <<conn, op, wire, hostVars, sendVars, posting, landed, late, unsent>>

D == INSTANCE Delivery WITH pending <- posting \o queue

Init ==
    /\ conn = "begin"
    /\ op = [i \in Invokes |-> Nil]
    /\ wire = {}
    /\ disp = [i \in Invokes |-> "no"]
    /\ printed = [i \in Invokes |-> <<>>]
    /\ kept = [i \in Invokes |-> <<>>]
    /\ reports = [i \in Invokes |-> 0]
    /\ inflight = 0
    /\ queue = <<>>
    /\ draining = FALSE
    /\ drains = 0
    /\ posting = <<>>
    /\ landed = <<>>
    /\ late = {}
    /\ unsent = {}

Alive == conn # "gone"

-----------------------------------------------------------------------------
\* client.Run and connectOnce.

ConnStep(from, to) ==
    /\ conn = from
    /\ conn' = to
    /\ UNCHANGED <<op, hostVars, sendVars, posting, landed, late,
                   unsent>>

\* A new ticket for every attempt, then the GET.  Whatever the server answers
\* but 200, to either, is one failure like the others.
Connect == ConnStep("begin", "stream") /\ UNCHANGED wire
Refused == ConnStep("begin", "wait") /\ UNCHANGED wire

\* The stream breaks; what was on it and had not been read is lost.
Drop == ConnStep("stream", "wait") /\ wire' \in SUBSET wire

\* A delay that doubles up to 30 s, and is never reset.
Retry == ConnStep("wait", "begin") /\ UNCHANGED wire

\* revoke: this was the last connection.
Revoked == ConnStep("stream", "over") /\ wire' \in SUBSET wire

\* The context is cancelled, by a signal or by the updater's Quiesce: Run
\* returns from wherever it is.
Stop ==
    /\ \E from \in {"begin", "stream", "wait"} : ConnStep(from, "over")
    /\ wire' \in SUBSET wire

\* main returns: everything that is still in memory is lost; a result that is
\* being posted may have arrived, or arrive yet.
Exit ==
    /\ conn = "over"
    /\ conn' = "gone"
    /\ wire' = {}
    /\ disp' = [i \in Invokes |-> "no"]
    /\ kept' = [i \in Invokes |-> <<>>]
    /\ inflight' = 0
    /\ queue' = <<>>
    /\ posting' = <<>>
    /\ draining' = FALSE
    /\ drains' = 0
    /\ late' \in {late, late \cup Range(posting)}
    /\ UNCHANGED <<op, printed, reports, landed, unsent>>

-----------------------------------------------------------------------------
\* Send.

Result(i, final, text) ==
    [id |-> i, nr |-> reports[i] + 1, final |-> final, text |-> text]

DrainAlways == drains' = drains + 1  \* mutant: one drain for every result
Drain == drains' = IF draining THEN drains ELSE drains + 1

Send(r) ==
    /\ queue' = Append(queue, r)
    /\ draining' = TRUE
    /\ Drain
    /\ reports' = [reports EXCEPT ![r.id] = r.nr]
    /\ UNCHANGED <<conn, op, wire, posting, landed, late, unsent>>

-----------------------------------------------------------------------------
\* OnMessage, Host.Dispatch.

\* The cloud asks; it does so over a stream only.
Ask(i, o) ==
    /\ conn = "stream"
    /\ op[i] = Nil
    /\ op' = [op EXCEPT ![i] = o]
    /\ wire' = wire \cup {i}
    /\ UNCHANGED <<conn, hostVars, sendVars, posting, landed, late, unsent>>

\* The updates' own invokes do not count as work.
Everyone(i) == 1  \* mutant: what is added is not what is taken away
Weight(i) == IF op[i] = "update" THEN 0 ELSE 1

Dispatch(i) ==
    /\ Alive
    /\ i \in wire
    /\ wire' = wire \ {i}
    /\ disp' = [disp EXCEPT ![i] = "running"]
    /\ inflight' = inflight + (IF op[i] = "update" THEN 0 ELSE 1)
    /\ UNCHANGED <<conn, op, printed, kept, reports, sendVars, posting,
                   landed, late, unsent>>

\* execChunk: what the stream lets go is a partial result.
ExecChunk(i, chunk) ==
    /\ disp[i] = "running"
    /\ op[i] = "exec"
    /\ Len(printed[i]) < MaxPrints  \* bound
    /\ printed' = [printed EXCEPT ![i] = Append(@, chunk)]
    /\ LET p == kept[i] \o chunk IN
       /\ kept' = [kept EXCEPT ![i] = PushKeep(p)]
       /\ IF PushOut(p) # <<>>
          THEN Send(Result(i, FALSE, PushOut(p)))
          ELSE UNCHANGED <<conn, op, wire, reports, sendVars, posting,
                           landed, late, unsent>>
    /\ UNCHANGED <<disp, inflight>>

\* execExit: the stream's tail leaves before the final result.
Flush(i) ==
    /\ disp[i] = "running"
    /\ kept[i] # <<>>
    /\ kept' = [kept EXCEPT ![i] = <<>>]
    /\ disp' = [disp EXCEPT ![i] = "flushed"]
    /\ Send(Result(i, FALSE, Redacted(kept[i])))
    /\ UNCHANGED <<printed, inflight>>

\* The final result: the handler's, or a refusal, or what is made of a panic.
Settle(i) ==
    /\ disp[i] \in {"running", "flushed"}
    /\ kept[i] = <<>>
    /\ disp' = [disp EXCEPT ![i] = "settled"]
    /\ Send(Result(i, TRUE, <<>>))
    /\ UNCHANGED <<printed, kept, inflight>>

Return(i) ==
    /\ disp[i] = "settled"
    /\ disp' = [disp EXCEPT ![i] = "over"]
    /\ inflight' = inflight - Weight(i)
    /\ UNCHANGED <<conn, op, wire, printed, kept, reports, sendVars, posting, landed,
                   late, unsent>>

\* A keep-alive of the terminal that was due when the shell ended (see
\* Terminal, TickEmit).
Stray(i) ==
    /\ disp[i] \in {"settled", "over"}
    /\ op[i] = "terminal"
    /\ reports[i] = 1  \* bound
    /\ Send(Result(i, FALSE, <<>>))
    /\ UNCHANGED <<disp, printed, kept, inflight>>

-----------------------------------------------------------------------------
\* drain and postResult.

Take ==
    /\ drains > 0
    /\ drains' = drains - 1
    /\ IF queue = <<>>
       THEN draining' = FALSE /\ UNCHANGED <<queue, posting>>
       ELSE /\ posting' = Append(posting, Head(queue))
            /\ queue' = Tail(queue)
            /\ UNCHANGED draining
    /\ UNCHANGED <<conn, op, wire, hostVars, landed, late, unsent>>

Posted(n) ==
    /\ n \in DOMAIN posting
    /\ posting' = RemoveAt(posting, n)
    /\ drains' = drains + 1
    /\ UNCHANGED <<conn, op, wire, hostVars, queue, draining>>

Lands(n) ==
    /\ Posted(n)
    /\ landed' = Append(landed, posting[n])
    /\ UNCHANGED <<late, unsent>>

\* No network, a ticket that has expired, a timeout: nobody looks, nothing is
\* tried again.
Fails(n) ==
    /\ Posted(n)
    /\ \/ late' = late
       \/ /\ Cardinality(late) < MaxLate  \* bound
          /\ late' = late \cup {posting[n]}
    /\ unsent' = unsent \cup {i \in {posting[n].id} : op[i] = "exec"}
    /\ UNCHANGED landed

LandsLate(r) ==
    /\ r \in late
    /\ late' = late \ {r}
    /\ landed' = Append(landed, r)
    /\ UNCHANGED <<conn, op, wire, hostVars, sendVars, posting, unsent>>

-----------------------------------------------------------------------------

Connection ==
    \/ Connect \/ Refused \/ Drop \/ Retry \/ Revoked \/ Stop
    \/ Exit

Invoke(i) ==
    \/ \E o \in OpsOf[i] : Ask(i, o)
    \/ Dispatch(i)
    \/ \E c \in Chunks : ExecChunk(i, c)
    \/ Flush(i) \/ Settle(i) \/ Return(i) \/ Stray(i)

Post == \E n \in DOMAIN posting : Lands(n) \/ Fails(n)

Next ==
    \/ Connection
    \/ \E i \in Invokes : Invoke(i)
    \/ Take \/ Post
    \/ \E r \in late : LandsLate(r)

\* A drain goroutine that can go on does; a POST ends after 30 s at the latest.
Spec == Init /\ [][Next]_vars /\ WF_vars(Take) /\ WF_vars(Post)

-----------------------------------------------------------------------------
\* Properties.

Text == Seq({Hidden, Newline} \cup Conts \cup UNION {Range(c) : c \in Chunks})

IsResult(r) ==
    /\ DOMAIN r = {"id", "nr", "final", "text"}
    /\ r.id \in Invokes /\ r.nr \in 1 .. reports[r.id]
    /\ r.final \in BOOLEAN /\ r.text \in Text

\* The value of every variable is one the code can give it; inflight counts
\* the invokes of the user that have not returned.
TypeOK ==
    /\ conn \in {"begin", "stream", "wait", "over", "gone"}
    /\ op \in [Invokes -> {"exec", "terminal", "update", Nil}]
    /\ wire \subseteq Invokes
    /\ disp \in [Invokes -> {"no", "running", "flushed", "settled", "over"}]
    /\ \A i \in Invokes : Range(printed[i]) \subseteq Chunks /\ kept[i] \in Text
    /\ inflight = Cardinality({i \in Invokes :
                     /\ disp[i] \in {"running", "flushed", "settled"}
                     /\ op[i] # "update"})
    /\ draining \in BOOLEAN
    /\ drains + Len(posting) = IF draining THEN 1 ELSE 0
    /\ \A r \in Range(queue) \cup Range(posting) \cup Range(landed) \cup late :
          IsResult(r)
    /\ unsent \subseteq Invokes

\* The queue and its one drain are the lossy queue of Delivery: results leave
\* in the order of the calls of Send, none twice, and none waits for ever,
\* however Send and the end of drain interleave (Send, drain, postResult).
Delivered == D!Spec

Final(r, i) == r.id = i /\ r.final

\* When the final result of invoke i arrived; the cloud forgets i then.
Answered(i) == \E n \in DOMAIN landed : Final(landed[n], i)
Answer(i) == CHOOSE n \in DOMAIN landed : Final(landed[n], i)

\* What the cloud has of the output of i after the first n results it got.
Got(i, n) ==
    FlattenSeq([m \in 1 .. n |-> IF landed[m].id = i /\ ~landed[m].final
                                 THEN landed[m].text ELSE <<>>])

\* The line of text t that position n is in.
Line(t, n) ==
    {m \in DOMAIN t :
        /\ t[m] # Newline
        /\ \A k \in (n .. m - 1) \cup (m .. n - 1) : t[k] # Newline}

\* What begins at f is in one line, and that is no longer than the carry.
InShortLine(t, f) ==
    Span(f) \subseteq Line(t, f) /\ Cardinality(Line(t, f)) <= Carry

\* When the final result arrives, and no POST of the invoke failed, the cloud
\* has all the command printed, in order; every byte is as it was unless it
\* belongs to a secret; a secret in a line no longer than the carry is hidden,
\* however the output was chunked; and no partial ends inside a character
\* (execChunk, execExit, Push, Flush).
OutputArrives ==
    \A i \in Invokes : Answered(i) /\ i \notin unsent /\ op[i] = "exec" =>
        LET raw == FlattenSeq(printed[i])
            got == Got(i, Answer(i))
        IN /\ Len(got) = Len(raw)
           /\ \A n \in DOMAIN raw :
                 \/ got[n] = raw[n]
                 \/ got[n] = Hidden /\ \E f \in Found(raw) : n \in Span(f)
           /\ \A f \in Found(raw) :
                 InShortLine(raw, f) => \A n \in Span(f) : got[n] = Hidden
           /\ \A n \in 1 .. Answer(i) :
                 LET end == Len(Got(i, n))
                 IN end \in 1 .. Len(raw) - 1 =>
                       raw[end + 1] \notin Conts \/ raw[end] = Newline

=============================================================================
