-------------------------------- MODULE Exec --------------------------------
(***************************************************************************)
(* Commands: the ops exec and cancel of internal/host, over                *)
(* internal/runner.                                                        *)
(*                                                                         *)
(* An exec invoke runs in a goroutine of its own until its command is over.*)
(* The runner starts two pumps and a finisher for the command; the         *)
(* deadline, each cancel invoke and the two seconds between SIGTERM and    *)
(* SIGKILL are goroutines too, and CancelAll runs when the daemon stops.   *)
(***************************************************************************)
EXTENDS Integers, FiniteSets

CONSTANTS
    Execs,      \* exec invokes
    Cancels,    \* cancel invokes
    MaxChunks,  \* bound: chunks a command writes to one of its streams
    PipeSize,   \* chunks an unread pipe holds
    Inputs,     \* subset of {"small", "big"}: does stdin fit in a pipe
    Heirs,      \* TRUE: a command may leave a process outside its group
    Stops,      \* FALSE: only behaviours in which the daemon keeps running
    Nil         \* no result, no target

ASSUME ExecAssumption ==
    /\ MaxChunks \in Nat
    /\ PipeSize \in Nat \ {0}
    /\ Inputs \subseteq {"small", "big"}
    /\ Heirs \in BOOLEAN
    /\ Stops \in BOOLEAN
    /\ Nil \notin Execs

Streams == {"stdout", "stderr"}

\* The processes of a command: the leader, which exec.Cmd started and waits for,
\* others of its process group, and one that left the group.
Group == {"leader", "child"}
Procs == Group \cup {"heir"}

VARIABLES
    pc,        \* where the goroutine of each exec is
    entry,     \* the exec is in Host.execs
    listed,    \* the command is in Runner.running
    done,      \* the result in execCall.done
    timedOut,  \* execCall.timedOut
    timer,     \* the deadline's AfterFunc
    grace,     \* a Cancel waits two seconds before its SIGKILL
    input,     \* the size of the command's stdin
    alive,     \* those of its processes that live
    pipes,     \* those that hold its stdin, stdout and stderr
    termed,    \* SIGTERM was sent to the group
    killed,    \* SIGKILL was sent to the group
    wrote,     \* chunks written to each pipe
    read,      \* chunks the pump read from it
    sent,      \* chunks that left as partials
    pump,      \* the pump of each stream
    fin,       \* the finisher
    cpc,       \* where the goroutine of each cancel is
    aim,       \* the exec it cancels
    shut,      \* progress of CancelAll and of the process
    toCancel,  \* execs CancelAll still has to Cancel
    late       \* history: execs listed after CancelAll looked

callVars   == <<pc, entry, done, timedOut>>
timerVars  == <<timer, grace>>
procVars   == <<input, alive, pipes, termed, killed, wrote>>
outVars    == <<read, sent, pump>>
runVars    == <<listed, fin>>
cancelVars == <<cpc, aim>>
shutVars   == <<shut, toCancel, late>>
vars == <<callVars, timerVars, procVars, outVars, runVars, cancelVars,
          shutVars>>

Init ==
    /\ pc = [x \in Execs |-> "idle"]
    /\ entry = [x \in Execs |-> FALSE]
    /\ listed = [x \in Execs |-> FALSE]
    /\ done = [x \in Execs |-> Nil]
    /\ timedOut = [x \in Execs |-> FALSE]
    /\ timer = [x \in Execs |-> "off"]
    /\ grace = [x \in Execs |-> FALSE]
    /\ input = [x \in Execs |-> "small"]
    /\ alive = [x \in Execs |-> {}]
    /\ pipes = [x \in Execs |-> {}]
    /\ termed = [x \in Execs |-> FALSE]
    /\ killed = [x \in Execs |-> FALSE]
    /\ wrote = [x \in Execs |-> [s \in Streams |-> 0]]
    /\ read = [x \in Execs |-> [s \in Streams |-> 0]]
    /\ sent = [x \in Execs |-> [s \in Streams |-> 0]]
    /\ pump = [x \in Execs |-> [s \in Streams |-> "off"]]
    /\ fin = [x \in Execs |-> "off"]
    /\ cpc = [k \in Cancels |-> "idle"]
    /\ aim = [k \in Cancels |-> Nil]
    /\ shut = "up"
    /\ toCancel = {}
    /\ late = {}

Goto(x, label) == pc' = [pc EXCEPT ![x] = label]

-----------------------------------------------------------------------------
(* Host.exec and Runner.Start, in the goroutine of the invoke x.           *)

\* No command, no approval, outside the grants, no shell, no confinement.
Refuse(x) ==
    /\ pc[x] = "idle"
    /\ Goto(x, "refused")
    /\ UNCHANGED <<entry, done, timedOut, timerVars, procVars, outVars,
                   runVars, cancelVars, shutVars>>

\* Register first: Start may report a failure before it returns.
Register(x) ==
    /\ pc[x] = "idle"
    /\ Goto(x, "registered")
    /\ entry' = [entry EXCEPT ![x] = TRUE]
    /\ UNCHANGED <<done, timedOut, timerVars, procVars, outVars, runVars,
                   cancelVars, shutVars>>

\* No folder, no pipe, no process: Exit is called before Start returns.
StartFail(x) ==
    /\ pc[x] = "registered"
    /\ Goto(x, "started")
    /\ entry' = [entry EXCEPT ![x] = FALSE]
    /\ done' = [done EXCEPT ![x] = "spawn_failed"]
    /\ UNCHANGED <<timedOut, timerVars, procVars, outVars, runVars, cancelVars,
                   shutVars>>

Spawn(x) ==
    /\ pc[x] = "registered"
    /\ Goto(x, "spawned")
    /\ alive' = [alive EXCEPT ![x] = {"leader"}]
    /\ pipes' = [pipes EXCEPT ![x] = {"leader"}]
    /\ \E i \in Inputs : input' = [input EXCEPT ![x] = i]
    /\ UNCHANGED <<entry, done, timedOut, timerVars, termed, killed, wrote,
                   outVars, runVars, cancelVars, shutVars>>

List(x) ==
    /\ pc[x] = "spawned"
    /\ Goto(x, "listed")
    /\ listed' = [listed EXCEPT ![x] = TRUE]
    /\ late' = IF shut = "up" THEN late ELSE late \cup {x}
    /\ UNCHANGED <<entry, done, timedOut, timerVars, procVars, outVars, fin,
                   cancelVars, shut, toCancel>>

\* stdin.Write returns: the pipe took it all, or nobody holds its other end.
Feed(x) ==
    /\ pc[x] = "listed"
    /\ input[x] = "small" \/ pipes[x] = {}
    /\ Goto(x, "fed")
    /\ UNCHANGED <<entry, done, timedOut, timerVars, procVars, outVars,
                   runVars, cancelVars, shutVars>>

\* stdin is closed, the pumps and the finisher start, and Start returns.
StartPumps(x) ==
    /\ pc[x] = "fed"
    /\ Goto(x, "started")
    /\ pump' = [pump EXCEPT ![x] = [s \in Streams |-> "read"]]
    /\ fin' = [fin EXCEPT ![x] = "drain"]
    /\ UNCHANGED <<entry, done, timedOut, timerVars, procVars, read, sent,
                   listed, cancelVars, shutVars>>

\* The deadline counts from here.
Arm(x) ==
    /\ pc[x] = "started"
    /\ Goto(x, "waiting")
    /\ timer' = [timer EXCEPT ![x] = "armed"]
    /\ UNCHANGED <<entry, done, timedOut, grace, procVars, outVars, runVars,
                   cancelVars, shutVars>>

\* What the goroutine of the invoke waits for.
DoneOrLate(x) == done[x] # Nil \/ timedOut[x]  \* mutant: or the deadline
Done(x) == done[x] # Nil

\* <-c.done, timer.Stop, and Dispatch emits the final result.
Answer(x) ==
    /\ pc[x] = "waiting"
    /\ Done(x)
    /\ Goto(x, "answered")
    /\ timer' = [timer EXCEPT ![x] = IF @ = "armed" THEN "off" ELSE @]
    /\ UNCHANGED <<entry, done, timedOut, grace, procVars, outVars, runVars,
                   cancelVars, shutVars>>

-----------------------------------------------------------------------------
(* Runner.Cancel: SIGTERM for a listed command, then SIGKILL if it is still*)
(* listed two seconds later.  (That the pid may already be somebody else's *)
(* is not modelled.)                                                       *)

\* Mutant of Cancel: only a command whose pumps run.
CancelPumped(x) ==
    LET on == listed[x] /\ \A s \in Streams : pump[x][s] # "off" IN
    /\ termed' = [termed EXCEPT ![x] = @ \/ on]
    /\ grace' = [grace EXCEPT ![x] = @ \/ on]

\* Mutant of Cancel: no SIGKILL.
CancelSoftly(x) ==
    /\ termed' = [termed EXCEPT ![x] = @ \/ listed[x]]
    /\ UNCHANGED grace

Cancel(x) ==
    /\ termed' = [termed EXCEPT ![x] = @ \/ listed[x]]
    /\ grace' = [grace EXCEPT ![x] = @ \/ listed[x]]

GraceEnds(x) ==
    /\ grace[x]
    /\ grace' = [grace EXCEPT ![x] = FALSE]
    /\ killed' = [killed EXCEPT ![x] = @ \/ listed[x]]
    /\ UNCHANGED <<callVars, timer, input, alive, pipes, termed, wrote, outVars,
                   runVars, cancelVars, shutVars>>

TimerFire(x) ==
    /\ timer[x] = "armed"
    /\ timer' = [timer EXCEPT ![x] = "fired"]
    /\ timedOut' = [timedOut EXCEPT ![x] = TRUE]
    /\ UNCHANGED <<pc, entry, done, grace, procVars, outVars, runVars,
                   cancelVars, shutVars>>

TimerCancel(x) ==
    /\ timer[x] = "fired"
    /\ timer' = [timer EXCEPT ![x] = "off"]
    /\ Cancel(x)
    /\ UNCHANGED <<callVars, input, alive, pipes, killed, wrote, outVars,
                   runVars, cancelVars, shutVars>>

\* The op cancel: is there such a call ...
CancelLookup(k, x) ==
    /\ cpc[k] = "idle"
    /\ cpc' = [cpc EXCEPT ![k] = IF entry[x] THEN "found" ELSE "told_false"]
    /\ aim' = [aim EXCEPT ![k] = x]
    /\ UNCHANGED <<callVars, timerVars, procVars, outVars, runVars, shutVars>>

\* ... and if so, cancel it and say so.
CancelCommand(k) ==
    /\ cpc[k] = "found"
    /\ cpc' = [cpc EXCEPT ![k] = "told_true"]
    /\ Cancel(aim[k])
    /\ UNCHANGED <<callVars, timer, input, alive, pipes, killed, wrote, outVars,
                   runVars, aim, shutVars>>

-----------------------------------------------------------------------------
(* The command.                                                            *)

\* An unread pipe blocks its writer.
Write(x, s) ==
    /\ pipes[x] # {}
    /\ wrote[x][s] < MaxChunks
    /\ wrote[x][s] - read[x][s] < PipeSize
    /\ wrote' = [wrote EXCEPT ![x][s] = @ + 1]
    /\ UNCHANGED <<callVars, timerVars, input, alive, pipes, termed, killed,
                   outVars, runVars, cancelVars, shutVars>>

\* It reads a stdin that does not fit in the pipe: nobody can make it.
ReadInput(x) ==
    /\ pipes[x] # {}
    /\ input[x] = "big"
    /\ input' = [input EXCEPT ![x] = "small"]
    /\ UNCHANGED <<callVars, timerVars, alive, pipes, termed, killed, wrote,
                   outVars, runVars, cancelVars, shutVars>>

\* It starts another process, which inherits what it holds ...
Fork(x) ==
    /\ "leader" \in alive[x] /\ "child" \notin alive[x]
    /\ alive' = [alive EXCEPT ![x] = @ \cup {"child"}]
    /\ pipes' = [pipes EXCEPT ![x] = IF "leader" \in @ THEN @ \cup {"child"}
                                                     ELSE @]
    /\ UNCHANGED <<callVars, timerVars, input, termed, killed, wrote, outVars,
                   runVars, cancelVars, shutVars>>

\* ... and may go into a session of its own.
Detach(x) ==
    /\ Heirs
    /\ "child" \in alive[x] /\ "heir" \notin alive[x]
    /\ alive' = [alive EXCEPT ![x] = (@ \ {"child"}) \cup {"heir"}]
    /\ pipes' = [pipes EXCEPT ![x] = IF "child" \in @
                                       THEN (@ \ {"child"}) \cup {"heir"}
                                       ELSE @]
    /\ UNCHANGED <<callVars, timerVars, input, termed, killed, wrote, outVars,
                   runVars, cancelVars, shutVars>>

\* One of them redirects its input and output, all of it at once.
Redirect(x, p) ==
    /\ p \in pipes[x]
    /\ pipes' = [pipes EXCEPT ![x] = @ \ {p}]
    /\ UNCHANGED <<callVars, timerVars, input, alive, termed, killed, wrote,
                   outVars, runVars, cancelVars, shutVars>>

\* One of them ends on its own, or by a signal: the others need not.
Die(x, p) ==
    /\ p \in alive[x]
    /\ alive' = [alive EXCEPT ![x] = @ \ {p}]
    /\ pipes' = [pipes EXCEPT ![x] = @ \ {p}]
    /\ UNCHANGED <<callVars, timerVars, input, termed, killed, wrote, outVars,
                   runVars, cancelVars, shutVars>>

-----------------------------------------------------------------------------
(* The pumps and the finisher.                                             *)

PumpRead(x, s) ==
    /\ pump[x][s] = "read"
    /\ read[x][s] < wrote[x][s]
    /\ read' = [read EXCEPT ![x][s] = @ + 1]
    /\ pump' = [pump EXCEPT ![x][s] = "push"]
    /\ UNCHANGED <<callVars, timerVars, procVars, sent, runVars, cancelVars,
                   shutVars>>

\* execChunk: the redactor lets go of as much as it can judge.
PumpPush(x, s) ==
    /\ pump[x][s] = "push"
    /\ pump' = [pump EXCEPT ![x][s] = "read"]
    /\ IF entry[x]
         THEN \E n \in sent[x][s] .. read[x][s] :
                  sent' = [sent EXCEPT ![x][s] = n]
         ELSE UNCHANGED sent
    /\ UNCHANGED <<callVars, timerVars, procVars, read, runVars, cancelVars,
                   shutVars>>

\* EOF: every holder of the other end is gone.
PumpEnd(x, s) ==
    /\ pump[x][s] = "read"
    /\ read[x][s] = wrote[x][s]
    /\ pipes[x] = {}
    /\ pump' = [pump EXCEPT ![x][s] = "eof"]
    /\ UNCHANGED <<callVars, timerVars, procVars, read, sent, runVars,
                   cancelVars, shutVars>>

\* Both pumps are at their end, then cmd.Wait, which waits for the leader only.
Reap(x) ==
    /\ fin[x] = "drain"
    /\ \A s \in Streams : pump[x][s] = "eof"
    /\ "leader" \notin alive[x]
    /\ fin' = [fin EXCEPT ![x] = "reaped"]
    /\ UNCHANGED <<callVars, timerVars, procVars, outVars, listed, cancelVars,
                   shutVars>>

Unlist(x) ==
    /\ fin[x] = "reaped"
    /\ fin' = [fin EXCEPT ![x] = "unlisted"]
    /\ listed' = [listed EXCEPT ![x] = FALSE]
    /\ UNCHANGED <<callVars, timerVars, procVars, outVars, cancelVars, shutVars>>

\* The status of a command that ran.
VerdictKilled(x) ==  \* mutant: a status nobody knows
    CASE killed[x]   -> "killed"
      [] timedOut[x] -> "timed_out"
      [] OTHER       -> "exit"
Verdict(x) == IF timedOut[x] THEN "timed_out" ELSE "exit"

\* What both redactors have let go of after their flush.
FlushedOut(x) ==  \* mutant: flushes one of them
    [sent[x] EXCEPT !["stdout"] = read[x]["stdout"]]
Flushed(x) == read[x]

\* execExit: take the call, flush both redactors, report.
ExecExit(x) ==
    /\ fin[x] = "unlisted"
    /\ fin' = [fin EXCEPT ![x] = "off"]
    /\ IF entry[x]
         THEN /\ sent' = [sent EXCEPT ![x] = Flushed(x)]
              /\ done' = [done EXCEPT ![x] = Verdict(x)]
         ELSE UNCHANGED <<sent, done>>
    /\ entry' = [entry EXCEPT ![x] = FALSE]
    /\ UNCHANGED <<pc, timedOut, timerVars, procVars, read, pump, listed,
                   cancelVars, shutVars>>

-----------------------------------------------------------------------------
(* Host.Close at the end of the daemon.                                    *)

\* CancelAll copies the ids that are listed ...
ShutBegin ==
    /\ Stops
    /\ shut = "up"
    /\ shut' = "closing"
    /\ toCancel' = {x \in Execs : listed[x]}
    /\ UNCHANGED <<callVars, timerVars, procVars, outVars, runVars, cancelVars,
                   late>>

\* ... and cancels each ...
ShutCancel(x) ==
    /\ shut = "closing"
    /\ x \in toCancel
    /\ toCancel' = toCancel \ {x}
    /\ Cancel(x)
    /\ UNCHANGED <<callVars, timer, input, alive, pipes, killed, wrote, outVars,
                   runVars, cancelVars, shut, late>>

\* ... without waiting: the process exits with its goroutines.
ShutExit ==
    /\ shut = "closing"
    /\ toCancel = {}
    /\ shut' = "gone"
    /\ UNCHANGED <<callVars, timerVars, procVars, outVars, runVars, cancelVars,
                   toCancel, late>>

-----------------------------------------------------------------------------

Up == shut # "gone"

CallStep(x) ==
    \/ StartFail(x) \/ Spawn(x) \/ List(x) \/ Feed(x) \/ StartPumps(x)
    \/ Arm(x) \/ Answer(x)

KillStep(x) == GraceEnds(x) \/ TimerFire(x) \/ TimerCancel(x)

PumpStep(x, s) == PumpRead(x, s) \/ PumpPush(x, s) \/ PumpEnd(x, s)

FinStep(x) == Reap(x) \/ Unlist(x) \/ ExecExit(x)

ProcStep(x) ==
    \/ \E s \in Streams : Write(x, s)
    \/ \E p \in Procs : Redirect(x, p) \/ Die(x, p)
    \/ ReadInput(x) \/ Fork(x) \/ Detach(x)

ShutStep == (\E x \in Execs : ShutCancel(x)) \/ ShutExit

Next ==
    \/ /\ Up
       /\ \/ \E x \in Execs :
               \/ Refuse(x) \/ Register(x) \/ CallStep(x) \/ KillStep(x)
               \/ FinStep(x)
               \/ \E s \in Streams : PumpStep(x, s)
               \/ \E k \in Cancels : CancelLookup(k, x)
          \/ \E k \in Cancels : CancelCommand(k)
          \/ ShutBegin
          \/ ShutStep
    \/ \E x \in Execs : ProcStep(x)

(***************************************************************************)
(* Goroutines that can run do run, timers fire, and a process whose group  *)
(* got SIGKILL dies.  A command need not end, read or write on its own,    *)
(* and SIGTERM need not end it.                                            *)
(***************************************************************************)
Fairness ==
    /\ \A x \in Execs :
         /\ WF_vars(Up /\ CallStep(x))
         /\ WF_vars(Up /\ GraceEnds(x))
         /\ WF_vars(Up /\ TimerFire(x))
         /\ WF_vars(Up /\ TimerCancel(x))
         /\ WF_vars(Up /\ FinStep(x))
         /\ \A s \in Streams : WF_vars(Up /\ PumpStep(x, s))
         /\ \A p \in Group : WF_vars(killed[x] /\ Die(x, p))
    /\ \A k \in Cancels : WF_vars(Up /\ CancelCommand(k))
    /\ WF_vars(Up /\ ShutStep)

Spec == Init /\ [][Next]_vars
FairSpec == Spec /\ Fairness
-----------------------------------------------------------------------------

\* Every variable keeps its type (execCall, process and the goroutines).
TypeOK ==
    /\ pc \in [Execs -> {"idle", "refused", "registered", "spawned", "listed",
                         "fed", "started", "waiting", "answered"}]
    /\ entry \in [Execs -> BOOLEAN]
    /\ listed \in [Execs -> BOOLEAN]
    /\ done \in [Execs -> {Nil, "spawn_failed", "timed_out", "exit"}]
    /\ timedOut \in [Execs -> BOOLEAN]
    /\ timer \in [Execs -> {"off", "armed", "fired"}]
    /\ grace \in [Execs -> BOOLEAN]
    /\ input \in [Execs -> {"small", "big"}]
    /\ alive \in [Execs -> SUBSET Procs]
    /\ pipes \in [Execs -> SUBSET Procs]
    /\ termed \in [Execs -> BOOLEAN]
    /\ killed \in [Execs -> BOOLEAN]
    /\ wrote \in [Execs -> [Streams -> Nat]]
    /\ read \in [Execs -> [Streams -> Nat]]
    /\ sent \in [Execs -> [Streams -> Nat]]
    /\ pump \in [Execs -> [Streams -> {"off", "read", "push", "eof"}]]
    /\ fin \in [Execs -> {"off", "drain", "reaped", "unlisted"}]
    /\ cpc \in [Cancels -> {"idle", "found", "told_false", "told_true"}]
    /\ aim \in [Cancels -> Execs \cup {Nil}]
    /\ shut \in {"up", "closing", "gone"}
    /\ toCancel \in SUBSET Execs
    /\ late \in SUBSET Execs

(***************************************************************************)
(* Everything the command wrote left as partials before its result: the    *)
(* finisher waits for both pumps and flushes both redactors first.         *)
(***************************************************************************)
OutputBeforeResult ==
    \A x \in Execs : done[x] # Nil => sent[x] = wrote[x]

(***************************************************************************)
(* When no exec is in flight (Busy is false, and an update may replace the *)
(* program), every command has ended and is off the list, and none of the  *)
(* processes it left behind holds its pipes.                               *)
(***************************************************************************)
IdleMeansEnded ==
    \A x \in Execs :
        pc[x] \in {"idle", "refused", "answered"} =>
            /\ "leader" \notin alive[x]
            /\ pipes[x] = {}
            /\ ~listed[x]

(***************************************************************************)
(* What a stopping daemon leaves behind in the group of a command was at   *)
(* least asked to end, if it was listed when CancelAll looked.             *)
(***************************************************************************)
ListedAreAsked ==
    shut = "gone" =>
        \A x \in Execs \ late :
            listed[x] /\ alive[x] \cap Group # {} => termed[x]

(***************************************************************************)
(* Every command is over some time after its deadline, and its invoke is   *)
(* answered, even if it ignores SIGTERM and leaves a child behind - unless *)
(* a process that left its group holds its pipes for ever, or the write of *)
(* its stdin blocks for ever, before the deadline is armed, and nobody     *)
(* cancels it.                                                             *)
(***************************************************************************)
EveryExecAnswered ==
    \A x \in Execs :
        \/ pc[x] = "registered" ~> pc[x] = "answered" \/ ~Up
        \/ <>[]("heir" \in pipes[x])
        \/ <>[](pc[x] = "listed" /\ input[x] = "big" /\ ~killed[x])
=============================================================================
