----------------------------- MODULE ExecProofs -----------------------------
(***************************************************************************)
(* Theorems about Exec, for any number of commands and cancels, any pipe   *)
(* size and any amount of output.                                          *)
(***************************************************************************)
EXTENDS Exec, TLAPS

-----------------------------------------------------------------------------
(* Type correctness.                                                       *)

LEMMA TypeInit == Init => TypeOK
  BY ExecAssumption DEF Init, TypeOK

LEMMA TypeCall ==
    ASSUME TypeOK, NEW x \in Execs, Refuse(x) \/ Register(x) \/ CallStep(x)
    PROVE  TypeOK'
  <1> USE ExecAssumption DEF TypeOK, callVars, timerVars, procVars, outVars,
          runVars, cancelVars, shutVars, Goto
  <1>1. CASE Refuse(x)      BY <1>1 DEF Refuse
  <1>2. CASE Register(x)    BY <1>2 DEF Register
  <1>3. CASE StartFail(x)   BY <1>3 DEF StartFail
  <1>4. CASE Spawn(x)       BY <1>4 DEF Spawn, Procs, Group
  <1>5. CASE List(x)        BY <1>5 DEF List
  <1>6. CASE Feed(x)        BY <1>6 DEF Feed
  <1>7. CASE StartPumps(x)  BY <1>7 DEF StartPumps
  <1>8. CASE Arm(x)         BY <1>8 DEF Arm
  <1>9. CASE Answer(x)      BY <1>9 DEF Answer
  <1> QED
    BY <1>1, <1>2, <1>3, <1>4, <1>5, <1>6, <1>7, <1>8, <1>9 DEF CallStep

LEMMA TypeKill ==
    ASSUME TypeOK, NEW x \in Execs, KillStep(x) \/ ShutCancel(x)
    PROVE  TypeOK'
  <1> USE DEF TypeOK, callVars, timerVars, procVars, outVars, runVars,
          cancelVars, shutVars, Cancel
  <1>1. CASE GraceEnds(x)    BY <1>1 DEF GraceEnds
  <1>2. CASE TimerFire(x)    BY <1>2 DEF TimerFire
  <1>3. CASE TimerCancel(x)  BY <1>3 DEF TimerCancel
  <1>4. CASE ShutCancel(x)   BY <1>4 DEF ShutCancel
  <1> QED  BY <1>1, <1>2, <1>3, <1>4 DEF KillStep

LEMMA TypeCancel ==
    ASSUME TypeOK, NEW k \in Cancels,
           (\E x \in Execs : CancelLookup(k, x)) \/ CancelCommand(k)
    PROVE  TypeOK'
  <1> USE DEF TypeOK, callVars, timerVars, procVars, outVars, runVars,
          cancelVars, shutVars, Cancel
  <1>1. ASSUME NEW x \in Execs, CancelLookup(k, x)  PROVE TypeOK'
    BY <1>1 DEF CancelLookup
  <1>2. CASE CancelCommand(k)
    BY <1>2 DEF CancelCommand
  <1> QED  BY <1>1, <1>2

LEMMA TypeProc == ASSUME TypeOK, NEW x \in Execs, ProcStep(x)  PROVE TypeOK'
  <1> USE DEF TypeOK, callVars, timerVars, procVars, outVars, runVars,
          cancelVars, shutVars
  <1>1. ASSUME NEW s \in Streams, Write(x, s)  PROVE TypeOK'
    BY <1>1 DEF Write
  <1>2. CASE ReadInput(x)  BY <1>2 DEF ReadInput
  <1>3. CASE Fork(x)       BY <1>3 DEF Fork, Procs, Group
  <1>4. CASE Detach(x)     BY <1>4 DEF Detach, Procs
  <1>5. ASSUME NEW p \in Procs, Redirect(x, p)  PROVE TypeOK'
    BY <1>5 DEF Redirect
  <1>6. ASSUME NEW p \in Procs, Die(x, p)  PROVE TypeOK'
    BY <1>6 DEF Die
  <1> QED  BY <1>1, <1>2, <1>3, <1>4, <1>5, <1>6 DEF ProcStep

LEMMA TypeOut ==
    ASSUME TypeOK, NEW x \in Execs,
           (\E s \in Streams : PumpStep(x, s)) \/ FinStep(x)
    PROVE  TypeOK'
  <1> USE ExecAssumption DEF TypeOK, callVars, timerVars, procVars, outVars,
          runVars, cancelVars, shutVars
  <1>1. ASSUME NEW s \in Streams, PumpRead(x, s)  PROVE TypeOK'
    BY <1>1 DEF PumpRead
  <1>2. ASSUME NEW s \in Streams, PumpPush(x, s)  PROVE TypeOK'
    <2>1. CASE entry[x]
      <3>1. PICK n \in sent[x][s] .. read[x][s] :
              sent' = [sent EXCEPT ![x][s] = n]
        BY <1>2, <2>1 DEF PumpPush
      <3>2. n \in Nat
        OBVIOUS
      <3> QED  BY <1>2, <3>1, <3>2 DEF PumpPush
    <2>2. CASE ~entry[x]
      BY <1>2, <2>2 DEF PumpPush
    <2> QED  BY <2>1, <2>2
  <1>3. ASSUME NEW s \in Streams, PumpEnd(x, s)  PROVE TypeOK'
    BY <1>3 DEF PumpEnd
  <1>4. CASE Reap(x)         BY <1>4 DEF Reap
  <1>5. CASE Unlist(x)       BY <1>5 DEF Unlist
  <1>6. CASE ExecExit(x)
    <2>1. Verdict(x) \in {"timed_out", "exit"}
      BY DEF Verdict
    <2>2. /\ sent' \in [Execs -> [Streams -> Nat]]
          /\ done' \in [Execs -> {Nil, "spawn_failed", "timed_out", "exit"}]
      <3>1. CASE entry[x]
        <4>1. /\ sent' = [sent EXCEPT ![x] = read[x]]
              /\ done' = [done EXCEPT ![x] = Verdict(x)]
          BY <1>6, <3>1 DEF ExecExit, Flushed
        <4> QED  BY <2>1, <4>1
      <3>2. CASE ~entry[x]  BY <1>6, <3>2 DEF ExecExit
      <3> QED  BY <3>1, <3>2
    <2> QED  BY <1>6, <2>2 DEF ExecExit
  <1> QED  BY <1>1, <1>2, <1>3, <1>4, <1>5, <1>6 DEF PumpStep, FinStep

LEMMA TypeShut == ASSUME TypeOK, ShutBegin \/ ShutExit  PROVE TypeOK'
  BY DEF TypeOK, callVars, timerVars, procVars, outVars, runVars, cancelVars,
     shutVars, ShutBegin, ShutExit
LEMMA TypeNext == TypeOK /\ [Next]_vars => TypeOK'
  <1> SUFFICES ASSUME TypeOK, [Next]_vars  PROVE TypeOK'
    OBVIOUS
  <1>1. CASE UNCHANGED vars
    BY <1>1 DEF TypeOK, vars, callVars, timerVars, procVars, outVars, runVars,
       cancelVars, shutVars
  <1>2. CASE Next
    BY <1>2, TypeCall, TypeKill, TypeCancel, TypeProc, TypeOut, TypeShut
       DEF Next, ShutStep
  <1> QED  BY <1>1, <1>2

(***************************************************************************)
(* Every variable of the runner and of its calls keeps its type.           *)
(***************************************************************************)
THEOREM ExecTypeCorrect == Spec => []TypeOK
  <1>1. Init => TypeOK  BY TypeInit
  <1>2. TypeOK /\ [Next]_vars => TypeOK'  BY TypeNext
  <1> QED  BY <1>1, <1>2, PTL DEF Spec

-----------------------------------------------------------------------------
(***************************************************************************)
(* The life of a command.  OutputBeforeResult and IdleMeansEnded speak of  *)
(* the moment a result exists; that they hold then rests on what holds all *)
(* the way there: nothing runs before Spawn, a pump that has met the end   *)
(* has read everything and nobody can write any more, the finisher goes on *)
(* only behind both pumps and the leader, and without the leader nobody    *)
(* who lives gets hold of the pipes again.                                 *)
(***************************************************************************)

\* No process, no goroutine of its own, no output.
Untouched(x) ==
    /\ alive[x] = {}
    /\ sent[x] = wrote[x]

\* The finisher and both pumps are not started.
Unstarted(x) ==
    /\ fin[x] = "off"
    /\ done[x] = Nil
    /\ \A s \in Streams : pump[x][s] = "off"

\* The pump of stream s read all there will ever be.
AtEnd(x, s) ==
    /\ pipes[x] = {}
    /\ read[x][s] = wrote[x][s]

\* The result exists and everything is over.
Over(x) ==
    /\ "leader" \notin alive[x]
    /\ pipes[x] = {}
    /\ ~listed[x]
    /\ fin[x] = "off"
    /\ \A s \in Streams : pump[x][s] \in {"off", "eof"}
    /\ sent[x] = wrote[x]
    /\ pc[x] \in {"started", "waiting", "answered"}

LifeOf(x) ==
    /\ pipes[x] \subseteq alive[x]
    /\ pc[x] \in {"idle", "refused", "registered"} =>
         Untouched(x) /\ Unstarted(x) /\ ~listed[x]
    /\ pc[x] \in {"spawned", "listed", "fed"} => Unstarted(x)
    /\ \A s \in Streams : pump[x][s] = "eof" => AtEnd(x, s)
    /\ fin[x] \in {"reaped", "unlisted"} =>
         /\ "leader" \notin alive[x]
         /\ \A s \in Streams : pump[x][s] = "eof"
    /\ fin[x] = "unlisted" => ~listed[x]
    /\ done[x] # Nil => Over(x)
    /\ pc[x] = "answered" => done[x] # Nil

LifeInv == \A x \in Execs : LifeOf(x)

lifeVars == <<pc, done, alive, pipes, wrote, read, sent, pump, fin, listed>>

LEMMA LifeInit == Init => LifeInv
  BY DEF Init, LifeInv, LifeOf, Untouched, Unstarted

\* A step that leaves what belongs to command x alone.
LEMMA LifeSame ==
    ASSUME NEW x \in Execs, LifeOf(x),
           /\ pc'[x] = pc[x] /\ done'[x] = done[x] /\ alive'[x] = alive[x]
           /\ pipes'[x] = pipes[x] /\ wrote'[x] = wrote[x]
           /\ read'[x] = read[x] /\ sent'[x] = sent[x]
           /\ pump'[x] = pump[x] /\ fin'[x] = fin[x]
           /\ listed'[x] = listed[x]
    PROVE  LifeOf(x)'
  BY DEF LifeOf, Untouched, Unstarted, AtEnd, Over

LEMMA LifeStutter == ASSUME LifeInv, UNCHANGED lifeVars  PROVE LifeInv'
  BY LifeSame DEF LifeInv, lifeVars

LEMMA LifeCall ==
    ASSUME TypeOK, LifeInv, NEW x \in Execs,
           Refuse(x) \/ Register(x) \/ CallStep(x)
    PROVE  LifeInv'
  <1> USE ExecAssumption DEF TypeOK, callVars, timerVars, procVars, outVars,
          runVars, cancelVars, shutVars, Goto
  <1>1. ASSUME NEW y \in Execs, y # x  PROVE LifeOf(y)'
    <2>1. LifeOf(y)  BY DEF LifeInv
    <2>2. /\ pc'[y] = pc[y] /\ done'[y] = done[y] /\ alive'[y] = alive[y]
          /\ pipes'[y] = pipes[y] /\ wrote'[y] = wrote[y]
          /\ read'[y] = read[y] /\ sent'[y] = sent[y]
          /\ pump'[y] = pump[y] /\ fin'[y] = fin[y]
          /\ listed'[y] = listed[y]
      BY <1>1 DEF CallStep, Refuse, Register, StartFail, Spawn, List, Feed,
         StartPumps, Arm, Answer
    <2> QED  BY <2>1, <2>2, LifeSame
  <1>2. LifeOf(x)'
    <2> USE DEF LifeOf, Untouched, Unstarted, AtEnd, Over
    <2>0. LifeOf(x)  BY DEF LifeInv
    <2>1. CASE Refuse(x)      BY <2>0, <2>1 DEF Refuse
    <2>2. CASE Register(x)    BY <2>0, <2>2 DEF Register
    <2>3. CASE StartFail(x)   BY <2>0, <2>3 DEF StartFail
    <2>4. CASE Spawn(x)       BY <2>0, <2>4 DEF Spawn
    <2>5. CASE List(x)        BY <2>0, <2>5 DEF List
    <2>6. CASE Feed(x)        BY <2>0, <2>6 DEF Feed
    <2>7. CASE StartPumps(x)  BY <2>0, <2>7 DEF StartPumps
    <2>8. CASE Arm(x)         BY <2>0, <2>8 DEF Arm
    <2>9. CASE Answer(x)      BY <2>0, <2>9 DEF Answer, Done
    <2> QED
      BY <2>1, <2>2, <2>3, <2>4, <2>5, <2>6, <2>7, <2>8, <2>9 DEF CallStep
  <1> QED  BY <1>1, <1>2 DEF LifeInv

LEMMA LifeProc ==
    ASSUME TypeOK, LifeInv, NEW x \in Execs, ProcStep(x)
    PROVE  LifeInv'
  <1> USE DEF TypeOK, callVars, timerVars, procVars, outVars, runVars,
          cancelVars, shutVars
  <1>1. ASSUME NEW y \in Execs, y # x  PROVE LifeOf(y)'
    <2>1. LifeOf(y)  BY DEF LifeInv
    <2>2. /\ alive'[y] = alive[y] /\ pipes'[y] = pipes[y]
          /\ wrote'[y] = wrote[y]
          /\ UNCHANGED <<pc, done, read, sent, pump, fin, listed>>
      BY <1>1 DEF ProcStep, Write, ReadInput, Fork, Detach, Redirect, Die
    <2> QED  BY <2>1, <2>2, LifeSame
  <1>2. LifeOf(x)'
    <2> USE DEF LifeOf, Untouched, Unstarted, AtEnd, Over
    <2>0. LifeOf(x)  BY DEF LifeInv
    <2>1. ASSUME NEW s \in Streams, Write(x, s)  PROVE LifeOf(x)'
      BY <2>0, <2>1 DEF Write
    <2>2. CASE ReadInput(x)  BY <2>0, <2>2 DEF ReadInput
    <2>3. CASE Fork(x)       BY <2>0, <2>3 DEF Fork
    <2>4. CASE Detach(x)     BY <2>0, <2>4 DEF Detach
    <2>5. ASSUME NEW p \in Procs, Redirect(x, p)  PROVE LifeOf(x)'
      BY <2>0, <2>5 DEF Redirect
    <2>6. ASSUME NEW p \in Procs, Die(x, p)  PROVE LifeOf(x)'
      BY <2>0, <2>6 DEF Die
    <2> QED  BY <2>1, <2>2, <2>3, <2>4, <2>5, <2>6 DEF ProcStep
  <1> QED  BY <1>1, <1>2 DEF LifeInv
LEMMA LifeOut ==
    ASSUME TypeOK, LifeInv, NEW x \in Execs,
           (\E s \in Streams : PumpStep(x, s)) \/ FinStep(x)
    PROVE  LifeInv'
  <1> USE DEF TypeOK, callVars, timerVars, procVars, outVars, runVars,
          cancelVars, shutVars
  <1>1. ASSUME NEW y \in Execs, y # x  PROVE LifeOf(y)'
    <2>1. LifeOf(y)  BY DEF LifeInv
    <2>2. /\ done'[y] = done[y] /\ read'[y] = read[y] /\ sent'[y] = sent[y]
          /\ pump'[y] = pump[y] /\ fin'[y] = fin[y] /\ listed'[y] = listed[y]
          /\ UNCHANGED <<pc, alive, pipes, wrote>>
      BY <1>1 DEF PumpStep, FinStep, PumpRead, PumpPush, PumpEnd, Reap, Unlist,
         ExecExit
    <2> QED  BY <2>1, <2>2, LifeSame
  <1>2. LifeOf(x)'
    <2> USE DEF LifeOf, Untouched, Unstarted, AtEnd, Over
    <2>0. LifeOf(x)  BY DEF LifeInv
    <2>1. ASSUME NEW s \in Streams, PumpRead(x, s)  PROVE LifeOf(x)'
      BY <2>0, <2>1 DEF PumpRead
    <2>2. ASSUME NEW s \in Streams, PumpPush(x, s)  PROVE LifeOf(x)'
      <3>1. /\ pump[x][s] = "push" /\ pump' = [pump EXCEPT ![x][s] = "read"]
            /\ UNCHANGED <<pc, done, alive, pipes, wrote, read, fin, listed>>
        BY <2>2 DEF PumpPush
      <3>2. pc[x] \in {"started", "waiting", "answered"} /\ done[x] = Nil
        BY <2>0, <3>1
      <3> QED  BY <2>0, <3>1, <3>2
    <2>3. ASSUME NEW s \in Streams, PumpEnd(x, s)  PROVE LifeOf(x)'
      BY <2>0, <2>3 DEF PumpEnd
    <2>4. CASE Reap(x)    BY <2>0, <2>4 DEF Reap
    <2>5. CASE Unlist(x)  BY <2>0, <2>5 DEF Unlist
    <2>6. CASE ExecExit(x)
      <3>1. read[x] = wrote[x]
        BY <2>0, <2>6 DEF ExecExit
      <3>2. pc[x] \in {"started", "waiting", "answered"} /\ done[x] = Nil
        BY <2>0, <2>6 DEF ExecExit
      <3>3. (sent'[x] = sent[x] /\ done'[x] = Nil) \/ sent'[x] = read[x]
        BY <2>6, <3>2 DEF ExecExit, Flushed
      <3>4. /\ fin[x] = "unlisted" /\ fin' = [fin EXCEPT ![x] = "off"]
            /\ UNCHANGED <<pc, alive, pipes, wrote, read, pump, listed>>
        BY <2>6 DEF ExecExit
      <3>5. /\ "leader" \notin alive[x] /\ pipes[x] = {} /\ ~listed[x]
            /\ \A s \in Streams : pump[x][s] = "eof" /\ AtEnd(x, s)
            /\ pc[x] # "answered"
        BY <2>0, <3>2, <3>4 DEF Streams
      <3> QED  BY <3>1, <3>2, <3>3, <3>4, <3>5
    <2> QED
      BY <2>1, <2>2, <2>3, <2>4, <2>5, <2>6 DEF PumpStep, FinStep
  <1> QED  BY <1>1, <1>2 DEF LifeInv

\* What neither starts, ends nor reads a command.
LEMMA LifeOther ==
    ASSUME LifeInv,
           \/ \E x \in Execs : KillStep(x) \/ ShutCancel(x)
           \/ \E k \in Cancels : \/ CancelCommand(k)
                                \/ \E x \in Execs : CancelLookup(k, x)
           \/ ShutBegin
           \/ ShutExit
    PROVE  LifeInv'
  <1>1. UNCHANGED lifeVars
    BY DEF KillStep, GraceEnds, TimerFire, TimerCancel, ShutCancel,
       CancelCommand, CancelLookup, ShutBegin, ShutExit, lifeVars, callVars,
       procVars, outVars, runVars
  <1> QED  BY <1>1, LifeStutter

LEMMA LifeNext == TypeOK /\ LifeInv /\ [Next]_vars => LifeInv'
  <1> SUFFICES ASSUME TypeOK, LifeInv, [Next]_vars  PROVE LifeInv'
    OBVIOUS
  <1>1. CASE UNCHANGED vars
    <2>1. UNCHANGED lifeVars
      BY <1>1 DEF vars, lifeVars, callVars, procVars, outVars, runVars
    <2> QED  BY <2>1, LifeStutter
  <1>2. CASE Next
    BY <1>2, LifeCall, LifeProc, LifeOut, LifeOther DEF Next, ShutStep
  <1> QED  BY <1>1, <1>2

LEMMA LifeAlways == Spec => []LifeInv
  <1>1. Init => LifeInv  BY LifeInit
  <1>2. TypeOK /\ LifeInv /\ [Next]_vars => LifeInv'  BY LifeNext
  <1> QED  BY <1>1, <1>2, ExecTypeCorrect, PTL DEF Spec

(***************************************************************************)
(* Everything a command wrote left as partials before its result (pumps,   *)
(* finisher, execExit), for any number of commands and any output.         *)
(***************************************************************************)
THEOREM OutputComesFirst == Spec => []OutputBeforeResult
  <1>1. LifeInv => OutputBeforeResult
    BY DEF LifeInv, LifeOf, Over, OutputBeforeResult
  <1> QED  BY <1>1, LifeAlways, PTL

(***************************************************************************)
(* A command that runs belongs to an exec that is in flight: when Busy is  *)
(* false, every command has ended and left the list, and what it left      *)
(* behind holds none of its pipes (the finisher of Runner.Start).          *)
(***************************************************************************)
THEOREM IdleIsIdle == Spec => []IdleMeansEnded
  <1>1. LifeInv => IdleMeansEnded
    BY DEF LifeInv, LifeOf, Over, Untouched, IdleMeansEnded
  <1> QED  BY <1>1, LifeAlways, PTL

-----------------------------------------------------------------------------
(***************************************************************************)
(* Shutdown.  From the moment CancelAll copied the ids, a command that was *)
(* listed then is asked to end or still on the copy.                       *)
(***************************************************************************)
AskedInv ==
    /\ shut # "up" =>
         \A x \in Execs \ late : listed[x] => termed[x] \/ x \in toCancel
    /\ shut = "gone" => toCancel = {}

LEMMA AskedNext == TypeOK /\ AskedInv /\ [Next]_vars => AskedInv'
  <1> SUFFICES ASSUME TypeOK, AskedInv, [Next]_vars  PROVE AskedInv'
    OBVIOUS
  <1> USE DEF TypeOK, AskedInv, callVars, timerVars, procVars, outVars, runVars,
          cancelVars, shutVars
  <1>1. ASSUME NEW x \in Execs, List(x)  PROVE AskedInv'
    BY <1>1 DEF List
  <1>2. ASSUME NEW x \in Execs, Unlist(x)  PROVE AskedInv'
    BY <1>2 DEF Unlist
  <1>3. ASSUME NEW x \in Execs, TimerCancel(x)  PROVE AskedInv'
    BY <1>3 DEF TimerCancel, Cancel
  <1>4. ASSUME NEW k \in Cancels, CancelCommand(k)  PROVE AskedInv'
    BY <1>4 DEF CancelCommand, Cancel
  <1>5. CASE ShutBegin
    BY <1>5 DEF ShutBegin
  <1>6. ASSUME NEW x \in Execs, ShutCancel(x)  PROVE AskedInv'
    BY <1>6 DEF ShutCancel, Cancel
  <1>7. CASE ShutExit
    BY <1>7 DEF ShutExit
  <1>8. CASE UNCHANGED <<listed, termed, shut, toCancel, late>>
    BY <1>8
  <1>9. ASSUME NEW x \in Execs,
               \/ Refuse(x) \/ Register(x) \/ (CallStep(x) /\ ~List(x))
               \/ GraceEnds(x) \/ TimerFire(x) \/ Reap(x) \/ ExecExit(x)
               \/ ProcStep(x)
               \/ \E s \in Streams : PumpStep(x, s)
               \/ \E k \in Cancels : CancelLookup(k, x)
        PROVE  UNCHANGED <<listed, termed, shut, toCancel, late>>
    BY <1>9 DEF Refuse, Register, CallStep, StartFail, Spawn, Feed, StartPumps,
       Arm, Answer, GraceEnds, TimerFire, Reap, ExecExit, ProcStep, Write,
       ReadInput, Fork, Detach, Redirect, Die, PumpStep, PumpRead, PumpPush,
       PumpEnd, CancelLookup
  <1>10. UNCHANGED vars => UNCHANGED <<listed, termed, shut, toCancel, late>>
    BY DEF vars
  <1> QED
    BY <1>1, <1>2, <1>3, <1>4, <1>5, <1>6, <1>7, <1>8, <1>9, <1>10
       DEF Next, KillStep, FinStep, ShutStep

(***************************************************************************)
(* What a stopping daemon leaves behind was asked to end, if it was listed *)
(* when CancelAll looked, for any number of commands and cancels.          *)
(***************************************************************************)
THEOREM ListedGetAsked == Spec => []ListedAreAsked
  <1>1. Init => AskedInv  BY DEF Init, AskedInv
  <1>2. TypeOK /\ AskedInv /\ [Next]_vars => AskedInv'  BY AskedNext
  <1>3. AskedInv => ListedAreAsked  BY DEF AskedInv, ListedAreAsked
  <1> QED  BY <1>1, <1>2, <1>3, ExecTypeCorrect, PTL DEF Spec
=============================================================================
