--------------------------- MODULE TerminalProofs ---------------------------
(***************************************************************************)
(* Machine-checked facts about Terminal, for any calls, ids, folders and   *)
(* limits.                                                                 *)
(***************************************************************************)
EXTENDS Terminal, FiniteSetTheorems, TLAPS

-----------------------------------------------------------------------------
(* Type correctness.                                                       *)

LEMMA TypeInit == Init => TypeOK
  <1> SUFFICES ASSUME Init  PROVE TypeOK
    OBVIOUS
  <1>1. scroll \in [Calls -> Seq(Nat)]
    BY DEF Init
  <1>2. heard \in [Calls -> SUBSET Events]
    BY DEF Init
  <1> QED
    BY <1>1, <1>2 DEF Init, TypeOK, CallLabels, OrNil

\* The shape of an event.
LEMMA EventType == ASSUME NEW k \in Kinds, NEW s \in Calls, NEW n \in Nat
                   PROVE  Event(k, s, n) \in Events
  BY DEF Event, Events

\* The trimmed scrollback is still a sequence of chunk numbers.
LEMMA TrimmedType == ASSUME NEW q \in Seq(Nat), NEW n \in Nat
                     PROVE  Trimmed(Append(q, n)) \in Seq(Nat)
  BY DEF Trimmed

LEMMA TypeArrive == ASSUME TypeOK, NEW c \in Calls, Arrive(c)
                    PROVE  TypeOK'
  <1> USE TerminalAssumption DEF TypeOK, vars, callVars, procVars, viewVars,
          outVars, sessVars, pumpVars, tickVars, reapVars, thrVars, shutVars,
          auxVars, CallLabels, OrNil, Goto
  <1>1. CASE Refuse(c)  BY <1>1 DEF Refuse
  <1>2. CASE Reserve(c)  BY <1>2 DEF Reserve
  <1>3. CASE TooMany(c)  BY <1>3 DEF TooMany
  <1>4. CASE Exists(c)  BY <1>4 DEF Exists
  <1>5. CASE FindExisting(c)  BY <1>5 DEF FindExisting, Known
  <1> QED  BY <1>1, <1>2, <1>3, <1>4, <1>5 DEF Arrive

LEMMA TypeCall == ASSUME TypeOK, NEW c \in Calls, CallStep(c)
                  PROVE  TypeOK'
  <1> USE TerminalAssumption DEF TypeOK, vars, callVars, procVars, viewVars,
          outVars, sessVars, pumpVars, tickVars, reapVars, thrVars, shutVars,
          auxVars, CallLabels, OrNil, Goto
  <1>1. CASE SpawnFail(c)  BY <1>1 DEF SpawnFail
  <1>2. CASE Spawn(c)  BY <1>2 DEF Spawn
  <1>3. CASE Store(c)  BY <1>3 DEF Store
  <1>4. CASE AttachGet(c)
    <2>1. CASE Known(req[c].id)
      <3>1. terminals[req[c].id] \in Calls
        BY <2>1 DEF Known
      <3>2. /\ pc' = [pc EXCEPT ![c] = "attaching"]
            /\ target' = [target EXCEPT ![c] = terminals[req[c].id]]
        BY <1>4, <2>1 DEF AttachGet
      <3>3. target' \in [Calls -> Calls]
        BY <3>1, <3>2
      <3>4. pc' \in [Calls -> CallLabels]
        BY <3>2
      <3> HIDE DEF CallLabels
      <3> QED  BY <1>4, <3>3, <3>4 DEF AttachGet
    <2>2. CASE ~Known(req[c].id)
      BY <1>4, <2>2 DEF AttachGet
    <2> QED  BY <2>1, <2>2
  <1>5. CASE AttachSwap(c)  BY <1>5 DEF AttachSwap
  <1>6. CASE CaptureOpened(c)  BY <1>6 DEF CaptureOpened, Receiver
  <1>7. CASE EmitOpened(c)
    <2>1. Event("opened", seen[c], 0) \in Events
      BY EventType DEF Kinds
    <2>2. heard' \in [Calls -> SUBSET Events]
      BY <1>7, <2>1 DEF EmitOpened
    <2>3. /\ pump' \in [Calls -> {"off", "read", "got", "pushed", "sending",
                                  "done"}]
          /\ tick' \in [Calls -> {"off", "run", "due", "sending", "done"}]
          /\ reap' \in [Calls -> {"off", "wait", "drain", "closed", "settled",
                                  "sending", "done"}]
      <3>1. CASE seen[c] = c  BY <1>7, <3>1 DEF EmitOpened
      <3>2. CASE seen[c] # c  BY <1>7, <3>2 DEF EmitOpened
      <3> QED  BY <3>1, <3>2
    <2>4. /\ pc' \in [Calls -> CallLabels]
          /\ openTo' \in [Calls -> OrNil(Calls)]
      BY <1>7 DEF EmitOpened
    <2>5. UNCHANGED <<req, seen, target, result, terminals, sessVars, pumpTo,
                      tickTo, ticks, reapTo, shutVars, auxVars>>
      BY <1>7 DEF EmitOpened
    <2> HIDE DEF CallLabels
    <2> QED  BY <2>2, <2>3, <2>4, <2>5
  <1>8. CASE Return(c)  BY <1>8 DEF Return
  <1> QED
    BY <1>1, <1>2, <1>3, <1>4, <1>5, <1>6, <1>7, <1>8 DEF CallStep

LEMMA TypePump == ASSUME TypeOK, NEW s \in Calls, PumpStep(s) \/ PumpEnd(s)
                  PROVE  TypeOK'
  <1> USE TerminalAssumption DEF TypeOK, vars, callVars, procVars, viewVars,
          outVars, sessVars, pumpVars, tickVars, reapVars, thrVars, shutVars,
          auxVars, OrNil
  <1>1. CASE PumpRead(s)  BY <1>1 DEF PumpRead
  <1>2. CASE PumpPush(s)
    <2>1. Trimmed(Append(scroll[s], pushed[s] + 1)) \in Seq(Nat)
      BY TrimmedType
    <2>2. scroll' \in [Calls -> Seq(Nat)]
      BY <1>2, <2>1 DEF PumpPush
    <2> QED  BY <1>2, <2>2 DEF PumpPush
  <1>3. CASE PumpCapture(s)  BY <1>3 DEF PumpCapture, Receiver
  <1>4. CASE PumpEmit(s)
    <2>1. Event("data", s, pushed[s]) \in Events
      BY EventType DEF Kinds
    <2>2. heard' \in [Calls -> SUBSET Events]
      BY <1>4, <2>1 DEF PumpEmit
    <2> QED  BY <1>4, <2>2 DEF PumpEmit
  <1>5. CASE PumpEnd(s)  BY <1>5 DEF PumpEnd
  <1> QED  BY <1>1, <1>2, <1>3, <1>4, <1>5 DEF PumpStep

LEMMA TypeTick == ASSUME TypeOK, NEW s \in Calls, TickStep(s)
                  PROVE  TypeOK'
  <1> USE TerminalAssumption DEF TypeOK, vars, callVars, procVars, viewVars,
          outVars, sessVars, pumpVars, tickVars, reapVars, thrVars, shutVars,
          auxVars, OrNil
  <1>1. CASE TickFire(s)  BY <1>1 DEF TickFire
  <1>2. CASE TickStop(s)  BY <1>2 DEF TickStop
  <1>3. CASE TickCapture(s)  BY <1>3 DEF TickCapture, Receiver
  <1>4. CASE TickEmit(s)
    <2>1. Event("alive", s, ticks[s]) \in Events
      BY EventType DEF Kinds
    <2>2. heard' \in [Calls -> SUBSET Events]
      BY <1>4, <2>1 DEF TickEmit
    <2> QED  BY <1>4, <2>2 DEF TickEmit
  <1> QED  BY <1>1, <1>2, <1>3, <1>4 DEF TickStep

LEMMA TypeReap == ASSUME TypeOK, NEW s \in Calls, ReapStep(s)
                  PROVE  TypeOK'
  <1> USE TerminalAssumption DEF TypeOK, vars, callVars, procVars, viewVars,
          outVars, sessVars, pumpVars, tickVars, reapVars, thrVars, shutVars,
          auxVars, OrNil
  <1>1. CASE ReapWait(s)  BY <1>1 DEF ReapWait
  <1>2. CASE ReapClose(s)  BY <1>2 DEF ReapClose
  <1>3. CASE ReapSettle(s)  BY <1>3 DEF ReapSettle
  <1>4. CASE ReapCapture(s)  BY <1>4 DEF ReapCapture, Receiver
  <1>5. CASE ReapEmit(s)
    <2>1. Event("exit", s, 0) \in Events
      BY EventType DEF Kinds
    <2>2. heard' \in [Calls -> SUBSET Events]
      BY <1>5, <2>1 DEF ReapEmit
    <2> DEFINE old == terminals[req[s].id]
    <2>3. CASE old # Nil /\ Placeholder(old)
      BY <1>5, <2>2, <2>3 DEF ReapEmit
    <2>4. CASE ~(old # Nil /\ Placeholder(old))
      <3>1. /\ scroll' = [c \in Calls |-> IF c = old THEN <<>> ELSE scroll[c]]
            /\ stopped' = [c \in Calls |-> stopped[c] \/ c = old]
            /\ result' = [result EXCEPT ![reapTo[s]] = TRUE]
            /\ shut' = shut
        BY <1>5, <2>4 DEF ReapEmit
      <3>2. <<>> \in Seq(Nat)
        OBVIOUS
      <3>3. scroll' \in [Calls -> Seq(Nat)]
        BY <3>1, <3>2
      <3>4. stopped' \in [Calls -> BOOLEAN] /\ result' \in [Calls -> BOOLEAN]
        BY <3>1
      <3>5. /\ reap' \in [Calls -> {"off", "wait", "drain", "closed",
                                    "settled", "sending", "done"}]
            /\ reapTo' \in [Calls -> OrNil(Calls)]
            /\ terminals' \in [Ids -> OrNil(Calls)]
        BY <1>5 DEF ReapEmit
      <3>6. UNCHANGED <<req, pc, seen, target, openTo, procVars, live, emit,
                        byClient, grace, pushed, pumpVars, tickVars, toClose,
                        rest, auxVars>>
        BY <1>5 DEF ReapEmit
      <3> QED  BY <2>2, <3>1, <3>3, <3>4, <3>5, <3>6
    <2> QED  BY <2>3, <2>4
  <1> QED  BY <1>1, <1>2, <1>3, <1>4, <1>5 DEF ReapStep

LEMMA TypeClose == ASSUME TypeOK, NEW id \in Ids, UserClose(id) \/ UserKill(id)
                   PROVE  TypeOK'
  <1> USE TerminalAssumption DEF TypeOK, vars, callVars, procVars, viewVars,
          outVars, sessVars, pumpVars, tickVars, reapVars, thrVars, shutVars,
          auxVars, OrNil
  <1>0. terminals[id] \in Calls
    BY DEF UserClose, UserKill, Known
  <1>1. CASE UserClose(id)
    BY <1>0, <1>1 DEF UserClose, CloseSession
  <1>2. CASE UserKill(id)
    BY <1>0, <1>2 DEF UserKill, Kill
  <1> QED  BY <1>1, <1>2

LEMMA TypeShut == ASSUME TypeOK, ShutBegin \/ ShutStep
                  PROVE  TypeOK'
  <1> USE TerminalAssumption DEF TypeOK, vars, callVars, procVars, viewVars,
          outVars, sessVars, pumpVars, tickVars, reapVars, thrVars, shutVars,
          auxVars, OrNil
  <1>1. CASE ShutBegin  BY <1>1 DEF ShutBegin
  <1>2. ASSUME NEW id \in Ids, ShutClose(id)  PROVE TypeOK'
    BY <1>2 DEF ShutClose, CloseSession
  <1>3. CASE ShutSweep  BY <1>3 DEF ShutSweep
  <1>4. ASSUME NEW s \in Calls, ShutKill(s)  PROVE TypeOK'
    BY <1>4 DEF ShutKill, Kill
  <1>5. CASE ShutExit  BY <1>5 DEF ShutExit
  <1> QED  BY <1>1, <1>2, <1>3, <1>4, <1>5 DEF ShutStep

LEMMA TypeShell == ASSUME TypeOK, NEW s \in Calls, GraceKill(s) \/ ShellExit(s)
                   PROVE  TypeOK'
  <1> USE TerminalAssumption DEF TypeOK, vars, callVars, procVars, viewVars,
          outVars, sessVars, pumpVars, tickVars, reapVars, thrVars, shutVars,
          auxVars, OrNil
  <1>1. CASE GraceKill(s)  BY <1>1 DEF GraceKill, Kill
  <1>2. CASE ShellExit(s)  BY <1>2 DEF ShellExit
  <1> QED  BY <1>1, <1>2

LEMMA TypeNext == TypeOK /\ [Next]_vars => TypeOK'
  <1> SUFFICES ASSUME TypeOK, [Next]_vars  PROVE TypeOK'
    OBVIOUS
  <1>1. CASE UNCHANGED vars
    BY <1>1 DEF TypeOK, vars, callVars, procVars, viewVars, outVars, sessVars,
       pumpVars, tickVars, reapVars, thrVars, shutVars, auxVars
  <1>2. CASE Next
    BY <1>2, TypeArrive, TypeCall, TypePump, TypeTick, TypeReap, TypeClose,
       TypeShut, TypeShell DEF Next
  <1> QED  BY <1>1, <1>2

(***************************************************************************)
(* Every variable of the registry keeps its type.                          *)
(***************************************************************************)
THEOREM TypeCorrect == Spec => []TypeOK
  <1>1. Init => TypeOK  BY TypeInit
  <1>2. TypeOK /\ [Next]_vars => TypeOK'  BY TypeNext
  <1> QED  BY <1>1, <1>2, PTL DEF Spec

-----------------------------------------------------------------------------
(***************************************************************************)
(* The registry invariant.  LiveIsReachable is not inductive: Forget, drop *)
(* and Store would each evict a session if the map could hold another one  *)
(* under its id.  So the invariant covers the whole time a call holds its  *)
(* id, from the placeholder to the exit event, and it says which calls are *)
(* creators, because only those start the goroutines that end a session.   *)
(***************************************************************************)
Creating(c) == \/ pc[c] \in {"reserved", "spawned", "stored"}
               \/ pc[c] = "telling" /\ seen[c] = c

Ending(c) == reap[c] \in {"wait", "drain", "closed", "settled", "sending"}

RegistryInv ==
    /\ \A c \in Calls :
         /\ pc[c] \in {"idle", "reserved", "spawned", "stored"} => seen[c] = c
         /\ pc[c] \in {"found", "attaching", "swapped"} => seen[c] # c
         /\ reap[c] # "off" => pc[c] \in {"waiting", "returned"}
         /\ live[c] => \/ Creating(c) /\ ~Placeholder(c)
                       \/ reap[c] \in {"wait", "drain", "closed"}
         /\ \A id \in Ids : terminals[id] = c => pc[c] # "idle"
    /\ Serving => \A c \in Calls :
                    Creating(c) \/ Ending(c) => terminals[req[c].id] = c

LEMMA RegistryInit == Init => RegistryInv
  BY TerminalAssumption DEF Init, RegistryInv, Creating, Ending, Placeholder

\* The variables RegistryInv reads.
regVars == <<req, pc, seen, terminals, live, reap, shut>>

LEMMA RegistryStutter == ASSUME RegistryInv, UNCHANGED regVars
                         PROVE  RegistryInv'
  BY DEF RegistryInv, regVars, Creating, Ending, Placeholder, Serving

LEMMA RegistryArrive == ASSUME TypeOK, RegistryInv, NEW c \in Calls, Arrive(c)
                        PROVE  RegistryInv'
  <1> USE TerminalAssumption DEF TypeOK, callVars, viewVars, sessVars, reapVars,
          thrVars, shutVars, Goto, RegistryInv, Creating, Ending, Placeholder,
          Serving
  <1>1. CASE Refuse(c)  BY <1>1 DEF Refuse
  <1>2. CASE Reserve(c)
    <2>1. /\ pc[c] = "idle" /\ pc' = [pc EXCEPT ![c] = "reserved"]
          /\ terminals[req[c].id] = Nil
          /\ terminals' = [terminals EXCEPT ![req[c].id] = c]
          /\ UNCHANGED <<req, seen, live, reap, shut>>
      BY <1>2 DEF Reserve, Free
    <2>2. Serving => \A d \in Calls : Creating(d) \/ Ending(d) =>
                       req[d].id # req[c].id
      BY <2>1
    <2>3. seen[c] = c
      BY <2>1
    <2> QED  BY <2>1, <2>2, <2>3
  <1>3. CASE TooMany(c)  BY <1>3 DEF TooMany
  <1>4. CASE Exists(c)  BY <1>4 DEF Exists
  <1>5. CASE FindExisting(c)  BY <1>5 DEF FindExisting, Known
  <1> QED  BY <1>1, <1>2, <1>3, <1>4, <1>5 DEF Arrive

LEMMA RegistryCall == ASSUME TypeOK, RegistryInv, NEW c \in Calls, CallStep(c)
                      PROVE  RegistryInv'
  <1> USE TerminalAssumption DEF TypeOK, callVars, viewVars, sessVars, reapVars,
          thrVars, shutVars, Goto, RegistryInv, Creating, Ending, Placeholder,
          Serving
  <1>1. CASE SpawnFail(c)  BY <1>1 DEF SpawnFail
  <1>2. CASE Spawn(c)  BY <1>2 DEF Spawn
  <1>3. CASE Store(c)
    <2>1. /\ pc[c] = "spawned" /\ pc' = [pc EXCEPT ![c] = "stored"]
          /\ terminals' = [terminals EXCEPT ![req[c].id] = c]
          /\ live' = [live EXCEPT ![c] = TRUE]
          /\ UNCHANGED <<req, seen, reap, shut>>
      BY <1>3 DEF Store
    <2>2. Serving => \A d \in Calls \ {c} :
                       Creating(d) \/ Ending(d) => req[d].id # req[c].id
      BY <2>1
    <2>3. /\ Serving' => \A d \in Calls :
                Creating(d)' \/ Ending(d)' => terminals'[req[d].id] = d
      BY <2>1, <2>2
    <2> QED  BY <2>1, <2>3
  <1>4. CASE AttachGet(c)
    <2>1. pc[c] = "found" /\ UNCHANGED <<req, seen, terminals, live, reap, shut>>
      BY <1>4 DEF AttachGet
    <2>2. \/ pc' = [pc EXCEPT ![c] = "attaching"]
          \/ pc' = [pc EXCEPT ![c] = "failed"]
      BY <1>4 DEF AttachGet
    <2>3. ~Creating(c) /\ ~Ending(c) /\ ~live[c] /\ reap[c] = "off"
      BY <2>1
    <2>4. ~Creating(c)' /\ pc'[c] # "idle"
      BY <2>1, <2>2
    <2>5. \A d \in Calls \ {c} : pc'[d] = pc[d]
      BY <2>2
    <2> QED  BY <2>1, <2>2, <2>3, <2>4, <2>5
  <1>5. CASE AttachSwap(c)  BY <1>5 DEF AttachSwap
  <1>6. CASE CaptureOpened(c)  BY <1>6 DEF CaptureOpened
  <1>7. CASE EmitOpened(c)
    <2>1. /\ pc[c] = "telling" /\ pc' = [pc EXCEPT ![c] = "waiting"]
          /\ UNCHANGED <<req, seen, terminals, live, shut>>
      BY <1>7 DEF EmitOpened
    <2>2. CASE seen[c] = c
      <3>1. reap' = [reap EXCEPT ![c] = "wait"]
        BY <1>7, <2>2 DEF EmitOpened
      <3> QED  BY <2>1, <2>2, <3>1
    <2>3. CASE seen[c] # c
      <3>1. reap' = reap
        BY <1>7, <2>3 DEF EmitOpened
      <3> QED  BY <2>1, <2>3, <3>1
    <2> QED  BY <2>2, <2>3
  <1>8. CASE Return(c)  BY <1>8 DEF Return
  <1> QED
    BY <1>1, <1>2, <1>3, <1>4, <1>5, <1>6, <1>7, <1>8 DEF CallStep

LEMMA RegistryReap == ASSUME TypeOK, RegistryInv, NEW s \in Calls, ReapStep(s)
                      PROVE  RegistryInv'
  <1> USE TerminalAssumption DEF TypeOK, callVars, viewVars, sessVars, reapVars,
          thrVars, shutVars, RegistryInv, Creating, Ending, Placeholder,
          Serving
  <1>1. CASE ReapWait(s)  BY <1>1 DEF ReapWait
  <1>2. CASE ReapClose(s)  BY <1>2 DEF ReapClose
  <1>3. CASE ReapSettle(s)  BY <1>3 DEF ReapSettle
  <1>4. CASE ReapCapture(s)  BY <1>4 DEF ReapCapture
  <1>5. CASE ReapEmit(s)
    <2>1. /\ reap[s] = "sending" /\ reap' = [reap EXCEPT ![s] = "done"]
          /\ terminals' = [terminals EXCEPT ![req[s].id] = Nil]
          /\ UNCHANGED <<req, pc, seen, live>>
          /\ shut' = shut \/ shut' = "crashed"
      BY <1>5 DEF ReapEmit
    <2>2. Serving => \A d \in Calls \ {s} :
                       Creating(d) \/ Ending(d) => req[d].id # req[s].id
      BY <2>1
    <2>3. pc[s] \in {"waiting", "returned"} /\ ~live[s]
      BY <2>1
    <2> QED  BY <2>1, <2>2, <2>3
  <1> QED  BY <1>1, <1>2, <1>3, <1>4, <1>5 DEF ReapStep

LEMMA RegistryShut == ASSUME TypeOK, RegistryInv, ShutBegin \/ ShutStep
                      PROVE  RegistryInv'
  <1> USE TerminalAssumption DEF TypeOK, callVars, viewVars, sessVars, reapVars,
          thrVars, shutVars, RegistryInv, Creating, Ending, Placeholder,
          Serving
  <1>1. CASE ShutBegin  BY <1>1 DEF ShutBegin
  <1>2. ASSUME NEW id \in Ids, ShutClose(id)  PROVE RegistryInv'
    BY <1>2 DEF ShutClose
  <1>3. CASE ShutSweep  BY <1>3 DEF ShutSweep
  <1>4. ASSUME NEW s \in Calls, ShutKill(s)  PROVE RegistryInv'
    BY <1>4 DEF ShutKill
  <1>5. CASE ShutExit  BY <1>5 DEF ShutExit
  <1> QED  BY <1>1, <1>2, <1>3, <1>4, <1>5 DEF ShutStep

\* What the other goroutines, the user and the shell do leaves it alone.
LEMMA RegistryOther ==
    ASSUME RegistryInv,
           \/ \E s \in Calls : \/ PumpStep(s) \/ PumpEnd(s) \/ TickStep(s)
                               \/ GraceKill(s) \/ ShellExit(s)
           \/ \E id \in Ids : UserClose(id) \/ UserKill(id)
    PROVE  RegistryInv'
  <1>1. UNCHANGED regVars
    BY DEF PumpStep, PumpRead, PumpPush, PumpCapture, PumpEmit, PumpEnd,
       TickStep, TickFire, TickStop, TickCapture, TickEmit, GraceKill,
       ShellExit, UserClose, UserKill, regVars, callVars, procVars, viewVars,
       outVars, sessVars, pumpVars, tickVars, reapVars, thrVars, shutVars
  <1> QED  BY <1>1, RegistryStutter

LEMMA RegistryNext == TypeOK /\ RegistryInv /\ [Next]_vars => RegistryInv'
  <1> SUFFICES ASSUME TypeOK, RegistryInv, [Next]_vars  PROVE RegistryInv'
    OBVIOUS
  <1>1. CASE UNCHANGED vars
    <2>1. UNCHANGED regVars
      BY <1>1 DEF regVars, vars, callVars, viewVars, sessVars, reapVars,
         thrVars, shutVars
    <2> QED  BY <2>1, RegistryStutter
  <1>2. CASE Next
    BY <1>2, RegistryArrive, RegistryCall, RegistryReap, RegistryShut,
       RegistryOther DEF Next
  <1> QED  BY <1>1, <1>2

LEMMA RegistryAlways == Spec => []RegistryInv
  <1>1. Init => RegistryInv  BY RegistryInit
  <1>2. TypeOK /\ RegistryInv /\ [Next]_vars => RegistryInv'  BY RegistryNext
  <1> QED  BY <1>1, <1>2, TypeCorrect, PTL DEF Spec

LEMMA LiveReachable == RegistryInv => LiveIsReachable
  BY DEF RegistryInv, LiveIsReachable, Ending

(***************************************************************************)
(* A live terminal can be reached by its id until CloseAll empties the map *)
(* (Open, drop, Attach, Forget and settle, in any interleaving).           *)
(***************************************************************************)
THEOREM LiveTerminalIsReachable == Spec => []LiveIsReachable
  BY RegistryAlways, LiveReachable, PTL

-----------------------------------------------------------------------------
(***************************************************************************)
(* The limit.  Open counts live sessions only, so a placeholder is a place *)
(* that is taken and not yet counted: the invariant counts both, and says  *)
(* that one placeholder at most exists as long as no two have overlapped.  *)
(***************************************************************************)
Holding == {c \in Calls : live[c] \/ Placeholder(c)}

LimitInv ==
    Serving /\ ~overlap =>
        /\ Cardinality(Holding) <= MaxTerminals
        /\ \A c, d \in Calls : Placeholder(c) /\ Placeholder(d) => c = d

\* A step that takes no place keeps the limit.
LEMMA LimitShrinks ==
    ASSUME LimitInv, Holding' \subseteq Holding, overlap' = overlap,
           Serving' => Serving,
           \A c \in Calls : Placeholder(c)' => Placeholder(c)
    PROVE  LimitInv'
  <1>1. IsFiniteSet(Holding)
    BY TerminalAssumption, FS_Subset DEF Holding
  <1>2. /\ Cardinality(Holding) \in Nat
        /\ Cardinality(Holding') \in Nat
        /\ Cardinality(Holding') <= Cardinality(Holding)
    BY <1>1, FS_Subset, FS_CardinalityType
  <1> QED  BY <1>2, TerminalAssumption DEF LimitInv

LEMMA LimitInit == Init => LimitInv
  <1> SUFFICES ASSUME Init  PROVE LimitInv
    OBVIOUS
  <1>1. Holding = {}
    BY DEF Init, Holding, Placeholder
  <1>2. Cardinality(Holding) = 0
    BY <1>1, FS_EmptySet
  <1> QED  BY <1>2, TerminalAssumption DEF LimitInv, Init, Placeholder

LEMMA LimitReserve ==
    ASSUME TypeOK, RegistryInv, LimitInv, NEW c \in Calls, Reserve(c)
    PROVE  LimitInv'
  <1> SUFFICES ASSUME Serving', ~overlap'
               PROVE  /\ Cardinality(Holding') <= MaxTerminals
                      /\ \A d, e \in Calls :
                            Placeholder(d)' /\ Placeholder(e)' => d = e
    BY DEF LimitInv
  <1>1. Serving /\ \A d \in Calls : ~Placeholder(d)
    BY DEF Reserve, shutVars, Serving
  <1>2. \A d \in Calls : Placeholder(d)' <=> d = c
    BY <1>1 DEF Reserve, Goto, TypeOK, Placeholder
  <1>3. Holding' = LiveSessions \cup {c}
    BY <1>2 DEF Reserve, Holding, LiveSessions, sessVars, viewVars
  <1>4. Counted = LiveSessions
    <2>1. \A d \in LiveSessions : terminals[req[d].id] = d
      BY <1>1, LiveReachable DEF LiveIsReachable, LiveSessions
    <2> QED  BY <2>1 DEF Counted, LiveSessions, TypeOK
  <1>5. IsFiniteSet(LiveSessions)
    BY TerminalAssumption, FS_Subset DEF LiveSessions
  <1>6. /\ Cardinality(LiveSessions) \in Nat
        /\ Cardinality(LiveSessions \cup {c}) <= Cardinality(LiveSessions) + 1
        /\ Cardinality(LiveSessions \cup {c}) \in Nat
    <2>1. Cardinality(LiveSessions) \in Nat
      BY <1>5, FS_CardinalityType, Zenon
    <2>2. Cardinality(LiveSessions \cup {c}) =
            IF c \in LiveSessions THEN Cardinality(LiveSessions)
                                  ELSE Cardinality(LiveSessions) + 1
      BY <1>5, FS_AddElement, Zenon
    <2> QED  BY <2>1, <2>2
  <1>7. Cardinality(LiveSessions) < MaxTerminals
    BY <1>4, <1>6, TerminalAssumption DEF Reserve, Full
  <1> QED  BY <1>2, <1>3, <1>6, <1>7, TerminalAssumption

LEMMA LimitCall ==
    ASSUME TypeOK, RegistryInv, LimitInv, NEW c \in Calls,
           Arrive(c) \/ CallStep(c)
    PROVE  LimitInv'
  <1> USE DEF TypeOK, Goto, Holding, Placeholder, Serving, shutVars, auxVars,
          sessVars, viewVars
  <1>1. CASE Reserve(c)  BY <1>1, LimitReserve
  <1>2. CASE \/ Refuse(c) \/ TooMany(c) \/ Exists(c) \/ FindExisting(c)
             \/ SpawnFail(c) \/ AttachGet(c) \/ AttachSwap(c)
             \/ CaptureOpened(c) \/ EmitOpened(c) \/ Return(c)
    <2>1. /\ UNCHANGED <<live, overlap, shut>>
          /\ \A d \in Calls : Placeholder(d)' => Placeholder(d)
      BY <1>2 DEF Refuse, TooMany, Exists, FindExisting, SpawnFail, AttachGet,
         AttachSwap, CaptureOpened, EmitOpened, Return
    <2> QED  BY <2>1, LimitShrinks
  <1>3. CASE Spawn(c)
    <2>1. /\ UNCHANGED <<live, overlap, shut>>
          /\ \A d \in Calls : Placeholder(d)' => Placeholder(d)
      BY <1>3 DEF Spawn
    <2> QED  BY <2>1, LimitShrinks
  <1>4. CASE Store(c)
    <2>1. /\ UNCHANGED <<overlap, shut>>
          /\ \A d \in Calls : Placeholder(d)' => Placeholder(d)
          /\ Holding' \subseteq Holding
      BY <1>4 DEF Store
    <2> QED  BY <2>1, LimitShrinks
  <1> QED  BY <1>1, <1>2, <1>3, <1>4 DEF Arrive, CallStep

LEMMA LimitOther ==
    ASSUME TypeOK, LimitInv,
           \/ \E s \in Calls : \/ PumpStep(s) \/ PumpEnd(s) \/ TickStep(s)
                               \/ ReapStep(s) \/ GraceKill(s) \/ ShellExit(s)
           \/ \E id \in Ids : UserClose(id) \/ UserKill(id)
           \/ ShutBegin
           \/ ShutStep
    PROVE  LimitInv'
  <1> USE DEF callVars, procVars, viewVars, outVars, sessVars, pumpVars,
          tickVars, reapVars, thrVars, shutVars, auxVars
  <1>1. UNCHANGED <<pc, overlap>>
    BY DEF PumpStep, PumpRead, PumpPush, PumpCapture, PumpEmit, PumpEnd,
       TickStep, TickFire, TickStop, TickCapture, TickEmit, ReapStep, ReapWait,
       ReapClose, ReapSettle, ReapCapture, ReapEmit, GraceKill, ShellExit,
       UserClose, UserKill, ShutBegin, ShutStep, ShutClose, ShutSweep,
       ShutKill, ShutExit
  <1>2. \A d \in Calls : live'[d] => live[d]
    <2>1. \/ live' = live
          \/ \E s \in Calls : live' = [live EXCEPT ![s] = FALSE]
      BY DEF PumpStep, PumpRead, PumpPush, PumpCapture, PumpEmit, PumpEnd,
         TickStep, TickFire, TickStop, TickCapture, TickEmit, ReapStep,
         ReapWait, ReapClose, ReapSettle, ReapCapture, ReapEmit, GraceKill,
         ShellExit, UserClose, UserKill, ShutBegin, ShutStep, ShutClose,
         ShutSweep, ShutKill, ShutExit
    <2> QED  BY <2>1 DEF TypeOK
  <1>3. Serving' => Serving
    BY DEF PumpStep, PumpRead, PumpPush, PumpCapture, PumpEmit, PumpEnd,
       TickStep, TickFire, TickStop, TickCapture, TickEmit, ReapStep, ReapWait,
       ReapClose, ReapSettle, ReapCapture, ReapEmit, GraceKill, ShellExit,
       UserClose, UserKill, ShutBegin, ShutStep, ShutClose, ShutSweep,
       ShutKill, ShutExit, Serving
  <1> QED  BY <1>1, <1>2, <1>3, LimitShrinks DEF Holding, Placeholder

LEMMA LimitNext == TypeOK /\ RegistryInv /\ LimitInv /\ [Next]_vars => LimitInv'
  <1> SUFFICES ASSUME TypeOK, RegistryInv, LimitInv, [Next]_vars
               PROVE  LimitInv'
    OBVIOUS
  <1>1. CASE UNCHANGED vars
    <2>1. UNCHANGED <<pc, live, overlap, shut>>
      BY <1>1 DEF vars, callVars, viewVars, sessVars, shutVars, auxVars
    <2> QED  BY <2>1, LimitShrinks DEF Holding, Placeholder, Serving
  <1>2. CASE Next
    BY <1>2, LimitCall, LimitOther DEF Next
  <1> QED  BY <1>1, <1>2

LEMMA LimitHolds == TypeOK /\ LimitInv => LimitUnlessOverlap
  <1> SUFFICES ASSUME LimitInv, Serving, ~overlap
               PROVE  Cardinality(LiveSessions) <= MaxTerminals
    BY DEF LimitUnlessOverlap
  <1>1. IsFiniteSet(Holding) /\ LiveSessions \subseteq Holding
    BY TerminalAssumption, FS_Subset DEF Holding, LiveSessions
  <1>2. /\ Cardinality(LiveSessions) \in Nat
        /\ Cardinality(Holding) \in Nat
        /\ Cardinality(LiveSessions) <= Cardinality(Holding)
    BY <1>1, FS_Subset, FS_CardinalityType
  <1> QED  BY <1>2, TerminalAssumption DEF LimitInv

(***************************************************************************)
(* No more terminals are live than MaxTerminals, unless two Opens were     *)
(* between their reservation and their Store at the same time.             *)
(***************************************************************************)
THEOREM LimitKeptWithoutOverlap == Spec => []LimitUnlessOverlap
  <1>1. Init => LimitInv  BY LimitInit
  <1>2. TypeOK /\ RegistryInv /\ LimitInv /\ [Next]_vars => LimitInv'
    BY LimitNext
  <1>3. TypeOK /\ LimitInv => LimitUnlessOverlap  BY LimitHolds
  <1> QED  BY <1>1, <1>2, <1>3, TypeCorrect, RegistryAlways, PTL DEF Spec

-----------------------------------------------------------------------------
(***************************************************************************)
(* Shutdown.  Once CloseAll emptied the map, every live session that was   *)
(* stored in time is killed, over, or on the list of those still to kill.  *)
(***************************************************************************)
ShutInv ==
    /\ shut \in {"swept", "gone"} =>
         \A c \in LiveSessions \ late :
             shell[c] = "running" => killed[c] \/ c \in rest
    /\ shut = "gone" => rest = {}

endVars == <<live, late, shell, killed, rest, shut>>

LEMMA ShutStutter == ASSUME ShutInv, UNCHANGED endVars  PROVE ShutInv'
  BY DEF ShutInv, endVars, LiveSessions

LEMMA ShutCall ==
    ASSUME TypeOK, RegistryInv, ShutInv, NEW c \in Calls,
           Arrive(c) \/ CallStep(c)
    PROVE  ShutInv'
  <1> USE DEF callVars, procVars, viewVars, outVars, sessVars, thrVars,
          shutVars, auxVars
  <1>1. CASE Spawn(c)
    <2>1. ~live[c] /\ shell' = [shell EXCEPT ![c] = "running"]
      BY <1>1 DEF Spawn, RegistryInv, Creating, Placeholder
    <2> QED  BY <1>1, <2>1 DEF Spawn, ShutInv, LiveSessions, TypeOK
  <1>2. CASE Store(c)
    <2>1. /\ live' = [live EXCEPT ![c] = TRUE]
          /\ shut \in {"swept", "gone"} => late' = late \cup {c}
          /\ UNCHANGED <<shell, killed, rest, shut>>
      BY <1>2 DEF Store, Serving
    <2> QED  BY <2>1 DEF ShutInv, LiveSessions, TypeOK
  <1>3. CASE Arrive(c) \/ (CallStep(c) /\ ~Spawn(c) /\ ~Store(c))
    <2>1. UNCHANGED endVars
      BY <1>3 DEF Arrive, CallStep, Refuse, Reserve, TooMany, Exists,
         FindExisting, SpawnFail, AttachGet, AttachSwap, CaptureOpened,
         EmitOpened, Return, endVars
    <2> QED  BY <2>1, ShutStutter
  <1> QED  BY <1>1, <1>2, <1>3

LEMMA ShutThread ==
    ASSUME TypeOK, ShutInv, NEW s \in Calls,
           \/ PumpStep(s) \/ PumpEnd(s) \/ TickStep(s) \/ ReapStep(s)
           \/ GraceKill(s) \/ ShellExit(s)
    PROVE  ShutInv'
  <1> USE DEF callVars, procVars, viewVars, outVars, sessVars, pumpVars,
          tickVars, reapVars, thrVars, shutVars, auxVars
  <1>1. CASE ReapSettle(s)
    BY <1>1 DEF ReapSettle, ShutInv, LiveSessions, TypeOK
  <1>2. CASE ReapEmit(s)
    <2>1. /\ UNCHANGED <<live, late, shell, killed, rest>>
          /\ shut' = shut \/ shut' = "crashed"
      BY <1>2 DEF ReapEmit
    <2> QED  BY <2>1 DEF ShutInv, LiveSessions
  <1>3. CASE GraceKill(s)
    <2>1. /\ UNCHANGED <<live, late, shell, rest, shut>>
          /\ \A c \in Calls : killed[c] => killed'[c]
      BY <1>3 DEF GraceKill, Kill, TypeOK
    <2> QED  BY <2>1 DEF ShutInv, LiveSessions
  <1>4. CASE ShellExit(s)
    BY <1>4 DEF ShellExit, ShutInv, LiveSessions, TypeOK
  <1>5. CASE \/ PumpStep(s) \/ PumpEnd(s) \/ TickStep(s)
             \/ ReapWait(s) \/ ReapClose(s) \/ ReapCapture(s)
    <2>1. UNCHANGED endVars
      BY <1>5 DEF PumpStep, PumpRead, PumpPush, PumpCapture, PumpEmit, PumpEnd,
         TickStep, TickFire, TickStop, TickCapture, TickEmit, ReapWait,
         ReapClose, ReapCapture, endVars
    <2> QED  BY <2>1, ShutStutter
  <1> QED  BY <1>1, <1>2, <1>3, <1>4, <1>5 DEF ReapStep

LEMMA ShutUser ==
    ASSUME TypeOK, ShutInv, NEW id \in Ids, UserClose(id) \/ UserKill(id)
    PROVE  ShutInv'
  <1>1. /\ UNCHANGED <<live, late, shell, rest, shut>>
        /\ \A c \in Calls : killed[c] => killed'[c]
    BY DEF UserClose, UserKill, Kill, TypeOK, procVars, viewVars, shutVars
  <1> QED  BY <1>1 DEF ShutInv, LiveSessions

LEMMA ShutShut ==
    ASSUME TypeOK, RegistryInv, ShutInv, ShutBegin \/ ShutStep
    PROVE  ShutInv'
  <1> USE DEF procVars, viewVars, sessVars, auxVars
  <1>1. CASE ShutBegin
    BY <1>1 DEF ShutBegin, ShutInv
  <1>2. ASSUME NEW id \in Ids, ShutClose(id)  PROVE ShutInv'
    BY <1>2 DEF ShutClose, ShutInv
  <1>3. CASE ShutSweep
    <2>1. \A c \in LiveSessions :
             terminals[req[c].id] = c /\ ~Placeholder(c)
      BY <1>3, LiveReachable DEF ShutSweep, LiveIsReachable, LiveSessions,
         Serving, RegistryInv, Creating, Placeholder
    <2>2. LiveSessions \subseteq rest'
      <3> SUFFICES ASSUME NEW c \in LiveSessions  PROVE c \in rest'
        OBVIOUS
      <3>1. c \in Calls /\ c # Nil /\ req[c].id \in Ids
        BY TerminalAssumption DEF LiveSessions, TypeOK
      <3>2. Known(req[c].id)
        BY <2>1, <3>1 DEF Known
      <3> QED  BY <1>3, <2>1, <3>1, <3>2 DEF ShutSweep
    <2> QED  BY <1>3, <2>2 DEF ShutSweep, ShutInv, LiveSessions
  <1>4. ASSUME NEW s \in Calls, ShutKill(s)  PROVE ShutInv'
    <2>1. /\ shut = "swept" /\ rest' = rest \ {s}
          /\ UNCHANGED <<live, late, shell, shut>>
      BY <1>4 DEF ShutKill
    <2>2. \A c \in Calls : killed[c] => killed'[c]
      BY <1>4 DEF ShutKill, Kill, TypeOK
    <2>3. live[s] /\ shell[s] = "running" => killed'[s]
      BY <1>4 DEF ShutKill, Kill, TypeOK
    <2> QED  BY <2>1, <2>2, <2>3 DEF ShutInv, LiveSessions
  <1>5. CASE ShutExit
    BY <1>5 DEF ShutExit, ShutInv, LiveSessions
  <1> QED  BY <1>1, <1>2, <1>3, <1>4, <1>5 DEF ShutStep

LEMMA ShutNext == TypeOK /\ RegistryInv /\ ShutInv /\ [Next]_vars => ShutInv'
  <1> SUFFICES ASSUME TypeOK, RegistryInv, ShutInv, [Next]_vars  PROVE ShutInv'
    OBVIOUS
  <1>1. CASE UNCHANGED vars
    <2>1. UNCHANGED endVars
      BY <1>1 DEF vars, endVars, procVars, viewVars, sessVars, shutVars, auxVars
    <2> QED  BY <2>1, ShutStutter
  <1>2. CASE Next
    BY <1>2, ShutCall, ShutThread, ShutUser, ShutShut DEF Next
  <1> QED  BY <1>1, <1>2

LEMMA ShutKills == ShutInv => StoredShellsAreKilled
  BY DEF ShutInv, StoredShellsAreKilled

(***************************************************************************)
(* When the daemon is gone, every shell registered before CloseAll emptied *)
(* the map has ended or was sent SIGKILL.                                  *)
(***************************************************************************)
THEOREM StoredShellsGetKilled == Spec => []StoredShellsAreKilled
  <1>1. Init => ShutInv  BY DEF Init, ShutInv
  <1>2. TypeOK /\ RegistryInv /\ ShutInv /\ [Next]_vars => ShutInv'
    BY ShutNext
  <1>3. ShutInv => StoredShellsAreKilled  BY ShutKills
  <1> QED  BY <1>1, <1>2, <1>3, TypeCorrect, RegistryAlways, PTL DEF Spec

-----------------------------------------------------------------------------
(***************************************************************************)
(* The receivers.  A goroutine that is about to call a handler has read    *)
(* which one (send), and the pump of a session starts with its opened.     *)
(***************************************************************************)
ReceiverInv ==
    \A s \in Calls :
        /\ pc[s] = "telling" => openTo[s] \in Calls
        /\ pump[s] = "sending" <=> pumpTo[s] \in Calls
        /\ tick[s] = "sending" => tickTo[s] \in Calls
        /\ reap[s] = "sending" => reapTo[s] \in Calls
        /\ pump[s] # "off" => pc[s] \in {"waiting", "returned"}

LEMMA ReceiverInit == Init => ReceiverInv
  BY TerminalAssumption DEF Init, ReceiverInv

\* The variables ReceiverInv reads.
toVars == <<pc, openTo, pumpVars, tick, tickTo, reapVars>>

LEMMA ReceiverStutter == ASSUME ReceiverInv, UNCHANGED toVars
                         PROVE  ReceiverInv'
  BY DEF ReceiverInv, toVars, pumpVars, reapVars

LEMMA ReceiverCall ==
    ASSUME TypeOK, ReceiverInv, NEW c \in Calls, Arrive(c) \/ CallStep(c)
    PROVE  ReceiverInv'
  <1> USE TerminalAssumption DEF TypeOK, ReceiverInv, Goto, thrVars, pumpVars,
          tickVars, reapVars
  <1>1. CASE EmitOpened(c)
    <2>1. CASE seen[c] = c   BY <1>1, <2>1 DEF EmitOpened
    <2>2. CASE seen[c] # c   BY <1>1, <2>2 DEF EmitOpened
    <2> QED  BY <2>1, <2>2
  <1>2. CASE CaptureOpened(c)
    BY <1>2 DEF CaptureOpened, Receiver
  <1>3. CASE ~EmitOpened(c) /\ ~CaptureOpened(c)
    <2>1. UNCHANGED <<openTo, pump, pumpTo, tick, tickTo, reap, reapTo>>
      BY <1>3 DEF Arrive, CallStep, Refuse, Reserve, TooMany, Exists,
         FindExisting, SpawnFail, Spawn, Store, AttachGet, AttachSwap, Return
    <2>2. \A d \in Calls :
             /\ pc'[d] = "telling" => pc[d] = "telling"
             /\ pc[d] \in {"waiting", "returned"}
                  => pc'[d] \in {"waiting", "returned"}
      BY <1>3 DEF Arrive, CallStep, Refuse, Reserve, TooMany, Exists,
         FindExisting, SpawnFail, Spawn, Store, AttachGet, AttachSwap, Return
    <2> QED  BY <2>1, <2>2
  <1> QED  BY <1>1, <1>2, <1>3

LEMMA ReceiverThread ==
    ASSUME TypeOK, ReceiverInv, NEW s \in Calls,
           \/ PumpStep(s) \/ PumpEnd(s) \/ TickStep(s) \/ ReapStep(s)
    PROVE  ReceiverInv'
  <1> USE TerminalAssumption DEF TypeOK, ReceiverInv, callVars, thrVars,
          pumpVars, tickVars, reapVars, Receiver
  <1>1. CASE PumpStep(s) \/ PumpEnd(s)
    BY <1>1 DEF PumpStep, PumpRead, PumpPush, PumpCapture, PumpEmit, PumpEnd
  <1>2. CASE TickStep(s)
    BY <1>2 DEF TickStep, TickFire, TickStop, TickCapture, TickEmit
  <1>3. CASE ReapStep(s)
    BY <1>3 DEF ReapStep, ReapWait, ReapClose, ReapSettle, ReapCapture, ReapEmit
  <1> QED  BY <1>1, <1>2, <1>3

LEMMA ReceiverNext == TypeOK /\ ReceiverInv /\ [Next]_vars => ReceiverInv'
  <1> SUFFICES ASSUME TypeOK, ReceiverInv, [Next]_vars  PROVE ReceiverInv'
    OBVIOUS
  <1>1. CASE \/ \E s \in Calls : GraceKill(s) \/ ShellExit(s)
             \/ \E id \in Ids : UserClose(id) \/ UserKill(id)
             \/ ShutBegin \/ ShutStep
             \/ UNCHANGED vars
    <2>1. UNCHANGED toVars
      BY <1>1 DEF GraceKill, ShellExit, UserClose, UserKill, ShutBegin, ShutStep,
         ShutClose, ShutSweep, ShutKill, ShutExit, vars, toVars, callVars,
         thrVars, tickVars
    <2> QED  BY <2>1, ReceiverStutter
  <1> QED  BY <1>1, ReceiverCall, ReceiverThread DEF Next

LEMMA ReceiverAlways == Spec => []ReceiverInv
  <1>1. Init => ReceiverInv  BY ReceiverInit
  <1>2. TypeOK /\ ReceiverInv /\ [Next]_vars => ReceiverInv'  BY ReceiverNext
  <1> QED  BY <1>1, <1>2, TypeCorrect, PTL DEF Spec

-----------------------------------------------------------------------------
(***************************************************************************)
(* The end of a terminal.  An invoke is answered because its handler heard *)
(* an exit, an exit is heard because reap went all the way, and reap went  *)
(* on because the shell was dead, and the pump (if prompt) through.        *)
(***************************************************************************)
EndInv ==
    /\ \A s \in Calls :
         /\ reap[s] \in {"drain", "closed", "settled", "sending", "done"}
              => shell[s] = "exited"
         /\ reap[s] = "done" => terminals[req[s].id] # s
         /\ PumpPrompt /\ reap[s] \in {"settled", "sending", "done"}
              => pump[s] = "done"
         /\ pc[s] = "returned" => result[s]
         /\ result[s] => \E t \in Calls : Heard(s, "exit", t)
    /\ \A c \in Calls : \A e \in heard[c] :
         e.kind = "exit" => reap[e.of] = "done"

LEMMA EndInit == Init => EndInv
  BY DEF Init, EndInv

\* The variables EndInv reads.
deadVars == <<req, pc, result, terminals, shell, heard, reap, pump>>

LEMMA EndStutter == ASSUME EndInv, UNCHANGED deadVars  PROVE EndInv'
  BY DEF EndInv, deadVars, Heard

\* A handler that hears something else than an exit.
LEMMA EndTell ==
    ASSUME TypeOK, EndInv, NEW r \in Calls, NEW k \in Kinds \ {"exit"},
           NEW s \in Calls, NEW n \in Nat,
           heard' = [heard EXCEPT ![r] = @ \cup {Event(k, s, n)}]
    PROVE  /\ \A c \in Calls : heard[c] \subseteq heard'[c]
           /\ \A c \in Calls : \A e \in heard'[c] :
                e.kind = "exit" => reap[e.of] = "done"
  BY DEF TypeOK, EndInv, Event

\* The calls of Open that tell nobody anything.
LEMMA EndOpen ==
    ASSUME TypeOK, RegistryInv, EndInv, NEW c \in Calls,
           Arrive(c) \/ (CallStep(c) /\ ~EmitOpened(c))
    PROVE  EndInv'
  <1> USE DEF TypeOK, callVars, procVars, sessVars, thrVars, pumpVars, reapVars,
          Goto
  <1>1. /\ UNCHANGED <<req, result, heard, reap, reapTo, pump>>
        /\ \A d \in Calls : reap[d] # "off" => pc[d] \in {"waiting", "returned"}
    BY DEF Arrive, CallStep, Refuse, Reserve, TooMany, Exists, FindExisting,
       SpawnFail, Spawn, Store, AttachGet, AttachSwap, CaptureOpened, Return,
       RegistryInv
  <1>2. \A d \in Calls : reap[d] # "off" => shell'[d] = shell[d]
    BY <1>1 DEF Arrive, CallStep, Refuse, Reserve, TooMany, Exists,
       FindExisting, SpawnFail, Spawn, Store, AttachGet, AttachSwap,
       CaptureOpened, Return
  <1>3. \A d \in Calls : pc'[d] = "returned" => result[d]
    BY DEF Arrive, CallStep, Refuse, Reserve, TooMany, Exists, FindExisting,
       SpawnFail, Spawn, Store, AttachGet, AttachSwap, CaptureOpened, Return,
       EndInv
  <1>4. ASSUME NEW d \in Calls, reap[d] = "done"
        PROVE  terminals'[req[d].id] # d
    <2>1. terminals[req[d].id] # d /\ pc[d] \in {"waiting", "returned"}
      BY <1>1, <1>4 DEF EndInv
    <2>2. CASE Reserve(c) \/ Store(c)
      <3>1. c # d /\ terminals' = [terminals EXCEPT ![req[c].id] = c]
        BY <2>1, <2>2 DEF Reserve, Store
      <3> QED  BY <2>1, <3>1
    <2>3. CASE SpawnFail(c)
      BY <2>1, <2>3, TerminalAssumption DEF SpawnFail
    <2>4. CASE ~(Reserve(c) \/ Store(c) \/ SpawnFail(c))
      BY <2>1, <2>4 DEF Arrive, CallStep, Refuse, TooMany, Exists,
         FindExisting, Spawn, AttachGet, AttachSwap, CaptureOpened, Return
    <2> QED  BY <2>2, <2>3, <2>4
  <1> QED  BY <1>1, <1>2, <1>3, <1>4 DEF EndInv, Heard

LEMMA EndEmitOpened ==
    ASSUME TypeOK, RegistryInv, ReceiverInv, EndInv, NEW c \in Calls,
           EmitOpened(c)
    PROVE  EndInv'
  <1>1. /\ \A d \in Calls : heard[d] \subseteq heard'[d]
        /\ \A d \in Calls : \A e \in heard'[d] :
             e.kind = "exit" => reap[e.of] = "done"
    BY EndTell DEF EmitOpened, Kinds, TypeOK, ReceiverInv
  <1>2. /\ UNCHANGED <<req, result, terminals, shell, reapTo>>
        /\ pc[c] = "telling" /\ pc' = [pc EXCEPT ![c] = "waiting"]
        /\ \A d \in Calls \ {c} : reap'[d] = reap[d] /\ pump'[d] = pump[d]
        /\ reap'[c] \in {reap[c], "wait"}
    BY DEF EmitOpened, Goto, TypeOK, sessVars, procVars
  <1>3. reap[c] = "off"
    BY <1>2 DEF RegistryInv, TypeOK
  <1>4. reap'[c] \in {"off", "wait"}
    BY <1>2, <1>3
  <1>5. \A d \in Calls : \A e \in heard'[d] :
          e.kind = "exit" => reap'[e.of] = "done"
    <2> SUFFICES ASSUME NEW d \in Calls, NEW e \in heard'[d], e.kind = "exit"
                 PROVE  reap'[e.of] = "done"
      OBVIOUS
    <2>1. e.of \in Calls
      <3>1. heard'[d] \subseteq Events
        BY TypeCall DEF CallStep, TypeOK
      <3> QED  BY <3>1 DEF Events
    <2>2. reap[e.of] = "done"
      BY <1>1
    <2> QED  BY <2>1, <2>2, <1>2, <1>3
  <1>6. \A d \in Calls : result'[d] => \E t \in Calls : Heard(d, "exit", t)'
    BY <1>1, <1>2 DEF EndInv, Heard
  <1>7. \A d \in Calls : pc'[d] = "returned" => result'[d]
    BY <1>2 DEF EndInv, TypeOK
  <1> QED  BY <1>2, <1>3, <1>4, <1>5, <1>6, <1>7 DEF EndInv

LEMMA EndPump ==
    ASSUME TypeOK, ReceiverInv, EndInv, NEW s \in Calls,
           PumpStep(s) \/ PumpEnd(s)
    PROVE  EndInv'
  <1>1. /\ UNCHANGED <<req, pc, result, terminals, shell, reap, reapTo>>
        /\ pump[s] # "done"
        /\ \A d \in Calls \ {s} : pump'[d] = pump[d]
    BY DEF PumpStep, PumpRead, PumpPush, PumpCapture, PumpEmit, PumpEnd,
       callVars, sessVars, procVars, reapVars, TypeOK
  <1>2. CASE PumpEmit(s)
    <2>1. /\ \A d \in Calls : heard[d] \subseteq heard'[d]
          /\ \A d \in Calls : \A e \in heard'[d] :
               e.kind = "exit" => reap[e.of] = "done"
      BY <1>2, EndTell DEF PumpEmit, Kinds, TypeOK, ReceiverInv
    <2> QED  BY <1>1, <2>1 DEF EndInv, Heard
  <1>3. CASE ~PumpEmit(s)
    <2>1. UNCHANGED heard
      BY <1>3 DEF PumpStep, PumpRead, PumpPush, PumpCapture, PumpEnd
    <2> QED  BY <1>1, <2>1 DEF EndInv, Heard
  <1> QED  BY <1>2, <1>3

LEMMA EndTick ==
    ASSUME TypeOK, ReceiverInv, EndInv, NEW s \in Calls, TickStep(s)
    PROVE  EndInv'
  <1>1. UNCHANGED <<req, pc, result, terminals, shell, reap, reapTo, pump>>
    BY DEF TickStep, TickFire, TickStop, TickCapture, TickEmit, callVars,
       sessVars, procVars, reapVars, pumpVars
  <1>2. CASE TickEmit(s)
    <2>1. /\ \A d \in Calls : heard[d] \subseteq heard'[d]
          /\ \A d \in Calls : \A e \in heard'[d] :
               e.kind = "exit" => reap[e.of] = "done"
      BY <1>2, EndTell DEF TickEmit, Kinds, TypeOK, ReceiverInv
    <2> QED  BY <1>1, <2>1 DEF EndInv, Heard
  <1>3. CASE ~TickEmit(s)
    <2>1. UNCHANGED heard
      BY <1>3 DEF TickStep, TickFire, TickStop, TickCapture
    <2> QED  BY <1>1, <2>1, EndStutter DEF deadVars
  <1> QED  BY <1>2, <1>3

\* Nothing the end of a terminal rests on is undone by reap itself.
LEMMA EndReap ==
    ASSUME TypeOK, ReceiverInv, EndInv, NEW s \in Calls, ReapStep(s)
    PROVE  EndInv'
  <1> USE DEF TypeOK, callVars, procVars, sessVars, pumpVars, reapVars
  <1>1. CASE ReapEmit(s)
    <2> DEFINE r == reapTo[s]
    <2>1. /\ UNCHANGED <<req, pc, shell, pump>>
          /\ reap[s] = "sending" /\ reap' = [reap EXCEPT ![s] = "done"]
          /\ heard' = [heard EXCEPT ![r] = @ \cup {Event("exit", s, 0)}]
          /\ terminals' = [terminals EXCEPT ![req[s].id] = Nil]
          /\ result' \in {result, [result EXCEPT ![r] = TRUE]}
          /\ r \in Calls
      BY <1>1 DEF ReapEmit, ReceiverInv
    <2>2. \A c \in Calls : heard[c] \subseteq heard'[c]
      BY <2>1
    <2>3. \E e \in heard'[r] : e.kind = "exit" /\ e.of = s
      <3>1. Event("exit", s, 0) \in heard'[r]
        BY <2>1
      <3>2. /\ Event("exit", s, 0).kind = "exit"
            /\ Event("exit", s, 0).of = s
        BY DEF Event
      <3> QED  BY <3>1, <3>2
    <2>4. \A c \in Calls : \A e \in heard'[c] :
             e.kind = "exit" => reap'[e.of] = "done"
      <3> SUFFICES ASSUME NEW c \in Calls, NEW e \in heard'[c], e.kind = "exit"
                   PROVE  reap'[e.of] = "done"
        OBVIOUS
      <3>1. CASE e \in heard[c]
        <4>1. e.of \in Calls /\ reap[e.of] = "done"
          BY <3>1 DEF EndInv, Events
        <4> QED  BY <2>1, <4>1
      <3>2. CASE e = Event("exit", s, 0)
        BY <2>1, <3>2 DEF Event
      <3>3. e \in heard[c] \cup {Event("exit", s, 0)}
        BY <2>1
      <3> QED  BY <3>1, <3>2, <3>3
    <2>5. \A c \in Calls : result'[c] => \E t \in Calls : Heard(c, "exit", t)'
      <3> SUFFICES ASSUME NEW c \in Calls, result'[c]
                   PROVE  \E t \in Calls : Heard(c, "exit", t)'
        OBVIOUS
      <3>1. CASE c = r
        BY <2>3, <3>1 DEF Heard
      <3>2. CASE c # r
        <4>1. result[c]
          BY <2>1, <3>2
        <4> QED  BY <2>2, <4>1 DEF EndInv, Heard
      <3> QED  BY <3>1, <3>2
    <2>6. \A c \in Calls : reap'[c] = "done" => terminals'[req[c].id] # c
      BY <2>1, TerminalAssumption DEF EndInv
    <2>7. \A c \in Calls :
             /\ reap'[c] \in {"drain", "closed", "settled", "sending", "done"}
                  => shell[c] = "exited"
             /\ PumpPrompt /\ reap'[c] \in {"settled", "sending", "done"}
                  => pump[c] = "done"
             /\ pc[c] = "returned" => result'[c]
      BY <2>1 DEF EndInv
    <2> HIDE DEF r
    <2> QED  BY <2>1, <2>4, <2>5, <2>6, <2>7 DEF EndInv
  <1>2. CASE ~ReapEmit(s)
    <2>1. /\ UNCHANGED <<req, pc, result, terminals, shell, heard, pump>>
          /\ \A c \in Calls \ {s} : reap'[c] = reap[c]
          /\ reap[s] # "done" /\ reap'[s] # "done"
          /\ \/ reap[s] = "wait" /\ reap'[s] = "drain" /\ shell[s] = "exited"
             \/ reap[s] = "drain" /\ reap'[s] = "closed"
             \/ /\ reap[s] = "closed" /\ reap'[s] = "settled"
                /\ PumpPrompt => pump[s] = "done"
             \/ reap[s] = "settled" /\ reap'[s] = "sending"
      BY <1>2, TerminalAssumption DEF ReapStep, ReapWait, ReapClose,
         ReapSettle, ReapCapture, Drained
    <2>2. \A c \in Calls : \A e \in heard'[c] :
             e.kind = "exit" => reap'[e.of] = "done"
      <3>1. \A c \in Calls : \A e \in heard[c] : e.of \in Calls
        BY DEF Events
      <3> QED  BY <2>1, <3>1 DEF EndInv
    <2> QED  BY <2>1, <2>2 DEF EndInv, Heard
  <1> QED  BY <1>1, <1>2

\* Shutting down, killing, and shells that end.
LEMMA EndOther ==
    ASSUME TypeOK, EndInv,
           \/ \E s \in Calls : GraceKill(s) \/ ShellExit(s)
           \/ \E id \in Ids : UserClose(id) \/ UserKill(id)
           \/ ShutBegin \/ ShutStep
    PROVE  EndInv'
  <1>1. UNCHANGED <<req, pc, result, heard, reap, pump>>
    BY DEF GraceKill, ShellExit, UserClose, UserKill, ShutBegin, ShutStep,
       ShutClose, ShutSweep, ShutKill, ShutExit, callVars, thrVars, pumpVars,
       reapVars
  <1>2. \A s \in Calls : shell[s] = "exited" => shell'[s] = "exited"
    BY DEF GraceKill, ShellExit, UserClose, UserKill, ShutBegin, ShutStep,
       ShutClose, ShutSweep, ShutKill, ShutExit, procVars, sessVars, TypeOK
  <1>3. terminals' = terminals \/ terminals' = [id \in Ids |-> Nil]
    BY DEF GraceKill, ShellExit, UserClose, UserKill, ShutBegin, ShutStep,
       ShutClose, ShutSweep, ShutKill, ShutExit
  <1> QED  BY <1>1, <1>2, <1>3, TerminalAssumption DEF EndInv, Heard, TypeOK

LEMMA EndNext ==
    TypeOK /\ RegistryInv /\ ReceiverInv /\ EndInv /\ [Next]_vars => EndInv'
  <1> SUFFICES ASSUME TypeOK, RegistryInv, ReceiverInv, EndInv, [Next]_vars
               PROVE  EndInv'
    OBVIOUS
  <1>1. CASE UNCHANGED vars
    <2>1. UNCHANGED deadVars
      BY <1>1 DEF vars, deadVars, callVars, procVars, sessVars, thrVars,
         pumpVars, reapVars
    <2> QED  BY <2>1, EndStutter
  <1>2. CASE Next
    BY <1>2, EndOpen, EndEmitOpened, EndPump, EndTick, EndReap, EndOther
    DEF Next, CallStep
  <1> QED  BY <1>1, <1>2

LEMMA EndAlways == Spec => []EndInv
  <1>1. Init => EndInv  BY EndInit
  <1>2. TypeOK /\ RegistryInv /\ ReceiverInv /\ EndInv /\ [Next]_vars => EndInv'
    BY EndNext
  <1> QED  BY <1>1, <1>2, TypeCorrect, RegistryAlways, ReceiverAlways, PTL
           DEF Spec

(***************************************************************************)
(* An answered terminalOpen had a shell that is dead, and whose record is  *)
(* no longer in the registry (dispatchOpen, reap, settle, Forget).         *)
(***************************************************************************)
THEOREM AnswerMeansOver == Spec => []AnsweredIsOver
  <1>1. ASSUME EndInv  PROVE AnsweredIsOver
    <2> SUFFICES ASSUME NEW c \in Calls, pc[c] = "returned"
                 PROVE  \E s \in Calls : /\ Heard(c, "exit", s)
                                         /\ shell[s] = "exited"
                                         /\ terminals[req[s].id] # s
      BY DEF AnsweredIsOver
    <2>1. PICK s \in Calls : Heard(c, "exit", s)
      BY <1>1 DEF EndInv
    <2>2. reap[s] = "done"
      BY <1>1, <2>1 DEF EndInv, Heard
    <2> QED  BY <1>1, <2>1, <2>2 DEF EndInv
  <1> QED  BY <1>1, EndAlways, PTL

(***************************************************************************)
(* If closing the master ends the pump in time, nobody hears output of a   *)
(* terminal after anybody heard its exit, with any number of reconnects.   *)
(***************************************************************************)
THEOREM ExitIsLast == ASSUME PumpPrompt  PROVE Spec => NoDataAfterExit
  <1>1. ASSUME TypeOK, EndInv, ReceiverInv, [Next]_vars, NEW r \in Calls,
               NEW s \in Calls, NEW q \in Calls, Heard(q, "exit", s),
               NEW e \in heard'[r] \ heard[r]
        PROVE  ~(e.of = s /\ e.kind = "data")
    <2> SUFFICES ASSUME e.of = s, e.kind = "data"  PROVE FALSE
      OBVIOUS
    <2>1. pump[s] = "done"
      BY <1>1 DEF Heard, EndInv
    <2>2. heard' # heard
      BY <1>1
    <2>3. CASE \E c \in Calls : EmitOpened(c)
      BY <1>1, <2>3 DEF EmitOpened, Event, TypeOK
    <2>4. CASE \E c \in Calls : PumpEmit(c)
      BY <1>1, <2>1, <2>4 DEF PumpEmit, Event, TypeOK
    <2>5. CASE \E c \in Calls : TickEmit(c)
      BY <1>1, <2>5 DEF TickEmit, Event, TypeOK
    <2>6. CASE \E c \in Calls : ReapEmit(c)
      BY <1>1, <2>6 DEF ReapEmit, Event, TypeOK
    <2> QED
      BY <1>1, <2>2, <2>3, <2>4, <2>5, <2>6 DEF Next, Arrive, Refuse, Reserve,
         TooMany, Exists, FindExisting, CallStep, SpawnFail, Spawn, Store,
         AttachGet, AttachSwap, CaptureOpened, Return, PumpStep, PumpRead,
         PumpPush, PumpCapture, PumpEnd, TickStep, TickFire, TickStop,
         TickCapture, ReapStep, ReapWait, ReapClose, ReapSettle, ReapCapture,
         GraceKill, ShellExit, UserClose, UserKill, ShutBegin, ShutStep,
         ShutClose, ShutSweep, ShutKill, ShutExit, vars
  <1>2. TypeOK /\ EndInv /\ ReceiverInv /\ [Next]_vars
          => [\A r, s \in Calls :
                (\E q \in Calls : Heard(q, "exit", s)) =>
                  \A e \in heard'[r] \ heard[r] :
                     ~(e.of = s /\ e.kind = "data")]_heard
    BY <1>1
  <1> QED
    BY <1>2, TypeCorrect, EndAlways, ReceiverAlways, PTL
    DEF Spec, NoDataAfterExit

-----------------------------------------------------------------------------
(***************************************************************************)
(* Reconnecting.  A call takes emit over once, and what was pushed before  *)
(* is not its business (since); what is pushed later is told to it, or is  *)
(* on its way: pump reads the receiver after it pushed.                    *)
(***************************************************************************)
TakenOver(c) == pc[c] \in {"swapped", "telling", "waiting", "returned"}

NoEventMissed ==
    \A s \in Calls :
        LET r == emit[s] IN
        \A k \in since[r] + 1 .. pushed[s] :
            \/ Event("data", s, k) \in heard[r]
            \/ k = pushed[s] /\ pump[s] = "pushed"
            \/ k = pushed[s] /\ pumpTo[s] = r

StreamInv ==
    /\ \A c \in Calls : pushed[c] > 0 => pump[c] # "off"
    /\ \A s, c \in Calls : emit[s] = c /\ s # c => TakenOver(c)
    /\ NoEventMissed

LEMMA StreamInit == Init => StreamInv
  BY DEF Init, StreamInv, NoEventMissed

\* The variables StreamInv reads.
streamVars == <<pc, emit, since, pushed, pump, pumpTo, heard>>

LEMMA StreamStutter == ASSUME StreamInv, UNCHANGED streamVars
                       PROVE  StreamInv'
  BY DEF StreamInv, NoEventMissed, TakenOver, streamVars

\* Nobody forgets what it heard.
LEMMA StreamTell ==
    ASSUME TypeOK, StreamInv, UNCHANGED <<emit, since, pushed, pump, pumpTo>>,
           \A c \in Calls : heard[c] \subseteq heard'[c],
           \A c \in Calls : TakenOver(c) => TakenOver(c)'
    PROVE  StreamInv'
  BY DEF TypeOK, StreamInv, NoEventMissed

LEMMA StreamAttach ==
    ASSUME TypeOK, ReceiverInv, StreamInv, NEW c \in Calls, AttachSwap(c)
    PROVE  StreamInv'
  <1> DEFINE old == target[c]
  <1>1. /\ pc[c] = "attaching" /\ pc' = [pc EXCEPT ![c] = "swapped"]
        /\ emit' = [emit EXCEPT ![old] = c]
        /\ since' = [since EXCEPT ![c] = pushed[old]]
        /\ UNCHANGED <<pushed, pump, pumpTo, heard>>
    BY DEF AttachSwap, Goto, outVars, thrVars, pumpVars
  <1>2. old \in Calls /\ pushed[c] = 0 /\ pushed[old] \in Nat
    <2>1. pump[c] = "off"
      BY <1>1 DEF ReceiverInv
    <2>2. ~(pushed[c] > 0)
      BY <2>1 DEF StreamInv
    <2>3. old \in Calls /\ pushed[c] \in Nat /\ pushed[old] \in Nat
      BY DEF TypeOK
    <2> QED  BY <2>2, <2>3
  <1>3. \A s, d \in Calls : emit'[s] = d /\ s # d => TakenOver(d)'
    BY <1>1 DEF StreamInv, TakenOver, TypeOK
  <1>4. NoEventMissed'
    <2> SUFFICES ASSUME NEW s \in Calls,
                        NEW k \in since'[emit'[s]] + 1 .. pushed[s]
                 PROVE  \/ Event("data", s, k) \in heard[emit'[s]]
                        \/ k = pushed[s] /\ pump[s] = "pushed"
                        \/ k = pushed[s] /\ pumpTo[s] = emit'[s]
      BY <1>1 DEF NoEventMissed
    <2>1. pushed[s] \in Nat /\ emit[s] \in Calls
      BY DEF TypeOK
    <2>2. CASE s = old
      <3>1. emit'[s] = c /\ since'[c] = pushed[s]
        BY <1>1, <2>2 DEF TypeOK
      <3> QED  BY <2>1, <3>1
    <2>3. CASE s # old /\ emit[s] = c
      <3>1. s = c
        BY <1>1, <2>3 DEF StreamInv, TakenOver
      <3>2. emit'[s] = c /\ since'[c] = pushed[old]
        BY <1>1, <2>3 DEF TypeOK
      <3> QED  BY <1>2, <3>1, <3>2
    <2>4. CASE s # old /\ emit[s] # c
      <3>1. emit'[s] = emit[s] /\ since'[emit[s]] = since[emit[s]]
        BY <1>1, <2>1, <2>4 DEF TypeOK
      <3> QED  BY <3>1 DEF StreamInv, NoEventMissed
    <2> QED  BY <2>2, <2>3, <2>4
  <1> QED  BY <1>1, <1>3, <1>4 DEF StreamInv

LEMMA StreamOpen ==
    ASSUME TypeOK, ReceiverInv, StreamInv, NEW c \in Calls,
           Arrive(c) \/ CallStep(c), ~AttachSwap(c)
    PROVE  StreamInv'
  <1> USE DEF TypeOK, sessVars, viewVars, outVars, thrVars, pumpVars, auxVars,
          Goto
  <1>1. CASE EmitOpened(c)
    <2>1. /\ pc[c] = "telling" /\ pump[c] = "off" /\ pushed[c] = 0
          /\ pc' = [pc EXCEPT ![c] = "waiting"]
          /\ UNCHANGED <<emit, since, pushed, pumpTo>>
      <3>1. /\ pc[c] = "telling" /\ pc' = [pc EXCEPT ![c] = "waiting"]
            /\ UNCHANGED <<emit, since, pushed, pumpTo>>
        BY <1>1 DEF EmitOpened
      <3>2. pump[c] = "off"
        BY <3>1 DEF ReceiverInv
      <3>3. ~(pushed[c] > 0) /\ pushed[c] \in Nat
        BY <3>2 DEF StreamInv
      <3> QED  BY <3>1, <3>2, <3>3
    <2>2. \A d \in Calls : heard[d] \subseteq heard'[d]
      BY <1>1 DEF EmitOpened
    <2>3. pump' \in {pump, [pump EXCEPT ![c] = "read"]}
      BY <1>1 DEF EmitOpened
    <2>4. \A d \in Calls : pump[d] = "pushed" => pump'[d] = "pushed"
      BY <2>1, <2>3
    <2>5. \A d \in Calls : pushed[d] > 0 => pump'[d] # "off"
      BY <2>1, <2>3 DEF StreamInv
    <2>6. NoEventMissed'
      BY <2>1, <2>2, <2>4 DEF StreamInv, NoEventMissed
    <2> QED  BY <2>1, <2>5, <2>6 DEF StreamInv, TakenOver
  <1>2. CASE ~EmitOpened(c)
    <2>1. UNCHANGED <<emit, since, pushed, pump, pumpTo, heard>>
      BY <1>2 DEF Arrive, CallStep, Refuse, Reserve, TooMany, Exists,
         FindExisting, SpawnFail, Spawn, Store, AttachGet, CaptureOpened, Return
    <2>2. \A d \in Calls : TakenOver(d) => TakenOver(d)'
      BY <1>2 DEF Arrive, CallStep, Refuse, Reserve, TooMany, Exists, TakenOver,
         FindExisting, SpawnFail, Spawn, Store, AttachGet, CaptureOpened, Return
    <2> QED  BY <2>1, <2>2, StreamTell
  <1> QED  BY <1>1, <1>2

LEMMA StreamPump ==
    ASSUME TypeOK, ReceiverInv, StreamInv, NEW s \in Calls,
           PumpStep(s) \/ PumpEnd(s)
    PROVE  StreamInv'
  <1>1. /\ UNCHANGED <<pc, emit, since>>
        /\ pump[s] # "off" /\ pump'[s] # "off"
        /\ \A d \in Calls \ {s} : /\ pump'[d] = pump[d]
                                  /\ pumpTo'[d] = pumpTo[d]
                                  /\ pushed'[d] = pushed[d]
        /\ \A c \in Calls : heard[c] \subseteq heard'[c]
    <2> USE DEF TypeOK, callVars, sessVars, viewVars, outVars, auxVars
    <2>1. CASE PumpRead(s)     BY <2>1 DEF PumpRead
    <2>2. CASE PumpPush(s)     BY <2>2 DEF PumpPush
    <2>3. CASE PumpCapture(s)  BY <2>3 DEF PumpCapture
    <2>4. CASE PumpEmit(s)     BY <2>4 DEF PumpEmit
    <2>5. CASE PumpEnd(s)      BY <2>5 DEF PumpEnd
    <2> QED  BY <2>1, <2>2, <2>3, <2>4, <2>5 DEF PumpStep
  <1>2. ASSUME NEW k \in since[emit[s]] + 1 .. pushed'[s]
        PROVE  \/ Event("data", s, k) \in heard'[emit[s]]
               \/ k = pushed'[s] /\ pump'[s] = "pushed"
               \/ k = pushed'[s] /\ pumpTo'[s] = emit[s]
    <2>1. /\ emit[s] \in Calls /\ pushed[s] \in Nat /\ since[emit[s]] \in Nat
          /\ pump[s] # "sending" => pumpTo[s] # emit[s]
      BY DEF TypeOK, ReceiverInv
    <2>2. k \in since[emit[s]] + 1 .. pushed[s] =>
            \/ Event("data", s, k) \in heard[emit[s]]
            \/ k = pushed[s] /\ pump[s] = "pushed"
            \/ k = pushed[s] /\ pumpTo[s] = emit[s]
      BY DEF StreamInv, NoEventMissed
    <2>3. CASE PumpPush(s)
      <3>1. /\ pump[s] = "got" /\ pump'[s] = "pushed"
            /\ pushed'[s] = pushed[s] + 1
        BY <2>3 DEF PumpPush, TypeOK
      <3> QED  BY <1>1, <2>1, <2>2, <3>1
    <2>4. CASE PumpCapture(s)
      BY <1>1, <1>2, <2>2, <2>4 DEF PumpCapture, Receiver, sessVars, outVars,
         TypeOK
    <2>5. CASE PumpEmit(s)
      <3>1. /\ pump[s] = "sending" /\ pushed' = pushed
            /\ heard' = [heard EXCEPT ![pumpTo[s]] =
                           @ \cup {Event("data", s, pushed[s])}]
        BY <2>5 DEF PumpEmit, sessVars, outVars
      <3>2. pumpTo[s] = emit[s] =>
              Event("data", s, pushed[s]) \in heard'[emit[s]]
        BY <2>1, <3>1 DEF TypeOK
      <3> QED  BY <1>1, <1>2, <2>1, <2>2, <3>1, <3>2
    <2>6. CASE PumpRead(s) \/ PumpEnd(s)
      <3>1. pump[s] = "read" /\ UNCHANGED <<pushed, pumpTo>>
        BY <2>6 DEF PumpRead, PumpEnd, sessVars, outVars
      <3> QED  BY <1>1, <1>2, <2>1, <2>2, <3>1
    <2> QED  BY <2>3, <2>4, <2>5, <2>6 DEF PumpStep
  <1>3. NoEventMissed'
    BY <1>1, <1>2 DEF StreamInv, NoEventMissed, TypeOK
  <1> QED  BY <1>1, <1>3 DEF StreamInv, TakenOver

LEMMA StreamNext ==
    TypeOK /\ ReceiverInv /\ StreamInv /\ [Next]_vars => StreamInv'
  <1> SUFFICES ASSUME TypeOK, ReceiverInv, StreamInv, [Next]_vars
               PROVE  StreamInv'
    OBVIOUS
  <1>1. ASSUME NEW c \in Calls, Arrive(c) \/ CallStep(c)  PROVE StreamInv'
    BY <1>1, StreamAttach, StreamOpen
  <1>2. ASSUME NEW s \in Calls, TickEmit(s) \/ ReapEmit(s)  PROVE StreamInv'
    <2>1. /\ UNCHANGED <<pc, emit, since, pushed, pump, pumpTo>>
          /\ \A c \in Calls : heard[c] \subseteq heard'[c]
      <3> USE DEF TypeOK, callVars, sessVars, viewVars, outVars, pumpVars,
              auxVars
      <3>1. CASE TickEmit(s)  BY <3>1 DEF TickEmit
      <3>2. CASE ReapEmit(s)  BY <3>2 DEF ReapEmit
      <3> QED  BY <1>2, <3>1, <3>2
    <2> QED  BY <2>1, StreamTell DEF TakenOver
  <1>3. CASE \/ \E s \in Calls :
                   \/ (TickStep(s) /\ ~TickEmit(s))
                   \/ (ReapStep(s) /\ ~ReapEmit(s))
                   \/ GraceKill(s) \/ ShellExit(s)
             \/ \E id \in Ids : UserClose(id) \/ UserKill(id)
             \/ ShutBegin \/ ShutStep
             \/ UNCHANGED vars
    <2>1. UNCHANGED streamVars
      BY <1>3 DEF TickStep, TickFire, TickStop, TickCapture, ReapStep, ReapWait,
         ReapClose, ReapSettle, ReapCapture, GraceKill, ShellExit, UserClose,
         UserKill, ShutBegin, ShutStep, ShutClose, ShutSweep, ShutKill,
         ShutExit, vars, streamVars, callVars, sessVars, viewVars, outVars,
         thrVars, pumpVars, auxVars
    <2> QED  BY <2>1, StreamStutter
  <1> QED  BY <1>1, <1>2, <1>3, StreamPump DEF Next

(***************************************************************************)
(* The scrollback.  Until a terminal is over it holds the last chunks that *)
(* were pushed, oldest first: only push writes it, and push drops from the *)
(* front alone.                                                            *)
(***************************************************************************)
Room(s) == IF pushed[s] < MaxScroll THEN pushed[s] ELSE MaxScroll
Latest(s) ==
    /\ Len(scroll[s]) = Room(s)
    /\ \A i \in 1 .. Room(s) : scroll[s][i] = pushed[s] - Room(s) + i

ScrollInv == \A s \in Calls : stopped[s] \/ Latest(s)

LEMMA ScrollInit == Init => ScrollInv
  <1> SUFFICES ASSUME Init, NEW s \in Calls  PROVE Latest(s)
    BY DEF ScrollInv
  <1>1. pushed[s] = 0 /\ scroll[s] = <<>>
    BY DEF Init
  <1>2. Room(s) = 0
    BY <1>1, TerminalAssumption DEF Room
  <1> QED  BY <1>1, <1>2 DEF Latest

LEMMA ScrollStutter ==
    ASSUME ScrollInv, UNCHANGED outVars,
           \A s \in Calls : stopped[s] => stopped'[s]
    PROVE  ScrollInv'
  BY DEF ScrollInv, Latest, Room, outVars

\* What push does to a sequence of chunk numbers.
LEMMA AppendChunk ==
    ASSUME NEW q \in Seq(Nat), NEW x \in Nat
    PROVE  /\ Append(q, x) \in Seq(Nat)
           /\ Len(Append(q, x)) = Len(q) + 1
           /\ \A i \in 1 .. Len(q) : Append(q, x)[i] = q[i]
           /\ Append(q, x)[Len(q) + 1] = x
  OBVIOUS

LEMMA DropChunk ==
    ASSUME NEW q \in Seq(Nat), Len(q) > 1
    PROVE  /\ Len(Tail(q)) = Len(q) - 1
           /\ \A i \in 1 .. Len(q) - 1 : Tail(q)[i] = q[i + 1]
  OBVIOUS

LEMMA ScrollPush ==
    ASSUME TypeOK, ScrollInv, NEW s \in Calls, PumpPush(s)
    PROVE  ScrollInv'
  <1> SUFFICES ASSUME NEW d \in Calls, ~stopped'[d]
               PROVE  Latest(d)'
    BY DEF ScrollInv
  <1>1. /\ pushed' = [pushed EXCEPT ![s] = @ + 1]
        /\ scroll' = [scroll EXCEPT ![s] =
                         Trimmed(Append(@, pushed[s] + 1))]
        /\ stopped' = stopped
    BY DEF PumpPush, viewVars
  <1>2. Latest(d)
    BY <1>1 DEF ScrollInv
  <1>3. CASE d # s
    <2>1. pushed'[d] = pushed[d] /\ scroll'[d] = scroll[d]
      BY <1>1, <1>3 DEF TypeOK
    <2> QED  BY <1>2, <2>1 DEF Latest, Room
  <1>4. CASE d = s
    <2>1. PICK p, n, q : /\ p = pushed[s] /\ n = Room(s)
                         /\ q = Append(scroll[s], pushed[s] + 1)
      OBVIOUS
    <2>2. p \in Nat /\ n \in Nat /\ MaxScroll \in Nat \ {0}
      BY <2>1, TerminalAssumption DEF TypeOK, Room
    <2>3. pushed'[s] = p + 1 /\ scroll'[s] = Trimmed(q)
      BY <1>1, <2>1 DEF TypeOK
    <2>4. /\ scroll[s] \in Seq(Nat) /\ Len(scroll[s]) = n
          /\ \A i \in 1 .. n : scroll[s][i] = p - n + i
      BY <1>2, <1>4, <2>1 DEF Latest, TypeOK
    <2>5. /\ q \in Seq(Nat) /\ Len(q) = n + 1
          /\ \A i \in 1 .. n : q[i] = p - n + i
          /\ q[n + 1] = p + 1
      BY <2>1, <2>2, <2>4, AppendChunk
    <2>6. \A i \in 1 .. n + 1 : q[i] = p - n + i
      BY <2>2, <2>5
    <2>7. CASE p < MaxScroll
      <3>1. n = p /\ Room(s)' = p + 1
        BY <2>1, <2>2, <2>3, <2>7 DEF Room
      <3>2. Trimmed(q) = q
        BY <2>2, <2>5, <2>7, <3>1 DEF Trimmed
      <3>3. scroll'[s] = q
        BY <2>3, <3>2
      <3>4. \A i \in 1 .. p + 1 : q[i] = p + 1 - (p + 1) + i
        BY <2>2, <2>6, <3>1
      <3>5. Len(scroll'[s]) = Room(s)'
        BY <2>5, <3>1, <3>3
      <3>6. ASSUME NEW i \in 1 .. Room(s)'
            PROVE  scroll'[s][i] = pushed'[s] - Room(s)' + i
        <4>1. i \in 1 .. p + 1
          BY <3>1
        <4>2. scroll'[s][i] = q[i]
          BY <3>3, Zenon
        <4>3. q[i] = p + 1 - (p + 1) + i
          BY <3>4, <4>1
        <4>4. pushed'[s] - Room(s)' + i = p + 1 - (p + 1) + i
          <5>1. PICK a, b : a = pushed'[s] /\ b = Room(s)'
            OBVIOUS
          <5>2. a = p + 1 /\ b = p + 1
            BY <2>3, <3>1, <5>1
          <5>3. a - b + i = p + 1 - (p + 1) + i
            BY <2>2, <4>1, <5>2
          <5> QED  BY <5>1, <5>3, Zenon
        <4> QED  BY <4>2, <4>3, <4>4, Zenon
      <3> QED  BY <1>4, <3>5, <3>6 DEF Latest
    <2>8. CASE p >= MaxScroll
      <3>1. n = MaxScroll /\ Room(s)' = MaxScroll
        BY <2>1, <2>2, <2>3, <2>8 DEF Room
      <3>2. Trimmed(q) = Tail(q) /\ Len(q) > 1
        BY <2>2, <2>5, <3>1 DEF Trimmed
      <3>3. scroll'[s] = Tail(q)
        BY <2>3, <3>2
      <3>4. Len(Tail(q)) = n /\ \A i \in 1 .. n : Tail(q)[i] = q[i + 1]
        BY <2>2, <2>5, <3>2, DropChunk
      <3>5. \A i \in 1 .. n : Tail(q)[i] = p + 1 - n + i
        BY <2>2, <2>6, <3>4
      <3>6. Len(scroll'[s]) = Room(s)'
        BY <3>1, <3>3, <3>4
      <3>7. ASSUME NEW i \in 1 .. Room(s)'
            PROVE  scroll'[s][i] = pushed'[s] - Room(s)' + i
        <4>1. i \in 1 .. n
          BY <3>1
        <4>2. scroll'[s][i] = Tail(q)[i]
          BY <3>3, Zenon
        <4>3. Tail(q)[i] = p + 1 - n + i
          BY <3>5, <4>1
        <4>4. pushed'[s] - Room(s)' + i = p + 1 - n + i
          <5>1. PICK a, b : a = pushed'[s] /\ b = Room(s)'
            OBVIOUS
          <5>2. a = p + 1 /\ b = n
            BY <2>3, <3>1, <5>1
          <5>3. a - b + i = p + 1 - n + i
            BY <2>2, <4>1, <5>2
          <5> QED  BY <5>1, <5>3, Zenon
        <4> QED  BY <4>2, <4>3, <4>4, Zenon
      <3> QED  BY <1>4, <3>6, <3>7 DEF Latest
    <2> QED  BY <2>2, <2>7, <2>8
  <1> QED  BY <1>3, <1>4

LEMMA ScrollReap ==
    ASSUME TypeOK, ScrollInv, NEW s \in Calls, ReapStep(s)
    PROVE  ScrollInv'
  <1> USE DEF TypeOK, sessVars, viewVars, outVars
  <1>1. CASE ReapSettle(s)
    BY <1>1, ScrollStutter DEF ReapSettle
  <1>2. CASE ReapEmit(s)
    <2>1. CASE UNCHANGED <<scroll, stopped>>
      BY <1>2, <2>1, ScrollStutter DEF ReapEmit
    <2>2. CASE /\ scroll' = [c \in Calls |->
                               IF c = terminals[req[s].id] THEN <<>>
                                                           ELSE scroll[c]]
               /\ stopped' = [c \in Calls |->
                               stopped[c] \/ c = terminals[req[s].id]]
      <3>1. pushed' = pushed
        BY <1>2 DEF ReapEmit
      <3>2. ASSUME NEW c \in Calls, ~stopped'[c]  PROVE Latest(c)'
        <4>1. ~stopped[c] /\ scroll'[c] = scroll[c] /\ pushed'[c] = pushed[c]
          BY <2>2, <3>1, <3>2
        <4>2. Latest(c)
          BY <4>1 DEF ScrollInv
        <4> QED  BY <4>1, <4>2 DEF Latest, Room
      <3> QED  BY <3>2 DEF ScrollInv
    <2> QED  BY <1>2, <2>1, <2>2 DEF ReapEmit
  <1>3. CASE ReapWait(s) \/ ReapClose(s) \/ ReapCapture(s)
    BY <1>3, ScrollStutter DEF ReapWait, ReapClose, ReapCapture
  <1> QED  BY <1>1, <1>2, <1>3 DEF ReapStep

LEMMA ScrollNext == TypeOK /\ ScrollInv /\ [Next]_vars => ScrollInv'
  <1> SUFFICES ASSUME TypeOK, ScrollInv, [Next]_vars  PROVE ScrollInv'
    OBVIOUS
  <1>1. CASE \/ \E c \in Calls : Arrive(c) \/ CallStep(c)
             \/ \E s \in Calls :
                   \/ PumpRead(s) \/ PumpCapture(s) \/ PumpEmit(s)
                   \/ PumpEnd(s) \/ TickStep(s) \/ GraceKill(s)
                   \/ ShellExit(s)
             \/ \E id \in Ids : UserClose(id) \/ UserKill(id)
             \/ ShutBegin \/ ShutStep
             \/ UNCHANGED vars
    <2>1. UNCHANGED outVars /\ \A s \in Calls : stopped[s] => stopped'[s]
      BY <1>1 DEF Arrive, CallStep, Refuse, Reserve, TooMany, Exists,
         FindExisting, SpawnFail, Spawn, Store, AttachGet, AttachSwap,
         CaptureOpened, EmitOpened, Return, PumpRead, PumpCapture, PumpEmit,
         PumpEnd, TickStep, TickFire, TickStop, TickCapture, TickEmit,
         GraceKill, ShellExit, UserClose, UserKill, ShutBegin, ShutStep,
         ShutClose, ShutSweep, ShutKill, ShutExit, vars, sessVars, viewVars,
         outVars, TypeOK
    <2> QED  BY <2>1, ScrollStutter
  <1> QED  BY <1>1, ScrollPush, ScrollReap DEF Next, PumpStep

(***************************************************************************)
(* Reconnecting leaves no hole: a chunk pushed after the new receiver took *)
(* over is sent to it, and one pushed before can be replayed for as long   *)
(* as the terminal lasts and MaxScroll later chunks have not taken its     *)
(* place (Attach, pump, push and Forget).                                  *)
(***************************************************************************)
THEOREM ReconnectLosesNothing == Spec => []ReattachMissesNothing
  <1>1. Init => StreamInv /\ ScrollInv  BY StreamInit, ScrollInit
  <1>2. /\ TypeOK /\ ReceiverInv /\ StreamInv /\ ScrollInv
        /\ [Next]_vars
        => StreamInv' /\ ScrollInv'
    BY StreamNext, ScrollNext
  <1>3. TypeOK /\ StreamInv /\ ScrollInv => ReattachMissesNothing
    <2> SUFFICES ASSUME TypeOK, StreamInv, ScrollInv, NEW s \in Calls,
                        NEW k \in 1 .. pushed[s]
                 PROVE  IF k > since[emit[s]] THEN Sent(s, k)
                                              ELSE Replayed(s, k)
      BY DEF ReattachMissesNothing
    <2>1. /\ pushed[s] \in Nat /\ since[emit[s]] \in Nat
          /\ MaxScroll \in Nat \ {0}
      BY TerminalAssumption DEF TypeOK
    <2>2. k > since[emit[s]] => Sent(s, k)
      BY <2>1 DEF StreamInv, NoEventMissed, Sent
    <2>3. ASSUME ~stopped[s], k > pushed[s] - MaxScroll
          PROVE  \E i \in DOMAIN scroll[s] : scroll[s][i] = k
      <3> DEFINE i == k - (pushed[s] - Room(s))
      <3>1. Room(s) \in Nat /\ i \in 1 .. Room(s)
        BY <2>1, <2>3 DEF Room
      <3>2. Latest(s) /\ DOMAIN scroll[s] = 1 .. Len(scroll[s])
        BY <2>3 DEF ScrollInv, TypeOK
      <3>3. i \in DOMAIN scroll[s] /\ scroll[s][i] = pushed[s] - Room(s) + i
        BY <3>1, <3>2 DEF Latest
      <3>4. scroll[s][i] = k
        BY <2>1, <3>1, <3>3
      <3> QED  BY <3>3, <3>4
    <2>4. Replayed(s, k)
      BY <2>1, <2>3 DEF Replayed
    <2> QED  BY <2>2, <2>4
  <1> QED  BY <1>1, <1>2, <1>3, TypeCorrect, ReceiverAlways, PTL DEF Spec
=============================================================================
