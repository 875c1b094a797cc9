----------------------------- MODULE McpProofs -----------------------------
(***************************************************************************)
(* Theorems about Mcp, for any number of calls and of processes, whatever  *)
(* the grants file holds and whatever the servers answer.                  *)
(***************************************************************************)
EXTENDS Mcp, SequenceTheorems, FiniteSetTheorems, TLAPS

-----------------------------------------------------------------------------
(* Type correctness, and how a connection hangs together.                  *)

\* What is in the pipes to and from a server.
Messages == [id : Ids, from : Calls, kind : {"hello", "tool"},
             moved : BOOLEAN, asks : Requests]
Outs     == [id : Ids, from : Calls, kind : {"result", "error"}]

CallType ==
    /\ pc \in [Calls -> Labels]
    /\ req \in [Calls -> Requests \cup {Nil}]
    /\ startMu \in Calls \cup {Nil}
    /\ sent \in [Calls -> (Ids \cup {0}) \X (Gens \cup {0})]
    /\ box \in [Calls -> Boxes \cup {Nil}]
    /\ ensured \in [Calls -> Gens \cup {0}]

ConnType ==
    /\ file \in Files
    /\ {gen, cmd, stdin} \subseteq Gens \cup {0}
    /\ dead \in BOOLEAN
    /\ nextID \in 1 .. NCalls + 2
    /\ waiting \in [Ids -> Calls \cup {Nil}]
    /\ armed \in BOOLEAN
    /\ closing \in Gens \cup {0, Nil}

PipeType ==
    /\ srv \in [Gens -> {"none", "up", "gone"}]
    /\ shut \subseteq Gens
    /\ kill \subseteq Gens
    /\ inbox \in [Gens -> SUBSET Messages]
    /\ out \in [Gens -> Seq(Outs)]
    /\ \A g \in Gens : Len(out[g]) <= MaxOut
    /\ reader \in [Gens -> {"none", "reads", "done"}]

PastType == greeted \cup crossed \cup struck \subseteq Gens

\* Whoever closes after a failed start holds startMu, and who holds it is
\* starting; and a call that was let in asks for something.
MuInv ==
    /\ \A c \in Calls : pc[c] = "close" => startMu = c
    /\ startMu # Nil => pc[startMu] \in {"request", "write", "await", "close"}
    /\ \A c \in Calls : pc[c] \in Labels \ {"idle", "done"} =>
                           req[c] \in Requests

\* c.cmd and c.stdin are those of the last generation, or nil; a Close that
\* is under way took no later one, and left none of its own in c.cmd; and a
\* generation that was not spawned has nothing.
GenInv ==
    /\ cmd \in {0, gen}
    /\ dead => stdin = 0
    /\ ~dead => stdin = gen /\ gen # 0
    /\ closing # Nil => closing <= gen
    /\ closing = gen /\ gen # 0 => cmd = 0
    /\ \A g \in Gens : g > gen =>
          srv[g] = "none" /\ inbox[g] = {} /\ out[g] = <<>> /\ reader[g] = "none"

\* Who is in c.waiting waits, for this request, and has no answer yet.
WaitInv ==
    /\ \A i \in Ids : waiting[i] # Nil =>
          /\ pc[waiting[i]] \in {"write", "await"}
          /\ box[waiting[i]] = Nil
          /\ sent[waiting[i]] = <<i, gen>>
    /\ \A c \in Calls : box[c] # Nil => pc[c] \in {"write", "await"}

\* What a call writes has an id, and goes to a generation that was spawned.
SentInv == \A c \in Calls : pc[c] = "write" =>
    sent[c][1] \in Ids /\ sent[c][2] \in Gens /\ sent[c][2] <= gen

\* Calls that have made their tool request, or make the initialize; each takes
\* one id of a generation, so that the ids suffice.
Past == {c \in Calls : pc[c] \in {"write", "await", "close", "done"}}

CountInv ==
    /\ startMu = Nil => nextID <= 2 + Cardinality(Past)
    /\ startMu # Nil => nextID <= 1 + Cardinality(Past)

Base == /\ CallType /\ ConnType /\ PipeType /\ PastType
        /\ MuInv /\ GenInv /\ WaitInv /\ SentInv /\ CountInv

LEMMA Numbers == /\ NCalls \in Nat /\ MaxGen \in Nat
                 /\ Gens \subseteq Nat /\ 0 \notin Gens
                 /\ Calls \subseteq Nat /\ Ids \subseteq Nat /\ 0 \notin Ids
                 /\ Nil \notin Calls /\ Nil \notin Ids /\ Nil \notin Gens
                 /\ Nil # 0 /\ Nil \notin Boxes
  BY McpAssumption, NilAssumption DEF Gens, Calls, Ids

LEMMA GenIsNat ==
    ASSUME ConnType
    PROVE  gen \in Gens \cup {0} /\ gen \in Nat
  <1>1. gen \in Gens \cup {0}
    BY DEF ConnType
  <1> QED  BY <1>1, Numbers

LEMMA BaseTypes == Base => TypeOK
  <1> SUFFICES ASSUME Base PROVE TypeOK
    OBVIOUS
  <1>1. \A g \in Gens : \A m \in inbox[g] : m.id \in Ids /\ m.from \in Calls
    BY DEF Base, PipeType, Messages
  <1> QED
    BY <1>1 DEF Base, CallType, ConnType, PipeType, PastType, TypeOK

LEMMA BaseInit == Init => Base
  <1> SUFFICES ASSUME Init PROVE Base
    OBVIOUS
  <1>1. CallType
    <2>1. "idle" \in Labels
      BY DEF Labels
    <2> QED  BY <2>1 DEF Init, CallType
  <1>2. ConnType
    <2>1. 1 \in 1 .. NCalls + 2
      BY Numbers
    <2> QED  BY <2>1 DEF Init, ConnType
  <1>3. PipeType
    <2>1. <<>> \in Seq(Outs) /\ Len(<<>>) = 0 /\ 0 <= MaxOut
      BY McpAssumption
    <2> QED  BY <2>1 DEF Init, PipeType
  <1>4. PastType
    BY DEF Init, PastType
  <1>5. MuInv
    BY DEF Init, MuInv
  <1>6. GenInv
    BY Numbers DEF Init, GenInv
  <1>7. WaitInv
    BY DEF Init, WaitInv
  <1>10. SentInv
    BY DEF Init, SentInv
  <1>8. Past = {}
    BY DEF Init, Past
  <1>9. CountInv
    BY <1>8, FS_EmptySet DEF Init, CountInv
  <1> QED  BY <1>1, <1>2, <1>3, <1>4, <1>5, <1>6, <1>7, <1>9, <1>10 DEF Base

\* How many calls there are.
LEMMA PastIs ==
    /\ IsFiniteSet(Past) /\ Cardinality(Past) \in Nat
    /\ Cardinality(Past) <= NCalls
    /\ \A c \in Calls : c \notin Past =>
          /\ IsFiniteSet(Past \cup {c})
          /\ Cardinality(Past \cup {c}) = Cardinality(Past) + 1
          /\ Cardinality(Past) + 1 <= NCalls
    /\ \A c \in Past : /\ IsFiniteSet(Past \ {c})
                       /\ Cardinality(Past \ {c}) = Cardinality(Past) - 1
  <1>1. Past \subseteq Calls
    BY DEF Past
  <1>2. IsFiniteSet(Calls) /\ Cardinality(Calls) = NCalls
    <2>1. 1 \in Int /\ NCalls \in Int /\ NCalls \in Nat
      BY Numbers
    <2>2. /\ IsFiniteSet(1 .. NCalls)
          /\ Cardinality(1 .. NCalls) = IF 1 > NCalls THEN 0 ELSE NCalls - 1 + 1
      BY <2>1, FS_Interval
    <2> QED  BY <2>1, <2>2 DEF Calls
  <1>3. ASSUME NEW S, S \subseteq Calls
        PROVE  /\ IsFiniteSet(S) /\ Cardinality(S) \in Nat
               /\ Cardinality(S) <= NCalls
    BY <1>2, <1>3, FS_Subset, FS_CardinalityType
  <1>4. ASSUME NEW c \in Calls, c \notin Past
        PROVE  /\ IsFiniteSet(Past \cup {c})
               /\ Cardinality(Past \cup {c}) = Cardinality(Past) + 1
               /\ Cardinality(Past) + 1 <= NCalls
    <2>1. Past \cup {c} \subseteq Calls
      BY <1>1
    <2> QED  BY <1>1, <1>3, <1>4, <2>1, FS_AddElement
  <1>5. ASSUME NEW c \in Past
        PROVE  /\ IsFiniteSet(Past \ {c})
               /\ Cardinality(Past \ {c}) = Cardinality(Past) - 1
    BY <1>1, <1>3, FS_RemoveElement
  <1> QED  BY <1>1, <1>3, <1>4, <1>5

\* The other calls are as they were.
OthersStay(c) == \A d \in Calls : d # c =>
    /\ pc'[d] = pc[d] /\ req'[d] = req[d] /\ sent'[d] = sent[d]
    /\ box'[d] = box[d] /\ ensured'[d] = ensured[d]

LEMMA GotoIs ==
    ASSUME CallType, NEW c \in Calls, NEW l \in Labels, Goto(c, l)
    PROVE  /\ pc' \in [Calls -> Labels]
           /\ \A d \in Calls : pc'[d] = IF d = c THEN l ELSE pc[d]
  BY DEF CallType, Goto

\* What a failure makes of a call.
LEMMA EndIs ==
    ASSUME CallType, NEW c \in Calls, End(c), startMu' \in Calls \cup {Nil}
    PROVE  /\ CallType' /\ OthersStay(c)
           /\ pc'[c] = "done" /\ box'[c] = Nil
  <1>1. "done" \in Labels /\ <<0, 0>> \in (Ids \cup {0}) \X (Gens \cup {0})
    BY DEF Labels
  <1>2. /\ pc' \in [Calls -> Labels]
        /\ \A d \in Calls : pc'[d] = IF d = c THEN "done" ELSE pc[d]
    BY <1>1, GotoIs DEF End
  <1>3. /\ req' \in [Calls -> Requests \cup {Nil}]
        /\ \A d \in Calls : d # c => req'[d] = req[d]
    BY DEF End, CallType
  <1>4. /\ sent' \in [Calls -> (Ids \cup {0}) \X (Gens \cup {0})]
        /\ \A d \in Calls : d # c => sent'[d] = sent[d]
    BY <1>1 DEF End, CallType
  <1>5. /\ box' \in [Calls -> Boxes \cup {Nil}] /\ box'[c] = Nil
        /\ \A d \in Calls : d # c => box'[d] = box[d]
    BY DEF End, CallType
  <1>6. /\ ensured' \in [Calls -> Gens \cup {0}]
        /\ \A d \in Calls : d # c => ensured'[d] = ensured[d]
    BY DEF End, CallType
  <1> QED  BY <1>2, <1>3, <1>4, <1>5, <1>6 DEF CallType, OthersStay

LEMMA FailsIs ==
    ASSUME CallType, NEW c \in Calls, Fails(c), startMu' = startMu
    PROVE  /\ CallType' /\ OthersStay(c) /\ box'[c] = Nil
           /\ startMu = c => pc'[c] = "close" /\ req' = req
           /\ startMu # c => pc'[c] = "done"
  <1>1. CASE startMu = c
    <2>1. "close" \in Labels /\ <<0, 0>> \in (Ids \cup {0}) \X (Gens \cup {0})
      BY DEF Labels
    <2>2. /\ Goto(c, "close") /\ sent' = [sent EXCEPT ![c] = <<0, 0>>]
          /\ box' = [box EXCEPT ![c] = Nil] /\ UNCHANGED <<req, ensured>>
      BY <1>1 DEF Fails, Greets
    <2>3. /\ pc' \in [Calls -> Labels]
          /\ \A d \in Calls : pc'[d] = IF d = c THEN "close" ELSE pc[d]
      BY <2>1, <2>2, GotoIs
    <2>4. /\ sent' \in [Calls -> (Ids \cup {0}) \X (Gens \cup {0})]
          /\ \A d \in Calls : d # c => sent'[d] = sent[d]
      BY <2>1, <2>2 DEF CallType
    <2>5. /\ box' \in [Calls -> Boxes \cup {Nil}] /\ box'[c] = Nil
          /\ \A d \in Calls : d # c => box'[d] = box[d]
      BY <2>2 DEF CallType
    <2> QED  BY <1>1, <2>2, <2>3, <2>4, <2>5 DEF CallType, OthersStay
  <1>2. CASE startMu # c
    <2>1. End(c) /\ startMu' \in Calls \cup {Nil}
      BY <1>2 DEF Fails, Greets, CallType
    <2> QED  BY <1>2, <2>1, EndIs
  <1> QED  BY <1>1, <1>2

\* The ids that are left, when one call takes a step.
LEMMA CountStep ==
    ASSUME Base, NEW c \in Calls, OthersStay(c),
           \/ /\ nextID' = nextID /\ startMu' = startMu
              /\ c \in Past => c \in Past'
           \/ /\ nextID' = nextID + 1 /\ startMu' = startMu
              /\ c \notin Past /\ c \in Past'
           \/ nextID' = nextID /\ startMu # Nil /\ startMu' = Nil
           \/ nextID' = 1 /\ c \notin Past
    PROVE  CountInv'
  <1>1. Past' = Past \/ (c \notin Past /\ Past' = Past \cup {c})
        \/ (c \in Past /\ Past' = Past \ {c})
    BY DEF Past, OthersStay
  <1>2. nextID \in Nat
    BY Numbers DEF Base, ConnType
  <1>3. /\ Cardinality(Past) \in Nat
        /\ c \in Past => Cardinality(Past \ {c}) = Cardinality(Past) - 1
        /\ c \notin Past => Cardinality(Past \cup {c}) = Cardinality(Past) + 1
    BY PastIs
  <1>4. /\ startMu = Nil => nextID <= 2 + Cardinality(Past)
        /\ startMu # Nil => nextID <= 1 + Cardinality(Past)
    BY DEF Base, CountInv
  <1>5. /\ Past' = Past => Cardinality(Past') = Cardinality(Past)
        /\ c \notin Past /\ Past' = Past \cup {c} =>
             Cardinality(Past') = Cardinality(Past) + 1
        /\ c \in Past /\ Past' = Past \ {c} =>
             Cardinality(Past') = Cardinality(Past) - 1
    BY <1>3
  <1>6. c \in Past => Past' = Past \/ Past' = Past \ {c}
    BY <1>1
  <1>7. c \in Past /\ c \in Past' => Past' = Past
    BY <1>1
  <1>8. c \notin Past /\ c \in Past' => Past' = Past \cup {c}
    BY <1>1
  <1> DEFINE n == Cardinality(Past)
             m == Cardinality(Past')
  <1>9. n \in Nat /\ (m = n \/ m = n + 1 \/ m = n - 1)
        /\ (c \notin Past => m = n \/ m = n + 1)
        /\ (c \in Past /\ c \in Past' => m = n)
        /\ (c \notin Past /\ c \in Past' => m = n + 1)
    BY <1>1, <1>3, <1>5, <1>6, <1>7, <1>8
  <1> HIDE DEF n, m
  <1>10. /\ startMu' = Nil => nextID' <= 2 + m
         /\ startMu' # Nil => nextID' <= 1 + m
    BY <1>2, <1>4, <1>9 DEF n
  <1> QED  BY <1>10 DEF CountInv, m

\* Nobody comes into the map.
LEMMA WaitStep ==
    ASSUME Base, NEW c \in Calls, OthersStay(c), gen' = gen,
           \A n \in Ids : waiting'[n] \in {waiting[n], Nil} \ {c},
           box'[c] # Nil => pc'[c] \in {"write", "await"}
    PROVE  WaitInv'
  <1>1. WaitInv /\ waiting \in [Ids -> Calls \cup {Nil}]
    BY DEF Base, ConnType
  <1>2. ASSUME NEW n \in Ids, waiting'[n] # Nil
        PROVE  /\ pc'[waiting'[n]] \in {"write", "await"}
               /\ box'[waiting'[n]] = Nil
               /\ sent'[waiting'[n]] = <<n, gen'>>
    <2>1. waiting'[n] = waiting[n] /\ waiting[n] \in Calls /\ waiting[n] # c
      BY <1>1, <1>2
    <2> QED  BY <1>1, <1>2, <2>1 DEF WaitInv, OthersStay
  <1>3. ASSUME NEW d \in Calls, box'[d] # Nil
        PROVE  pc'[d] \in {"write", "await"}
    BY <1>1, <1>3 DEF WaitInv, OthersStay
  <1> QED  BY <1>2, <1>3 DEF WaitInv

\* Who has no request under way, or has its answer, is not in the map.
LEMMA NotWaiting ==
    ASSUME Base, NEW c \in Calls, pc[c] \notin {"write", "await"} \/ box[c] # Nil
    PROVE  \A n \in Ids : waiting[n] # c
  BY Numbers DEF Base, WaitInv

\* Nobody begins to write.
LEMMA SentStep ==
    ASSUME Base, gen' \in {gen, gen + 1},
           \A c \in Calls :
              pc'[c] = "write" => pc[c] = "write" /\ sent'[c] = sent[c]
    PROVE  SentInv'
  <1> SUFFICES ASSUME NEW c \in Calls, pc'[c] = "write"
               PROVE  /\ sent'[c][1] \in Ids /\ sent'[c][2] \in Gens
                      /\ sent'[c][2] <= gen'
    BY DEF SentInv
  <1>1. /\ sent'[c] = sent[c]
        /\ sent[c][1] \in Ids /\ sent[c][2] \in Gens /\ sent[c][2] <= gen
    BY DEF Base, SentInv
  <1>2. gen \in Nat /\ sent[c][2] \in Nat
    BY <1>1, GenIsNat, Numbers DEF Base
  <1>3. \A a, b \in Nat : a <= b => a <= b + 1
    OBVIOUS
  <1> QED  BY <1>1, <1>2, <1>3

LEMMA BaseBegins ==
    ASSUME Base, NEW c \in Calls,
           (\E r \in Requests : Begin(c, r)) \/ Ensure(c) \/ SpawnFails(c)
    PROVE  Base'
  <1> USE DEF Base
  <1>1. pc[c] \in {"idle", "lock"} /\ startMu' = startMu
        /\ UNCHANGED <<file, gen, cmd, stdin, dead, nextID, waiting, closing,
                       procVars, history>>
    BY DEF Begin, Ensure, SpawnFails, connVars
  <1>2. startMu # c /\ box[c] = Nil /\ c \notin Past
    BY <1>1, Numbers DEF MuInv, WaitInv, Past
  <1> DEFINE Started == /\ CallType' /\ OthersStay(c) /\ box'[c] = Nil
                        /\ pc'[c] \in {"lock", "request", "done"}
                        /\ pc'[c] # "done" => req'[c] \in Requests
  <1>3. Started
    <2>1. ASSUME NEW r \in Requests, Begin(c, r)  PROVE Started
      <3>0. UNCHANGED <<startMu, sent, box, ensured>>
        BY <2>1 DEF Begin
      <3>1. CASE Goto(c, "lock") /\ req' = [req EXCEPT ![c] = r]
        <4>1. /\ pc' \in [Calls -> Labels]
              /\ \A d \in Calls : pc'[d] = IF d = c THEN "lock" ELSE pc[d]
          BY <3>1, GotoIs DEF Labels
        <4>2. /\ req' \in [Calls -> Requests \cup {Nil}] /\ req'[c] = r
              /\ \A d \in Calls : d # c => req'[d] = req[d]
          BY <3>1 DEF CallType
        <4> QED  BY <1>2, <3>0, <4>1, <4>2 DEF CallType, OthersStay
      <3>2. CASE Goto(c, "done") /\ UNCHANGED req
        <4>1. /\ pc' \in [Calls -> Labels]
              /\ \A d \in Calls : pc'[d] = IF d = c THEN "done" ELSE pc[d]
          BY <3>2, GotoIs DEF Labels
        <4> QED  BY <1>2, <3>0, <3>2, <4>1 DEF CallType, OthersStay
      <3> QED  BY <2>1, <3>1, <3>2 DEF Begin
    <2>2. CASE Ensure(c)
      <3>1. /\ pc' \in [Calls -> Labels]
            /\ \A d \in Calls : pc'[d] = IF d = c THEN "request" ELSE pc[d]
        BY <2>2, GotoIs DEF Ensure, Labels
      <3>2. /\ ensured' \in [Calls -> Gens \cup {0}]
            /\ \A d \in Calls : d # c => ensured'[d] = ensured[d]
        BY <2>2 DEF Ensure, CallType, ConnType
      <3>3. req[c] \in Requests
        BY <2>2 DEF Ensure, MuInv, Labels
      <3> QED  BY <1>2, <2>2, <3>1, <3>2, <3>3 DEF Ensure, CallType, OthersStay
    <2>3. CASE SpawnFails(c)
      <3>1. End(c) /\ startMu' \in Calls \cup {Nil}
        BY <2>3 DEF SpawnFails, CallType
      <3> QED  BY <3>1, EndIs
    <2> QED  BY <2>1, <2>2, <2>3
  <1>4. ConnType'
    <2>1. armed' \in BOOLEAN
      BY DEF Begin, Ensure, SpawnFails, connVars, ConnType
    <2> QED  BY <1>1, <2>1 DEF ConnType
  <1>5. PipeType' /\ PastType' /\ GenInv'
    BY <1>1 DEF PipeType, PastType, GenInv, procVars, history
  <1>6. MuInv'
    BY <1>1, <1>2, <1>3, Numbers DEF MuInv, OthersStay, CallType
  <1>7. WaitInv'
    <2>1. \A n \in Ids : waiting[n] # c
      BY <1>1, NotWaiting
    <2> QED  BY <1>1, <1>3, <2>1, WaitStep DEF ConnType
  <1>8. CountInv'
    BY <1>1, <1>2, <1>3, CountStep
  <1>9. SentInv'
    BY <1>1, <1>3, SentStep DEF OthersStay
  <1> QED  BY <1>3, <1>4, <1>5, <1>6, <1>7, <1>8, <1>9

LEMMA BaseSpawn ==
    ASSUME Base, NEW c \in Calls, Spawn(c)
    PROVE  Base'
  <1> USE DEF Base
  <1>1. /\ pc[c] = "lock" /\ startMu = Nil /\ dead /\ gen < MaxGen
        /\ startMu' = c /\ gen' = gen + 1 /\ cmd' = gen' /\ stdin' = gen'
        /\ ~dead' /\ dead' = FALSE /\ nextID' = 1 /\ waiting' = [n \in Ids |-> Nil]
        /\ armed' = TRUE
        /\ srv' = [srv EXCEPT ![gen'] = "up"]
        /\ reader' = [reader EXCEPT ![gen'] = "reads"] /\ Goto(c, "request")
        /\ UNCHANGED <<file, req, sent, box, ensured, closing, shut,
                       kill, inbox, out, history>>
    BY DEF Spawn
  <1>2. /\ pc' \in [Calls -> Labels]
        /\ \A d \in Calls : pc'[d] = IF d = c THEN "request" ELSE pc[d]
    BY <1>1, GotoIs DEF Labels
  <1>3. gen \in Nat /\ gen' \in Gens /\ gen' \in Nat /\ gen < gen' /\ gen' # 0
    BY <1>1, Numbers DEF ConnType, Gens
  <1>4. CallType' /\ OthersStay(c)
    BY <1>1, <1>2 DEF CallType, OthersStay
  <1>5. ConnType'
    <2>1. 1 \in 1 .. NCalls + 2
      BY Numbers
    <2>2. gen' \in Gens \cup {0} /\ cmd' \in Gens \cup {0}
          /\ stdin' \in Gens \cup {0}
      BY <1>1, <1>3
    <2>3. nextID' \in 1 .. NCalls + 2 /\ waiting' \in [Ids -> Calls \cup {Nil}]
          /\ dead' \in BOOLEAN /\ armed' \in BOOLEAN
      BY <1>1, <2>1
    <2> QED  BY <1>1, <2>2, <2>3 DEF ConnType
  <1>6. PipeType' /\ PastType'
    BY <1>1, <1>3 DEF PipeType, PastType, history
  <1>7. MuInv'
    <2>1. req[c] \in Requests
      BY <1>1 DEF MuInv, Labels
    <2>2. \A d \in Calls : pc[d] # "close"
      BY <1>1, Numbers DEF MuInv
    <2> QED  BY <1>1, <1>2, <2>1, <2>2 DEF MuInv
  <1>8. GenInv'
    <2>1. closing' # Nil => closing' <= gen' /\ closing' # gen'
      BY <1>1, <1>3, Numbers DEF GenInv, ConnType
    <2>2. ASSUME NEW g \in Gens, g > gen'
          PROVE  /\ srv'[g] = "none" /\ inbox'[g] = {} /\ out'[g] = <<>>
                 /\ reader'[g] = "none"
      <3>1. g > gen /\ g # gen'
        BY <1>3, <2>2, Numbers
      <3> QED  BY <1>1, <3>1 DEF GenInv, PipeType
    <2>3. closing' = gen' /\ gen' # 0 => cmd' = 0
      BY <1>3, <2>1, Numbers
    <2> QED  BY <1>1, <1>3, <2>1, <2>2, <2>3 DEF GenInv
  <1>9. WaitInv'
    <2>1. \A d \in Calls : box'[d] # Nil => pc'[d] \in {"write", "await"}
      <3>1. box[c] = Nil
        BY <1>1 DEF WaitInv
      <3> QED  BY <1>1, <1>2, <3>1 DEF WaitInv
    <2> QED  BY <1>1, <2>1 DEF WaitInv
  <1>10. CountInv'
    <2>1. c \notin Past
      BY <1>1 DEF Past
    <2> QED  BY <1>1, <1>4, <2>1, CountStep
  <1>11. SentInv'
    BY <1>1, <1>2, SentStep
  <1> QED  BY <1>4, <1>5, <1>6, <1>7, <1>8, <1>9, <1>10, <1>11

\* An id is left for every request.
LEMMA NextIs ==
    ASSUME Base, NEW c \in Calls, pc[c] = "request"
    PROVE  nextID \in Ids /\ nextID + 1 \in 1 .. NCalls + 2 /\ c \notin Past
  <1>1. c \notin Past
    BY DEF Past
  <1>2. Cardinality(Past) \in Nat /\ Cardinality(Past) + 1 <= NCalls
    BY <1>1, PastIs
  <1>3. nextID \in Nat /\ nextID >= 1 /\ NCalls \in Nat
    BY Numbers DEF Base, ConnType
  <1>4. nextID <= 2 + Cardinality(Past)
    BY <1>2, <1>3 DEF Base, CountInv
  <1> QED  BY <1>1, <1>2, <1>3, <1>4 DEF Ids

\* A call fails: with it goes its place in the map.
LEMMA BaseFails ==
    ASSUME Base, NEW c \in Calls, pc[c] \in {"request", "write", "await"}, Fails(c),
           UNCHANGED <<file, startMu, gen, cmd, stdin, dead, armed, closing,
                       procVars, history>>,
           \/ nextID' = nextID
           \/ pc[c] = "request" /\ nextID' = nextID + 1,
           waiting' = waiting \/ waiting' = Forget(c),
           \A n \in Ids : waiting'[n] # c
    PROVE  Base'
  <1> USE DEF Base
  <1>1. /\ CallType' /\ OthersStay(c) /\ box'[c] = Nil
        /\ startMu = c => pc'[c] = "close" /\ req' = req
        /\ startMu # c => pc'[c] = "done"
    BY FailsIs
  <1>2. /\ waiting' \in [Ids -> Calls \cup {Nil}]
        /\ \A n \in Ids : waiting'[n] \in {waiting[n], Nil}
    BY DEF Forget, ConnType
  <1>3. ConnType'
    <2>1. nextID' \in 1 .. NCalls + 2
      BY NextIs DEF ConnType
    <2> QED  BY <1>2, <2>1 DEF ConnType
  <1>4. PipeType' /\ PastType' /\ GenInv'
    BY DEF PipeType, PastType, GenInv, procVars, history
  <1>5. MuInv'
    <2>1. ASSUME NEW d \in Calls, pc'[d] = "close"  PROVE startMu' = d
      BY <1>1, <2>1 DEF MuInv, OthersStay
    <2>2. startMu' # Nil => pc'[startMu'] \in
                        {"request", "write", "await", "close"}
      BY <1>1 DEF MuInv, OthersStay, CallType
    <2>3. ASSUME NEW d \in Calls, pc'[d] \in Labels \ {"idle", "done"}
          PROVE  req'[d] \in Requests
      <3>1. CASE d = c
        BY <1>1, <2>3, <3>1 DEF MuInv, Labels
      <3>2. CASE d # c
        BY <1>1, <2>3, <3>2 DEF MuInv, OthersStay
      <3> QED  BY <3>1, <3>2
    <2> QED  BY <2>1, <2>2, <2>3 DEF MuInv
  <1>6. WaitInv'
    <2>1. \A n \in Ids : waiting'[n] \in {waiting[n], Nil} \ {c}
      BY <1>2
    <2> QED  BY <1>1, <2>1, WaitStep
  <1>7. CountInv'
    <2>1. c \in Past'
      BY <1>1 DEF Past
    <2>2. pc[c] = "request" => c \notin Past
      BY DEF Past
    <2> QED  BY <1>1, <2>1, <2>2, CountStep
  <1>8. SentInv'
    BY <1>1, SentStep DEF OthersStay
  <1> QED  BY <1>1, <1>3, <1>4, <1>5, <1>6, <1>7, <1>8

LEMMA BaseRequest ==
    ASSUME Base, NEW c \in Calls, Request(c)
    PROVE  Base'
  <1> USE DEF Base
  <1>1. /\ pc[c] = "request" /\ box[c] = Nil
        /\ UNCHANGED <<file, startMu, gen, cmd, stdin, dead, armed, closing,
                       procVars, history>>
    BY DEF Request, WaitInv
  <1>2. \A n \in Ids : waiting[n] # c
    BY <1>1, NotWaiting
  <1>3. CASE Fails(c) /\ UNCHANGED <<nextID, waiting>>
    BY <1>1, <1>2, <1>3, BaseFails
  <1>4. CASE /\ ~dead /\ nextID' = nextID + 1
             /\ waiting' = [waiting EXCEPT ![nextID] = c]
             /\ sent' = [sent EXCEPT ![c] = <<nextID, stdin>>]
             /\ Goto(c, "write")
             /\ UNCHANGED <<req, box, ensured>>
    <2>1. nextID \in Ids /\ nextID' \in 1 .. NCalls + 2 /\ c \notin Past
      BY <1>1, <1>4, NextIs
    <2>2. stdin = gen /\ stdin \in Gens
      BY <1>4 DEF GenInv, ConnType
    <2>3. /\ pc' \in [Calls -> Labels]
          /\ \A d \in Calls : pc'[d] = IF d = c THEN "write" ELSE pc[d]
      BY <1>4, GotoIs DEF Labels
    <2>4. /\ sent' \in [Calls -> (Ids \cup {0}) \X (Gens \cup {0})]
          /\ sent'[c] = <<nextID, gen>>
          /\ \A d \in Calls : d # c => sent'[d] = sent[d]
      <3>1. <<nextID, stdin>> \in (Ids \cup {0}) \X (Gens \cup {0})
        BY <2>1, <2>2
      <3> QED  BY <1>4, <2>2, <3>1 DEF CallType
    <2>5. CallType' /\ OthersStay(c)
      BY <1>1, <1>4, <2>3, <2>4 DEF CallType, OthersStay
    <2>6. /\ waiting' \in [Ids -> Calls \cup {Nil}]
          /\ \A n \in Ids : waiting'[n] = IF n = nextID THEN c ELSE waiting[n]
      BY <1>4, <2>1 DEF ConnType
    <2>7. ConnType' /\ PastType' /\ PipeType' /\ GenInv'
      BY <1>1, <2>1, <2>6 DEF ConnType, PastType, PipeType, GenInv, procVars,
         history
    <2>8. MuInv'
      BY <1>1, <1>4, <2>3 DEF MuInv, CallType, Labels
    <2>9. WaitInv'
      <3>1. ASSUME NEW n \in Ids, waiting'[n] # Nil
            PROVE  /\ pc'[waiting'[n]] \in {"write", "await"}
                   /\ box'[waiting'[n]] = Nil
                   /\ sent'[waiting'[n]] = <<n, gen'>>
        <4>1. CASE n = nextID
          BY <1>1, <1>4, <2>3, <2>4, <2>6, <4>1
        <4>2. CASE n # nextID
          BY <1>1, <1>2, <1>4, <2>3, <2>4, <2>6, <3>1, <4>2
          DEF WaitInv, ConnType
        <4> QED  BY <4>1, <4>2
      <3>2. \A d \in Calls : box'[d] # Nil => pc'[d] \in {"write", "await"}
        BY <1>4, <2>3 DEF WaitInv
      <3> QED  BY <3>1, <3>2 DEF WaitInv
    <2>10. SentInv'
      <3>1. gen <= gen
        BY GenIsNat
      <3>2. ASSUME NEW d \in Calls, pc'[d] = "write"
            PROVE  /\ sent'[d][1] \in Ids /\ sent'[d][2] \in Gens
                   /\ sent'[d][2] <= gen
        <4>1. CASE d = c
          BY <2>1, <2>2, <2>4, <3>1, <4>1
        <4>2. CASE d # c
          BY <2>3, <2>4, <3>2, <4>2 DEF SentInv
        <4> QED  BY <4>1, <4>2
      <3> QED  BY <1>1, <3>2 DEF SentInv
    <2>11. CountInv'
      <3>1. c \in Past'
        BY <2>3 DEF Past
      <3> QED  BY <1>1, <1>4, <2>1, <2>5, <3>1, CountStep
    <2> QED  BY <2>5, <2>7, <2>8, <2>9, <2>10, <2>11
  <1> QED  BY <1>3, <1>4 DEF Request, NextID

LEMMA BaseWritten ==
    ASSUME Base, NEW c \in Calls, Written(c)
    PROVE  Base'
  <1> USE DEF Base
  <1> DEFINE g == sent[c][2]
  <1>1. /\ pc[c] = "write" /\ Goto(c, "await") /\ srv[g] = "up"
        /\ inbox' = [inbox EXCEPT ![g] = @ \cup {Message(c)}]
        /\ ensured' = [ensured EXCEPT ![c] = 0]
        /\ UNCHANGED <<file, req, startMu, sent, box, connVars, closing, srv,
                       shut, kill, out, reader, history>>
    BY DEF Written, Open
  <1>2. sent[c][1] \in Ids /\ g \in Gens /\ g <= gen
    BY <1>1 DEF SentInv
  <1>3. /\ pc' \in [Calls -> Labels]
        /\ \A d \in Calls : pc'[d] = IF d = c THEN "await" ELSE pc[d]
    BY <1>1, GotoIs DEF Labels
  <1>4. /\ ensured' \in [Calls -> Gens \cup {0}]
        /\ \A d \in Calls : d # c => ensured'[d] = ensured[d]
    BY <1>1 DEF CallType
  <1>5. CallType' /\ OthersStay(c)
    BY <1>1, <1>3, <1>4 DEF CallType, OthersStay
  <1>6. Message(c) \in Messages
    <2>1. req[c] \in Requests
      BY <1>1 DEF MuInv, Labels
    <2>2. (IF Greets(c) THEN "hello" ELSE "tool") \in {"hello", "tool"}
          /\ (~Greets(c) /\ ensured[c] # sent[c][2]) \in BOOLEAN
      OBVIOUS
    <2> QED  BY <1>2, <2>1, <2>2 DEF Message, Messages
  <1> HIDE DEF g
  <1>7. ConnType' /\ PastType'
    BY <1>1 DEF ConnType, PastType, connVars, history
  <1>8. PipeType'
    BY <1>1, <1>2, <1>6 DEF PipeType
  <1>9. GenInv'
    <2>1. \A h \in Gens : h > gen => h # g
      BY <1>1 DEF GenInv
    <2>2. \A h \in Gens : h # g => inbox'[h] = inbox[h]
      BY <1>1 DEF PipeType
    <2> QED  BY <1>1, <2>1, <2>2 DEF GenInv, connVars
  <1>10. MuInv'
    BY <1>1, <1>3 DEF MuInv, CallType, Labels
  <1>11. WaitInv'
    BY <1>1, <1>3 DEF WaitInv, connVars, ConnType
  <1>12. SentInv'
    BY <1>1, <1>3, SentStep DEF connVars
  <1>13. CountInv'
    <2>1. c \in Past'
      BY <1>3 DEF Past
    <2> QED  BY <1>1, <1>5, <2>1, CountStep DEF connVars
  <1> QED  BY <1>5, <1>7, <1>8, <1>9, <1>10, <1>11, <1>12, <1>13

LEMMA BaseAnswered ==
    ASSUME Base, NEW c \in Calls, WriteFails(c) \/ Receive(c) \/ GiveUp(c)
    PROVE  Base'
  <1> USE DEF Base
  <1>1. CASE WriteFails(c) \/ GiveUp(c)
    <2>1. \A n \in Ids : waiting'[n] # c
      <3>1. waiting' = [waiting EXCEPT ![sent[c][1]] = Nil]
        BY <1>1 DEF WriteFails, GiveUp, Forget
      <3>2. ASSUME NEW n \in Ids  PROVE waiting'[n] # c
        <4>1. CASE waiting[n] = c
          <5>1. sent[c][1] = n
            BY <4>1, Numbers DEF WaitInv
          <5> QED  BY <3>1, <3>2, <5>1, Numbers DEF ConnType
        <4>2. CASE waiting[n] # c
          BY <3>1, <3>2, <4>2, Numbers DEF ConnType
        <4> QED  BY <4>1, <4>2
      <3> QED  BY <3>2
    <2> QED  BY <1>1, <2>1, BaseFails DEF WriteFails, GiveUp, TimesOut
  <1>2. CASE Receive(c) /\ Fails(c) /\ UNCHANGED <<startMu, armed>>
    <2>1. /\ pc[c] = "await" /\ box[c] # Nil
          /\ UNCHANGED <<file, gen, cmd, stdin, dead, nextID, waiting, closing,
                         procVars, history>>
      BY <1>2 DEF Receive
    <2>2. \A n \in Ids : waiting[n] # c
      BY <2>1, NotWaiting
    <2> QED  BY <1>2, <2>1, <2>2, BaseFails
  <1>3. CASE /\ startMu = c /\ pc[c] = "await" /\ box[c] # Nil
             /\ Goto(c, "request") /\ startMu' = Nil
             /\ box' = [box EXCEPT ![c] = Nil]
             /\ ensured' = [ensured EXCEPT ![c] = gen]
             /\ armed' = TRUE
             /\ UNCHANGED <<req, sent>>
             /\ UNCHANGED <<file, gen, cmd, stdin, dead, nextID, waiting,
                            closing, procVars, history>>
    <2>1. /\ pc' \in [Calls -> Labels]
          /\ \A d \in Calls : pc'[d] = IF d = c THEN "request" ELSE pc[d]
      BY <1>3, GotoIs DEF Labels
    <2>2. /\ box' \in [Calls -> Boxes \cup {Nil}] /\ box'[c] = Nil
          /\ \A d \in Calls : d # c => box'[d] = box[d]
      BY <1>3 DEF CallType
    <2>3. /\ ensured' \in [Calls -> Gens \cup {0}]
          /\ \A d \in Calls : d # c => ensured'[d] = ensured[d]
      BY <1>3 DEF CallType, ConnType
    <2>4. CallType' /\ OthersStay(c)
      BY <1>3, <2>1, <2>2, <2>3 DEF CallType, OthersStay
    <2>5. ConnType' /\ PipeType' /\ PastType' /\ GenInv'
      BY <1>3 DEF ConnType, PipeType, PastType, GenInv, procVars, history
    <2>6. MuInv'
      <3>1. ASSUME NEW d \in Calls  PROVE pc'[d] # "close"
        BY <1>3, <2>1 DEF MuInv
      <3>2. \A d \in Calls : pc'[d] \in Labels \ {"idle", "done"} =>
                               req'[d] \in Requests
        BY <1>3, <2>1 DEF MuInv, Labels
      <3> QED  BY <1>3, <3>1, <3>2 DEF MuInv
    <2>7. WaitInv'
      <3>1. \A n \in Ids : waiting[n] # c
        BY <1>3, NotWaiting
      <3> QED  BY <1>3, <2>2, <2>4, <3>1, WaitStep
    <2>8. CountInv'
      BY <1>3, <2>4, Numbers, CountStep
    <2>9. SentInv'
      BY <1>3, <2>1, SentStep
    <2> QED  BY <2>4, <2>5, <2>6, <2>7, <2>8, <2>9
  <1> QED  BY <1>1, <1>2, <1>3 DEF Receive, Greets

\* failAll: who waited gets an error, and the connection is dead.
LEMMA FailAllIs ==
    ASSUME Base, NEW g, FailAll(g)
    PROVE  /\ dead' = TRUE /\ stdin' = 0
           /\ waiting' \in [Ids -> Calls \cup {Nil}]
           /\ \A n \in Ids : waiting'[n] = Nil
           /\ box' \in [Calls -> Boxes \cup {Nil}]
           /\ \A c \in Calls :
                 \/ box'[c] = box[c]
                 \/ box'[c] = [kind |-> "error", from |-> c]
                    /\ pc[c] \in {"write", "await"}
           /\ struck' \subseteq Gens /\ struck \subseteq struck'
           /\ ~dead /\ g # gen => gen \in struck'
  <1> DEFINE hit == {waiting[n] : n \in Ids} \ {Nil}
  <1>1. /\ dead' = TRUE /\ stdin' = 0 /\ waiting' = [n \in Ids |-> Nil]
        /\ box' = [c \in Calls |-> IF c \in hit
                                   THEN [kind |-> "error", from |-> c]
                                   ELSE box[c]]
        /\ struck' = struck \cup (IF ~dead /\ g # gen THEN {gen} ELSE {})
    BY DEF FailAll
  <1>2. \A c \in hit : pc[c] \in {"write", "await"}
    BY DEF Base, WaitInv
  <1> HIDE DEF hit
  <1>3. \A c \in Calls : [kind |-> "error", from |-> c] \in Boxes
    BY DEF Boxes
  <1>4. box' \in [Calls -> Boxes \cup {Nil}]
    BY <1>1, <1>3 DEF Base, CallType
  <1>5. struck' \subseteq Gens
    BY <1>1 DEF Base, PastType, GenInv, ConnType
  <1> QED  BY <1>1, <1>2, <1>4, <1>5

\* The channel holds what it held, or the call's own error.
LEMMA ErrorIs ==
    ASSUME Base, NEW g, FailAll(g), NEW c \in Calls
    PROVE  box'[c] = box[c] \/ (box'[c].kind = "error" /\ box'[c].from = c)
  <1>1. \/ box'[c] = box[c]
        \/ box'[c] = [kind |-> "error", from |-> c]
    BY FailAllIs
  <1> QED  BY <1>1

\* ... by a read loop, or by a Close.
LEMMA BaseFailAll ==
    ASSUME Base, NEW g, FailAll(g),
           UNCHANGED <<file, sent, gen, nextID, srv, inbox, out, greeted,
                       crossed>>,
           armed' \in BOOLEAN, shut' \subseteq Gens, kill' \subseteq Gens,
           reader' \in [Gens -> {"none", "reads", "done"}],
           \A h \in Gens : reader[h] = "none" => reader'[h] = "none",
           cmd' \in {cmd, 0}, closing' \in {closing, Nil},
           UNCHANGED <<pc, startMu>> \/
             \E c \in Calls : /\ pc[c] = "close" /\ startMu' = Nil
                              /\ Goto(c, "done")
    PROVE  /\ ConnType' /\ PipeType' /\ PastType' /\ GenInv' /\ WaitInv'
  <1> USE DEF Base
  <1>1. /\ dead' = TRUE /\ stdin' = 0
        /\ waiting' \in [Ids -> Calls \cup {Nil}]
        /\ \A n \in Ids : waiting'[n] = Nil
        /\ box' \in [Calls -> Boxes \cup {Nil}]
        /\ \A c \in Calls :
              \/ box'[c] = box[c]
              \/ box'[c] = [kind |-> "error", from |-> c]
                    /\ pc[c] \in {"write", "await"}
        /\ struck' \subseteq Gens
    BY FailAllIs
  <1>2. ConnType'
    BY <1>1 DEF ConnType
  <1>3. PipeType' /\ PastType'
    BY <1>1 DEF PipeType, PastType
  <1>4. GenInv'
    BY <1>1, Numbers DEF GenInv, ConnType
  <1>5. \A c \in Calls : pc[c] \in {"write", "await"} =>
                          pc'[c] \in {"write", "await"}
    BY DEF CallType, Goto
  <1>6. WaitInv'
    BY <1>1, <1>5 DEF WaitInv
  <1> QED  BY <1>2, <1>3, <1>4, <1>6

LEMMA BaseCloses ==
    ASSUME Base,
           \/ \E c \in Calls : EnsureFails(c)
           \/ IdleFires \/ IdleCloses
           \/ \E g \in Gens : ReadEnds(g)
    PROVE  Base'
  <1> USE DEF Base
  <1>1. ASSUME CloseTakes
        PROVE  /\ cmd' = 0 /\ armed' = FALSE
               /\ shut' \subseteq Gens /\ kill' \subseteq Gens
    BY <1>1 DEF CloseTakes, SetKill, PipeType, ConnType
  \* Nothing happens to the calls, but what failAll does.
  <1>2. ASSUME UNCHANGED <<pc, req, startMu, sent, ensured, nextID, gen>>,
               box' \in [Calls -> Boxes \cup {Nil}]
        PROVE  CallType' /\ MuInv' /\ SentInv' /\ CountInv'
    <2>1. Past' = Past
      BY <1>2 DEF Past
    <2> QED  BY <1>2, <2>1 DEF CallType, MuInv, SentInv, CountInv
  <1>3. ASSUME NEW c \in Calls, EnsureFails(c)  PROVE Base'
    <2>1. /\ pc[c] = "close" /\ CloseTakes /\ FailAll(Taken) /\ startMu' = Nil
          /\ Goto(c, "done") /\ req' = [req EXCEPT ![c] = Nil]
          /\ UNCHANGED <<file, sent, ensured, gen, nextID, closing, srv, inbox,
                         out, reader, greeted, crossed>>
      BY <1>3 DEF EnsureFails
    <2>2. /\ pc' \in [Calls -> Labels]
          /\ \A d \in Calls : pc'[d] = IF d = c THEN "done" ELSE pc[d]
      BY <2>1, GotoIs DEF Labels
    <2>3. /\ req' \in [Calls -> Requests \cup {Nil}]
          /\ \A d \in Calls : d # c => req'[d] = req[d]
      BY <2>1 DEF CallType
    <2>4. box' \in [Calls -> Boxes \cup {Nil}]
      BY <2>1, FailAllIs
    <2>5. CallType'
      BY <2>1, <2>2, <2>3, <2>4 DEF CallType
    <2>6. startMu = c /\ startMu # Nil
      BY <2>1, Numbers DEF MuInv
    <2>7. MuInv'
      BY <2>1, <2>2, <2>3, <2>6 DEF MuInv
    <2>8. Past' = Past
      BY <2>1, <2>2 DEF Past
    <2>9. CountInv'
      <3>1. nextID \in Nat /\ Cardinality(Past) \in Nat
        BY PastIs, Numbers DEF ConnType
      <3> QED  BY <2>1, <2>6, <2>8, <3>1 DEF CountInv
    <2>10. armed' \in BOOLEAN /\ shut' \subseteq Gens /\ kill' \subseteq Gens
           /\ cmd' = 0 /\ closing' = closing
           /\ reader' \in [Gens -> {"none", "reads", "done"}]
           /\ \A h \in Gens : reader[h] = "none" => reader'[h] = "none"
      BY <1>1, <2>1 DEF PipeType
    <2>11. ConnType' /\ PipeType' /\ PastType' /\ GenInv' /\ WaitInv'
      BY <2>1, <2>10, BaseFailAll
    <2>12. SentInv'
      BY <2>1, <2>2, SentStep
    <2> QED  BY <2>5, <2>7, <2>9, <2>11, <2>12
  <1>4. CASE IdleCloses
    <2>1. FailAll(closing) /\ closing' = Nil
          /\ UNCHANGED <<file, pc, req, startMu, sent, ensured, gen, cmd, nextID,
                         armed, procVars, greeted, crossed>>
      BY <1>4 DEF IdleCloses
    <2>2. box' \in [Calls -> Boxes \cup {Nil}]
      BY <2>1, FailAllIs
    <2>3. armed' \in BOOLEAN /\ shut' \subseteq Gens /\ kill' \subseteq Gens
          /\ reader' \in [Gens -> {"none", "reads", "done"}]
          /\ \A h \in Gens : reader[h] = "none" => reader'[h] = "none"
      BY <2>1 DEF PipeType, ConnType, procVars
    <2>4. ConnType' /\ PipeType' /\ PastType' /\ GenInv' /\ WaitInv'
      BY <2>1, <2>3, BaseFailAll DEF procVars
    <2> QED  BY <1>2, <2>1, <2>2, <2>4
  <1>5. ASSUME NEW g \in Gens, ReadEnds(g)  PROVE Base'
    <2>1. FailAll(g) /\ reader[g] = "reads"
          /\ reader' = [reader EXCEPT ![g] = "done"]
          /\ UNCHANGED <<file, pc, req, startMu, sent, ensured, gen, cmd, nextID,
                         armed, closing, srv, shut, kill, inbox, out, greeted,
                         crossed>>
      BY <1>5 DEF ReadEnds
    <2>2. box' \in [Calls -> Boxes \cup {Nil}]
      BY <2>1, FailAllIs
    <2>3. armed' \in BOOLEAN /\ shut' \subseteq Gens /\ kill' \subseteq Gens
          /\ reader' \in [Gens -> {"none", "reads", "done"}]
          /\ \A h \in Gens : reader[h] = "none" => reader'[h] = "none"
      BY <2>1 DEF PipeType, ConnType
    <2>4. ConnType' /\ PipeType' /\ PastType' /\ GenInv' /\ WaitInv'
      BY <2>1, <2>3, BaseFailAll
    <2> QED  BY <1>2, <2>1, <2>2, <2>4
  <1>6. CASE IdleFires
    <2>1. /\ closing' = Taken /\ cmd' = 0 /\ armed' = FALSE
          /\ shut' \subseteq Gens /\ kill' \subseteq Gens
          /\ UNCHANGED <<file, callVars, gen, stdin, dead, nextID, waiting, srv,
                         inbox, out, reader, history>>
      BY <1>1, <1>6 DEF IdleFires
    <2>2. Taken \in Gens \cup {0} /\ Taken <= gen
      <3>1. stdin \in {0, gen} /\ cmd \in {0, gen} /\ gen \in Gens \cup {0}
        BY DEF GenInv, ConnType
      <3>2. gen \in Nat
        BY <3>1, Numbers
      <3> QED  BY <3>1, <3>2 DEF Taken
    <2>3. ConnType' /\ PipeType' /\ PastType'
      BY <2>1, <2>2 DEF ConnType, PipeType, PastType, history
    <2>4. GenInv'
      BY <2>1, <2>2 DEF GenInv
    <2>5. WaitInv'
      BY <2>1 DEF WaitInv, callVars
    <2> QED  BY <1>2, <2>1, <2>3, <2>4, <2>5 DEF callVars, CallType
  <1> QED  BY <1>3, <1>4, <1>5, <1>6

\* What a read loop reads next.
LEMMA LineIs ==
    ASSUME Base, NEW g \in Gens, out[g] # <<>>
    PROVE  /\ Head(out[g]) \in Outs /\ Tail(out[g]) \in Seq(Outs)
           /\ Len(Tail(out[g])) = Len(out[g]) - 1 /\ Len(out[g]) \in Nat
           /\ Range(Tail(out[g])) \subseteq Range(out[g])
           /\ Head(out[g]) \in Range(out[g])
           /\ gen \in Gens /\ g <= gen
  <1>1. out[g] \in Seq(Outs) /\ Len(out[g]) \in Nat /\ Len(out[g]) > 0
    BY DEF Base, PipeType
  <1>2. /\ Head(out[g]) = out[g][1] /\ 1 \in 1 .. Len(out[g])
        /\ Head(out[g]) \in Outs
        /\ Tail(out[g]) \in Seq(Outs)
        /\ Len(Tail(out[g])) = Len(out[g]) - 1
        /\ \A k \in 1 .. Len(out[g]) - 1 : Tail(out[g])[k] = out[g][k + 1]
    BY <1>1, HeadTailProperties
  <1>3. \A k \in 1 .. Len(out[g]) - 1 : k + 1 \in 1 .. Len(out[g])
    BY <1>1
  <1>4. DOMAIN Tail(out[g]) = 1 .. Len(out[g]) - 1
        /\ DOMAIN out[g] = 1 .. Len(out[g])
    BY <1>1, <1>2
  <1>5. gen \in Gens /\ g <= gen
    BY Numbers DEF Base, GenInv, ConnType, Gens
  <1> QED  BY <1>1, <1>2, <1>3, <1>4, <1>5 DEF Range

LEMMA AnswerIs ==
    ASSUME Base, NEW g \in Gens, NEW x \in Outs
    PROVE  /\ Append(out[g], x) \in Seq(Outs)
           /\ Len(Append(out[g], x)) = Len(out[g]) + 1 /\ Len(out[g]) \in Nat
           /\ Range(Append(out[g], x)) = Range(out[g]) \cup {x}
  <1>1. out[g] \in Seq(Outs) /\ Len(out[g]) \in Nat
        /\ DOMAIN out[g] = 1 .. Len(out[g])
    BY DEF Base, PipeType
  <1>2. /\ Append(out[g], x) \in Seq(Outs)
        /\ Len(Append(out[g], x)) = Len(out[g]) + 1
        /\ \A k \in 1 .. Len(out[g]) : Append(out[g], x)[k] = out[g][k]
        /\ Append(out[g], x)[Len(out[g]) + 1] = x
    BY <1>1, AppendProperties
  <1>3. /\ DOMAIN Append(out[g], x) = 1 .. Len(out[g]) + 1
        /\ Len(out[g]) + 1 \in 1 .. Len(out[g]) + 1
        /\ \A k \in 1 .. Len(out[g]) + 1 :
              k \in 1 .. Len(out[g]) \/ k = Len(out[g]) + 1
        /\ \A k \in 1 .. Len(out[g]) : k \in 1 .. Len(out[g]) + 1
    BY <1>1, <1>2
  <1> QED  BY <1>1, <1>2, <1>3 DEF Range

LEMMA BaseServers ==
    ASSUME Base, NEW g \in Gens, Answers(g) \/ Exits(g) \/ OnLine(g)
    PROVE  Base'
  <1> USE DEF Base
  <1>0. \A h \in Gens : srv[h] = "up" => ~(h > gen)
    BY DEF GenInv
  <1>1. CASE Answers(g)
    <2>1. PICK m \in inbox[g], kind \in {"result", "error"} :
             /\ out' = [out EXCEPT ![g] =
                          Append(@, [id |-> m.id, from |-> m.from,
                                     kind |-> kind])]
             /\ inbox' = [inbox EXCEPT ![g] = @ \ {m}]
      BY <1>1 DEF Answers
    <2> DEFINE x == [id |-> m.id, from |-> m.from, kind |-> kind]
    <2>2. x \in Outs
      <3>1. m \in Messages
        BY DEF PipeType
      <3> QED  BY <3>1 DEF Messages, Outs
    <2>3. out' = [out EXCEPT ![g] = Append(out[g], x)]
      BY <2>1
    <2> HIDE DEF x
    <2>4. srv[g] = "up" /\ Len(out[g]) < MaxOut
          /\ UNCHANGED <<file, callVars, connVars, closing, srv, shut, kill,
                         reader, history>>
      BY <1>1 DEF Answers
    <2>5. /\ out' \in [Gens -> Seq(Outs)]
          /\ \A h \in Gens : Len(out'[h]) <= MaxOut
          /\ \A h \in Gens : h # g => out'[h] = out[h]
      <3>1. Len(out[g]) + 1 <= MaxOut
        BY <2>2, <2>4, AnswerIs, McpAssumption
      <3> QED  BY <2>2, <2>3, <3>1, AnswerIs DEF PipeType
    <2>6. /\ inbox' \in [Gens -> SUBSET Messages]
          /\ \A h \in Gens : h # g => inbox'[h] = inbox[h]
      BY <2>1 DEF PipeType
    <2>7. PipeType'
      BY <2>4, <2>5, <2>6 DEF PipeType
    <2>8. GenInv'
      BY <1>0, <2>4, <2>5, <2>6 DEF GenInv, connVars
    <2>9. CallType' /\ ConnType' /\ PastType' /\ MuInv' /\ WaitInv' /\ SentInv'
      BY <2>4 DEF CallType, ConnType, PastType, MuInv, WaitInv, SentInv,
                  callVars, connVars, history
    <2>10. Past' = Past
      BY <2>4 DEF Past, callVars
    <2>11. CountInv'
      BY <2>4, <2>10 DEF CountInv, callVars, connVars
    <2> QED  BY <2>7, <2>8, <2>9, <2>11
  <1>2. CASE Exits(g)
    <2>1. /\ srv[g] = "up" /\ srv' = [srv EXCEPT ![g] = "gone"]
          /\ kill' = kill \ {g} /\ shut' = shut \ {g}
          /\ inbox' = [inbox EXCEPT ![g] = {}]
          /\ UNCHANGED <<file, callVars, connVars, closing, out, reader,
                         history>>
      BY <1>2 DEF Exits
    <2>2. PipeType'
      BY <2>1 DEF PipeType
    <2>3. GenInv'
      BY <1>0, <2>1 DEF GenInv, PipeType, connVars
    <2>4. CallType' /\ ConnType' /\ PastType' /\ MuInv' /\ WaitInv' /\ SentInv'
      BY <2>1 DEF CallType, ConnType, PastType, MuInv, WaitInv, SentInv,
                  callVars, connVars, history
    <2>5. Past' = Past
      BY <2>1 DEF Past, callVars
    <2>6. CountInv'
      BY <2>1, <2>5 DEF CountInv, callVars, connVars
    <2> QED  BY <2>2, <2>3, <2>4, <2>6
  <1>3. CASE OnLine(g)
    <2> DEFINE m == Head(out[g])
               c == waiting[m.id]
    <2>1. /\ out[g] # <<>> /\ out' = [out EXCEPT ![g] = Tail(@)]
          /\ \/ c = Nil /\ UNCHANGED <<waiting, box, greeted, crossed>>
             \/ /\ c # Nil /\ waiting' = [waiting EXCEPT ![m.id] = Nil]
                /\ box' = [box EXCEPT ![c] = [kind |-> m.kind, from |-> m.from]]
                /\ greeted' \subseteq greeted \cup {g}
                /\ crossed' \subseteq crossed \cup {gen}
          /\ UNCHANGED <<file, pc, req, startMu, sent, ensured, gen, cmd, stdin,
                         dead, nextID, armed, closing, srv, shut, kill, inbox,
                         reader, struck>>
      BY <1>3 DEF OnLine
    <2>2. /\ m \in Outs /\ m.id \in Ids
          /\ [kind |-> m.kind, from |-> m.from] \in Boxes
          /\ Tail(out[g]) \in Seq(Outs) /\ Len(Tail(out[g])) <= MaxOut
          /\ gen \in Gens /\ ~(g > gen)
      <3>1. Len(out[g]) <= MaxOut /\ MaxOut \in Nat
        BY McpAssumption DEF PipeType
      <3>2. /\ m \in Outs /\ Tail(out[g]) \in Seq(Outs)
            /\ Len(Tail(out[g])) = Len(out[g]) - 1 /\ Len(out[g]) \in Nat
            /\ gen \in Gens /\ g <= gen
        BY <2>1, LineIs
      <3>3. Len(Tail(out[g])) <= MaxOut /\ ~(g > gen)
        BY <3>1, <3>2, Numbers
      <3>4. m.id \in Ids /\ [kind |-> m.kind, from |-> m.from] \in Boxes
        BY <3>2 DEF Outs, Boxes
      <3> QED  BY <3>2, <3>3, <3>4
    <2>3. PipeType' /\ PastType'
      BY <2>1, <2>2 DEF PipeType, PastType
    <2>4. GenInv'
      BY <2>1, <2>2 DEF GenInv, PipeType
    <2> HIDE DEF m
    <2>5. c \in Calls \cup {Nil}
      BY <2>2 DEF ConnType
    <2>6. CASE c = Nil
      <3>1. UNCHANGED <<waiting, box>>
        BY <2>1, <2>6
      <3>2. CallType' /\ ConnType' /\ MuInv' /\ WaitInv' /\ SentInv'
        BY <2>1, <3>1 DEF CallType, ConnType, MuInv, WaitInv, SentInv
      <3>3. Past' = Past
        BY <2>1 DEF Past
      <3>4. CountInv'
        BY <2>1, <3>3 DEF CountInv
      <3> QED  BY <2>3, <2>4, <3>2, <3>4
    <2>7. CASE c # Nil
      <3>1. /\ pc[c] \in {"write", "await"} /\ sent[c] = <<m.id, gen>> /\ c \in Calls
        BY <2>2, <2>5, <2>7 DEF WaitInv
      <3>2. /\ box' \in [Calls -> Boxes \cup {Nil}]
            /\ \A d \in Calls : d # c => box'[d] = box[d]
        BY <2>1, <2>2, <2>7 DEF CallType
      <3>3. /\ waiting' \in [Ids -> Calls \cup {Nil}] /\ waiting'[m.id] = Nil
            /\ \A n \in Ids : n # m.id => waiting'[n] = waiting[n]
        BY <2>1, <2>2, <2>7 DEF ConnType
      <3>4. CallType' /\ ConnType' /\ MuInv' /\ SentInv'
        BY <2>1, <3>2, <3>3 DEF CallType, ConnType, MuInv, SentInv
      <3>5. ASSUME NEW n \in Ids, waiting'[n] # Nil
            PROVE  /\ pc[waiting'[n]] \in {"write", "await"}
                   /\ box'[waiting'[n]] = Nil
                   /\ sent[waiting'[n]] = <<n, gen>>
        <4>1. n # m.id /\ waiting'[n] = waiting[n] /\ waiting[n] \in Calls
          BY <3>3, <3>5 DEF ConnType
        <4>2. sent[waiting[n]] = <<n, gen>> /\ box[waiting[n]] = Nil
              /\ pc[waiting[n]] \in {"write", "await"}
          BY <3>5, <4>1 DEF WaitInv
        <4>3. waiting[n] # c
          BY <3>1, <4>1, <4>2
        <4> QED  BY <3>2, <4>1, <4>2, <4>3
      <3>6. WaitInv'
        BY <2>1, <3>1, <3>2, <3>5 DEF WaitInv
      <3>7. Past' = Past
        BY <2>1 DEF Past
      <3>8. CountInv'
        BY <2>1, <3>7 DEF CountInv
      <3> QED  BY <2>3, <2>4, <3>4, <3>6, <3>8
    <2> QED  BY <2>6, <2>7
  <1> QED  BY <1>1, <1>2, <1>3

LEMMA BaseNext == Base /\ [Next]_vars => Base'
  <1> SUFFICES ASSUME Base, [Next]_vars PROVE Base'
    OBVIOUS
  <1>1. ASSUME NEW c \in Calls,
               Step(c) \/ Written(c) \/ \E r \in Requests : Begin(c, r)
        PROVE  Base'
    BY <1>1, BaseBegins, BaseSpawn, BaseRequest, BaseWritten, BaseAnswered,
       BaseCloses
    DEF Step, Starts
  <1>2. CASE IdleFires \/ IdleCloses
    BY <1>2, BaseCloses
  <1>3. ASSUME NEW g \in Gens,
               Answers(g) \/ Exits(g) \/ KillFires(g) \/ OnLine(g) \/ ReadEnds(g)
        PROVE  Base'
    BY <1>3, BaseServers, BaseCloses DEF KillFires
  <1>4. CASE UNCHANGED vars
    <2>1. Past' = Past
      BY <1>4 DEF vars, callVars, Past
    <2> QED
      BY <1>4, <2>1 DEF vars, callVars, connVars, procVars, history, Base,
         CallType, ConnType, PipeType, PastType, MuInv, GenInv, WaitInv,
         SentInv, CountInv
  <1> QED  BY <1>1, <1>2, <1>3, <1>4 DEF Next

LEMMA BaseAlways == Spec => []Base
  BY BaseInit, BaseNext, PTL DEF Spec

\* The value of every variable is one the code can give it; the ids of a
\* generation are never used up (spawn, request, onLine, failAll, Close).
THEOREM McpTypeCorrect == Spec => []TypeOK
  BY BaseAlways, BaseTypes, PTL

-----------------------------------------------------------------------------
(* No process is left that nobody can end.                                 *)

\* A process whose connection is declared dead, and that c.cmd still names,
\* has ended, or will be killed, or was struck: nothing is lost when the next
\* spawn replaces it.
DeadInv == dead => cmd = 0 \/ srv[cmd] # "up" \/ cmd \in kill \cup struck

LEMMA OrphanNext == Base /\ DeadInv /\ NoOrphan /\ [Next]_vars
                    => DeadInv' /\ NoOrphan'
  <1> SUFFICES ASSUME Base, DeadInv, NoOrphan, [Next]_vars
               PROVE  DeadInv' /\ NoOrphan'
    OBVIOUS
  <1>0. /\ gen \in Gens \cup {0} /\ cmd \in {0, gen} /\ dead \in BOOLEAN
        /\ srv \in [Gens -> {"none", "up", "gone"}]
    BY DEF Base, ConnType, GenInv, PipeType
  <1>1. ASSUME UNCHANGED <<dead, cmd, srv, kill, struck>>
        PROVE  DeadInv' /\ NoOrphan'
    BY <1>1 DEF DeadInv, NoOrphan
  \* A Close: what c.cmd named is killed.
  <1>2. ASSUME CloseTakes, srv' = srv, struck \subseteq struck'
        PROVE  DeadInv' /\ NoOrphan'
    <2>1. /\ cmd' = 0 /\ kill \subseteq kill'
          /\ \A g \in Gens : g = cmd => g \in kill'
      BY <1>2, Numbers DEF CloseTakes, SetKill
    <2> QED  BY <1>2, <2>1 DEF DeadInv, NoOrphan
  \* failAll alone: what c.cmd named has ended, or it is struck.
  <1>3. ASSUME NEW g, FailAll(g), UNCHANGED <<cmd, srv, kill>>,
               g = gen => cmd = 0 \/ srv[cmd] # "up"
        PROVE  DeadInv' /\ NoOrphan'
    <2>1. /\ struck \subseteq struck' /\ dead' = TRUE
          /\ ~dead /\ g # gen => gen \in struck'
      BY <1>3, FailAllIs
    <2>2. NoOrphan'
      BY <1>3, <2>1 DEF NoOrphan
    <2>3. DeadInv'
      <3>1. CASE dead
        BY <1>3, <2>1, <3>1 DEF DeadInv
      <3>2. CASE ~dead
        BY <1>0, <1>3, <2>1, <3>2 DEF DeadInv
      <3> QED  BY <3>1, <3>2
    <2> QED  BY <2>2, <2>3
  <1>4. ASSUME NEW c \in Calls, Spawn(c)  PROVE DeadInv' /\ NoOrphan'
    <2>1. /\ dead /\ ~dead' /\ gen' = gen + 1 /\ cmd' = gen' /\ gen < MaxGen
          /\ srv' = [srv EXCEPT ![gen'] = "up"]
          /\ UNCHANGED <<kill, struck>>
      BY <1>4 DEF Spawn, history
    <2>2. ASSUME NEW g \in Gens, srv'[g] = "up", g # cmd'
          PROVE  g \in kill' \/ g \in struck'
      <3>1. srv[g] = "up"
        BY <1>0, <2>1, <2>2
      <3>2. g # 0
        BY Numbers
      <3> QED  BY <2>1, <3>1, <3>2 DEF NoOrphan, DeadInv
    <2> QED  BY <2>1, <2>2 DEF DeadInv, NoOrphan
  <1>5. ASSUME NEW c \in Calls,
               (\E r \in Requests : Begin(c, r)) \/ Ensure(c) \/ SpawnFails(c)
               \/ Request(c) \/ Written(c) \/ WriteFails(c) \/ Receive(c)
               \/ GiveUp(c)
        PROVE  DeadInv' /\ NoOrphan'
    BY <1>1, <1>5 DEF Begin, Ensure, SpawnFails, Request, Written, WriteFails,
                      Receive, GiveUp, connVars, procVars, history
  <1>6. ASSUME NEW c \in Calls, EnsureFails(c)  PROVE DeadInv' /\ NoOrphan'
    <2>1. CloseTakes /\ srv' = srv /\ FailAll(Taken)
      BY <1>6 DEF EnsureFails
    <2> QED  BY <1>2, <2>1, FailAllIs
  <1>7. CASE IdleFires
    BY <1>2, <1>7 DEF IdleFires, history
  <1>8. CASE IdleCloses
    <2>1. FailAll(closing) /\ closing # Nil /\ UNCHANGED <<cmd, srv, kill>>
      BY <1>8 DEF IdleCloses, procVars
    <2>2. closing = gen => cmd = 0
      BY <1>0 DEF Base, GenInv
    <2> QED  BY <1>3, <2>1, <2>2
  <1>9. ASSUME NEW g \in Gens, ReadEnds(g)  PROVE DeadInv' /\ NoOrphan'
    <2>1. FailAll(g) /\ srv[g] = "gone" /\ UNCHANGED <<cmd, srv, kill>>
      BY <1>9 DEF ReadEnds
    <2>2. g = gen => cmd = 0 \/ srv[cmd] # "up"
      BY <1>0, <2>1
    <2> QED  BY <1>3, <2>1, <2>2
  <1>10. ASSUME NEW g \in Gens, Exits(g)  PROVE DeadInv' /\ NoOrphan'
    <2>1. /\ srv' = [srv EXCEPT ![g] = "gone"] /\ kill' = kill \ {g}
          /\ UNCHANGED <<dead, cmd, struck>>
      BY <1>10 DEF Exits, connVars, history
    <2>2. \A h \in Gens : srv'[h] = IF h = g THEN "gone" ELSE srv[h]
      BY <1>0, <2>1
    <2>3. NoOrphan'
      BY <2>1, <2>2 DEF NoOrphan
    <2>4. DeadInv'
      BY <1>0, <2>1, <2>2 DEF DeadInv
    <2> QED  BY <2>3, <2>4
  <1>11. ASSUME NEW g \in Gens, Answers(g) \/ OnLine(g)
         PROVE  DeadInv' /\ NoOrphan'
    BY <1>1, <1>11 DEF Answers, OnLine, connVars, history
  <1>12. CASE UNCHANGED vars
    BY <1>1, <1>12 DEF vars, connVars, procVars, history
  <1> QED
    BY <1>4, <1>5, <1>6, <1>7, <1>8, <1>9, <1>10, <1>11, <1>12
    DEF Next, Step, Starts, KillFires

\* A server process that lives is the one c.cmd names, or is going to be
\* killed - unless failAll of another generation struck it (spawn, Close).
THEOREM NobodyIsLeft == Spec => []NoOrphan
  <1>1. Init => DeadInv /\ NoOrphan
    BY DEF Init, DeadInv, NoOrphan
  <1> QED  BY <1>1, OrphanNext, BaseAlways, PTL DEF Spec

-----------------------------------------------------------------------------
(* What reaches a server is due.                                           *)

\* The user enabled the server, in a file only he can write, and agreed.
Due(r) ==
    /\ ~file.writable
    /\ \E n \in DOMAIN file.entries :
         file.entries[n].id = ServerID /\ file.entries[n].enabled
    /\ Agreed(r)

DueInv ==
    /\ \A c \in Calls : pc[c] \in {"lock", "request", "write", "await", "close"} =>
                           Due(req[c])
    /\ \A g \in Gens : \A m \in inbox[g] : Due(m.asks)

\* What HandleCall and HandleList let in.
LEMMA PermittedIsDue ==
    ASSUME NEW r \in Requests, Granted(r.server) # {}, r.server = ServerID,
           Permitted(r)
    PROVE  Due(r)
  <1>1. PICK e \in Granted(r.server) : TRUE
    OBVIOUS
  <1>2. ~file.writable /\ e.enabled /\ e.id = ServerID
        /\ \E n \in DOMAIN file.entries : e = file.entries[n]
    BY <1>1 DEF Granted, LoadGrants, FirstOfId
  <1>3. ASSUME NEW d \in Granted(r.server), r.tool \in d.readOnly
        PROVE  \E n \in DOMAIN file.entries :
                  /\ file.entries[n].id = r.server
                  /\ r.tool \in file.entries[n].readOnly
    <2>1. d.id = r.server /\ \E n \in DOMAIN file.entries : d = file.entries[n]
      BY <1>3 DEF Granted, LoadGrants, FirstOfId
    <2> QED  BY <1>3, <2>1
  <1>4. Agreed(r)
    BY <1>3 DEF Permitted, ReadOnly, Agreed
  <1> QED  BY <1>2, <1>4 DEF Due

LEMMA DueNext == Base /\ DueInv /\ [Next]_vars => DueInv'
  <1> SUFFICES ASSUME Base, DueInv, [Next]_vars PROVE DueInv'
    OBVIOUS
  <1>0. file' = file /\ CallType /\ PipeType
    BY DEF Next, Step, Starts, Begin, Ensure, SpawnFails, Spawn, Request,
           Written, WriteFails, Receive, GiveUp, EnsureFails, IdleFires, IdleCloses, Answers, Exits,
           KillFires, OnLine, ReadEnds, vars, Base
  <1>1. \A r : Due(r)' <=> Due(r')
    BY <1>0 DEF Due, Agreed
  \* A call goes on as it was let in, or leaves.
  <1>2. ASSUME NEW c \in Calls,
               \A d \in Calls : d # c => pc'[d] = pc[d] /\ req'[d] = req[d],
               \/ pc'[c] \in {"idle", "done"}
               \/ /\ pc[c] \in {"lock", "request", "write", "await", "close"}
                  /\ req'[c] = req[c]
               \/ Due(req'[c]),
               \A g \in Gens : \A m \in inbox'[g] :
                   \/ m \in inbox[g]
                   \/ m.asks = req[c] /\ pc[c] = "write"
        PROVE  DueInv'
    <2>1. ASSUME NEW d \in Calls,
                 pc'[d] \in {"lock", "request", "write", "await", "close"}
          PROVE  Due(req[d])'
      <3>1. Due(req'[d])
        BY <1>2, <2>1 DEF DueInv
      <3> QED  BY <1>0, <3>1 DEF Due, Agreed
    <2>2. ASSUME NEW g \in Gens, NEW m \in inbox'[g]
          PROVE  Due(m.asks)'
      <3>1. Due(m.asks)
        BY <1>2 DEF DueInv
      <3> QED  BY <1>0, <3>1 DEF Due, Agreed
    <2> QED  BY <2>1, <2>2 DEF DueInv
  \* The calls have no part in it.
  <1>3. ASSUME UNCHANGED <<pc, req>>,
               \A g \in Gens : inbox'[g] \subseteq inbox[g]
        PROVE  DueInv'
    <2>1. ASSUME NEW d \in Calls,
                 pc'[d] \in {"lock", "request", "write", "await", "close"}
          PROVE  Due(req[d])'
      <3>1. Due(req[d])
        BY <1>3, <2>1 DEF DueInv
      <3> QED  BY <1>0, <1>3, <3>1 DEF Due, Agreed
    <2>2. ASSUME NEW g \in Gens, NEW m \in inbox'[g]
          PROVE  Due(m.asks)'
      <3>1. Due(m.asks)
        BY <1>3 DEF DueInv
      <3> QED  BY <1>0, <3>1 DEF Due, Agreed
    <2> QED  BY <2>1, <2>2 DEF DueInv
  <1>4. ASSUME NEW c \in Calls, Fails(c), startMu' = startMu,
               pc[c] \in {"request", "write", "await"}, inbox' = inbox
        PROVE  DueInv'
    <2>1. /\ OthersStay(c)
          /\ pc'[c] \in {"idle", "done"} \/ req'[c] = req[c]
      BY <1>0, <1>4, FailsIs
    <2> QED  BY <1>2, <1>4, <2>1 DEF OthersStay
  <1>5. ASSUME NEW c \in Calls, NEW r \in Requests, Begin(c, r)  PROVE DueInv'
    <2>1. inbox' = inbox
      BY <1>5 DEF Begin, procVars
    <2>2. CASE /\ Goto(c, "lock") /\ req' = [req EXCEPT ![c] = r]
               /\ Granted(r.server) # {} /\ r.server = ServerID /\ Permitted(r)
      <3>1. Due(r) /\ req'[c] = r
        BY <1>0, <2>2, PermittedIsDue DEF CallType
      <3> QED  BY <1>0, <1>2, <2>1, <2>2, <3>1 DEF CallType, Goto
    <2>3. CASE Goto(c, "done") /\ UNCHANGED req
      BY <1>0, <1>2, <2>1, <2>3 DEF CallType, Goto
    <2> QED  BY <1>5, <2>2, <2>3 DEF Begin
  <1>6. ASSUME NEW c \in Calls, Ensure(c) \/ Spawn(c)  PROVE DueInv'
    <2>1. pc[c] = "lock" /\ Goto(c, "request") /\ req' = req /\ inbox' = inbox
      BY <1>6 DEF Ensure, Spawn, procVars
    <2> QED  BY <1>0, <1>2, <2>1 DEF CallType, Goto
  <1>7. ASSUME NEW c \in Calls, SpawnFails(c)  PROVE DueInv'
    <2>1. End(c) /\ startMu' = startMu /\ inbox' = inbox
      BY <1>7 DEF SpawnFails, procVars
    <2>2. OthersStay(c) /\ pc'[c] = "done"
      BY <1>0, <2>1, EndIs DEF CallType
    <2> QED  BY <1>2, <2>1, <2>2 DEF OthersStay
  <1>8. ASSUME NEW c \in Calls, Request(c)  PROVE DueInv'
    <2>1. pc[c] = "request" /\ startMu' = startMu /\ inbox' = inbox
      BY <1>8 DEF Request, procVars
    <2>2. CASE Fails(c)
      BY <1>4, <2>1, <2>2
    <2>3. CASE Goto(c, "write") /\ req' = req
      BY <1>0, <1>2, <2>1, <2>3 DEF CallType, Goto
    <2> QED  BY <1>8, <2>2, <2>3 DEF Request
  <1>14. ASSUME NEW c \in Calls, Written(c)  PROVE DueInv'
    <2>1. /\ pc[c] = "write" /\ Goto(c, "await") /\ req' = req
          /\ inbox' = [inbox EXCEPT ![sent[c][2]] = @ \cup {Message(c)}]
      BY <1>14 DEF Written
    <2>2. Message(c).asks = req[c]
      BY DEF Message
    <2>3. \A g \in Gens : inbox'[g] \subseteq inbox[g] \cup {Message(c)}
      BY <1>0, <2>1 DEF PipeType
    <2> QED  BY <1>0, <1>2, <2>1, <2>2, <2>3 DEF CallType, Goto
  <1>9. ASSUME NEW c \in Calls, WriteFails(c) \/ Receive(c) \/ GiveUp(c)
        PROVE  DueInv'
    <2>1. pc[c] \in {"write", "await"} /\ inbox' = inbox
      BY <1>9 DEF WriteFails, Receive, GiveUp, TimesOut, procVars
    <2>2. CASE Fails(c) /\ startMu' = startMu
      BY <1>4, <2>1, <2>2
    <2>3. CASE Goto(c, "request") /\ req' = req
      BY <1>0, <1>2, <2>1, <2>3 DEF CallType, Goto
    <2> QED  BY <1>9, <2>2, <2>3 DEF WriteFails, Receive, GiveUp
  <1>10. ASSUME NEW c \in Calls, EnsureFails(c)  PROVE DueInv'
    <2>1. Goto(c, "done") /\ req' = [req EXCEPT ![c] = Nil] /\ inbox' = inbox
      BY <1>10 DEF EnsureFails
    <2> QED  BY <1>0, <1>2, <2>1 DEF CallType, Goto
  <1>11. CASE \/ IdleFires \/ IdleCloses
              \/ \E g \in Gens : OnLine(g) \/ ReadEnds(g)
    BY <1>3, <1>11 DEF IdleFires, IdleCloses, OnLine, ReadEnds, callVars, procVars
  <1>12. ASSUME NEW g \in Gens, Answers(g) \/ Exits(g)  PROVE DueInv'
    <2>1. UNCHANGED <<pc, req>>
      BY <1>12 DEF Answers, Exits, callVars
    <2>2. \A h \in Gens : inbox'[h] \subseteq inbox[h]
      BY <1>0, <1>12 DEF Answers, Exits, PipeType
    <2> QED  BY <1>3, <2>1, <2>2
  <1>13. CASE UNCHANGED vars
    BY <1>3, <1>13 DEF vars, callVars, procVars
  <1> QED
    BY <1>5, <1>6, <1>7, <1>8, <1>9, <1>10, <1>11, <1>12, <1>13, <1>14
    DEF Next, Step, Starts, KillFires

\* Generations that answered initialize, or that an earlier one spoke to.
Seen == greeted \cup crossed

\* Whoever may use the connection uses a generation that was greeted: it is
\* alive outside startMu, its spawner received the result, ensure returned it.
GreetInv ==
    /\ startMu = Nil /\ ~dead => gen \in Seen
    /\ startMu # Nil =>
         (box[startMu] # Nil /\ box[startMu].kind = "result" => gen \in Seen)
    /\ \A c \in Calls :
          pc[c] \in {"request", "write"} /\ startMu # c => ensured[c] \in Seen
    /\ \A g \in Gens : \A m \in inbox[g] :
          m.kind = "tool" => m.moved \/ g \in Seen

\* A call moves on, with the connection as it is.
LEMMA GreetStep ==
    ASSUME Base, GreetInv, NEW c \in Calls, OthersStay(c),
           UNCHANGED <<startMu, gen, dead, greeted, crossed>>,
           pc'[c] \in {"request", "write"} /\ startMu # c =>
              ensured'[c] \in Seen,
           box'[c] \in {box[c], Nil},
           \A g \in Gens : \A m \in inbox'[g] :
              m \in inbox[g] \/ (m.kind = "tool" => m.moved \/ g \in Seen)
    PROVE  GreetInv'
  <1>1. Seen' = Seen
    BY DEF Seen
  <1>2. startMu \in Calls \cup {Nil}
    BY DEF Base, CallType
  <1>3. \A d \in Calls : box'[d] = box[d] \/ box'[d] = Nil
    BY DEF OthersStay
  <1>4. \A d \in Calls : pc'[d] \in {"request", "write"} /\ startMu' # d =>
                             ensured'[d] \in Seen'
    BY <1>1 DEF GreetInv, OthersStay
  <1>5. \A g \in Gens : \A m \in inbox'[g] :
           m.kind = "tool" => m.moved \/ g \in Seen'
    BY <1>1 DEF GreetInv
  <1>6. startMu' # Nil =>
         (box'[startMu'] # Nil /\ box'[startMu'].kind = "result" => gen' \in Seen')
    BY <1>1, <1>2, <1>3 DEF GreetInv
  <1> QED  BY <1>1, <1>4, <1>5, <1>6 DEF GreetInv

\* The connection closes, or a server or a read loop takes a step.
LEMMA GreetHold ==
    ASSUME Base, GreetInv, Seen \subseteq Seen', gen' = gen,
           dead' = dead \/ dead' = TRUE,
           startMu' = startMu \/ (startMu' = Nil /\ startMu # Nil /\ dead' = TRUE),
           ensured' = ensured,
           \A c \in Calls : pc'[c] \in {"request", "write"} => pc'[c] = pc[c],
           \A c \in Calls :
              /\ startMu # Nil /\ startMu' = Nil
              /\ pc'[c] \in {"request", "write"}
              => startMu # c,
           \A c \in Calls : \/ box'[c] \in {box[c], Nil}
                            \/ box'[c].kind = "error"
                            \/ startMu = c => gen \in Seen',
           \A g \in Gens : inbox'[g] \subseteq inbox[g]
    PROVE  GreetInv'
  <1>1. startMu \in Calls \cup {Nil}
    BY DEF Base, CallType
  <1>2. startMu' = Nil /\ ~dead' => gen' \in Seen'
    BY DEF GreetInv
  <1>3. startMu' # Nil =>
         (box'[startMu'] # Nil /\ box'[startMu'].kind = "result" => gen' \in Seen')
    BY <1>1 DEF GreetInv
  <1>4. \A c \in Calls : pc'[c] \in {"request", "write"} /\ startMu' # c =>
                             ensured'[c] \in Seen'
    BY <1>1 DEF GreetInv
  <1>5. \A g \in Gens : \A m \in inbox'[g] :
           m.kind = "tool" => m.moved \/ g \in Seen'
    BY DEF GreetInv
  <1> QED  BY <1>2, <1>3, <1>4, <1>5 DEF GreetInv

LEMMA GreetNext == Base /\ GreetInv /\ [Next]_vars => GreetInv'
  <1> SUFFICES ASSUME Base, GreetInv, [Next]_vars PROVE GreetInv'
    OBVIOUS
  <1>0. CallType /\ ConnType /\ PipeType /\ MuInv /\ GenInv /\ WaitInv
    BY DEF Base
  <1>1. ASSUME NEW c \in Calls, Fails(c), inbox' = inbox,
               pc[c] \in {"request", "write", "await"},
               UNCHANGED <<startMu, gen, dead, greeted, crossed>>
        PROVE  GreetInv'
    <2>1. OthersStay(c) /\ box'[c] = Nil /\ pc'[c] \notin {"request", "write"}
      BY <1>0, <1>1, FailsIs
    <2> QED  BY <1>1, <2>1, GreetStep
  <1>2. ASSUME NEW c \in Calls, NEW r \in Requests, Begin(c, r)  PROVE GreetInv'
    <2>1. Goto(c, "lock") \/ Goto(c, "done")
      BY <1>2 DEF Begin
    <2>2. req' = [req EXCEPT ![c] = r] \/ req' = req
      BY <1>2 DEF Begin
    <2>3. UNCHANGED <<startMu, sent, box, ensured, gen, dead, inbox, greeted, crossed>>
      BY <1>2 DEF Begin, connVars, procVars, history
    <2>4. OthersStay(c) /\ pc'[c] \notin {"request", "write"}
      BY <1>0, <2>1, <2>2, <2>3 DEF OthersStay, CallType, Goto
    <2> QED  BY <2>3, <2>4, GreetStep
  <1>3. ASSUME NEW c \in Calls, Ensure(c)  PROVE GreetInv'
    <2>1. /\ startMu = Nil /\ ~dead /\ Goto(c, "request")
          /\ ensured' = [ensured EXCEPT ![c] = gen]
          /\ UNCHANGED <<req, startMu, sent, box, gen, dead, inbox, greeted,
                         crossed>>
      BY <1>3 DEF Ensure, procVars, history
    <2>2. OthersStay(c) /\ ensured'[c] = gen
      BY <1>0, <2>1 DEF OthersStay, CallType, Goto
    <2>3. gen \in Seen
      BY <2>1 DEF GreetInv
    <2> QED  BY <2>1, <2>2, <2>3, GreetStep
  <1>4. ASSUME NEW c \in Calls, SpawnFails(c)  PROVE GreetInv'
    <2>1. End(c) /\ UNCHANGED <<startMu, gen, dead, inbox, greeted, crossed>>
      BY <1>4 DEF SpawnFails, connVars, procVars, history
    <2>2. OthersStay(c) /\ pc'[c] = "done" /\ box'[c] = Nil
      BY <1>0, <2>1, EndIs DEF CallType
    <2> QED  BY <2>1, <2>2, GreetStep
  <1>5. ASSUME NEW c \in Calls, Spawn(c)  PROVE GreetInv'
    <2>1. /\ pc[c] = "lock" /\ startMu = Nil /\ startMu' = c
          /\ Goto(c, "request")
          /\ UNCHANGED <<box, ensured, inbox, greeted, crossed>>
      BY <1>5 DEF Spawn, history
    <2>2. box[c] = Nil /\ c # Nil
      BY <1>0, <2>1, Numbers DEF WaitInv
    <2>3. \A d \in Calls : pc'[d] = IF d = c THEN "request" ELSE pc[d]
      BY <1>0, <2>1, GotoIs DEF Labels
    <2>4. Seen' = Seen
      BY <2>1 DEF Seen
    <2>5. \A d \in Calls : pc'[d] \in {"request", "write"} /\ startMu' # d =>
                             ensured'[d] \in Seen'
      BY <2>1, <2>2, <2>3, <2>4, Numbers DEF GreetInv
    <2>6. \A g \in Gens : \A m \in inbox'[g] :
             m.kind = "tool" => m.moved \/ g \in Seen'
      BY <2>1, <2>4 DEF GreetInv
    <2> QED  BY <2>1, <2>2, <2>5, <2>6 DEF GreetInv
  <1>6. ASSUME NEW c \in Calls, Request(c)  PROVE GreetInv'
    <2>1. pc[c] = "request" /\ inbox' = inbox
          /\ UNCHANGED <<startMu, gen, dead, greeted, crossed>>
      BY <1>6 DEF Request, procVars, history
    <2>2. CASE Fails(c)
      BY <1>1, <2>1, <2>2
    <2>3. CASE /\ sent' = [sent EXCEPT ![c] = <<nextID, stdin>>]
               /\ Goto(c, "write") /\ UNCHANGED <<req, box, ensured>>
      <3>1. OthersStay(c) /\ box'[c] = box[c] /\ ensured'[c] = ensured[c]
        BY <1>0, <2>3 DEF OthersStay, CallType, Goto
      <3>2. startMu # c => ensured[c] \in Seen
        BY <2>1 DEF GreetInv
      <3> QED  BY <2>1, <3>1, <3>2, GreetStep
    <2> QED  BY <1>6, <2>2, <2>3 DEF Request
  <1>17. ASSUME NEW c \in Calls, Written(c)  PROVE GreetInv'
    <2>1. /\ pc[c] = "write" /\ Goto(c, "await")
          /\ inbox' = [inbox EXCEPT ![sent[c][2]] = @ \cup {Message(c)}]
          /\ ensured' = [ensured EXCEPT ![c] = 0]
          /\ UNCHANGED <<req, startMu, sent, box, gen, dead, greeted, crossed>>
      BY <1>17 DEF Written, connVars, history
    <2>2. OthersStay(c) /\ pc'[c] = "await" /\ box'[c] = box[c]
      BY <1>0, <2>1 DEF OthersStay, CallType, Goto
    <2>3. Message(c).kind = "tool" => Message(c).moved \/ sent[c][2] \in Seen
      <3>1. /\ Message(c).kind = IF startMu = c THEN "hello" ELSE "tool"
            /\ Message(c).moved = (startMu # c /\ ensured[c] # sent[c][2])
        BY DEF Message, Greets
      <3>2. startMu # c => ensured[c] \in Seen
        BY <2>1 DEF GreetInv
      <3> QED  BY <3>1, <3>2
    <2>4. \A g \in Gens : \A m \in inbox'[g] :
             m \in inbox[g] \/ (m.kind = "tool" => m.moved \/ g \in Seen)
      BY <1>0, <2>1, <2>3 DEF PipeType
    <2> QED  BY <2>1, <2>2, <2>4, GreetStep
  <1>7. ASSUME NEW c \in Calls, WriteFails(c) \/ GiveUp(c)  PROVE GreetInv'
    <2>1. /\ pc[c] \in {"write", "await"} /\ Fails(c) /\ inbox' = inbox
          /\ UNCHANGED <<startMu, gen, dead, greeted, crossed>>
      BY <1>7 DEF WriteFails, GiveUp, TimesOut, procVars, history
    <2> QED  BY <1>1, <2>1
  <1>8. ASSUME NEW c \in Calls, Receive(c)  PROVE GreetInv'
    <2>1. /\ pc[c] = "await" /\ box[c] # Nil /\ inbox' = inbox
          /\ UNCHANGED <<gen, dead, greeted, crossed>>
      BY <1>8 DEF Receive, procVars, history
    <2>2. CASE Fails(c) /\ startMu' = startMu
      BY <1>1, <2>1, <2>2
    <2>3. CASE /\ startMu = c /\ box[c].kind = "result" /\ Goto(c, "request")
               /\ startMu' = Nil /\ box' = [box EXCEPT ![c] = Nil]
               /\ ensured' = [ensured EXCEPT ![c] = gen]
      <3>1. gen \in Seen /\ Seen' = Seen
        BY <2>1, <2>3, Numbers DEF GreetInv, Seen
      <3>2. \A d \in Calls : pc'[d] = IF d = c THEN "request" ELSE pc[d]
        BY <1>0, <2>3, GotoIs DEF Labels
      <3>3. \A d \in Calls : ensured'[d] = IF d = c THEN gen ELSE ensured[d]
        BY <1>0, <2>3 DEF CallType
      <3>4. \A d \in Calls : pc'[d] \in {"request", "write"} =>
                                ensured'[d] \in Seen'
        BY <2>3, <3>1, <3>2, <3>3 DEF GreetInv
      <3>5. \A g \in Gens : \A m \in inbox'[g] :
               m.kind = "tool" => m.moved \/ g \in Seen'
        BY <2>1, <3>1 DEF GreetInv
      <3> QED  BY <2>1, <2>3, <3>1, <3>4, <3>5 DEF GreetInv
    <2> QED  BY <1>8, <2>2, <2>3 DEF Receive, Greets
  <1>9. ASSUME NEW c \in Calls, EnsureFails(c)  PROVE GreetInv'
    <2>1. /\ pc[c] = "close" /\ FailAll(Taken) /\ startMu' = Nil
          /\ Goto(c, "done") /\ UNCHANGED <<ensured, gen, inbox, greeted, crossed>>
      BY <1>9 DEF EnsureFails
    <2>2. startMu = c /\ c # Nil
      BY <1>0, <2>1, Numbers DEF MuInv
    <2>3. \A d \in Calls : pc'[d] = IF d = c THEN "done" ELSE pc[d]
      BY <1>0, <2>1, GotoIs DEF Labels
    <2>4. /\ dead' = TRUE
          /\ \A d \in Calls : box'[d] = box[d] \/ box'[d].kind = "error"
      BY <2>1, FailAllIs, ErrorIs
    <2>5. Seen' = Seen
      BY <2>1 DEF Seen
    <2> QED  BY <2>1, <2>2, <2>3, <2>4, <2>5, GreetHold
  <1>10. ASSUME NEW g, FailAll(g),
                UNCHANGED <<pc, startMu, ensured, gen, inbox, greeted, crossed>>
         PROVE  GreetInv'
    <2>1. /\ dead' = TRUE
          /\ \A d \in Calls : box'[d] = box[d] \/ box'[d].kind = "error"
      BY <1>10, FailAllIs, ErrorIs
    <2>2. Seen' = Seen
      BY <1>10 DEF Seen
    <2> QED  BY <1>10, <2>1, <2>2, GreetHold
  <1>11. CASE IdleCloses
    BY <1>10, <1>11 DEF IdleCloses, procVars
  <1>12. ASSUME NEW g \in Gens, ReadEnds(g)  PROVE GreetInv'
    BY <1>10, <1>12 DEF ReadEnds
  <1>13. ASSUME UNCHANGED <<callVars, gen, dead, greeted, crossed>>,
                \A g \in Gens : inbox'[g] \subseteq inbox[g]
         PROVE  GreetInv'
    <2>1. Seen' = Seen
      BY <1>13 DEF Seen
    <2> QED  BY <1>13, <2>1, GreetHold DEF callVars
  <1>14. CASE IdleFires \/ UNCHANGED vars
    BY <1>13, <1>14 DEF IdleFires, vars, connVars, procVars, history
  <1>15. ASSUME NEW g \in Gens, Answers(g) \/ Exits(g)  PROVE GreetInv'
    <2>1. UNCHANGED <<callVars, gen, dead, greeted, crossed>>
      BY <1>15 DEF Answers, Exits, connVars, history
    <2>2. \A h \in Gens : inbox'[h] \subseteq inbox[h]
      BY <1>0, <1>15 DEF Answers, Exits, PipeType
    <2> QED  BY <1>13, <2>1, <2>2
  <1>16. ASSUME NEW g \in Gens, OnLine(g)  PROVE GreetInv'
    <2> DEFINE m == Head(out[g])
               c == waiting[m.id]
    <2>1. /\ out[g] # <<>>
          /\ UNCHANGED <<pc, startMu, ensured, gen, dead, inbox>>
          /\ \/ UNCHANGED <<box, greeted, crossed>>
             \/ /\ box' = [box EXCEPT ![c] = [kind |-> m.kind, from |-> m.from]]
                /\ greeted' = IF startMu = c /\ g = gen /\ m.kind = "result"
                              THEN greeted \cup {g} ELSE greeted
                /\ crossed' = IF g # gen THEN crossed \cup {gen} ELSE crossed
      BY <1>16 DEF OnLine, Greets
    <2>2. m \in Outs
      BY <2>1, LineIs
    <2>3. m.kind \in {"result", "error"}
      BY <2>2 DEF Outs
    <2> HIDE DEF m, c
    <2>4. Seen \subseteq Seen'
      BY <2>1 DEF Seen
    <2>5. ASSUME NEW d \in Calls
          PROVE  \/ box'[d] \in {box[d], Nil} \/ box'[d].kind = "error"
                 \/ startMu = d => gen \in Seen'
      <3>1. CASE box' = box \/ d # c
        BY <1>0, <2>1, <3>1 DEF CallType
      <3>2. CASE /\ d = c
                 /\ box' = [box EXCEPT ![c] = [kind |-> m.kind, from |-> m.from]]
                 /\ greeted' = IF startMu = c /\ g = gen /\ m.kind = "result"
                               THEN greeted \cup {g} ELSE greeted
                 /\ crossed' = IF g # gen THEN crossed \cup {gen} ELSE crossed
        <4>1. box'[d] = [kind |-> m.kind, from |-> m.from]
          BY <1>0, <3>2 DEF CallType
        <4>2. CASE m.kind = "error"
          BY <4>1, <4>2
        <4>3. CASE m.kind = "result"
          BY <3>2, <4>3 DEF Seen
        <4> QED  BY <2>3, <4>2, <4>3
      <3> QED  BY <2>1, <3>1, <3>2
    <2> QED  BY <2>1, <2>4, <2>5, GreetHold
  <1> QED
    BY <1>2, <1>3, <1>4, <1>5, <1>6, <1>7, <1>8, <1>9, <1>11, <1>12, <1>14,
       <1>15, <1>16, <1>17
    DEF Next, Step, Starts, KillFires

\* What reaches a server is due: the user enabled the server in a file only he
\* can write, he agreed to the call, and the process has answered initialize
\* (LoadGrants, HandleCall, ensure) - unless the connection was replaced
\* between ensure and the request, or an earlier process answered for it.
THEOREM WhatReachesAServerIsDue == Spec => []ToolCallsAreDue
  <1>1. Init => DueInv /\ GreetInv
    BY Numbers DEF Init, DueInv, GreetInv
  <1>2. DueInv /\ GreetInv => ToolCallsAreDue
    BY DEF DueInv, Due, GreetInv, Seen, ToolCallsAreDue
  <1> QED  BY <1>1, <1>2, DueNext, GreetNext, BaseAlways, PTL DEF Spec

-----------------------------------------------------------------------------
(* A call gets its own answer.                                             *)

\* What a server was asked, and what it answered that was not read yet.
Pipe(g) == inbox[g] \cup Range(out[g])

\* What is under way with the last generation, or is being written, has an id
\* that was given out; if somebody still waits for it, it is the call that asked.
PipeInv ==
    /\ \A m \in UNION {Pipe(g) : g \in Gens \cap {gen}} :
          m.id < nextID /\ waiting[m.id] \in {Nil, m.from}
    /\ \A c \in Calls : pc[c] = "write" /\ sent[c][2] = gen =>
          sent[c][1] < nextID /\ waiting[sent[c][1]] \in {Nil, c}

LEMMA PipeIs ==
    ASSUME Base, NEW g \in Gens, NEW m \in Pipe(g)
    PROVE  m.id \in Ids /\ m.from \in Calls
  <1>1. CASE m \in inbox[g]
    BY <1>1 DEF Base, PipeType, Messages
  <1>2. CASE m \in Range(out[g])
    <2>1. out[g] \in Seq(Outs)
      BY DEF Base, PipeType
    <2>2. m \in Outs
      BY <1>2, <2>1 DEF Range
    <2> QED  BY <2>2 DEF Outs
  <1> QED  BY <1>1, <1>2 DEF Pipe

\* Ids are not given out again, nobody comes to wait for one, and no channel
\* gets another call's message.
LEMMA PipeStep ==
    ASSUME Base, PipeInv, AnswerIsOwn,
           gen' = gen, nextID' \in {nextID, nextID + 1},
           \A n \in Ids : waiting'[n] \in {waiting[n], Nil},
           \A g \in Gens : \A m \in Pipe(g)' :
              \/ \E old \in Pipe(g) : old.id = m.id /\ old.from = m.from
              \/ \E c \in Calls : /\ pc[c] = "write" /\ sent[c] = <<m.id, g>>
                                  /\ m.from = c,
           \A c \in Calls :
              pc'[c] = "write" => pc[c] = "write" /\ sent'[c] = sent[c],
           crossed \subseteq crossed',
           \A c \in Calls : \/ box'[c] = Nil
                            \/ box'[c] = box[c] /\ sent'[c] = sent[c]
                            \/ box'[c].from = c \/ sent'[c][2] \in crossed'
    PROVE  PipeInv' /\ AnswerIsOwn'
  <1>1. nextID \in Nat /\ Ids \subseteq Nat
    BY Numbers DEF Base, ConnType
  <1>2. ASSUME NEW g \in Gens, g = gen', NEW m \in Pipe(g)'
        PROVE  m.id < nextID' /\ waiting'[m.id] \in {Nil, m.from}
    <2>1. m.id \in Ids /\ m.id < nextID /\ waiting[m.id] \in {Nil, m.from}
      <3>1. CASE \E old \in Pipe(g) : old.id = m.id /\ old.from = m.from
        <4>1. PICK old \in Pipe(g) : old.id = m.id /\ old.from = m.from
          BY <3>1
        <4>2. /\ old.id \in Ids /\ old.id < nextID
              /\ waiting[old.id] \in {Nil, old.from}
          BY <1>2, PipeIs DEF PipeInv
        <4> QED  BY <4>1, <4>2
      <3>2. CASE \E c \in Calls : /\ pc[c] = "write" /\ sent[c] = <<m.id, g>>
                                  /\ m.from = c
        <4>1. PICK c \in Calls : /\ pc[c] = "write" /\ sent[c] = <<m.id, g>>
                                 /\ m.from = c
          BY <3>2
        <4>2. sent[c][1] = m.id /\ sent[c][2] = gen
          BY <1>2, <4>1
        <4>3. /\ sent[c][1] \in Ids /\ sent[c][1] < nextID
              /\ waiting[sent[c][1]] \in {Nil, c}
          BY <4>1, <4>2 DEF PipeInv, Base, SentInv
        <4> QED  BY <4>1, <4>2, <4>3
      <3> QED  BY <1>2, <3>1, <3>2
    <2>2. \A n \in Nat : n < nextID => n < nextID'
      BY <1>1
    <2>3. m.id < nextID'
      BY <1>1, <2>1, <2>2
    <2> QED  BY <2>1, <2>3
  <1>5. ASSUME NEW c \in Calls, pc'[c] = "write", sent'[c][2] = gen'
        PROVE  sent'[c][1] < nextID' /\ waiting'[sent'[c][1]] \in {Nil, c}
    <2>1. /\ sent'[c] = sent[c] /\ sent[c][1] \in Ids /\ sent[c][1] < nextID
          /\ waiting[sent[c][1]] \in {Nil, c}
      BY <1>5 DEF PipeInv, Base, SentInv
    <2>2. \A n \in Nat : n < nextID => n < nextID'
      BY <1>1
    <2>3. sent[c][1] < nextID'
      BY <1>1, <2>1, <2>2
    <2>4. waiting'[sent[c][1]] \in {waiting[sent[c][1]], Nil}
      BY <2>1
    <2> QED  BY <2>1, <2>3, <2>4
  <1>3. PipeInv'
    BY <1>2, <1>5 DEF PipeInv
  <1>4. AnswerIsOwn'
    BY DEF AnswerIsOwn
  <1> QED  BY <1>3, <1>4

LEMMA PipeNext == Base /\ PipeInv /\ AnswerIsOwn /\ [Next]_vars
                  => PipeInv' /\ AnswerIsOwn'
  <1> SUFFICES ASSUME Base, PipeInv, AnswerIsOwn, [Next]_vars
               PROVE  PipeInv' /\ AnswerIsOwn'
    OBVIOUS
  <1>0. CallType /\ ConnType /\ PipeType /\ GenInv /\ WaitInv
    BY DEF Base
  <1>1. ASSUME inbox' = inbox, out' = out
        PROVE  \A g \in Gens : \A m \in Pipe(g)' :
                  \E old \in Pipe(g) : old.id = m.id /\ old.from = m.from
    BY <1>1 DEF Pipe
  \* A call moves on, and forgets at most its own request.
  <1>2. ASSUME NEW c \in Calls, OthersStay(c), box'[c] = Nil, pc'[c] # "write",
               UNCHANGED <<gen, inbox, out, crossed>>,
               nextID' \in {nextID, nextID + 1},
               \A n \in Ids : waiting'[n] \in {waiting[n], Nil}
        PROVE  PipeInv' /\ AnswerIsOwn'
    BY <1>1, <1>2, PipeStep DEF OthersStay
  <1>3. ASSUME NEW c \in Calls, Fails(c), startMu' = startMu
        PROVE  OthersStay(c) /\ box'[c] = Nil /\ pc'[c] # "write"
    BY <1>0, <1>3, FailsIs
  <1>4. ASSUME NEW c \in Calls, NEW r \in Requests, Begin(c, r)
        PROVE  PipeInv' /\ AnswerIsOwn'
    <2>1. UNCHANGED <<gen, inbox, out, crossed, nextID, waiting, box, sent>>
      BY <1>4 DEF Begin, connVars, procVars, history
    <2>2. \A d \in Calls : pc'[d] = "write" => pc[d] = "write"
      BY <1>0, <1>4 DEF Begin, Goto, CallType
    <2> QED  BY <1>1, <2>1, <2>2, PipeStep
  <1>5. ASSUME NEW c \in Calls, Ensure(c)  PROVE PipeInv' /\ AnswerIsOwn'
    <2>1. UNCHANGED <<gen, inbox, out, crossed, nextID, waiting, box, sent>>
      BY <1>5 DEF Ensure, procVars, history
    <2>2. \A d \in Calls : pc'[d] = "write" => pc[d] = "write"
      BY <1>0, <1>5 DEF Ensure, Goto, CallType
    <2> QED  BY <1>1, <2>1, <2>2, PipeStep
  <1>6. ASSUME NEW c \in Calls, SpawnFails(c)  PROVE PipeInv' /\ AnswerIsOwn'
    <2>1. End(c) /\ startMu' = startMu
          /\ UNCHANGED <<gen, inbox, out, crossed, nextID, waiting>>
      BY <1>6 DEF SpawnFails, connVars, procVars, history
    <2>2. OthersStay(c) /\ box'[c] = Nil /\ pc'[c] # "write"
      BY <1>0, <2>1, EndIs DEF CallType
    <2> QED  BY <1>2, <2>1, <2>2
  \* The new process was told nothing yet.
  <1>7. ASSUME NEW c \in Calls, Spawn(c)  PROVE PipeInv' /\ AnswerIsOwn'
    <2>1. /\ gen < MaxGen /\ gen' = gen + 1
          /\ UNCHANGED <<inbox, out, crossed, box, sent>>
      BY <1>7 DEF Spawn, history
    <2>2. gen' \in Gens /\ gen' > gen
      BY <1>0, <2>1, Numbers DEF ConnType, Gens
    <2>3. inbox[gen'] = {} /\ out[gen'] = <<>>
      BY <1>0, <2>2 DEF GenInv
    <2>4. \A m : m \notin Range(<<>>)
      BY DEF Range
    <2>7. ASSUME NEW d \in Calls, pc'[d] = "write"  PROVE sent'[d][2] # gen'
      <3>1. pc[d] = "write" /\ sent'[d] = sent[d]
        BY <1>0, <1>7, <2>7 DEF Spawn, Goto, CallType
      <3>2. sent[d][2] \in Nat /\ sent[d][2] <= gen /\ gen \in Nat
        BY <1>0, <3>1, GenIsNat, Numbers DEF Base, SentInv
      <3>3. \A a, b \in Nat : a <= b => a # b + 1
        OBVIOUS
      <3> QED  BY <2>1, <3>1, <3>2, <3>3
    <2>5. PipeInv'
      BY <2>1, <2>3, <2>4, <2>7 DEF PipeInv, Pipe
    <2>6. AnswerIsOwn'
      BY <2>1 DEF AnswerIsOwn
    <2> QED  BY <2>5, <2>6
  <1>8. ASSUME NEW c \in Calls, Request(c)  PROVE PipeInv' /\ AnswerIsOwn'
    <2>1. /\ pc[c] = "request"
          /\ UNCHANGED <<startMu, gen, inbox, out, crossed>>
      BY <1>8 DEF Request, procVars, history
    <2>2. CASE Fails(c) /\ UNCHANGED <<nextID, waiting>>
      BY <1>2, <1>3, <2>1, <2>2
    <2>3. CASE /\ ~dead /\ nextID' = nextID + 1
               /\ waiting' = [waiting EXCEPT ![nextID] = c]
               /\ sent' = [sent EXCEPT ![c] = <<nextID, stdin>>]
               /\ Goto(c, "write")
               /\ UNCHANGED box
      <3>1. nextID \in Ids /\ nextID \in Nat
        BY <2>1, NextIs, Numbers
      <3>2. gen \in Gens
        BY <1>0, <2>3 DEF GenInv, ConnType
      <3>3. Pipe(gen)' = Pipe(gen)
        BY <2>1 DEF Pipe
      <3>4. \A n \in Nat : n < nextID => n < nextID + 1 /\ n # nextID
        BY <3>1
      <3>5. \A n \in Ids : waiting'[n] = IF n = nextID THEN c ELSE waiting[n]
        BY <1>0, <2>3, <3>1 DEF ConnType
      <3>6. ASSUME NEW m \in Pipe(gen)'
            PROVE  m.id < nextID' /\ waiting'[m.id] \in {Nil, m.from}
        <4>1. m.id \in Ids /\ m.id < nextID /\ waiting[m.id] \in {Nil, m.from}
          BY <3>2, <3>3, <3>6, PipeIs DEF PipeInv
        <4>2. m.id < nextID + 1 /\ m.id # nextID
          BY <3>4, <4>1, Numbers
        <4> QED  BY <2>3, <3>5, <4>1, <4>2
      <3>7. /\ sent'[c] = <<nextID, stdin>>
            /\ \A d \in Calls \ {c} : sent'[d] = sent[d] /\ pc'[d] = pc[d]
        BY <1>0, <2>3 DEF CallType, Goto
      <3>8. ASSUME NEW d \in Calls, pc'[d] = "write", sent'[d][2] = gen
            PROVE  /\ sent'[d][1] < nextID'
                   /\ waiting'[sent'[d][1]] \in {Nil, d}
        <4>1. CASE d = c
          BY <2>3, <3>1, <3>5, <3>7, <4>1
        <4>2. CASE d # c
          <5>1. /\ sent'[d] = sent[d] /\ sent[d][1] \in Ids
                /\ sent[d][1] < nextID /\ waiting[sent[d][1]] \in {Nil, d}
            BY <1>0, <3>7, <3>8, <4>2 DEF PipeInv, Base, SentInv
          <5>2. sent[d][1] < nextID + 1 /\ sent[d][1] # nextID
            BY <3>4, <5>1, Numbers
          <5> QED  BY <2>3, <3>5, <5>1, <5>2
        <4> QED  BY <4>1, <4>2
      <3>9. PipeInv'
        BY <2>1, <3>6, <3>8 DEF PipeInv
      <3>10. AnswerIsOwn'
        <4>1. box[c] = Nil
          BY <1>0, <2>1 DEF WaitInv
        <4> QED  BY <2>1, <2>3, <3>7, <4>1 DEF AnswerIsOwn
      <3> QED  BY <3>9, <3>10
    <2> QED  BY <1>8, <2>2, <2>3 DEF Request, NextID
  \* What was being written is in the pipe.
  <1>17. ASSUME NEW c \in Calls, Written(c)  PROVE PipeInv' /\ AnswerIsOwn'
    <2>1. /\ pc[c] = "write" /\ Goto(c, "await")
          /\ inbox' = [inbox EXCEPT ![sent[c][2]] = @ \cup {Message(c)}]
          /\ UNCHANGED <<sent, box, gen, nextID, waiting, out, crossed>>
      BY <1>17 DEF Written, connVars, history
    <2>2. Message(c).id = sent[c][1] /\ Message(c).from = c
      BY DEF Message
    <2>3. sent[c] = <<sent[c][1], sent[c][2]>>
      BY <1>0 DEF CallType
    <2>4. \A g \in Gens : inbox'[g] = IF g = sent[c][2]
                                      THEN inbox[g] \cup {Message(c)}
                                      ELSE inbox[g]
      BY <1>0, <2>1 DEF PipeType
    <2>5. ASSUME NEW g \in Gens, NEW m \in Pipe(g)'
          PROVE  \/ \E old \in Pipe(g) : old.id = m.id /\ old.from = m.from
                 \/ \E d \in Calls : /\ pc[d] = "write"
                                     /\ sent[d] = <<m.id, g>> /\ m.from = d
      <3>1. CASE m \in Pipe(g)
        BY <3>1
      <3>2. CASE m = Message(c) /\ g = sent[c][2]
        BY <2>1, <2>2, <2>3, <3>2
      <3> QED  BY <2>1, <2>4, <2>5, <3>1, <3>2 DEF Pipe
    <2>6. \A d \in Calls : pc'[d] = "write" => pc[d] = "write"
      BY <1>0, <2>1 DEF Goto, CallType
    <2> QED  BY <2>1, <2>5, <2>6, PipeStep
  <1>9. ASSUME NEW c \in Calls, Receive(c)  PROVE PipeInv' /\ AnswerIsOwn'
    <2>1. UNCHANGED <<gen, inbox, out, crossed, nextID, waiting>>
      BY <1>9 DEF Receive, procVars, history
    <2>2. CASE Fails(c) /\ startMu' = startMu
      BY <1>2, <1>3, <2>1, <2>2
    <2>3. CASE /\ Goto(c, "request")
               /\ box' = [box EXCEPT ![c] = Nil] /\ UNCHANGED sent
      <3>1. \A d \in Calls : box'[d] = Nil \/ (box'[d] = box[d] /\ sent'[d] = sent[d])
        BY <1>0, <2>3 DEF CallType
      <3>2. \A d \in Calls : pc'[d] = "write" => pc[d] = "write"
        BY <1>0, <2>3 DEF Goto, CallType
      <3> QED  BY <1>1, <2>1, <2>3, <3>1, <3>2, PipeStep
    <2> QED  BY <1>9, <2>2, <2>3 DEF Receive
  <1>10. ASSUME NEW c \in Calls, WriteFails(c) \/ GiveUp(c)
         PROVE  PipeInv' /\ AnswerIsOwn'
    <2>1. /\ UNCHANGED <<startMu, gen, inbox, out, crossed, nextID>>
          /\ Fails(c) /\ waiting' = Forget(c)
      BY <1>10 DEF WriteFails, GiveUp, procVars, history
    <2>2. \A n \in Ids : waiting'[n] \in {waiting[n], Nil}
      BY <1>0, <2>1 DEF Forget, ConnType
    <2> QED  BY <1>2, <1>3, <2>1, <2>2
  <1>11. ASSUME NEW g, FailAll(g),
                UNCHANGED <<sent, gen, nextID, inbox, out, crossed>>,
                \A c \in Calls : pc'[c] = "write" => pc[c] = "write"
         PROVE  PipeInv' /\ AnswerIsOwn'
    <2>1. \A n \in Ids : waiting'[n] \in {waiting[n], Nil}
      BY <1>11, FailAllIs
    <2>2. \A c \in Calls : \/ box'[c] = box[c] /\ sent'[c] = sent[c]
                           \/ box'[c].from = c
      BY <1>11, ErrorIs
    <2> QED  BY <1>1, <1>11, <2>1, <2>2, PipeStep
  <1>12. ASSUME (\E c \in Calls : EnsureFails(c)) \/ IdleCloses
                \/ \E g \in Gens : ReadEnds(g)
         PROVE  PipeInv' /\ AnswerIsOwn'
    <2>1. \A c \in Calls : pc'[c] = "write" => pc[c] = "write"
      BY <1>0, <1>12 DEF EnsureFails, IdleCloses, ReadEnds, Goto, CallType
    <2> QED
      BY <1>11, <1>12, <2>1 DEF EnsureFails, IdleCloses, ReadEnds, procVars
  <1>13. CASE IdleFires \/ UNCHANGED vars
    <2>1. UNCHANGED <<pc, gen, inbox, out, crossed, nextID, waiting, box, sent>>
      BY <1>13 DEF IdleFires, vars, callVars, connVars, procVars, history
    <2> QED  BY <1>1, <2>1, PipeStep
  <1>14. ASSUME NEW g \in Gens, Answers(g)  PROVE PipeInv' /\ AnswerIsOwn'
    <2>1. PICK m \in inbox[g], kind \in {"result", "error"} :
             /\ out' = [out EXCEPT ![g] =
                          Append(@, [id |-> m.id, from |-> m.from,
                                     kind |-> kind])]
             /\ inbox' = [inbox EXCEPT ![g] = @ \ {m}]
      BY <1>14 DEF Answers
    <2> DEFINE x == [id |-> m.id, from |-> m.from, kind |-> kind]
    <2>2. x \in Outs /\ x.id = m.id /\ x.from = m.from
      <3>1. m \in Messages
        BY <1>0 DEF PipeType
      <3> QED  BY <3>1 DEF Messages, Outs
    <2>3. out' = [out EXCEPT ![g] = Append(out[g], x)]
      BY <2>1
    <2> HIDE DEF x
    <2>4. Range(out'[g]) = Range(out[g]) \cup {x}
      BY <1>0, <2>2, <2>3, AnswerIs DEF PipeType
    <2>5. ASSUME NEW h \in Gens, NEW n \in Pipe(h)'
          PROVE  \E old \in Pipe(h) : old.id = n.id /\ old.from = n.from
      <3>1. CASE h = g
        <4>1. n \in inbox[g] \cup Range(out[g]) \cup {x}
          BY <1>0, <2>1, <2>4, <2>5, <3>1 DEF Pipe, PipeType
        <4>2. m \in Pipe(g)
          BY DEF Pipe
        <4> QED  BY <2>2, <3>1, <4>1, <4>2 DEF Pipe
      <3>2. CASE h # g
        <4>1. n \in Pipe(h)
          BY <1>0, <2>1, <2>3, <2>5, <3>2 DEF Pipe, PipeType
        <4> QED  BY <4>1
      <3> QED  BY <3>1, <3>2
    <2>6. UNCHANGED <<pc, gen, crossed, nextID, waiting, box, sent>>
      BY <1>14 DEF Answers, callVars, connVars, history
    <2> QED  BY <2>5, <2>6, PipeStep
  <1>15. ASSUME NEW g \in Gens, Exits(g)  PROVE PipeInv' /\ AnswerIsOwn'
    <2>1. UNCHANGED <<pc, gen, out, crossed, nextID, waiting, box, sent>>
          /\ inbox' = [inbox EXCEPT ![g] = {}]
      BY <1>15 DEF Exits, callVars, connVars, history
    <2>2. \A h \in Gens : Pipe(h)' \subseteq Pipe(h)
      BY <1>0, <2>1 DEF Pipe, PipeType
    <2>3. \A h \in Gens : \A n \in Pipe(h)' :
             \E old \in Pipe(h) : old.id = n.id /\ old.from = n.from
      BY <2>2
    <2> QED  BY <2>1, <2>3, PipeStep
  <1>16. ASSUME NEW g \in Gens, OnLine(g)  PROVE PipeInv' /\ AnswerIsOwn'
    <2> DEFINE m == Head(out[g])
               c == waiting[m.id]
    <2>1. /\ out[g] # <<>> /\ out' = [out EXCEPT ![g] = Tail(@)]
          /\ UNCHANGED <<pc, sent, gen, nextID, inbox>>
          /\ \/ UNCHANGED <<waiting, box, crossed>>
             \/ /\ c # Nil /\ waiting' = [waiting EXCEPT ![m.id] = Nil]
                /\ box' = [box EXCEPT ![c] = [kind |-> m.kind, from |-> m.from]]
                /\ crossed' = IF g # gen THEN crossed \cup {gen} ELSE crossed
      BY <1>16 DEF OnLine
    <2>2. /\ m \in Outs /\ m \in Pipe(g)
          /\ Range(Tail(out[g])) \subseteq Range(out[g])
      BY <2>1, LineIs DEF Pipe
    <2>3. m.id \in Ids /\ c \in Calls \cup {Nil}
      BY <1>0, <2>2 DEF Outs, ConnType
    <2>4. \A h \in Gens : Pipe(h)' \subseteq Pipe(h)
      BY <1>0, <2>1, <2>2 DEF Pipe, PipeType
    <2>5. \A h \in Gens : \A n \in Pipe(h)' :
             \E old \in Pipe(h) : old.id = n.id /\ old.from = n.from
      BY <2>4
    <2>6. g = gen => c \in {Nil, m.from}
      BY <2>2 DEF PipeInv
    <2>7. c # Nil => sent[c] = <<m.id, gen>>
      BY <1>0, <2>3 DEF WaitInv
    <2> HIDE DEF m, c
    <2>8. \A n \in Ids : waiting'[n] \in {waiting[n], Nil}
      BY <1>0, <2>1 DEF ConnType
    <2>9. crossed \subseteq crossed'
      BY <2>1
    <2>10. ASSUME NEW d \in Calls
           PROVE  \/ box'[d] = box[d] /\ sent'[d] = sent[d]
                  \/ box'[d].from = d \/ sent'[d][2] \in crossed'
      <3>1. CASE box' = box \/ d # c
        BY <1>0, <2>1, <3>1 DEF CallType
      <3>2. CASE /\ d = c /\ c # Nil
                 /\ box' = [box EXCEPT ![c] = [kind |-> m.kind, from |-> m.from]]
                 /\ crossed' = IF g # gen THEN crossed \cup {gen} ELSE crossed
        <4>1. box'[d].from = m.from
          BY <1>0, <3>2 DEF CallType
        <4>2. sent'[d][2] = gen
          BY <2>1, <2>7, <3>2
        <4> QED  BY <2>6, <3>2, <4>1, <4>2
      <3> QED  BY <2>1, <3>1, <3>2
    <2> QED  BY <2>1, <2>5, <2>8, <2>9, <2>10, PipeStep
  <1> QED
    BY <1>4, <1>5, <1>6, <1>7, <1>8, <1>9, <1>10, <1>12, <1>13, <1>14, <1>15,
       <1>16, <1>17
    DEF Next, Step, Starts, KillFires

\* Whatever the server answers, in any order, again or late, the result a call
\* finds in its channel is the answer to its own request (request, onLine) -
\* unless an earlier process of the connection spoke to this generation.
THEOREM AnswersAreOwn == Spec => []AnswerIsOwn
  <1>1. Init => PipeInv /\ AnswerIsOwn
    <2>1. \A m : m \notin Range(<<>>)
      BY DEF Range
    <2> QED  BY <2>1, Numbers DEF Init, PipeInv, Pipe, AnswerIsOwn
  <1> QED  BY <1>1, PipeNext, BaseAlways, PTL DEF Spec

=============================================================================
