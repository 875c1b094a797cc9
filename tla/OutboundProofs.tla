--------------------------- MODULE OutboundProofs ---------------------------
(***************************************************************************)
(* Theorems about Outbound, for any number of invokes, whatever the        *)
(* commands print: its types, that it implements Delivery, and that all    *)
(* output of a command arrives.                                            *)
(*                                                                         *)
(* The last one goes over the places at which the pushes of a stream cut   *)
(* what a command printed.  Redaction works on one piece at a time; at a   *)
(* Clean place it loses nothing by that (CleanSpares).  A step keeps the   *)
(* places that were found and adds one (OutSends); the results of a        *)
(* command are the pieces between them in their order, and those that have *)
(* arrived are the first of these, as long as none was lost (OutOf).       *)
(***************************************************************************)
EXTENDS Outbound, SequenceTheorems, FiniteSetTheorems, WellFoundedInduction,
        TLAPS

-----------------------------------------------------------------------------
(* Redaction.                                                              *)

\* A set of numbers that is bounded has a greatest one.
LEMMA Greatest ==
    ASSUME NEW N \in Nat, NEW T, T \subseteq 0 .. N, T # {}
    PROVE  \E n \in T : \A m \in n + 1 .. N : m \notin T
  <1> DEFINE U == {k \in Nat : N - k \in T}
  <1>1. U \subseteq Nat /\ U # {}
    <2>1. PICK n \in T : TRUE
      OBVIOUS
    <2>2. N - n \in Nat /\ N - (N - n) = n
      BY <2>1
    <2> QED  BY <2>1, <2>2
  <1>2. PICK k \in U : \A j \in U : <<j, k>> \notin OpToRel(<, Nat)
    BY <1>1, NatLessThanWellFounded, WFMin, Zenon
  <1>3. \A j \in U : ~(j < k)
    BY <1>2 DEF OpToRel
  <1>4. ASSUME NEW m \in N - k + 1 .. N  PROVE m \notin T
    <2>1. N - m \in Nat /\ N - m < k /\ N - (N - m) = m
      BY <1>4
    <2> QED  BY <1>3, <2>1
  <1> QED  BY <1>4

LEMMA SecretIs == Len(Secret) \in Nat \ {0}
  BY RedactAssumption

LEMMA LastNewlineAt ==
    ASSUME NEW S, NEW p \in Seq(S)
    PROVE  /\ LastNewline(p) \in 0 .. Len(p)
           /\ LastNewline(p) # 0 => p[LastNewline(p)] = Newline
           /\ \A m \in LastNewline(p) + 1 .. Len(p) : p[m] # Newline
  <1> DEFINE T == {n \in 0 .. Len(p) : n # 0 => p[n] = Newline}
  <1>1. Len(p) \in Nat /\ 0 \in T /\ T \subseteq 0 .. Len(p)
    OBVIOUS
  <1>2. PICK n \in T : \A m \in n + 1 .. Len(p) : m \notin T
    <2> HIDE DEF T
    <2> QED  BY <1>1, Greatest
  <1>3. \A m \in n + 1 .. Len(p) : p[m] # Newline
    BY <1>1, <1>2
  <1>4. \E k \in 0 .. Len(p) : /\ k # 0 => p[k] = Newline
                               /\ \A m \in k + 1 .. Len(p) : p[m] # Newline
    BY <1>2, <1>3
  <1> QED  BY <1>4 DEF LastNewline

\* The cut of a Push: behind the last newline; before it, when what follows it
\* is no beginning of a character; or in a text without one that is longer
\* than the carry, where a character begins.
LEMMA CutAt ==
    ASSUME NEW S, NEW p \in Seq(S)
    PROVE  /\ Cut(p) \in 0 .. Len(p)
           /\ \/ Cut(p) = 0
              \/ p[Cut(p)] = Newline
              \/ /\ Cut(p) < Len(p)
                 /\ p[Cut(p) + 1] \notin Conts
                 /\ \/ p[Cut(p) + 1] = Newline
                    \/ /\ Len(p) > Carry
                       /\ \A m \in 1 .. Len(p) : p[m] # Newline
  <1> DEFINE ln  == LastNewline(p)
             cut == IF ln # 0 THEN ln
                    ELSE IF Len(p) > Carry THEN Len(p) - Carry ELSE 0
             c   == Cut(p)
             T   == {n \in 0 .. cut : RuneStart(p, n)}
  <1>1. /\ ln \in 0 .. Len(p) /\ Len(p) \in Nat
        /\ ln # 0 => p[ln] = Newline
        /\ \A m \in ln + 1 .. Len(p) : p[m] # Newline
    BY LastNewlineAt
  <1>2. Cut(p) = CHOOSE n \in 0 .. cut :
                    /\ RuneStart(p, n)
                    /\ \A m \in n + 1 .. cut : ~RuneStart(p, m)
    BY DEF Cut
  <1> HIDE DEF ln, c
  <1>3. cut \in 0 .. Len(p) /\ Carry \in Nat \ {0}
    BY <1>1, RedactAssumption
  <1>4. cut \in Nat /\ 0 \in T /\ T \subseteq 0 .. cut
    BY <1>3 DEF RuneStart
  <1>5. PICK n \in T : \A m \in n + 1 .. cut : m \notin T
    <2> HIDE DEF T, cut
    <2> QED  BY <1>4, Greatest
  <1>6. \E k \in 0 .. cut : /\ RuneStart(p, k)
                            /\ \A m \in k + 1 .. cut : ~RuneStart(p, m)
    <2> HIDE DEF cut
    <2> QED  BY <1>4, <1>5
  <1>7. /\ c \in 0 .. cut /\ RuneStart(p, c)
        /\ \A m \in c + 1 .. cut : ~RuneStart(p, m)
    <2> HIDE DEF cut
    <2> QED  BY <1>2, <1>6 DEF c
  <1>8. CASE ln # 0
    <2>1. cut = ln /\ ln \in 1 .. Len(p) /\ p[ln] = Newline
      BY <1>1, <1>8
    <2>2. RuneStart(p, ln - 1) /\ p[ln] \notin Conts
      BY <2>1, RedactAssumption DEF RuneStart
    <2>3. c = ln \/ c = ln - 1
      <3> HIDE DEF cut
      <3>1. c \in 0 .. ln /\ (ln - 1 \in c + 1 .. ln => ~RuneStart(p, ln - 1))
        BY <1>7, <2>1
      <3> QED  BY <2>1, <2>2, <3>1
    <2>4. CASE c = ln
      BY <2>1, <2>4 DEF c
    <2>5. CASE c = ln - 1
      <3>1. c < Len(p) /\ c + 1 = ln /\ c \in 0 .. Len(p)
        BY <2>1, <2>5
      <3> HIDE DEF cut
      <3> QED  BY <2>1, <2>2, <3>1 DEF c
    <2> QED  BY <2>3, <2>4, <2>5
  <1>9. CASE ln = 0
    <2>1. c \in 0 .. Len(p) /\ c # 0 => Len(p) > Carry /\ c < Len(p)
      BY <1>3, <1>7, <1>9
    <2>2. c # 0 => p[c + 1] \notin Conts
      BY <1>7, <2>1 DEF RuneStart
    <2>3. c \in 0 .. Len(p)
      BY <1>3, <1>7
    <2>4. \A m \in 1 .. Len(p) : p[m] # Newline
      BY <1>1, <1>9
    <2> HIDE DEF cut
    <2> QED  BY <2>1, <2>2, <2>3, <2>4 DEF c
  <1> QED  BY <1>8, <1>9

-----------------------------------------------------------------------------
(* Where a text may be cut.                                                *)

\* A place at which text t may be cut: no character and no secret in a line
\* no longer than the carry has a part on both sides of it, and this stays so
\* when the text goes on.
Clean(t, e) ==
    \/ e = 0
    \/ t[e] = Newline
    \/ /\ e < Len(t)
       /\ t[e + 1] \notin Conts
       /\ \/ t[e + 1] = Newline
          \/ \E a, b \in 0 .. Len(t) :
                /\ a <= e /\ e < b /\ b - a > Carry
                /\ \A m \in a + 1 .. b : t[m] # Newline

LEMMA CleanPush ==
    ASSUME NEW S, NEW t \in Seq(S), NEW e \in 0 .. Len(t), Clean(t, e)
    PROVE  LET c == Cut(SubSeq(t, e + 1, Len(t)))
           IN c \in 0 .. Len(t) - e /\ Clean(t, e + c)
  <1> DEFINE p == SubSeq(t, e + 1, Len(t))
             c == Cut(p)
  <1>1. /\ Len(t) \in Nat /\ e \in Nat
        /\ p \in Seq(S) /\ Len(p) = Len(t) - e
        /\ \A m \in 1 .. Len(t) - e : p[m] = t[e + m]
    <2>1. e + 1 \in 1 .. Len(t) + 1 /\ Len(t) \in Nat
      OBVIOUS
    <2>2. /\ p \in Seq(S)
          /\ Len(p) = IF e + 1 <= Len(t) THEN Len(t) - (e + 1) + 1 ELSE 0
          /\ \A m \in 1 .. Len(t) - (e + 1) + 1 : p[m] = t[e + 1 + m - 1]
      BY <2>1, SubSeqProperties
    <2> QED  BY <2>1, <2>2
  <1> HIDE DEF p
  <1>2. /\ c \in 0 .. Len(t) - e
        /\ \/ c = 0
           \/ p[c] = Newline
           \/ /\ c < Len(t) - e
              /\ p[c + 1] \notin Conts
              /\ \/ p[c + 1] = Newline
                 \/ /\ Len(t) - e > Carry
                    /\ \A m \in 1 .. Len(t) - e : p[m] # Newline
    BY <1>1, CutAt
  <1> HIDE DEF c
  <1>3. CASE c = 0
    BY <1>1, <1>2, <1>3 DEF p, c
  <1>4. CASE c # 0 /\ p[c] = Newline
    <2>1. t[e + c] = Newline /\ e + c \in Nat
      BY <1>1, <1>2, <1>4
    <2> QED  BY <1>2, <2>1 DEF Clean, p, c
  <1>5. CASE /\ c # 0 /\ c < Len(t) - e
             /\ p[c + 1] \notin Conts
             /\ \/ p[c + 1] = Newline
                \/ /\ Len(t) - e > Carry
                   /\ \A m \in 1 .. Len(t) - e : p[m] # Newline
    <2>1. p[c + 1] = t[e + c + 1] /\ e + c < Len(t) /\ e + c \in Nat
      <3>1. c + 1 \in 1 .. Len(t) - e /\ e + (c + 1) = e + c + 1
        BY <1>1, <1>2, <1>5
      <3> QED  BY <1>1, <1>2, <1>5, <3>1
    <2>2. CASE p[c + 1] = Newline
      BY <1>2, <1>5, <2>1, <2>2 DEF Clean, p, c
    <2>3. CASE Len(t) - e > Carry /\ \A m \in 1 .. Len(t) - e : p[m] # Newline
      <3>1. ASSUME NEW m \in e + 1 .. Len(t)  PROVE t[m] # Newline
        <4>1. m - e \in 1 .. Len(t) - e /\ e + (m - e) = m
          BY <1>1
        <4> QED  BY <1>1, <2>3, <4>1
      <3>2. /\ e \in 0 .. Len(t) /\ Len(t) \in 0 .. Len(t)
            /\ e <= e + c /\ e + c < Len(t) /\ Len(t) - e > Carry
        BY <1>1, <1>2, <2>1, <2>3
      <3>3. \E a, b \in 0 .. Len(t) :
               /\ a <= e + c /\ e + c < b /\ b - a > Carry
               /\ \A m \in a + 1 .. b : t[m] # Newline
        BY <3>1, <3>2, Zenon
      <3> QED  BY <1>2, <1>5, <2>1, <3>3 DEF Clean, p, c
    <2> QED  BY <1>5, <2>2, <2>3
  <1> QED  BY <1>2, <1>3, <1>4, <1>5

LEMMA CleanGrows ==
    ASSUME NEW S, NEW t \in Seq(S), NEW x \in Seq(S), NEW e \in 0 .. Len(t),
           Clean(t, e)
    PROVE  Clean(t \o x, e)
  <1> DEFINE u == t \o x
  <1>1. /\ Len(t) \in Nat /\ Len(x) \in Nat /\ Len(u) = Len(t) + Len(x)
        /\ \A m \in 1 .. Len(t) : u[m] = t[m]
    BY ConcatProperties
  <1> HIDE DEF u
  <1>2. CASE e = 0
    BY <1>2 DEF Clean
  <1>3. CASE e # 0 /\ t[e] = Newline
    BY <1>1, <1>3 DEF Clean, u
  <1>4. CASE /\ e < Len(t) /\ t[e + 1] \notin Conts
             /\ t[e + 1] = Newline
    <2>1. e + 1 \in 1 .. Len(t) /\ e < Len(u)
      BY <1>1, <1>4
    <2> QED  BY <1>1, <1>4, <2>1 DEF Clean, u
  <1>5. CASE /\ e < Len(t) /\ t[e + 1] \notin Conts
             /\ \E a, b \in 0 .. Len(t) :
                   /\ a <= e /\ e < b /\ b - a > Carry
                   /\ \A m \in a + 1 .. b : t[m] # Newline
    <2>1. e + 1 \in 1 .. Len(t) /\ e < Len(u) /\ u[e + 1] \notin Conts
      BY <1>1, <1>5
    <2>2. PICK a, b \in 0 .. Len(t) :
                   /\ a <= e /\ e < b /\ b - a > Carry
                   /\ \A m \in a + 1 .. b : t[m] # Newline
      BY <1>5
    <2>3. a \in 0 .. Len(u) /\ b \in 0 .. Len(u)
          /\ \A m \in a + 1 .. b : m \in 1 .. Len(t)
      BY <1>1
    <2>4. \A m \in a + 1 .. b : u[m] # Newline
      BY <1>1, <2>2, <2>3
    <2> QED  BY <2>1, <2>2, <2>3, <2>4 DEF Clean, u
  <1> QED  BY <1>2, <1>3, <1>4, <1>5 DEF Clean

LEMMA CleanSpares ==
    ASSUME NEW S, NEW t \in Seq(S), NEW e \in 0 .. Len(t), Clean(t, e),
           NEW f \in Found(t), Span(f) \subseteq Line(t, f),
           Cardinality(Line(t, f)) <= Carry
    PROVE  ~(f <= e /\ e < f + Len(Secret) - 1)
  <1> SUFFICES ASSUME f <= e, e < f + Len(Secret) - 1  PROVE FALSE
    OBVIOUS
  <1>1. Len(t) \in Nat /\ f \in 1 .. Len(t) /\ Len(Secret) \in Nat
        /\ DOMAIN t = 1 .. Len(t) /\ Carry \in Nat
    BY SecretIs, RedactAssumption DEF Found
  <1>2. e \in Span(f) /\ e + 1 \in Span(f)
    BY <1>1 DEF Span
  <1>3. e \in Line(t, f) /\ e + 1 \in Line(t, f)
    BY <1>2
  <1>4. t[e] # Newline /\ t[e + 1] # Newline /\ e # 0
        /\ \A k \in f .. e : t[k] # Newline
    <2>1. \A k \in f .. (e + 1) - 1 : t[k] # Newline
      BY <1>3 DEF Line
    <2> QED  BY <1>1, <1>3, <2>1 DEF Line
  <1>5. PICK a, b \in 0 .. Len(t) :
           /\ a <= e /\ e < b /\ b - a > Carry
           /\ \A m \in a + 1 .. b : t[m] # Newline
    BY <1>4 DEF Clean
  <1>6. ASSUME NEW m \in a + 1 .. b  PROVE m \in Line(t, f)
    <2>1. m \in 1 .. Len(t) /\ t[m] # Newline
      BY <1>1, <1>5
    <2>2. ASSUME NEW k \in f .. m - 1  PROVE t[k] # Newline
      <3>1. k \in f .. e \/ k \in a + 1 .. b
        BY <1>1, <1>5
      <3> QED  BY <1>4, <1>5, <3>1
    <2>3. ASSUME NEW k \in m .. f - 1  PROVE t[k] # Newline
      <3>1. k \in a + 1 .. b
        BY <1>1, <1>5
      <3> QED  BY <1>5, <3>1
    <2> QED  BY <1>1, <2>1, <2>2, <2>3 DEF Line
  <1>7. IsFiniteSet(Line(t, f))
    <2>1. IsFiniteSet(1 .. Len(t))
      BY <1>1, FS_Interval
    <2>2. Line(t, f) \subseteq 1 .. Len(t)
      BY <1>1 DEF Line
    <2> QED  BY <2>1, <2>2, FS_Subset
  <1>8. Cardinality(a + 1 .. b) = b - a
    <2>1. a + 1 \in Int /\ b \in Int /\ b - (a + 1) + 1 = b - a /\ ~(a + 1 > b)
      BY <1>1, <1>5
    <2> QED  BY <2>1, FS_Interval
  <1>9. /\ Cardinality(a + 1 .. b) <= Cardinality(Line(t, f))
        /\ Cardinality(Line(t, f)) \in Nat
    <2>1. a + 1 .. b \subseteq Line(t, f)
      BY <1>6
    <2> QED  BY <1>7, <2>1, FS_Subset, FS_CardinalityType
  <1> QED  BY <1>1, <1>5, <1>8, <1>9

Bytes == {Hidden, Newline} \cup Conts \cup UNION {Range(c) : c \in Chunks}

LEMMA RedactedIs ==
    ASSUME NEW t \in Text
    PROVE  Redacted(t) \in Text
  BY DEF Redacted, Text

\* What a Push gives out and what it keeps are texts.
LEMMA PushIs ==
    ASSUME NEW p \in Text
    PROVE  PushOut(p) \in Text /\ PushKeep(p) \in Text
  <1>1. p \in Seq(Bytes) /\ Text = Seq(Bytes)
    BY DEF Text, Bytes
  <1>2. Cut(p) \in 0 .. Len(p) /\ Len(p) \in Nat
    BY <1>1, CutAt
  <1>3. SubSeq(p, 1, Cut(p)) \in Text /\ SubSeq(p, Cut(p) + 1, Len(p)) \in Text
    BY <1>1, <1>2
  <1> QED  BY <1>3, RedactedIs DEF PushOut, PushKeep

LEMMA ChunkIs ==
    ASSUME NEW c \in Chunks, NEW t \in Text
    PROVE  t \o c \in Text
  <1>1. Range(c) \subseteq Bytes /\ c \in Seq(Range(c))
    BY OutboundAssumption DEF Bytes
  <1>2. c \in Seq(Bytes) /\ t \in Seq(Bytes)
    BY <1>1 DEF Text, Bytes
  <1> QED  BY <1>2, ConcatProperties DEF Text, Bytes

-----------------------------------------------------------------------------
(* Type correctness.                                                       *)

\* What is made of a call of Send.
Results == [id : Invokes, nr : Nat, final : BOOLEAN, text : Text]

ConnType ==
    /\ conn \in {"begin", "stream", "wait", "over", "gone"}
    /\ op \in [Invokes -> {"exec", "terminal", "update", Nil}]
    /\ wire \subseteq Invokes

HostType ==
    /\ disp \in [Invokes -> {"no", "running", "flushed", "settled", "over"}]
    /\ printed \in [Invokes -> Seq(Chunks)]
    /\ kept \in [Invokes -> Text]
    /\ reports \in [Invokes -> Nat]

SendType ==
    /\ queue \in Seq(Results)
    /\ draining \in BOOLEAN
    /\ drains \in Nat
    /\ posting \in Seq(Results)

CloudType ==
    /\ landed \in Seq(Results)
    /\ late \subseteq Results
    /\ unsent \subseteq Invokes

\* What a result says of itself was reported.
Counted(r) == r.nr \in 1 .. reports[r.id]

ReportInv ==
    \A r \in Range(queue) \cup Range(posting) \cup Range(landed) \cup late :
        Counted(r)

\* An invoke is dispatched once, and only one that was asked for.
AskInv == \A i \in Invokes :
    /\ op[i] = Nil => i \notin wire /\ disp[i] = "no"
    /\ i \in wire => disp[i] = "no"

\* The invokes of the user that have not returned.
Busy == {i \in Invokes : /\ disp[i] \in {"running", "flushed", "settled"}
                         /\ op[i] # "update"}

CountInv == IsFiniteSet(Busy) /\ inflight = Cardinality(Busy)

\* There is one drain, at the top of its loop or in a POST; and it is there
\* whenever something is in the queue.
OneDrain ==
    /\ draining => drains + Len(posting) = 1
    /\ ~draining => drains + Len(posting) = 0 /\ queue = <<>>

Base == /\ ConnType /\ HostType /\ SendType /\ CloudType
        /\ ReportInv /\ AskInv /\ CountInv /\ OneDrain

LEMMA ResultIs ==
    ASSUME NEW r \in Results, Counted(r)
    PROVE  IsResult(r)
  <1>1. \E i \in Invokes, n \in Nat, f \in BOOLEAN, t \in Text :
           r = [id |-> i, nr |-> n, final |-> f, text |-> t]
    BY DEF Results
  <1>2. DOMAIN r = {"id", "nr", "final", "text"}
    BY <1>1
  <1>3. r.id \in Invokes /\ r.final \in BOOLEAN /\ r.text \in Text
    BY DEF Results
  <1> QED  BY <1>2, <1>3 DEF IsResult, Counted

LEMMA RangeIs ==
    ASSUME NEW S, NEW s \in Seq(S)
    PROVE  Range(s) \subseteq S
  BY DEF Range

LEMMA BaseTypes == Base => TypeOK
  <1> SUFFICES ASSUME Base PROVE TypeOK
    OBVIOUS
  <1> USE DEF Base
  <1>1. \A i \in Invokes : Range(printed[i]) \subseteq Chunks /\ kept[i] \in Text
    BY RangeIs DEF HostType
  <1>2. Range(queue) \cup Range(posting) \cup Range(landed) \cup late
          \subseteq Results
    BY RangeIs DEF SendType, CloudType
  <1>3. \A r \in Range(queue) \cup Range(posting) \cup Range(landed) \cup late :
           IsResult(r)
    BY <1>2, ResultIs DEF ReportInv
  <1>4. drains + Len(posting) = IF draining THEN 1 ELSE 0
    BY DEF OneDrain, SendType
  <1>5. inflight = Cardinality({i \in Invokes :
                     /\ disp[i] \in {"running", "flushed", "settled"}
                     /\ op[i] # "update"})
    BY DEF CountInv, Busy
  <1> QED
    BY <1>1, <1>3, <1>4, <1>5
    DEF ConnType, HostType, SendType, CloudType, TypeOK

LEMMA BaseInit == Init => Base
  <1> SUFFICES ASSUME Init PROVE Base
    OBVIOUS
  <1>1. <<>> \in Text /\ <<>> \in Seq(Chunks) /\ <<>> \in Seq(Results)
        /\ Range(<<>>) = {} /\ Len(<<>>) = 0
    BY DEF Text, Range
  <1>2. ConnType
    BY DEF Init, ConnType
  <1>3. HostType
    BY <1>1 DEF Init, HostType
  <1>4. SendType /\ CloudType
    BY <1>1 DEF Init, SendType, CloudType
  <1>5. ReportInv
    BY <1>1 DEF Init, ReportInv
  <1>6. AskInv
    BY DEF Init, AskInv
  <1>7. Busy = {}
    BY DEF Init, Busy
  <1>8. CountInv
    BY <1>7, FS_EmptySet DEF Init, CountInv
  <1>9. OneDrain
    BY <1>1 DEF Init, OneDrain
  <1> QED  BY <1>2, <1>3, <1>4, <1>5, <1>6, <1>8, <1>9 DEF Base

\* The invokes that were not dispatched are as they were, and nobody else
\* began or returned.
LEMMA CountStays ==
    ASSUME Base, UNCHANGED <<op, inflight>>, wire' \subseteq wire,
           \A i \in Invokes : /\ (disp'[i] = "no") = (disp[i] = "no")
                              /\ (i \in Busy') = (i \in Busy)
    PROVE  AskInv' /\ CountInv'
  <1>1. AskInv'
    BY DEF Base, AskInv
  <1>2. Busy' = Busy
    BY DEF Busy
  <1> QED  BY <1>1, <1>2 DEF Base, CountInv

LEMMA BaseConnection ==
    ASSUME Base, Connection, conn' # "gone"
    PROVE  Base'
  <1> USE DEF Base
  <1>1. /\ conn' \in {"begin", "stream", "wait", "over"} /\ wire' \subseteq wire
        /\ UNCHANGED <<op, hostVars, sendVars, posting, landed, late, unsent>>
    <2>1. ~Exit
      BY DEF Exit
    <2> QED
      BY <2>1 DEF Connection, Connect, Refused, Drop, Retry, Revoked, Stop,
                  ConnStep
  <1>2. ConnType' /\ HostType' /\ SendType' /\ CloudType' /\ OneDrain'
    BY <1>1 DEF ConnType, HostType, SendType, CloudType, OneDrain, hostVars,
                sendVars
  <1>3. ReportInv'
    BY <1>1 DEF ReportInv, Counted, hostVars, sendVars
  <1>4. Busy' = Busy /\ disp' = disp /\ inflight' = inflight /\ op' = op
    BY <1>1 DEF Busy, hostVars
  <1>5. AskInv' /\ CountInv'
    BY <1>1, <1>4 DEF AskInv, CountInv
  <1> QED  BY <1>2, <1>3, <1>5

LEMMA BaseExit ==
    ASSUME Base, Exit
    PROVE  Base'
  <1> USE DEF Base
  <1>1. <<>> \in Text /\ <<>> \in Seq(Results) /\ Range(<<>>) = {}
        /\ Len(<<>>) = 0
    BY DEF Text, Range
  <1>2. ConnType' /\ HostType'
    BY <1>1 DEF Exit, ConnType, HostType
  <1>3. late' \subseteq late \cup Range(posting)
    BY DEF Exit
  <1>4. SendType' /\ CloudType'
    BY <1>1, <1>3, RangeIs DEF Exit, SendType, CloudType
  <1>5. ReportInv'
    BY <1>1, <1>3 DEF Exit, ReportInv, Counted
  <1>6. AskInv'
    BY DEF Exit, AskInv
  <1>7. Busy' = {}
    BY DEF Exit, Busy
  <1>8. CountInv'
    BY <1>7, FS_EmptySet DEF Exit, CountInv
  <1>9. OneDrain'
    BY <1>1 DEF Exit, OneDrain
  <1> QED  BY <1>2, <1>4, <1>5, <1>6, <1>8, <1>9

\* A result goes to the queue; if no drain is there, one is started.
LEMMA SendIs ==
    ASSUME Base, NEW r \in Results, r.nr = reports[r.id] + 1, Send(r)
    PROVE  /\ ConnType' /\ SendType' /\ CloudType' /\ ReportInv' /\ OneDrain'
           /\ reports' \in [Invokes -> Nat]
           /\ UNCHANGED <<op, wire>>
  <1> USE DEF Base
  <1>1. ConnType' /\ CloudType' /\ UNCHANGED <<op, wire, posting, landed, late>>
    BY DEF Send, ConnType, CloudType
  <1>2. /\ Append(queue, r) \in Seq(Results)
        /\ Len(Append(queue, r)) = Len(queue) + 1
        /\ \A n \in 1 .. Len(queue) : Append(queue, r)[n] = queue[n]
        /\ Append(queue, r)[Len(queue) + 1] = r
    BY AppendProperties DEF SendType
  <1>3. queue' = Append(queue, r) /\ draining'
    BY DEF Send
  <1>4. SendType'
    BY <1>1, <1>2, <1>3 DEF SendType, Send, Drain
  <1>5. OneDrain'
    BY <1>1, <1>3 DEF OneDrain, Send, Drain, SendType
  <1>6. /\ r.id \in Invokes /\ r.nr \in Nat /\ r.nr > 0
        /\ reports[r.id] \in Nat
    BY DEF Results, HostType
  <1>7. /\ reports' \in [Invokes -> Nat]
        /\ \A i \in Invokes : reports'[i] = IF i = r.id THEN r.nr ELSE reports[i]
    BY <1>6 DEF Send, HostType
  <1>8. Range(queue') \subseteq Range(queue) \cup {r}
    <2>1. Len(queue) \in Nat /\ DOMAIN queue = 1 .. Len(queue)
      BY DEF SendType
    <2> QED  BY <1>2, <1>3, <2>1 DEF Range
  <1>9. Counted(r)'
    BY <1>6, <1>7 DEF Counted
  <1>10. ASSUME NEW x \in Results, Counted(x)  PROVE Counted(x)'
    <2>1. x.id \in Invokes /\ x.nr \in Nat /\ reports[x.id] \in Nat
      BY DEF Results, HostType
    <2> QED  BY <1>6, <1>7, <1>10, <2>1 DEF Counted
  <1>11. Range(queue) \cup Range(posting) \cup Range(landed) \cup late
           \subseteq Results
    BY RangeIs DEF SendType, CloudType
  <1>12. ReportInv'
    <2> SUFFICES ASSUME NEW x \in Range(queue') \cup Range(posting')
                                  \cup Range(landed') \cup late'
                 PROVE  Counted(x)'
      BY DEF ReportInv
    <2>1. x = r \/ x \in Range(queue) \cup Range(posting) \cup Range(landed)
                           \cup late
      BY <1>1, <1>8
    <2> QED  BY <1>9, <1>10, <1>11, <2>1 DEF ReportInv
  <1> QED  BY <1>1, <1>4, <1>5, <1>7, <1>12

LEMMA ResultOf ==
    ASSUME Base, NEW i \in Invokes, NEW f \in BOOLEAN, NEW t \in Text
    PROVE  /\ Result(i, f, t) \in Results
           /\ Result(i, f, t).nr = reports[Result(i, f, t).id] + 1
  BY DEF Base, HostType, Result, Results

LEMMA BaseInvoke ==
    ASSUME Base, NEW i \in Invokes, Invoke(i)
    PROVE  Base'
  <1> USE DEF Base
  <1>1. ASSUME NEW o \in OpsOf[i], Ask(i, o)  PROVE Base'
    <2>1. o \in {"exec", "terminal", "update"} /\ o # Nil
      BY OutboundAssumption
    <2>2. /\ \A j \in Invokes : op'[j] = IF j = i THEN o ELSE op[j]
          /\ wire' = wire \cup {i} /\ disp[i] = "no"
          /\ UNCHANGED <<conn, hostVars, sendVars, posting, landed, late,
                         unsent>>
      BY <1>1 DEF Ask, ConnType, AskInv
    <2>3. ConnType'
      BY <1>1, <2>1, <2>2 DEF Ask, ConnType
    <2>4. HostType' /\ SendType' /\ CloudType' /\ OneDrain'
      BY <2>2 DEF HostType, SendType, CloudType, OneDrain, hostVars, sendVars
    <2>5. ReportInv'
      BY <2>2 DEF ReportInv, Counted, hostVars, sendVars
    <2>6. AskInv'
      BY <2>1, <2>2 DEF AskInv, hostVars
    <2>7. Busy' = Busy /\ inflight' = inflight
      BY <2>2 DEF Busy, hostVars
    <2>8. CountInv'
      BY <2>7 DEF CountInv
    <2> QED  BY <2>3, <2>4, <2>5, <2>6, <2>8
  <1>2. CASE Dispatch(i)
    <2>1. /\ i \in wire /\ wire' = wire \ {i} /\ disp[i] = "no"
          /\ \A j \in Invokes : disp'[j] = IF j = i THEN "running" ELSE disp[j]
          /\ UNCHANGED <<conn, op, printed, kept, reports, sendVars, posting,
                         landed, late, unsent>>
      BY <1>2 DEF Dispatch, HostType, AskInv
    <2>2. ConnType' /\ SendType' /\ CloudType' /\ OneDrain'
      BY <2>1 DEF ConnType, SendType, CloudType, OneDrain, sendVars
    <2>3. HostType'
      BY <1>2, <2>1 DEF Dispatch, HostType
    <2>4. ReportInv'
      BY <2>1 DEF ReportInv, Counted, sendVars
    <2>5. AskInv'
      BY <2>1 DEF AskInv
    <2>6. CASE op[i] = "update"
      <3>1. Busy' = Busy
        BY <2>1, <2>6 DEF Busy
      <3>2. inflight \in Nat
        BY FS_CardinalityType DEF CountInv
      <3>3. inflight' = inflight
        BY <1>2, <2>6, <3>2 DEF Dispatch
      <3>4. CountInv'
        BY <3>1, <3>3 DEF CountInv
      <3> QED  BY <2>2, <2>3, <2>4, <2>5, <3>4
    <2>7. CASE op[i] # "update"
      <3>1. Busy' = Busy \cup {i} /\ i \notin Busy
        BY <2>1, <2>7 DEF Busy
      <3>2. /\ IsFiniteSet(Busy \cup {i})
            /\ Cardinality(Busy \cup {i}) = Cardinality(Busy) + 1
        BY <3>1, FS_AddElement DEF CountInv
      <3>3. inflight' = inflight + 1
        BY <1>2, <2>7 DEF Dispatch
      <3>4. CountInv'
        BY <3>1, <3>2, <3>3 DEF CountInv
      <3> QED  BY <2>2, <2>3, <2>4, <2>5, <3>4
    <2> QED  BY <2>6, <2>7
  \* A dispatch that goes on with what it had to send.
  <1>3. ASSUME NEW f \in BOOLEAN, NEW t \in Text, Send(Result(i, f, t)),
               NEW l \in {"running", "flushed", "settled", "over"},
               disp' = [disp EXCEPT ![i] = l],
               disp[i] # "no",
               l = "over" <=> disp[i] = "over",
               printed' \in [Invokes -> Seq(Chunks)],
               kept' \in [Invokes -> Text], inflight' = inflight
        PROVE  Base'
    <2>1. /\ ConnType' /\ SendType' /\ CloudType' /\ ReportInv' /\ OneDrain'
          /\ reports' \in [Invokes -> Nat]
          /\ UNCHANGED <<op, wire>>
      BY <1>3, ResultOf, SendIs
    <2>2. HostType'
      BY <1>3, <2>1 DEF HostType
    <2>3. \A j \in Invokes : disp'[j] = IF j = i THEN l ELSE disp[j]
      BY <1>3 DEF HostType
    <2>4. /\ disp[i] \in {"running", "flushed", "settled", "over"}
          /\ \A j \in Invokes : (disp'[j] = "no") = (disp[j] = "no")
      BY <1>3, <2>3 DEF HostType
    <2>5. \A j \in Invokes : (j \in Busy') = (j \in Busy)
      BY <1>3, <2>1, <2>3, <2>4 DEF Busy
    <2>6. AskInv' /\ CountInv'
      BY <1>3, <2>1, <2>4, <2>5, CountStays
    <2> QED  BY <2>1, <2>2, <2>6
  <1>4. disp = [disp EXCEPT ![i] = disp[i]]
    BY DEF HostType
  <1>5. ASSUME NEW c \in Chunks, ExecChunk(i, c)  PROVE Base'
    <2> DEFINE p == kept[i] \o c
    <2>1. kept[i] \in Text /\ printed[i] \in Seq(Chunks)
      BY DEF HostType
    <2>2. p \in Text /\ PushOut(p) \in Text /\ PushKeep(p) \in Text
      BY <2>1, ChunkIs, PushIs
    <2>3. /\ printed' = [printed EXCEPT ![i] = Append(@, c)]
          /\ kept' = [kept EXCEPT ![i] = PushKeep(p)]
          /\ disp[i] = "running" /\ disp' = disp /\ inflight' = inflight
          /\ \/ Send(Result(i, FALSE, PushOut(p)))
             \/ UNCHANGED <<conn, op, wire, reports, sendVars, posting,
                            landed, late, unsent>>
      BY <1>5 DEF ExecChunk
    <2> HIDE DEF p
    <2>4. kept' \in [Invokes -> Text]
      BY <2>2, <2>3 DEF HostType
    <2>5. Append(printed[i], c) \in Seq(Chunks)
      BY <2>1, AppendProperties
    <2>6. printed' \in [Invokes -> Seq(Chunks)]
      BY <2>3, <2>5 DEF HostType
    <2>7. CASE Send(Result(i, FALSE, PushOut(p)))
      BY <1>3, <1>4, <2>2, <2>3, <2>4, <2>6, <2>7
    <2>8. CASE UNCHANGED <<conn, op, wire, reports, sendVars, posting,
                           landed, late, unsent>>
      <3>1. ConnType' /\ HostType' /\ SendType' /\ CloudType' /\ OneDrain'
        BY <2>3, <2>4, <2>6, <2>8
        DEF ConnType, HostType, SendType, CloudType, OneDrain, sendVars
      <3>2. ReportInv'
        BY <2>8 DEF ReportInv, Counted, sendVars
      <3>3. Busy' = Busy
        BY <2>3, <2>8 DEF Busy
      <3>4. AskInv' /\ CountInv'
        BY <2>3, <2>8, <3>3 DEF AskInv, CountInv
      <3> QED  BY <3>1, <3>2, <3>4
    <2> QED  BY <2>3, <2>7, <2>8
  <1>6. <<>> \in Text
    BY DEF Text
  <1>7. CASE Flush(i)
    <2>1. kept[i] \in Text /\ Redacted(kept[i]) \in Text
      BY RedactedIs DEF HostType
    <2>2. kept' \in [Invokes -> Text] /\ printed' \in [Invokes -> Seq(Chunks)]
      BY <1>6, <1>7 DEF Flush, HostType
    <2>3. /\ disp[i] = "running" /\ disp' = [disp EXCEPT ![i] = "flushed"]
          /\ Send(Result(i, FALSE, Redacted(kept[i]))) /\ inflight' = inflight
      BY <1>7 DEF Flush
    <2> QED  BY <1>3, <2>1, <2>2, <2>3
  <1>8. CASE Settle(i)
    <2>1. kept' \in [Invokes -> Text] /\ printed' \in [Invokes -> Seq(Chunks)]
      BY <1>8 DEF Settle, HostType
    <2>2. /\ disp[i] \in {"running", "flushed"}
          /\ disp' = [disp EXCEPT ![i] = "settled"]
          /\ Send(Result(i, TRUE, <<>>)) /\ inflight' = inflight
      BY <1>8 DEF Settle
    <2> QED  BY <1>3, <1>6, <2>1, <2>2
  <1>9. CASE Stray(i)
    <2>1. kept' \in [Invokes -> Text] /\ printed' \in [Invokes -> Seq(Chunks)]
      BY <1>9 DEF Stray, HostType
    <2>2. /\ disp[i] \in {"settled", "over"} /\ disp' = disp
          /\ Send(Result(i, FALSE, <<>>)) /\ inflight' = inflight
      BY <1>9 DEF Stray
    <2> QED  BY <1>3, <1>4, <1>6, <2>1, <2>2
  <1>10. CASE Return(i)
    <2>1. /\ disp[i] = "settled"
          /\ \A j \in Invokes : disp'[j] = IF j = i THEN "over" ELSE disp[j]
          /\ UNCHANGED <<conn, op, wire, printed, kept, reports, sendVars,
                         posting, landed, late, unsent>>
      BY <1>10 DEF Return, HostType
    <2>2. ConnType' /\ SendType' /\ CloudType' /\ OneDrain'
      BY <2>1 DEF ConnType, SendType, CloudType, OneDrain, sendVars
    <2>3. HostType'
      BY <1>10, <2>1 DEF Return, HostType
    <2>4. ReportInv'
      BY <2>1 DEF ReportInv, Counted, sendVars
    <2>5. AskInv'
      BY <2>1 DEF AskInv
    <2>6. CASE op[i] = "update"
      <3>1. Busy' = Busy
        BY <2>1, <2>6 DEF Busy
      <3>2. inflight \in Nat
        BY FS_CardinalityType DEF CountInv
      <3>3. inflight' = inflight
        BY <1>10, <2>6, <3>2 DEF Return, Weight
      <3>4. CountInv'
        BY <3>1, <3>3 DEF CountInv
      <3> QED  BY <2>2, <2>3, <2>4, <2>5, <3>4
    <2>7. CASE op[i] # "update"
      <3>1. Busy' = Busy \ {i} /\ i \in Busy
        BY <2>1, <2>7 DEF Busy
      <3>2. /\ IsFiniteSet(Busy \ {i})
            /\ Cardinality(Busy \ {i}) = Cardinality(Busy) - 1
        BY <3>1, FS_RemoveElement DEF CountInv
      <3>3. inflight' = inflight - 1
        BY <1>10, <2>7 DEF Return, Weight
      <3>4. CountInv'
        BY <3>1, <3>2, <3>3 DEF CountInv
      <3> QED  BY <2>2, <2>3, <2>4, <2>5, <3>4
    <2> QED  BY <2>6, <2>7
  <1> QED  BY <1>1, <1>2, <1>5, <1>7, <1>8, <1>9, <1>10 DEF Invoke

\* What the one drain does next.
LEMMA TakeIs ==
    ASSUME Base, Take
    PROVE  /\ posting = <<>> /\ draining /\ drains = 1 /\ drains' = 0
           /\ queue = <<>> => queue' = <<>> /\ posting' = <<>> /\ ~draining'
           /\ queue # <<>> => /\ draining' /\ queue' = Tail(queue)
                              /\ posting' = <<Head(queue)>>
           /\ draining' \in BOOLEAN
           /\ UNCHANGED <<conn, op, wire, hostVars, landed, late, unsent>>
  <1>1. drains \in Nat /\ drains > 0 /\ posting \in Seq(Results)
    BY DEF Base, SendType, Take
  <1>2. Len(posting) \in Nat /\ (Len(posting) = 0 => posting = <<>>)
    BY <1>1
  <1>3. draining /\ drains = 1 /\ Len(posting) = 0
    BY <1>1, <1>2 DEF Base, OneDrain, SendType
  <1>4. posting = <<>>
    BY <1>2, <1>3
  <1>5. queue # <<>> => posting' = <<Head(queue)>>
    BY <1>4 DEF Take
  <1>6. queue = <<>> => queue' = <<>> /\ posting' = <<>> /\ ~draining'
    BY <1>4 DEF Take
  <1>7. queue # <<>> => draining' /\ queue' = Tail(queue)
    BY <1>3 DEF Take
  <1>8. draining' \in BOOLEAN
    BY DEF Take, Base, SendType
  <1> QED  BY <1>3, <1>4, <1>5, <1>6, <1>7, <1>8 DEF Take

\* A POST is the only one, and the drain goes on behind it.
LEMMA PostedIs ==
    ASSUME Base, NEW n \in DOMAIN posting, Posted(n)
    PROVE  /\ posting = <<posting[n]>> /\ posting[n] \in Results
           /\ draining /\ drains = 0 /\ posting' = <<>> /\ drains' = 1
           /\ UNCHANGED <<conn, op, wire, hostVars, queue, draining>>
  <1>1. posting \in Seq(Results) /\ drains \in Nat /\ draining \in BOOLEAN
        /\ n \in 1 .. Len(posting) /\ Len(posting) \in Nat
    BY DEF Base, SendType
  <1>2. draining /\ drains = 0 /\ Len(posting) = 1 /\ n = 1
    <2>1. Len(posting) >= 1 /\ drains + Len(posting) # 0
      BY <1>1
    <2>2. draining
      BY <2>1 DEF Base, OneDrain
    <2>3. drains + Len(posting) = 1
      BY <2>2 DEF Base, OneDrain
    <2> QED  BY <1>1, <2>1, <2>2, <2>3
  <1>3. posting = <<posting[n]>> /\ posting[n] \in Results
    BY <1>1, <1>2
  <1>4. RemoveAt(posting, n) = <<>>
    <2>1. SubSeq(posting, 1, 0) = <<>> /\ SubSeq(posting, 2, 1) = <<>>
      BY SubSeqEmpty
    <2>2. <<>> \o <<>> = <<>>
      OBVIOUS
    <2> QED  BY <1>2, <2>1, <2>2 DEF RemoveAt
  <1> QED  BY <1>2, <1>3, <1>4 DEF Posted

LEMMA BaseSends ==
    ASSUME Base, Take \/ Post \/ \E r \in late : LandsLate(r)
    PROVE  Base'
  <1> USE DEF Base
  <1>0. <<>> \in Seq(Results) /\ Range(<<>>) = {} /\ Len(<<>>) = 0
    BY DEF Range
  \* The invokes have no part in it.
  <1>1. ASSUME UNCHANGED <<conn, op, wire, hostVars>>,
               SendType', CloudType', OneDrain',
               Range(queue') \cup Range(posting') \cup Range(landed') \cup late'
                 \subseteq Range(queue) \cup Range(posting) \cup Range(landed)
                             \cup late
        PROVE  Base'
    <2>1. ConnType' /\ HostType'
      BY <1>1 DEF ConnType, HostType, hostVars
    <2>2. ReportInv'
      BY <1>1 DEF ReportInv, Counted, hostVars
    <2>3. Busy' = Busy
      BY <1>1 DEF Busy, hostVars
    <2>4. AskInv' /\ CountInv'
      BY <1>1, <2>3 DEF AskInv, CountInv, hostVars
    <2> QED  BY <1>1, <2>1, <2>2, <2>4
  <1>2. CASE Take
    <2>1. CASE queue = <<>>
      <3>1. SendType' /\ CloudType' /\ OneDrain'
        BY <1>0, <1>2, <2>1, TakeIs DEF SendType, CloudType, OneDrain
      <3> QED  BY <1>0, <1>1, <1>2, <2>1, <3>1, TakeIs
    <2>2. CASE queue # <<>>
      <3>1. queue \in Seq(Results) /\ Head(queue) \in Results
            /\ Tail(queue) \in Seq(Results)
            /\ Range(Tail(queue)) \cup {Head(queue)} \subseteq Range(queue)
        <4>1. queue \in Seq(Results) /\ Len(queue) \in Nat /\ Len(queue) > 0
          BY <2>2 DEF SendType
        <4>2. /\ Head(queue) = queue[1] /\ 1 \in 1 .. Len(queue)
              /\ Tail(queue) \in Seq(Results)
              /\ Len(Tail(queue)) = Len(queue) - 1
              /\ \A k \in 1 .. Len(queue) - 1 : Tail(queue)[k] = queue[k + 1]
          BY <4>1, <2>2, HeadTailProperties
        <4>3. \A k \in 1 .. Len(queue) - 1 : k + 1 \in 1 .. Len(queue)
          BY <4>1
        <4>4. DOMAIN Tail(queue) = 1 .. Len(queue) - 1
              /\ DOMAIN queue = 1 .. Len(queue)
          BY <4>1, <4>2
        <4> QED  BY <4>1, <4>2, <4>3, <4>4 DEF Range
      <3>2. posting' = <<Head(queue)>> /\ <<Head(queue)>> \in Seq(Results)
            /\ Len(<<Head(queue)>>) = 1 /\ Range(<<Head(queue)>>) = {Head(queue)}
        BY <1>2, <2>2, <3>1, TakeIs DEF Range
      <3>3. SendType' /\ CloudType' /\ OneDrain'
        <4>1. /\ draining' /\ draining' \in BOOLEAN /\ drains' = 0
              /\ queue' = Tail(queue)
              /\ UNCHANGED <<landed, late, unsent>>
          BY <1>2, <2>2, TakeIs
        <4>2. SendType'
          BY <3>1, <3>2, <4>1 DEF SendType
        <4>3. Len(posting') = 1 /\ drains' + Len(posting') = 1
          BY <3>2, <4>1
        <4>4. OneDrain'
          BY <4>1, <4>3 DEF OneDrain
        <4>5. CloudType'
          BY <4>1 DEF CloudType
        <4> QED  BY <4>2, <4>4, <4>5
      <3> QED  BY <1>1, <1>2, <2>2, <3>1, <3>2, <3>3, TakeIs
    <2> QED  BY <2>1, <2>2
  \* A result that arrives was on its way.
  <1>3. ASSUME NEW r \in Results
        PROVE  /\ Append(landed, r) \in Seq(Results)
               /\ Range(Append(landed, r)) \subseteq Range(landed) \cup {r}
    <2>1. landed \in Seq(Results) /\ Len(landed) \in Nat
          /\ DOMAIN landed = 1 .. Len(landed)
      BY DEF CloudType
    <2> QED  BY <2>1, AppendProperties DEF Range
  <1>4. ASSUME NEW n \in DOMAIN posting, Posted(n), CloudType',
               Range(landed') \cup late'
                 \subseteq Range(landed) \cup late \cup {posting[n]}
        PROVE  Base'
    <2>1. SendType' /\ OneDrain'
      <3>1. /\ draining /\ UNCHANGED <<queue, draining>>
            /\ posting' = <<>> /\ drains' = 1
        BY <1>4, PostedIs
      <3>2. SendType'
        BY <1>0, <3>1 DEF SendType
      <3>3. draining' /\ drains' + Len(posting') = 1
        BY <1>0, <3>1
      <3>4. OneDrain'
        BY <3>3 DEF OneDrain
      <3> QED  BY <3>2, <3>4
    <2>2. posting[n] \in Range(posting)
      BY <1>4 DEF Range
    <2> QED  BY <1>0, <1>1, <1>4, <2>1, <2>2, PostedIs
  <1>5. ASSUME NEW n \in DOMAIN posting, Lands(n)  PROVE Base'
    <2>1. Posted(n) /\ posting[n] \in Results
      BY <1>5, PostedIs DEF Lands
    <2>2. CloudType'
      BY <1>3, <1>5, <2>1 DEF Lands, CloudType
    <2>3. Range(landed') \cup late' \subseteq Range(landed) \cup late
                                               \cup {posting[n]}
      BY <1>3, <1>5, <2>1 DEF Lands
    <2> QED  BY <1>4, <1>5, <2>1, <2>2, <2>3
  <1>6. ASSUME NEW n \in DOMAIN posting, Fails(n)  PROVE Base'
    <2>1. Posted(n) /\ posting[n] \in Results
      BY <1>6, PostedIs DEF Fails
    <2>2. late' \subseteq late \cup {posting[n]} /\ landed' = landed
          /\ unsent' \subseteq unsent \cup {posting[n].id}
      BY <1>6 DEF Fails
    <2>3. CloudType'
      BY <2>1, <2>2 DEF CloudType, Results
    <2> QED  BY <1>4, <1>6, <2>1, <2>2, <2>3
  <1>7. ASSUME NEW r \in late, LandsLate(r)  PROVE Base'
    <2>1. r \in Results
      BY DEF CloudType
    <2>2. CloudType'
      BY <1>3, <1>7, <2>1 DEF LandsLate, CloudType
    <2>3. SendType' /\ OneDrain' /\ UNCHANGED <<conn, op, wire, hostVars>>
          /\ UNCHANGED <<queue, posting>>
      BY <1>7 DEF LandsLate, SendType, OneDrain, sendVars
    <2>4. Range(landed') \cup late' \subseteq Range(landed) \cup late
      BY <1>3, <1>7, <2>1 DEF LandsLate
    <2> QED  BY <1>1, <2>2, <2>3, <2>4
  <1> QED  BY <1>2, <1>5, <1>6, <1>7 DEF Post

LEMMA BaseNext == Base /\ [Next]_vars => Base'
  <1> SUFFICES ASSUME Base, [Next]_vars PROVE Base'
    OBVIOUS
  <1>1. CASE Connection
    <2>1. Exit \/ conn' # "gone"
      BY <1>1 DEF Connection, Connect, Refused, Drop, Retry, Revoked, Stop,
                  ConnStep
    <2> QED  BY <1>1, <2>1, BaseConnection, BaseExit
  <1>2. ASSUME NEW i \in Invokes, Invoke(i)  PROVE Base'
    BY <1>2, BaseInvoke
  <1>3. CASE Take \/ Post \/ \E r \in late : LandsLate(r)
    BY <1>3, BaseSends
  <1>4. CASE UNCHANGED vars
    <2>1. Busy' = Busy
      BY <1>4 DEF vars, hostVars, Busy
    <2> QED
      BY <1>4, <2>1 DEF vars, hostVars, sendVars, Base, ConnType, HostType,
         SendType, CloudType, ReportInv, Counted, AskInv, CountInv, OneDrain
  <1> QED  BY <1>1, <1>2, <1>3, <1>4 DEF Next

LEMMA BaseAlways == Spec => []Base
  BY BaseInit, BaseNext, PTL DEF Spec

\* The value of every variable is one the code can give it: no drain goroutine
\* too many, none missing while something is queued; inflight counts what it
\* should; and every result has a number its invoke has reported (Send, drain,
\* Dispatch).
THEOREM OutboundTypeCorrect == Spec => []TypeOK
  BY BaseAlways, BaseTypes, PTL

-----------------------------------------------------------------------------
(* The queue and its drain are the lossy queue of Delivery.                *)

\* What one more result in the queue is for Delivery.
LEMMA SendReports ==
    ASSUME Base, NEW r \in Results, Send(r)
    PROVE  D!Report
  <1> DEFINE old == posting \o queue
             new == posting \o Append(queue, r)
  <1>1. posting \in Seq(Results) /\ queue \in Seq(Results)
    BY DEF Base, SendType
  <1>2. /\ Append(queue, r) = queue \o <<r>> /\ Append(old, r) = old \o <<r>>
        /\ <<r>> \in Seq(Results) /\ old \in Seq(Results)
    BY <1>1, ConcatProperties, AppendIsConcat
  <1>3. new = Append(old, r)
    BY <1>1, <1>2, ConcatAssociative
  <1> HIDE DEF old, new
  <1>4. /\ Append(old, r) # <<>> /\ Len(Append(old, r)) = Len(old) + 1
        /\ Append(old, r)[Len(old) + 1] = r
    BY <1>2, AppendProperties
  <1>5. new # <<>> /\ Last(new) = r
    BY <1>3, <1>4 DEF Last
  <1>6. (posting \o queue)' = new
    BY DEF Send, new
  <1>7. (posting \o queue)' = Append(posting \o queue, Last((posting \o queue)'))
    BY <1>3, <1>5, <1>6 DEF old
  <1>8. (posting \o queue)' # <<>> /\ UNCHANGED <<landed, late>>
    BY <1>5, <1>6 DEF Send
  <1> QED  BY <1>7, <1>8 DEF D!Report, D!Last, Last

LEMMA DeliveryInit == Init => D!Init
  BY DEF Init, D!Init

LEMMA DeliveryNext == Base /\ [Next]_vars => [D!Next]_(D!vars)
  <1> SUFFICES ASSUME Base, [Next]_vars
               PROVE  D!Next \/ UNCHANGED D!vars
    OBVIOUS
  <1>0. posting \in Seq(Results) /\ queue \in Seq(Results)
    BY DEF Base, SendType
  <1>1. ASSUME UNCHANGED <<queue, posting, landed, late>>
        PROVE  UNCHANGED D!vars
    BY <1>1 DEF D!vars
  <1>2. ASSUME NEW s \in Seq(Results)
        PROVE  <<>> \o s = s
    BY <1>2, ConcatEmptySeq
  \* What is in a POST is at the head.
  <1>3. ASSUME NEW x \in Results, posting = <<x>>
        PROVE  /\ posting \o queue # <<>>
               /\ Head(posting \o queue) = x
               /\ Tail(posting \o queue) = queue
    <2>1. <<x>> \o queue \in Seq(Results)
          /\ Len(<<x>> \o queue) = Len(queue) + 1
          /\ (<<x>> \o queue)[1] = x
          /\ \A k \in 1 .. Len(queue) : (<<x>> \o queue)[k + 1] = queue[k]
      <3>1. <<x>> \in Seq(Results) /\ Len(<<x>>) = 1 /\ <<x>>[1] = x
            /\ Len(queue) \in Nat
        BY <1>0, <1>3
      <3> QED  BY <1>0, <3>1, ConcatProperties
    <2> DEFINE a == <<x>> \o queue
    <2> HIDE DEF a
    <2>2. a # <<>> /\ Head(a) = x
      BY <1>0, <2>1 DEF a
    <2>3. Tail(a) \in Seq(Results) /\ Len(Tail(a)) = Len(queue)
          /\ \A k \in 1 .. Len(queue) : Tail(a)[k] = queue[k]
      BY <1>0, <2>1, <2>2, HeadTailProperties DEF a
    <2>4. Tail(a) = queue
      BY <1>0, <2>3, SeqEqual
    <2> QED  BY <1>3, <2>2, <2>4 DEF a
  <1>4. CASE Connection
    <2>1. CASE Exit
      <3>1. /\ (posting \o queue)' = <<>> /\ landed' = landed
            /\ late' \in {late, late \cup Range(posting)}
        <4>1. <<>> \o <<>> = <<>>
          OBVIOUS
        <4> QED  BY <2>1, <4>1 DEF Exit
      <3>2. CASE posting = <<>>
        <4>1. posting \o queue = queue /\ Range(posting) = {}
          BY <1>0, <1>2, <3>2 DEF Range
        <4>2. late' = late
          BY <3>1, <4>1
        <4>3. CASE posting \o queue = <<>>
          BY <3>1, <4>2, <4>3 DEF D!vars
        <4>4. CASE posting \o queue # <<>>
          BY <3>1, <4>2, <4>4 DEF D!Vanish, D!Next
        <4> QED  BY <4>3, <4>4
      <3>3. CASE posting # <<>>
        <4>1. PICK x \in Results : posting = <<x>>
          <5>1. Len(posting) \in Nat /\ Len(posting) # 0
            BY <1>0, <3>3
          <5>2. drains \in Nat
            BY DEF Base, SendType
          <5>3. Len(posting) = 1
            <6>1. drains + Len(posting) # 0
              BY <5>1, <5>2
            <6>2. drains + Len(posting) = 1
              BY <6>1 DEF Base, OneDrain
            <6>3. \A d, l \in Nat : l # 0 /\ d + l = 1 => l = 1
              OBVIOUS
            <6> QED  BY <5>1, <5>2, <6>2, <6>3
          <5>4. posting = <<posting[1]>> /\ posting[1] \in Results
            BY <1>0, <5>3
          <5> QED  BY <5>4
        <4>2. Range(posting) = {x}
          BY <4>1 DEF Range
        <4> QED  BY <1>3, <3>1, <4>1, <4>2 DEF D!Vanish, D!Next
      <3> QED  BY <3>2, <3>3
    <2>2. CASE ~Exit
      BY <1>1, <1>4, <2>2
      DEF Connection, Connect, Refused, Drop, Retry, Revoked, Stop, ConnStep,
          sendVars
    <2> QED  BY <2>1, <2>2
  <1>5. ASSUME NEW i \in Invokes, Invoke(i)
        PROVE  D!Next \/ UNCHANGED D!vars
    <2>1. ASSUME NEW f \in BOOLEAN, NEW t \in Text, Send(Result(i, f, t))
          PROVE  D!Next
      BY <2>1, ResultOf, SendReports DEF D!Next
    <2>2. <<>> \in Text /\ kept[i] \in Text
      BY DEF Text, Base, HostType
    <2>3. ASSUME NEW c \in Chunks, ExecChunk(i, c)
          PROVE  D!Next \/ UNCHANGED D!vars
      <3>1. PushOut(kept[i] \o c) \in Text
        BY <2>2, ChunkIs, PushIs
      <3> QED  BY <1>1, <2>1, <2>3, <3>1 DEF ExecChunk, sendVars
    <2>4. CASE Flush(i)
      BY <2>1, <2>2, <2>4, RedactedIs DEF Flush
    <2>5. CASE Settle(i) \/ Stray(i)
      BY <2>1, <2>2, <2>5 DEF Settle, Stray
    <2>6. CASE Dispatch(i) \/ Return(i) \/ \E o \in OpsOf[i] : Ask(i, o)
      BY <1>1, <2>6 DEF Dispatch, Return, Ask, sendVars
    <2> QED  BY <1>5, <2>3, <2>4, <2>5, <2>6 DEF Invoke
  <1>6. CASE Take
    <2>1. (posting \o queue)' = posting \o queue
      <3>1. CASE queue = <<>>
        BY <1>6, <3>1, TakeIs
      <3>2. CASE queue # <<>>
        <4>1. /\ posting = <<>> /\ posting' = <<Head(queue)>>
              /\ queue' = Tail(queue)
          BY <1>6, <3>2, TakeIs
        <4>2. <<Head(queue)>> \o Tail(queue) = queue
          BY <1>0, <3>2, HeadTailProperties
        <4> QED  BY <1>0, <1>2, <4>1, <4>2
      <3> QED  BY <3>1, <3>2
    <2> QED  BY <1>6, <2>1, TakeIs DEF D!vars
  <1>7. ASSUME NEW n \in DOMAIN posting, Lands(n) \/ Fails(n)
        PROVE  D!Next
    <2> DEFINE x == posting[n]
    <2>1. /\ posting = <<x>> /\ x \in Results /\ posting' = <<>>
          /\ queue' = queue
      BY <1>7, PostedIs DEF Lands, Fails
    <2>2. (posting \o queue)' = queue
      BY <1>0, <1>2, <2>1
    <2>3. /\ posting \o queue # <<>> /\ Head(posting \o queue) = x
          /\ Tail(posting \o queue) = queue
      BY <1>3, <2>1
    <2>4. CASE Lands(n)
      BY <2>2, <2>3, <2>4 DEF Lands, D!Land, D!Next
    <2>5. CASE Fails(n)
      BY <2>2, <2>3, <2>5 DEF Fails, D!Lose, D!Next
    <2> QED  BY <1>7, <2>4, <2>5
  <1>8. ASSUME NEW r \in late, LandsLate(r)  PROVE D!Next
    <2>1. (posting \o queue)' = posting \o queue
      BY <1>8 DEF LandsLate, sendVars
    <2> QED  BY <1>8, <2>1 DEF LandsLate, D!LandLate, D!Next
  <1>9. CASE UNCHANGED vars
    BY <1>1, <1>9 DEF vars, sendVars
  <1> QED  BY <1>4, <1>5, <1>6, <1>7, <1>8, <1>9 DEF Next, Post

\* The results leave in the order of the calls of Send, each at most once, one
\* that is lost holds up none behind it, and only one whose POST was over may
\* arrive out of order: the safety of Delivered (Send, drain, postResult).
THEOREM DeliveredInOrder == Spec => D!Init /\ [][D!Next]_(D!vars)
  BY DeliveryInit, DeliveryNext, BaseAlways, PTL DEF Spec

-----------------------------------------------------------------------------
(* FlattenSeq, which is a recursive function: what it computes is shown by *)
(* induction, up to the length, over a set of numbers.                     *)

LEMMA Upward ==
    ASSUME NEW N \in Nat, NEW P, 0 \in P,
           \A n \in 0 .. N - 1 : n \in P => n + 1 \in P
    PROVE  0 .. N \subseteq P
  <1> SUFFICES ASSUME NEW x \in 0 .. N, x \notin P  PROVE FALSE
    OBVIOUS
  <1> DEFINE U == {n \in Nat : n <= N /\ n \notin P}
  <1>1. U \subseteq Nat /\ U # {}
    OBVIOUS
  <1>2. PICK k \in U : \A j \in U : <<j, k>> \notin OpToRel(<, Nat)
    BY <1>1, NatLessThanWellFounded, WFMin, Zenon
  <1>3. \A j \in U : ~(j < k)
    BY <1>2 DEF OpToRel
  <1>4. k \in Nat /\ k <= N /\ k \notin P /\ k # 0
    BY <1>2
  <1>5. k - 1 \in 0 .. N - 1 /\ k - 1 \in Nat /\ k - 1 < k /\ k - 1 + 1 = k
    BY <1>4
  <1>6. k - 1 \in P
    BY <1>3, <1>5
  <1> QED  BY <1>4, <1>5, <1>6

\* f holds what the first n sequences of s are together, for every n.
Flattens(f, s) ==
    f = [n \in 1 .. Len(s) |-> IF n = 1 THEN s[n] ELSE f[n - 1] \o s[n]]

LEMMA FlattensIs ==
    ASSUME NEW s, Len(s) \in Nat, NEW f, Flattens(f, s), NEW n \in 1 .. Len(s)
    PROVE  f[n] = IF n = 1 THEN s[n] ELSE f[n - 1] \o s[n]
  <1> DEFINE g == [k \in 1 .. Len(s) |->
                     IF k = 1 THEN s[k] ELSE f[k - 1] \o s[k]]
  <1>1. g[n] = IF n = 1 THEN s[n] ELSE f[n - 1] \o s[n]
    OBVIOUS
  <1>2. f = g
    BY Zenon DEF Flattens
  <1> HIDE DEF g
  <1> QED  BY <1>1, <1>2, Zenon

LEMMA FlattensNext ==
    ASSUME NEW s, Len(s) \in Nat, NEW f, Flattens(f, s),
           NEW n \in 0 .. Len(s) - 1
    PROVE  f[n + 1] = IF n = 0 THEN s[1] ELSE f[n] \o s[n + 1]
  <1>1. n + 1 \in 1 .. Len(s) /\ n + 1 - 1 = n /\ (n + 1 = 1 <=> n = 0)
    OBVIOUS
  <1>2. f[n + 1] = IF n + 1 = 1 THEN s[n + 1] ELSE f[n + 1 - 1] \o s[n + 1]
    BY <1>1, FlattensIs
  <1>3. CASE n = 0
    BY <1>2, <1>3
  <1>4. CASE n # 0
    BY <1>1, <1>2, <1>4, Zenon
  <1> QED  BY <1>3, <1>4

\* There is such an f, whatever s is.
LEMMA FlattensExists ==
    ASSUME NEW s, Len(s) \in Nat
    PROVE  \E f : Flattens(f, s)
  <1> DEFINE G(f, n) == f = [k \in 1 .. n |->
                               IF k = 1 THEN s[k] ELSE f[k - 1] \o s[k]]
             P == {n \in 0 .. Len(s) : \E f : G(f, n)}
  <1>1. 0 \in P
    <2>1. G([k \in 1 .. 0 |-> 0], 0)
      OBVIOUS
    <2> HIDE DEF G
    <2> QED  BY <2>1
  <1>2. ASSUME NEW n \in 0 .. Len(s) - 1, n \in P  PROVE n + 1 \in P
    <2>1. PICK f : G(f, n)
      BY <1>2
    <2> DEFINE g == [k \in 1 .. n + 1 |->
                       IF k = 1 THEN s[k] ELSE f[k - 1] \o s[k]]
    <2>2. ASSUME NEW k \in 1 .. n  PROVE g[k] = f[k]
      <3> DEFINE h == [j \in 1 .. n |->
                         IF j = 1 THEN s[j] ELSE f[j - 1] \o s[j]]
      <3>1. h[k] = IF k = 1 THEN s[k] ELSE f[k - 1] \o s[k]
        OBVIOUS
      <3>2. f = h
        BY <2>1, Zenon
      <3>3. g[k] = IF k = 1 THEN s[k] ELSE f[k - 1] \o s[k]
        OBVIOUS
      <3> HIDE DEF g, h
      <3> QED  BY <3>1, <3>2, <3>3, Zenon
    <2>3. ASSUME NEW k \in 1 .. n + 1
          PROVE  g[k] = IF k = 1 THEN s[k] ELSE g[k - 1] \o s[k]
      <3>1. g[k] = IF k = 1 THEN s[k] ELSE f[k - 1] \o s[k]
        OBVIOUS
      <3>2. k # 1 => k - 1 \in 1 .. n
        OBVIOUS
      <3> HIDE DEF g
      <3> QED  BY <2>2, <3>1, <3>2
    <2>4. g = [k \in 1 .. n + 1 |-> g[k]]
      OBVIOUS
    <2>5. G(g, n + 1)
      <3> HIDE DEF g
      <3> QED  BY <2>3, <2>4
    <2>6. n + 1 \in 0 .. Len(s)
      OBVIOUS
    <2> HIDE DEF G, g
    <2> QED  BY <2>5, <2>6
  <1>3. Len(s) \in P
    <2> HIDE DEF P
    <2>1. 0 .. Len(s) \subseteq P
      BY <1>1, <1>2, Upward
    <2> QED  BY <2>1
  <1>4. \E f : G(f, Len(s))
    BY <1>3
  <1> QED  BY <1>4 DEF Flattens

LEMMA FlattenIs ==
    ASSUME NEW s, Len(s) \in Nat, Len(s) # 0
    PROVE  \E f : Flattens(f, s) /\ FlattenSeq(s) = f[Len(s)]
  <1> DEFINE f == CHOOSE g : Flattens(g, s)
  <1>1. Flattens(f, s)
    BY FlattensExists
  <1>2. FlattenSeq(s) = f[Len(s)]
    BY DEF FlattenSeq, Flattens
  <1> QED  BY <1>1, <1>2

LEMMA FlattenEmpty == FlattenSeq(<<>>) = <<>>
  BY DEF FlattenSeq

\* One more sequence is one more part.
LEMMA FlattenAppend ==
    ASSUME NEW S, NEW s \in Seq(Seq(S)), NEW x \in Seq(S)
    PROVE  FlattenSeq(Append(s, x)) = FlattenSeq(s) \o x
  <1> DEFINE t == Append(s, x)
  <1>1. /\ Len(s) \in Nat /\ Len(t) = Len(s) + 1 /\ t[Len(s) + 1] = x
        /\ Len(t) \in Nat
        /\ \A n \in 1 .. Len(s) : t[n] = s[n]
    BY AppendProperties
  <1> HIDE DEF t
  <1>2. PICK g : Flattens(g, t) /\ FlattenSeq(t) = g[Len(t)]
    BY <1>1, FlattenIs
  <1>3. CASE Len(s) = 0
    <2>1. s = <<>> /\ FlattenSeq(s) = <<>>
      BY <1>3, FlattenEmpty
    <2>2. g[1] = x
      BY <1>1, <1>2, <1>3, FlattensIs
    <2> QED  BY <1>1, <1>2, <1>3, <2>1, <2>2, ConcatEmptySeq DEF t
  <1>4. CASE Len(s) # 0
    <2>1. PICK f : Flattens(f, s) /\ FlattenSeq(s) = f[Len(s)]
      BY <1>1, <1>4, FlattenIs
    <2> DEFINE P == {n \in 0 .. Len(s) : n # 0 => f[n] = g[n]}
    <2>2. 0 \in P
      OBVIOUS
    <2>3. ASSUME NEW n \in 0 .. Len(s) - 1, n \in P  PROVE n + 1 \in P
      <3>1. n + 1 \in 1 .. Len(s) /\ n + 1 \in 1 .. Len(t) /\ n + 1 - 1 = n
            /\ n + 1 \in 0 .. Len(s)
        BY <1>1
      <3>2. f[n + 1] = IF n = 0 THEN s[1] ELSE f[n] \o s[n + 1]
        BY <1>1, <2>1, FlattensNext
      <3>3. g[n + 1] = IF n = 0 THEN t[1] ELSE g[n] \o t[n + 1]
        <4>1. n \in 0 .. Len(t) - 1
          BY <1>1
        <4> QED  BY <1>1, <1>2, <4>1, FlattensNext
      <3>4. n # 0 => f[n] = g[n]
        BY <2>3
      <3>5. t[n + 1] = s[n + 1] /\ t[1] = s[1]
        BY <1>1, <1>4, <3>1
      <3>6. f[n + 1] = g[n + 1]
        BY <3>1, <3>2, <3>3, <3>4, <3>5
      <3> QED  BY <3>1, <3>6
    <2>4. Len(s) \in P
      <3> HIDE DEF P
      <3>1. 0 .. Len(s) \subseteq P
        BY <1>1, <2>2, <2>3, Upward
      <3> QED  BY <1>1, <3>1
    <2>5. f[Len(s)] = g[Len(s)]
      BY <1>4, <2>4
    <2>6. g[Len(s) + 1] = g[Len(s)] \o x
      <3>1. Len(s) \in 0 .. Len(t) - 1
        BY <1>1
      <3>2. g[Len(s) + 1] = IF Len(s) = 0 THEN t[1]
                            ELSE g[Len(s)] \o t[Len(s) + 1]
        BY <1>1, <1>2, <3>1, FlattensNext
      <3> QED  BY <1>1, <1>4, <3>2
    <2> QED  BY <1>1, <1>2, <2>1, <2>5, <2>6 DEF t
  <1> QED  BY <1>3, <1>4

LEMMA FlattenType ==
    ASSUME NEW S, NEW s \in Seq(Seq(S))
    PROVE  FlattenSeq(s) \in Seq(S)
  <1>1. Len(s) \in Nat /\ \A n \in 1 .. Len(s) : s[n] \in Seq(S)
    OBVIOUS
  <1>2. CASE Len(s) = 0
    <2>1. s = <<>> /\ <<>> \in Seq(S)
      BY <1>2
    <2> QED  BY <2>1, FlattenEmpty
  <1>3. CASE Len(s) # 0
    <2>1. PICK f : Flattens(f, s) /\ FlattenSeq(s) = f[Len(s)]
      BY <1>1, <1>3, FlattenIs
    <2> DEFINE P == {n \in 0 .. Len(s) : n # 0 => f[n] \in Seq(S)}
    <2>2. 0 \in P
      OBVIOUS
    <2>3. ASSUME NEW n \in 0 .. Len(s) - 1, n \in P  PROVE n + 1 \in P
      <3>1. n + 1 \in 1 .. Len(s) /\ n + 1 \in 0 .. Len(s) /\ 1 \in 1 .. Len(s)
        BY <1>1
      <3>2. f[n + 1] = IF n = 0 THEN s[1] ELSE f[n] \o s[n + 1]
        BY <1>1, <2>1, FlattensNext
      <3>3. s[n + 1] \in Seq(S) /\ s[1] \in Seq(S) /\ (n # 0 => f[n] \in Seq(S))
        BY <1>1, <2>3, <3>1
      <3>4. f[n + 1] \in Seq(S)
        BY <3>2, <3>3, ConcatProperties
      <3> QED  BY <3>1, <3>4
    <2>4. Len(s) \in P
      <3> HIDE DEF P
      <3>1. 0 .. Len(s) \subseteq P
        BY <1>1, <2>2, <2>3, Upward
      <3> QED  BY <1>1, <3>1
    <2> QED  BY <1>3, <2>1, <2>4
  <1> QED  BY <1>2, <1>3

-----------------------------------------------------------------------------
(* The pieces of a text that is cut.                                       *)

\* The piece of t behind a, up to b.
Piece(t, a, b) == Redacted(SubSeq(t, a + 1, b))

\* A secret that begins at f and lies in that piece.
Within(f, a, b) == a < f /\ f + Len(Secret) - 1 <= b

LEMMA FoundIs ==
    ASSUME NEW S, NEW t \in Seq(S), NEW f
    PROVE  f \in Found(t) <=>
              /\ f \in 1 .. Len(t) /\ f + Len(Secret) - 1 <= Len(t)
              /\ \A n \in Span(f) : t[n] = Secret[n - f + 1]
  <1>1. Len(Secret) \in Nat \ {0} /\ Len(t) \in Nat /\ DOMAIN t = 1 .. Len(t)
    BY SecretIs
  <1>2. ASSUME f \in 1 .. Len(t)
        PROVE  Span(f) \subseteq 1 .. Len(t) <=> f + Len(Secret) - 1 <= Len(t)
    <2>1. f \in Nat \ {0} /\ f + Len(Secret) - 1 \in Span(f)
      BY <1>1, <1>2 DEF Span
    <2>2. ASSUME Span(f) \subseteq 1 .. Len(t)
          PROVE  f + Len(Secret) - 1 <= Len(t)
      <3>1. f + Len(Secret) - 1 \in 1 .. Len(t)
        BY <2>1, <2>2
      <3> QED  BY <1>1, <2>1, <3>1
    <2>3. ASSUME f + Len(Secret) - 1 <= Len(t), NEW n \in Span(f)
          PROVE  n \in 1 .. Len(t)
      BY <1>1, <2>1, <2>3 DEF Span
    <2> QED  BY <2>2, <2>3
  <1>3. f \in Found(t) <=> /\ f \in 1 .. Len(t) /\ Span(f) \subseteq 1 .. Len(t)
                           /\ \A n \in Span(f) : t[n] = Secret[n - f + 1]
    BY <1>1, Zenon DEF Found
  <1> QED  BY <1>2, <1>3, Zenon

LEMMA SliceIs ==
    ASSUME NEW S, NEW t \in Seq(S), NEW b \in 0 .. Len(t), NEW a \in 0 .. b
    PROVE  /\ SubSeq(t, a + 1, b) \in Seq(S)
           /\ Len(SubSeq(t, a + 1, b)) = b - a
           /\ \A n \in 1 .. b - a : SubSeq(t, a + 1, b)[n] = t[a + n]
  <1> DEFINE p == SubSeq(t, a + 1, b)
  <1>1. Len(t) \in Nat /\ a \in Nat /\ b \in Nat /\ a <= b /\ b <= Len(t)
    OBVIOUS
  <1>2. a + 1 \in Int /\ b \in Int /\ \A n \in a + 1 .. b : t[n] \in S
    BY <1>1
  <1>3. /\ p \in Seq(S)
        /\ Len(p) = IF a + 1 <= b THEN b - (a + 1) + 1 ELSE 0
        /\ \A n \in 1 .. b - (a + 1) + 1 : p[n] = t[a + 1 + n - 1]
    BY <1>2, SubSeqProperties
  <1> QED  BY <1>1, <1>3

LEMMA PieceSize ==
    ASSUME NEW S, NEW t \in Seq(S), NEW b \in 0 .. Len(t), NEW a \in 0 .. b
    PROVE  /\ Len(Piece(t, a, b)) = b - a
           /\ Piece(t, a, b) \in Seq(S \cup {Hidden})
  <1> DEFINE p == SubSeq(t, a + 1, b)
             u == [n \in 1 .. b - a |->
                     IF \E f \in Found(p) : n \in Span(f) THEN Hidden ELSE p[n]]
  <1>1. p \in Seq(S) /\ Len(p) = b - a
    BY SliceIs
  <1> HIDE DEF p
  <1>2. b - a \in Nat /\ DOMAIN p = 1 .. b - a
        /\ \A n \in 1 .. b - a : p[n] \in S
    BY <1>1
  <1>3. Piece(t, a, b) = u
    BY <1>2 DEF Piece, Redacted, p
  <1>4. u \in Seq(S \cup {Hidden}) /\ Len(u) = b - a
    BY <1>2
  <1> QED  BY <1>3, <1>4

\* A piece has a secret where the text has it, and nowhere else.
LEMMA PieceIs ==
    ASSUME NEW S, NEW t \in Seq(S), NEW b \in 0 .. Len(t), NEW a \in 0 .. b,
           NEW n \in 1 .. b - a
    PROVE  Piece(t, a, b)[n] =
              IF \E f \in Found(t) : Within(f, a, b) /\ a + n \in Span(f)
              THEN Hidden ELSE t[a + n]
  <1> DEFINE p == SubSeq(t, a + 1, b)
             L == Len(Secret)
  <1>1. /\ Len(t) \in Nat /\ a \in Nat /\ b \in Nat /\ a <= b /\ b <= Len(t)
        /\ L \in Nat \ {0}
    BY SecretIs
  <1>2. /\ p \in Seq(S) /\ Len(p) = b - a /\ DOMAIN p = 1 .. b - a
        /\ \A m \in 1 .. b - a : p[m] = t[a + m]
    BY <1>1, SliceIs
  <1> HIDE DEF p, L
  <1>3. ASSUME NEW f \in Found(p)
        PROVE  /\ f + a \in Found(t) /\ Within(f + a, a, b)
               /\ f \in Nat
               /\ \A m \in Nat : m \in Span(f) <=> a + m \in Span(f + a)
    <2>1. /\ f \in 1 .. b - a /\ f + L - 1 <= b - a
          /\ \A m \in Span(f) : p[m] = Secret[m - f + 1]
      BY <1>1, <1>2, FoundIs DEF L
    <2>2. ASSUME NEW m \in Span(f + a)  PROVE t[m] = Secret[m - (f + a) + 1]
      <3>1. m - a \in Span(f) /\ m - a \in 1 .. b - a /\ a + (m - a) = m
            /\ m - (f + a) + 1 = m - a - f + 1
        BY <1>1, <2>1 DEF Span, L
      <3> QED  BY <1>2, <2>1, <3>1
    <2>3. f + a \in 1 .. Len(t) /\ f + a + L - 1 <= Len(t)
      BY <1>1, <2>1
    <2>4. f + a \in Found(t)
      BY <2>2, <2>3, FoundIs DEF L
    <2> QED  BY <1>1, <2>1, <2>4 DEF Within, Span, L
  <1>4. ASSUME NEW f \in Found(t), Within(f, a, b)
        PROVE  /\ f - a \in Found(p)
               /\ \A m \in Nat : m \in Span(f - a) <=> a + m \in Span(f)
    <2>1. /\ f \in 1 .. Len(t) /\ a < f /\ f + L - 1 <= b
          /\ \A m \in Span(f) : t[m] = Secret[m - f + 1]
      BY <1>1, <1>4, FoundIs DEF L, Within
    <2>2. ASSUME NEW m \in Span(f - a)  PROVE p[m] = Secret[m - (f - a) + 1]
      <3>1. a + m \in Span(f) /\ m \in 1 .. b - a
            /\ m - (f - a) + 1 = a + m - f + 1
        BY <1>1, <2>1 DEF Span, L
      <3> QED  BY <1>2, <2>1, <3>1
    <2>3. f - a \in 1 .. Len(p) /\ f - a + L - 1 <= Len(p)
      BY <1>1, <1>2, <2>1
    <2>4. f - a \in Found(p)
      BY <1>2, <2>2, <2>3, FoundIs DEF L
    <2> QED  BY <1>1, <2>1, <2>4 DEF Span, L
  <1>5. (\E f \in Found(p) : n \in Span(f))
          <=> \E f \in Found(t) : Within(f, a, b) /\ a + n \in Span(f)
    <2>1. n \in Nat
      BY <1>1
    <2> QED  BY <1>3, <1>4, <2>1
  <1>6. Piece(t, a, b)[n] =
          IF \E f \in Found(p) : n \in Span(f) THEN Hidden ELSE p[n]
    BY <1>2 DEF Piece, Redacted, p
  <1> QED  BY <1>2, <1>5, <1>6

-----------------------------------------------------------------------------
(* What the cloud has of a text that comes in pieces.                      *)

\* A text of length N is cut behind the positions c[1], c[2], ... c[k].
Cuts(k, N) ==
    {c \in [0 .. k -> 0 .. N] :
        c[0] = 0 /\ \A j \in 1 .. k : c[j - 1] <= c[j]}

\* No cut up to the q-th is inside a secret that begins at f.
Uncut(f, c, q) ==
    \A j \in 0 .. q : ~(f <= c[j] /\ c[j] < f + Len(Secret) - 1)

\* Text u is what the first q pieces of t say when secrets are hidden.
Shows(u, t, c, q) ==
    /\ Len(u) = c[q]
    /\ \A n \in 1 .. c[q] :
          \/ u[n] = t[n]
          \/ u[n] = Hidden /\ \E f \in Found(t) : n \in Span(f)
    /\ \A f \in Found(t) :
          f + Len(Secret) - 1 <= c[q] /\ Uncut(f, c, q)
             => \A n \in Span(f) : u[n] = Hidden

LEMMA ShowsNothing ==
    ASSUME NEW S, NEW t \in Seq(S), NEW k \in Nat, NEW c \in Cuts(k, Len(t))
    PROVE  Shows(<<>>, t, c, 0)
  <1>1. c[0] = 0 /\ Len(Secret) \in Nat \ {0}
    BY SecretIs DEF Cuts
  <1>2. \A f \in Found(t) : f \in Nat \ {0}
    BY FoundIs
  <1> QED  BY <1>1, <1>2 DEF Shows

LEMMA CutsIs ==
    ASSUME NEW k \in Nat, NEW N \in Nat, NEW c \in Cuts(k, N)
    PROVE  /\ DOMAIN c = 0 .. k /\ c[0] = 0
           /\ \A j \in 0 .. k : c[j] \in 0 .. N
           /\ \A j \in 0 .. k - 1 : c[j] <= c[j + 1]
  <1>1. ASSUME NEW j \in 0 .. k - 1  PROVE c[j] <= c[j + 1]
    <2>1. j + 1 \in 1 .. k /\ j + 1 - 1 = j
      OBVIOUS
    <2> QED  BY <2>1 DEF Cuts
  <1> QED  BY <1>1 DEF Cuts

LEMMA ShowsPiece ==
    ASSUME NEW S, NEW t \in Seq(S), NEW k \in Nat, NEW c \in Cuts(k, Len(t)),
           NEW q \in 0 .. k - 1, NEW R, NEW u \in Seq(R), Shows(u, t, c, q)
    PROVE  Shows(u \o Piece(t, c[q], c[q + 1]), t, c, q + 1)
  <1> DEFINE a == c[q]
             b == c[q + 1]
             p == Piece(t, a, b)
             w == u \o p
             L == Len(Secret)
  <1>1. /\ Len(t) \in Nat /\ L \in Nat \ {0} /\ q \in Nat
        /\ a \in Nat /\ b \in Nat /\ a <= b /\ b <= Len(t)
    <2>1. q \in 0 .. k /\ q + 1 \in 0 .. k
      OBVIOUS
    <2>2. c[q] \in 0 .. Len(t) /\ c[q + 1] \in 0 .. Len(t) /\ c[q] <= c[q + 1]
      BY <2>1, CutsIs
    <2> QED  BY <2>2, SecretIs
  <1> HIDE DEF a, b, L
  <1>2. /\ Len(p) = b - a
        /\ p \in Seq(S \cup {Hidden})
        /\ \A n \in 1 .. b - a :
              p[n] = IF \E f \in Found(t) : Within(f, a, b) /\ a + n \in Span(f)
                     THEN Hidden ELSE t[a + n]
    <2>1. b \in 0 .. Len(t) /\ a \in 0 .. b
      BY <1>1
    <2> QED  BY <2>1, PieceSize, PieceIs
  <1>3. Len(u) = a
    BY DEF Shows, a
  <1> HIDE DEF p
  <1>4. /\ Len(w) = b
        /\ \A n \in 1 .. b : w[n] = IF n <= a THEN u[n] ELSE p[n - a]
    <2>1. u \in Seq(R \cup S \cup {Hidden}) /\ p \in Seq(R \cup S \cup {Hidden})
      BY <1>2
    <2>2. /\ Len(u \o p) = Len(u) + Len(p)
          /\ \A n \in 1 .. Len(u) + Len(p) :
                (u \o p)[n] = IF n <= Len(u) THEN u[n] ELSE p[n - Len(u)]
      BY <2>1, ConcatProperties
    <2>3. Len(u) + Len(p) = b
      BY <1>1, <1>2, <1>3
    <2> QED  BY <1>3, <2>2, <2>3
  <1> HIDE DEF w
  <1>5. ASSUME NEW n \in 1 .. b
        PROVE  \/ w[n] = t[n]
               \/ w[n] = Hidden /\ \E f \in Found(t) : n \in Span(f)
    <2>1. CASE n <= a
      <3>1. n \in 1 .. c[q] /\ w[n] = u[n]
        BY <1>1, <1>4, <2>1 DEF a
      <3> QED  BY <3>1 DEF Shows
    <2>2. CASE n > a
      <3>1. n - a \in 1 .. b - a /\ a + (n - a) = n /\ w[n] = p[n - a]
        BY <1>1, <1>4, <2>2
      <3> QED  BY <1>2, <3>1
    <2> QED  BY <1>1, <2>1, <2>2
  <1>6. ASSUME NEW f \in Found(t), f + L - 1 <= b, Uncut(f, c, q + 1),
               NEW n \in Span(f)
        PROVE  w[n] = Hidden
    <2>1. f \in Nat \ {0} /\ n \in f .. f + L - 1 /\ n \in 1 .. b
      BY <1>1, <1>6, FoundIs DEF Span, L
    <2>2. ~(f <= a /\ a < f + L - 1)
      BY <1>1, <1>6 DEF Uncut, L, a
    <2>3. CASE f + L - 1 <= a
      <3>1. Uncut(f, c, q)
        BY <1>1, <1>6 DEF Uncut
      <3>2. u[n] = Hidden
        BY <2>3, <3>1 DEF Shows, a, L
      <3>3. n <= a
        BY <1>1, <2>1, <2>3
      <3> QED  BY <1>4, <2>1, <3>2, <3>3
    <2>4. CASE a < f
      <3>1. n - a \in 1 .. b - a /\ a + (n - a) = n /\ ~(n <= a)
        BY <1>1, <2>1, <2>4
      <3>2. Within(f, a, b)
        BY <1>6, <2>4 DEF Within, L
      <3> QED  BY <1>2, <1>4, <2>1, <3>1, <3>2
    <2> QED  BY <1>1, <2>1, <2>2, <2>3, <2>4
  <1>7. Shows(w, t, c, q + 1)
    BY <1>4, <1>5, <1>6 DEF Shows, b, L
  <1> QED  BY <1>7 DEF w, p, a, b

\* More cuts behind the q-th do not matter to the first q pieces,
LEMMA ShowsMoreCuts ==
    ASSUME NEW u, NEW t, NEW c, NEW d, NEW q \in Nat,
           \A j \in 0 .. q : d[j] = c[j], Shows(u, t, c, q)
    PROVE  Shows(u, t, d, q)
  <1>1. d[q] = c[q]
    OBVIOUS
  <1>2. \A f \in Found(t) : Uncut(f, d, q) <=> Uncut(f, c, q)
    BY DEF Uncut
  <1> QED  BY <1>1, <1>2 DEF Shows

\* and neither does what the text goes on with.
LEMMA ShowsMoreText ==
    ASSUME NEW S, NEW t \in Seq(S), NEW x \in Seq(S), NEW u, NEW c,
           NEW q \in Nat, c[q] \in 0 .. Len(t), Shows(u, t, c, q)
    PROVE  Shows(u, t \o x, c, q)
  <1> DEFINE w == t \o x
  <1>1. /\ Len(t) \in Nat /\ Len(x) \in Nat /\ Len(w) = Len(t) + Len(x)
        /\ w \in Seq(S)
        /\ \A n \in 1 .. Len(t) : w[n] = t[n]
        /\ Len(Secret) \in Nat \ {0}
    BY ConcatProperties, SecretIs
  <1> HIDE DEF w
  <1>2. ASSUME NEW f \in Found(t)  PROVE f \in Found(w)
    <2>1. /\ f \in 1 .. Len(t) /\ f + Len(Secret) - 1 <= Len(t)
          /\ \A n \in Span(f) : t[n] = Secret[n - f + 1]
      BY FoundIs
    <2>2. \A n \in Span(f) : n \in 1 .. Len(t)
      BY <1>1, <2>1 DEF Span
    <2>3. f \in 1 .. Len(w) /\ f + Len(Secret) - 1 <= Len(w)
      BY <1>1, <2>1
    <2> QED  BY <1>1, <2>1, <2>2, <2>3, FoundIs
  <1>3. ASSUME NEW f \in Found(w), f + Len(Secret) - 1 <= c[q]
        PROVE  f \in Found(t)
    <2>1. /\ f \in 1 .. Len(w)
          /\ \A n \in Span(f) : w[n] = Secret[n - f + 1]
      BY <1>1, FoundIs
    <2>2. f \in 1 .. Len(t) /\ f + Len(Secret) - 1 <= Len(t)
      BY <1>1, <1>3, <2>1
    <2>3. \A n \in Span(f) : n \in 1 .. Len(t)
      BY <1>1, <2>2 DEF Span
    <2> QED  BY <1>1, <2>1, <2>2, <2>3, FoundIs
  <1>4. \A n \in 1 .. c[q] : n \in 1 .. Len(t)
    BY <1>1
  <1> QED  BY <1>1, <1>2, <1>3, <1>4 DEF Shows, w

\* A piece stays what it is when the text goes on.
LEMMA PieceStays ==
    ASSUME NEW S, NEW t \in Seq(S), NEW x \in Seq(S),
           NEW b \in 0 .. Len(t), NEW a \in 0 .. b
    PROVE  Piece(t \o x, a, b) = Piece(t, a, b)
  <1> DEFINE w == t \o x
             p == SubSeq(t, a + 1, b)
             u == SubSeq(w, a + 1, b)
  <1>1. /\ Len(t) \in Nat /\ Len(x) \in Nat /\ Len(w) = Len(t) + Len(x)
        /\ w \in Seq(S)
        /\ \A n \in 1 .. Len(t) : w[n] = t[n]
    BY ConcatProperties
  <1> HIDE DEF w
  <1>2. /\ p \in Seq(S) /\ Len(p) = b - a
        /\ \A n \in 1 .. b - a : p[n] = t[a + n]
    BY SliceIs
  <1>3. /\ u \in Seq(S) /\ Len(u) = b - a
        /\ \A n \in 1 .. b - a : u[n] = w[a + n]
    <2>1. b \in 0 .. Len(w)
      BY <1>1
    <2> QED  BY <1>1, <2>1, SliceIs
  <1>4. ASSUME NEW n \in 1 .. b - a  PROVE u[n] = p[n]
    <2>1. a + n \in 1 .. Len(t)
      OBVIOUS
    <2> QED  BY <1>1, <1>2, <1>3, <2>1
  <1> HIDE DEF p, u
  <1>5. u = p
    BY <1>2, <1>3, <1>4, SeqEqual
  <1> QED  BY <1>5 DEF Piece, p, u, w

\* All pieces together, cut where they may be, hide what has to be hidden.
LEMMA ShowsAll ==
    ASSUME NEW S, NEW t \in Seq(S), NEW k \in Nat, NEW c \in Cuts(k, Len(t)),
           c[k] = Len(t), \A j \in 0 .. k : Clean(t, c[j]) \/ c[j] = Len(t),
           NEW u, Shows(u, t, c, k)
    PROVE  /\ Len(u) = Len(t)
           /\ \A n \in DOMAIN t :
                 \/ u[n] = t[n]
                 \/ u[n] = Hidden /\ \E f \in Found(t) : n \in Span(f)
           /\ \A f \in Found(t) :
                 InShortLine(t, f) => \A n \in Span(f) : u[n] = Hidden
  <1>1. Len(t) \in Nat /\ DOMAIN t = 1 .. Len(t)
    OBVIOUS
  <1>2. Len(u) = Len(t)
        /\ \A n \in DOMAIN t :
              \/ u[n] = t[n]
              \/ u[n] = Hidden /\ \E f \in Found(t) : n \in Span(f)
    BY <1>1 DEF Shows
  <1>3. ASSUME NEW f \in Found(t), InShortLine(t, f)
        PROVE  \A n \in Span(f) : u[n] = Hidden
    <2>1. f + Len(Secret) - 1 <= Len(t) /\ f \in Nat /\ Len(Secret) \in Nat
      BY <1>1, FoundIs, SecretIs
    <2>2. ASSUME NEW j \in 0 .. k
          PROVE  ~(f <= c[j] /\ c[j] < f + Len(Secret) - 1)
      <3>1. c[j] \in 0 .. Len(t)
        BY <1>1, CutsIs
      <3>2. CASE Clean(t, c[j])
        BY <1>3, <3>1, <3>2, CleanSpares DEF InShortLine
      <3>3. CASE c[j] = Len(t)
        BY <1>1, <2>1, <3>3
      <3> QED  BY <3>2, <3>3
    <2>3. Uncut(f, c, k)
      BY <2>2 DEF Uncut
    <2> QED  BY <2>1, <2>3 DEF Shows
  <1> QED  BY <1>2, <1>3

-----------------------------------------------------------------------------
(* What arrived of the output of invoke i, when the results l arrived.     *)

Share(r, i) == IF r.id = i /\ ~r.final THEN r.text ELSE <<>>

Heard(l, i, n) == FlattenSeq([m \in 1 .. n |-> Share(l[m], i)])

LEMMA HeardIs == \A i, n : /\ Got(i, n) = Heard(landed, i, n)
                           /\ Got(i, n)' = Heard(landed', i, n)
  BY DEF Got, Heard, Share

LEMMA SharesAre ==
    ASSUME NEW l \in Seq(Results), NEW i, NEW n \in 0 .. Len(l)
    PROVE  [m \in 1 .. n |-> Share(l[m], i)] \in Seq(Text)
  <1>1. \A m \in 1 .. n : l[m] \in Results
    OBVIOUS
  <1>2. <<>> \in Text
    BY DEF Text
  <1>3. \A m \in 1 .. n : Share(l[m], i) \in Text
    BY <1>1, <1>2 DEF Share, Results
  <1> QED  BY <1>3

LEMMA HeardType ==
    ASSUME NEW l \in Seq(Results), NEW i, NEW n \in 0 .. Len(l)
    PROVE  Heard(l, i, n) \in Text
  BY SharesAre, FlattenType DEF Heard, Text

LEMMA HeardNothing ==
    ASSUME NEW l, NEW i
    PROVE  Heard(l, i, 0) = <<>>
  <1>1. [m \in 1 .. 0 |-> Share(l[m], i)] = <<>>
    OBVIOUS
  <1> QED  BY <1>1, FlattenEmpty DEF Heard

\* One more result.
LEMMA HeardMore ==
    ASSUME NEW l \in Seq(Results), NEW r \in Results, NEW i
    PROVE  /\ \A n \in 0 .. Len(l) : Heard(Append(l, r), i, n) = Heard(l, i, n)
           /\ Heard(Append(l, r), i, Len(l) + 1)
                = Heard(l, i, Len(l)) \o Share(r, i)
  <1> DEFINE w == Append(l, r)
             N == Len(l)
             s == [m \in 1 .. N |-> Share(l[m], i)]
             u == [m \in 1 .. N + 1 |-> Share(w[m], i)]
  <1>1. /\ N \in Nat /\ w \in Seq(Results) /\ Len(w) = N + 1 /\ w[N + 1] = r
        /\ \A m \in 1 .. N : w[m] = l[m]
    BY AppendProperties
  <1> HIDE DEF w, N
  <1>2. ASSUME NEW n \in 0 .. N  PROVE Heard(w, i, n) = Heard(l, i, n)
    <2>1. \A m \in 1 .. n : w[m] = l[m]
      BY <1>1
    <2>2. [m \in 1 .. n |-> Share(w[m], i)] = [m \in 1 .. n |-> Share(l[m], i)]
      BY <2>1
    <2> QED  BY <2>2 DEF Heard
  <1>3. s \in Seq(Text) /\ u \in Seq(Text) /\ Share(r, i) \in Text
    <2>1. s \in Seq(Text)
      BY <1>1, SharesAre DEF N
    <2>2. u \in Seq(Text)
      <3>1. N + 1 \in 0 .. Len(w)
        BY <1>1
      <3> QED  BY <1>1, <3>1, SharesAre
    <2>3. Share(r, i) \in Text
      BY DEF Share, Results, Text
    <2> QED  BY <2>1, <2>2, <2>3
  <1>4. Len(s) = N /\ Len(u) = N + 1 /\ u[N + 1] = Share(r, i)
        /\ \A m \in 1 .. N : u[m] = s[m]
    BY <1>1
  <1> DEFINE a == Append(s, Share(r, i))
  <1>5. /\ a \in Seq(Text) /\ Len(a) = N + 1 /\ a[N + 1] = Share(r, i)
        /\ \A m \in 1 .. N : a[m] = s[m]
    <2> HIDE DEF s
    <2> QED  BY <1>3, <1>4, AppendProperties
  <1> HIDE DEF s, u, a
  <1>6. u = a
    <2>1. ASSUME NEW m \in 1 .. N + 1  PROVE u[m] = a[m]
      <3>1. m \in 1 .. N \/ m = N + 1
        BY <1>1
      <3> QED  BY <1>4, <1>5, <3>1
    <2> QED  BY <1>3, <1>4, <1>5, <2>1, SeqEqual
  <1>7. FlattenSeq(a) = FlattenSeq(s) \o Share(r, i)
    BY <1>3, FlattenAppend DEF a, Text
  <1> QED  BY <1>2, <1>6, <1>7 DEF Heard, s, u, w, N

\* The first k results of invoke i arrived, in this order, and whenever one
\* did the cloud had the pieces up to it.
Arrived(l, i, t, c, k) ==
    /\ \A n \in 0 .. Len(l) : \E q \in 0 .. k :
          /\ Shows(Heard(l, i, n), t, c, q)
          /\ n # 0 /\ l[n].id = i => q = l[n].nr
    /\ Shows(Heard(l, i, Len(l)), t, c, k)

LEMMA ArrivesOther ==
    ASSUME NEW l \in Seq(Results), NEW r \in Results, NEW i, r.id # i,
           NEW t, NEW c, NEW k \in Nat, Arrived(l, i, t, c, k)
    PROVE  Arrived(Append(l, r), i, t, c, k)
  <1> DEFINE w == Append(l, r)
             N == Len(l)
  <1>1. /\ N \in Nat /\ Len(w) = N + 1 /\ w[N + 1] = r
        /\ \A m \in 1 .. N : w[m] = l[m]
    BY AppendProperties
  <1>2. /\ \A n \in 0 .. N : Heard(w, i, n) = Heard(l, i, n)
        /\ Heard(w, i, N + 1) = Heard(l, i, N) \o Share(r, i)
    BY HeardMore
  <1>3. Share(r, i) = <<>>
    BY DEF Share
  <1>4. Heard(w, i, N + 1) = Heard(l, i, N)
    <2>1. Heard(l, i, N) \in Text
      BY <1>1, HeardType
    <2> QED  BY <1>2, <1>3, <2>1, ConcatEmptySeq DEF Text
  <1> HIDE DEF w, N
  <1>5. Shows(Heard(w, i, N + 1), t, c, k)
    BY <1>4 DEF Arrived, N
  <1>6. ASSUME NEW n \in 0 .. N + 1
        PROVE  \E q \in 0 .. k : /\ Shows(Heard(w, i, n), t, c, q)
                                 /\ n # 0 /\ w[n].id = i => q = w[n].nr
    <2>1. CASE n \in 0 .. N
      <3>1. PICK q \in 0 .. k : /\ Shows(Heard(l, i, n), t, c, q)
                                /\ n # 0 /\ l[n].id = i => q = l[n].nr
        BY <2>1 DEF Arrived, N
      <3>2. n # 0 => w[n] = l[n]
        BY <1>1, <2>1
      <3> QED  BY <1>2, <2>1, <3>1, <3>2
    <2>2. CASE n = N + 1
      <3>1. k \in 0 .. k /\ w[n].id # i
        BY <1>1, <2>2
      <3> QED  BY <1>5, <2>2, <3>1
    <2> QED  BY <1>1, <2>1, <2>2
  <1> QED  BY <1>1, <1>5, <1>6 DEF Arrived, w, N

LEMMA ArrivesOwn ==
    ASSUME NEW l \in Seq(Results), NEW r \in Results, NEW i, r.id = i,
           NEW S, NEW t \in Seq(S), NEW n \in Nat, NEW c \in Cuts(n, Len(t)),
           NEW k \in 0 .. n - 1, Arrived(l, i, t, c, k),
           r.nr = k + 1, r.text = Piece(t, c[k], c[k + 1]),
           r.final => c[k] = c[k + 1]
    PROVE  Arrived(Append(l, r), i, t, c, k + 1)
  <1> DEFINE w == Append(l, r)
             N == Len(l)
  <1>1. /\ N \in Nat /\ Len(w) = N + 1 /\ w[N + 1] = r
        /\ \A m \in 1 .. N : w[m] = l[m]
    BY AppendProperties
  <1>2. /\ \A m \in 0 .. N : Heard(w, i, m) = Heard(l, i, m)
        /\ Heard(w, i, N + 1) = Heard(l, i, N) \o Share(r, i)
    BY HeardMore
  <1>3. Share(r, i) = Piece(t, c[k], c[k + 1])
    <2>1. CASE ~r.final
      BY <2>1 DEF Share
    <2>2. CASE r.final
      <3>1. Share(r, i) = <<>>
        BY <2>2 DEF Share
      <3>2. c[k + 1] \in 0 .. Len(t) /\ c[k] \in 0 .. c[k + 1]
            /\ c[k + 1] - c[k] = 0
        <4>1. k + 1 \in 0 .. n /\ Len(t) \in Nat
          OBVIOUS
        <4>2. c[k + 1] \in 0 .. Len(t) /\ c[k] = c[k + 1]
          BY <2>2, <4>1, CutsIs
        <4> QED  BY <4>1, <4>2
      <3>3. Piece(t, c[k], c[k + 1]) \in Seq(S \cup {Hidden})
            /\ Len(Piece(t, c[k], c[k + 1])) = 0
        BY <3>2, PieceSize
      <3>4. Piece(t, c[k], c[k + 1]) = <<>>
        BY <3>3
      <3> QED  BY <3>1, <3>4
    <2> QED  BY <2>1, <2>2
  <1>4. Heard(l, i, N) \in Text /\ Text = Seq(Bytes)
    BY <1>1, HeardType DEF Text, Bytes
  <1> HIDE DEF w, N
  <1>5. Shows(Heard(w, i, N + 1), t, c, k + 1)
    <2>1. Shows(Heard(l, i, N), t, c, k)
      BY DEF Arrived, N
    <2>2. Shows(Heard(l, i, N) \o Piece(t, c[k], c[k + 1]), t, c, k + 1)
      BY <1>4, <2>1, ShowsPiece
    <2> QED  BY <1>2, <1>3, <2>2
  <1>6. ASSUME NEW m \in 0 .. N + 1
        PROVE  \E q \in 0 .. k + 1 : /\ Shows(Heard(w, i, m), t, c, q)
                                     /\ m # 0 /\ w[m].id = i => q = w[m].nr
    <2>1. CASE m \in 0 .. N
      <3>1. PICK q \in 0 .. k : /\ Shows(Heard(l, i, m), t, c, q)
                                /\ m # 0 /\ l[m].id = i => q = l[m].nr
        BY <2>1 DEF Arrived, N
      <3>2. m # 0 => w[m] = l[m]
        BY <1>1, <2>1
      <3>3. q \in 0 .. k + 1
        OBVIOUS
      <3> QED  BY <1>2, <2>1, <3>1, <3>2, <3>3
    <2>2. CASE m = N + 1
      <3>1. k + 1 \in 0 .. k + 1 /\ w[m].nr = k + 1
        BY <1>1, <2>2
      <3> QED  BY <1>5, <2>2, <3>1
    <2> QED  BY <1>1, <2>1, <2>2
  <1> QED  BY <1>1, <1>5, <1>6 DEF Arrived, w, N

\* More output, and more cuts in it, change nothing of what arrived.
LEMMA ArrivedStays ==
    ASSUME NEW l, NEW i, NEW S, NEW t \in Seq(S), NEW x \in Seq(S),
           NEW n \in Nat, NEW c \in Cuts(n, Len(t)), NEW k \in 0 .. n,
           NEW d, \A j \in 0 .. n : d[j] = c[j], Arrived(l, i, t, c, k)
    PROVE  Arrived(l, i, t \o x, d, k)
  <1>1. ASSUME NEW u, NEW q \in 0 .. k, Shows(u, t, c, q)
        PROVE  Shows(u, t \o x, d, q)
    <2>1. q \in Nat /\ q \in 0 .. n /\ \A j \in 0 .. q : d[j] = c[j]
      OBVIOUS
    <2>2. c[q] \in 0 .. Len(t)
      BY <2>1, CutsIs
    <2>3. Shows(u, t \o x, c, q)
      BY <1>1, <2>1, <2>2, ShowsMoreText
    <2> QED  BY <2>1, <2>3, ShowsMoreCuts
  <1>2. k \in 0 .. k
    OBVIOUS
  <1> QED  BY <1>1, <1>2 DEF Arrived

-----------------------------------------------------------------------------
(* All output arrives.                                                     *)

\* What the command of i has printed.
Raw(i) == FlattenSeq(printed[i])

AllResults == Range(queue) \cup Range(posting) \cup Range(landed) \cup late

\* The output is cut where it may be cut, or at its end when it is over, and
\* the stream keeps what is behind the last cut.
Sound(i, c) ==
    /\ c \in Cuts(reports[i], Len(Raw(i)))
    /\ \A j \in 0 .. reports[i] :
          Clean(Raw(i), c[j]) \/ (c[j] = Len(Raw(i)) /\ disp[i] # "running")
    /\ conn # "gone" =>
          kept[i] = SubSeq(Raw(i), c[reports[i]] + 1, Len(Raw(i)))

\* Every result is the piece that its number says; the final one is the last,
\* and nothing is left when it is made.
Told(i, c) ==
    \A r \in AllResults : r.id = i =>
        /\ r.text = Piece(Raw(i), c[r.nr - 1], c[r.nr])
        /\ r.final => /\ r.nr = reports[i] /\ c[r.nr - 1] = c[r.nr]
                      /\ c[r.nr] = Len(Raw(i))
                      /\ disp[i] \notin {"running", "flushed"}

\* When k results of i have arrived and no POST of it has failed, the others
\* are on the way in their order.  One that was being posted when the process
\* ended may be the next.
Way(i, k) ==
    /\ \A r \in Range(posting) \cup Range(queue) : r.id = i => r.nr > k
    /\ conn # "gone" => \A x \in k + 1 .. reports[i] :
          \E r \in Range(posting) \cup Range(queue) : r.id = i /\ r.nr = x
    /\ \A m \in DOMAIN posting, n \in DOMAIN queue :
          posting[m].id = i /\ queue[n].id = i => posting[m].nr < queue[n].nr
    /\ \A m, n \in DOMAIN queue :
          m < n /\ queue[m].id = i /\ queue[n].id = i
             => queue[m].nr < queue[n].nr
    /\ \A r \in late : r.id = i => conn = "gone" /\ r.nr = k + 1
    /\ \A r, s \in late : r.id = i /\ s.id = i => r = s

OutOf(i, c) ==
    /\ Sound(i, c) /\ Told(i, c)
    /\ i \notin unsent => \E k \in 0 .. reports[i] :
          Arrived(landed, i, Raw(i), c, k) /\ Way(i, k)

\* Nothing is left of a process that is gone, and nothing is there of an
\* invoke that was not dispatched.
Calm ==
    /\ conn = "gone" => /\ posting = <<>> /\ queue = <<>>
                        /\ \A i \in Invokes : disp[i] = "no"
    /\ conn # "gone" => \A i \in Invokes : disp[i] = "no" =>
          printed[i] = <<>> /\ kept[i] = <<>> /\ reports[i] = 0

HasCuts(i) == \E c \in Cuts(reports[i], Len(Raw(i))) : OutOf(i, c)

OutInv == \A i \in Invokes : op[i] \in {"exec", Nil} => HasCuts(i)

LEMMA ChunksAre ==
    ASSUME NEW s \in Seq(Chunks)
    PROVE  /\ FlattenSeq(s) \in Text
           /\ \A x \in Chunks : /\ x \in Text
                                /\ FlattenSeq(Append(s, x)) = FlattenSeq(s) \o x
  <1>1. ASSUME NEW x \in Chunks  PROVE x \in Seq(Bytes)
    <2>1. Range(x) \subseteq Bytes /\ x \in Seq(Range(x))
      BY OutboundAssumption DEF Bytes
    <2> QED  BY <2>1
  <1>2. s \in Seq(Seq(Bytes))
    BY <1>1
  <1>3. Text = Seq(Bytes)
    BY DEF Text, Bytes
  <1> QED  BY <1>1, <1>2, <1>3, FlattenType, FlattenAppend

LEMMA RawIs ==
    ASSUME Base, NEW i \in Invokes
    PROVE  Raw(i) \in Seq(Bytes) /\ Len(Raw(i)) \in Nat /\ reports[i] \in Nat
  <1>1. printed[i] \in Seq(Chunks) /\ reports[i] \in Nat
    BY DEF Base, HostType
  <1>2. Raw(i) \in Text
    BY <1>1, ChunksAre DEF Raw
  <1> QED  BY <1>1, <1>2 DEF Text, Bytes

LEMMA AllCounted ==
    ASSUME Base, NEW r \in AllResults
    PROVE  r \in Results /\ r.nr \in 1 .. reports[r.id]
  <1>1. AllResults \subseteq Results
    BY RangeIs DEF Base, SendType, CloudType, AllResults
  <1> QED  BY <1>1 DEF Base, ReportInv, Counted, AllResults

-----------------------------------------------------------------------------
(* Steps in which invoke i reports nothing.                                *)

\* Nothing of invoke i changes but where its dispatch is.
Rests(i) ==
    /\ UNCHANGED <<printed[i], reports[i]>>
    /\ conn' # "gone" => conn # "gone" /\ kept'[i] = kept[i]
    /\ disp'[i] \in {"running", "flushed"} =>
          disp'[i] = disp[i] \/ reports[i] = 0
    /\ \A r \in AllResults' : r.id = i => r \in AllResults

LEMMA RestsKeeps ==
    ASSUME Base, NEW i \in Invokes, Rests(i),
           NEW c \in Cuts(reports[i], Len(Raw(i))), Sound(i, c), Told(i, c)
    PROVE  Sound(i, c)' /\ Told(i, c)'
  <1>1. Raw(i)' = Raw(i) /\ reports'[i] = reports[i]
    BY DEF Rests, Raw
  <1>2. Sound(i, c)'
    <2>1. ASSUME NEW j \in 0 .. reports[i]
          PROVE  \/ Clean(Raw(i), c[j])
                 \/ c[j] = Len(Raw(i)) /\ disp'[i] # "running"
      <3>1. CASE reports[i] = 0
        <4>1. c[j] = 0
          BY <3>1 DEF Cuts
        <4> QED  BY <4>1 DEF Clean
      <3>2. CASE reports[i] # 0
        BY <3>2 DEF Sound, Rests
      <3> QED  BY <3>1, <3>2
    <2>2. c \in Cuts(reports[i], Len(Raw(i)))
      OBVIOUS
    <2>3. conn' # "gone" =>
             kept'[i] = SubSeq(Raw(i), c[reports[i]] + 1, Len(Raw(i)))
      BY DEF Rests, Sound
    <2> QED  BY <1>1, <2>1, <2>2, <2>3 DEF Sound
  <1>3. Told(i, c)'
    <2> SUFFICES ASSUME NEW r \in AllResults', r.id = i
                 PROVE  /\ r.text = Piece(Raw(i), c[r.nr - 1], c[r.nr])
                        /\ r.final => /\ r.nr = reports[i]
                                      /\ c[r.nr - 1] = c[r.nr]
                                      /\ c[r.nr] = Len(Raw(i))
                                      /\ disp'[i] \notin {"running", "flushed"}
      BY <1>1 DEF Told
    <2>1. r \in AllResults
      BY DEF Rests
    <2>2. reports[i] # 0
      <3>1. r.nr \in 1 .. reports[i] /\ reports[i] \in Nat
        BY <2>1, AllCounted, RawIs
      <3> QED  BY <3>1
    <2> QED  BY <2>1, <2>2 DEF Told, Rests
  <1> QED  BY <1>2, <1>3

\* The same when nothing moves at all.
LEMMA OutRests ==
    ASSUME Base, NEW i \in Invokes, Rests(i), conn' = conn \/ conn' # "gone",
           UNCHANGED <<queue, posting, landed, late, unsent>>,
           NEW c \in Cuts(reports[i], Len(Raw(i))), OutOf(i, c)
    PROVE  OutOf(i, c)'
  <1>1. Sound(i, c)' /\ Told(i, c)'
    BY RestsKeeps DEF OutOf
  <1>2. Raw(i)' = Raw(i) /\ reports'[i] = reports[i]
        /\ (conn' = "gone" <=> conn = "gone")
    BY DEF Rests, Raw
  <1>3. ASSUME NEW k, Way(i, k)  PROVE Way(i, k)'
    BY <1>2, <1>3 DEF Way
  <1>4. ASSUME NEW k, Arrived(landed, i, Raw(i), c, k)
        PROVE  Arrived(landed, i, Raw(i), c, k)'
    BY <1>2, <1>4
  <1> QED  BY <1>1, <1>2, <1>3, <1>4 DEF OutOf

\* Another invoke reports something.
LEMMA OutOtherSends ==
    ASSUME Base, NEW i \in Invokes, NEW r \in Results, r.id # i, Send(r),
           Rests(i),
           NEW c \in Cuts(reports[i], Len(Raw(i))), OutOf(i, c)
    PROVE  OutOf(i, c)'
  <1>1. Sound(i, c)' /\ Told(i, c)'
    BY RestsKeeps DEF OutOf
  <1>2. Raw(i)' = Raw(i) /\ reports'[i] = reports[i]
        /\ UNCHANGED <<conn, posting, landed, late, unsent>>
    BY DEF Rests, Raw, Send
  <1>3. ASSUME NEW k, Way(i, k)  PROVE Way(i, k)'
    <2>1. /\ queue \in Seq(Results) /\ Len(queue) \in Nat
          /\ queue' = Append(queue, r)
          /\ Len(queue') = Len(queue) + 1
          /\ DOMAIN queue = 1 .. Len(queue)
          /\ DOMAIN queue' = 1 .. Len(queue) + 1
          /\ queue'[Len(queue) + 1] = r
          /\ \A n \in 1 .. Len(queue) : queue'[n] = queue[n]
      <3>1. queue \in Seq(Results) /\ queue' = Append(queue, r)
        BY DEF Send, Base, SendType
      <3> QED  BY <3>1, AppendProperties
    <2>2. \A x : x.id = i => (x \in Range(queue') <=> x \in Range(queue))
      BY <2>1 DEF Range
    <2>3. \A n \in DOMAIN queue' : queue'[n].id = i => n \in DOMAIN queue
      BY <2>1
    <2>4. ASSUME NEW m \in DOMAIN queue', NEW n \in DOMAIN queue', m < n,
                 queue'[m].id = i, queue'[n].id = i
          PROVE  queue'[m].nr < queue'[n].nr
      <3>1. m \in DOMAIN queue /\ n \in DOMAIN queue
        BY <2>3, <2>4
      <3>2. queue'[m] = queue[m] /\ queue'[n] = queue[n]
        BY <2>1, <3>1
      <3> QED  BY <1>3, <2>4, <3>1, <3>2 DEF Way
    <2>5. ASSUME NEW m \in DOMAIN posting, NEW n \in DOMAIN queue',
                 posting[m].id = i, queue'[n].id = i
          PROVE  posting[m].nr < queue'[n].nr
      <3>1. n \in DOMAIN queue
        BY <2>3, <2>5
      <3>2. queue'[n] = queue[n]
        BY <2>1, <3>1
      <3> QED  BY <1>3, <2>5, <3>1, <3>2 DEF Way
    <2>6. /\ \A x \in Range(posting) \cup Range(queue') : x.id = i => x.nr > k
          /\ conn # "gone" => \A y \in k + 1 .. reports[i] :
                \E x \in Range(posting) \cup Range(queue') : x.id = i /\ x.nr = y
      BY <1>3, <2>2 DEF Way
    <2> QED  BY <1>2, <1>3, <2>4, <2>5, <2>6 DEF Way
  <1>4. ASSUME NEW k, Arrived(landed, i, Raw(i), c, k)
        PROVE  Arrived(landed, i, Raw(i), c, k)'
    BY <1>2, <1>4
  <1> QED  BY <1>1, <1>2, <1>3, <1>4 DEF OutOf

-----------------------------------------------------------------------------
(* Steps of the command of i itself.                                       *)

\* What was cut and said stays so when the command prints x.
LEMMA MoreText ==
    ASSUME Base, NEW i \in Invokes,
           NEW c \in Cuts(reports[i], Len(Raw(i))), Sound(i, c), Told(i, c),
           NEW x \in Seq(Bytes), disp[i] = "running" \/ x = <<>>
    PROVE  LET t == Raw(i) \o x IN
           /\ t \in Seq(Bytes) /\ Len(t) \in Nat /\ Len(Raw(i)) <= Len(t)
           /\ \A j \in 0 .. reports[i] :
                 /\ c[j] \in 0 .. Len(Raw(i))
                 /\ \/ Clean(t, c[j])
                    \/ c[j] = Len(t) /\ disp[i] # "running"
           /\ \A r \in AllResults : r.id = i =>
                 r.text = Piece(t, c[r.nr - 1], c[r.nr])
  <1> DEFINE t == Raw(i) \o x
             n == reports[i]
  <1>1. /\ Raw(i) \in Seq(Bytes) /\ Len(Raw(i)) \in Nat /\ n \in Nat
        /\ t \in Seq(Bytes) /\ Len(x) \in Nat /\ Len(t) = Len(Raw(i)) + Len(x)
    BY RawIs, ConcatProperties
  <1>2. x = <<>> => t = Raw(i)
    BY <1>1, ConcatEmptySeq
  <1>3. ASSUME NEW j \in 0 .. n
        PROVE  /\ c[j] \in 0 .. Len(Raw(i))
               /\ \/ Clean(t, c[j])
                  \/ c[j] = Len(t) /\ disp[i] # "running"
    <2>1. c[j] \in 0 .. Len(Raw(i))
      BY <1>1, CutsIs
    <2>2. CASE Clean(Raw(i), c[j])
      BY <1>1, <2>1, <2>2, CleanGrows
    <2>3. CASE c[j] = Len(Raw(i)) /\ disp[i] # "running"
      BY <1>2, <2>1, <2>3
    <2> QED  BY <2>1, <2>2, <2>3 DEF Sound
  <1>4. ASSUME NEW r \in AllResults, r.id = i
        PROVE  r.text = Piece(t, c[r.nr - 1], c[r.nr])
    <2>1. r.nr \in 1 .. n
      BY <1>4, AllCounted
    <2>2. /\ r.nr - 1 \in 0 .. n - 1 /\ r.nr \in 0 .. n /\ r.nr - 1 \in 0 .. n
          /\ r.nr - 1 + 1 = r.nr
      BY <1>1, <2>1
    <2>3. c[r.nr - 1] <= c[r.nr]
      <3>1. c[r.nr - 1] <= c[r.nr - 1 + 1]
        BY <1>1, <2>2, CutsIs
      <3> QED  BY <2>2, <3>1
    <2>4. c[r.nr] \in 0 .. Len(Raw(i)) /\ c[r.nr - 1] \in 0 .. c[r.nr]
      BY <1>3, <2>2, <2>3
    <2>5. Piece(t, c[r.nr - 1], c[r.nr]) = Piece(Raw(i), c[r.nr - 1], c[r.nr])
      BY <1>1, <2>4, PieceStays
    <2> QED  BY <1>4, <2>5 DEF Told
  <1> QED  BY <1>1, <1>3, <1>4

\* The command prints x, and the stream keeps it.
LEMMA OutPrints ==
    ASSUME Base, NEW i \in Invokes,
           NEW c \in Cuts(reports[i], Len(Raw(i))), OutOf(i, c),
           NEW x \in Seq(Bytes), disp[i] = "running", Raw(i)' = Raw(i) \o x,
           UNCHANGED <<conn, disp, reports, queue, posting, landed, late,
                       unsent>>,
           kept'[i] = SubSeq(Raw(i) \o x, c[reports[i]] + 1, Len(Raw(i) \o x))
    PROVE  c \in Cuts(reports'[i], Len(Raw(i)')) /\ OutOf(i, c)'
  <1> DEFINE t == Raw(i) \o x
             n == reports[i]
  <1>1. /\ Raw(i) \in Seq(Bytes) /\ Len(Raw(i)) \in Nat /\ n \in Nat
        /\ reports'[i] = n /\ Raw(i)' = t
    BY RawIs
  <1>2. /\ t \in Seq(Bytes) /\ Len(t) \in Nat /\ Len(Raw(i)) <= Len(t)
        /\ \A j \in 0 .. n : c[j] \in 0 .. Len(Raw(i)) /\ Clean(t, c[j])
        /\ \A r \in AllResults : r.id = i =>
              r.text = Piece(t, c[r.nr - 1], c[r.nr])
    BY MoreText DEF OutOf
  <1> HIDE DEF t
  <1>3. c \in Cuts(n, Len(t))
    <2>1. c \in [0 .. n -> 0 .. Len(Raw(i))]
      BY DEF Cuts
    <2>2. c \in [0 .. n -> 0 .. Len(t)]
      BY <1>1, <1>2, <2>1
    <2> QED  BY <2>2 DEF Cuts
  <1>4. Sound(i, c)'
    <2>1. kept'[i] = SubSeq(t, c[n] + 1, Len(t))
      BY DEF t
    <2> QED  BY <1>1, <1>2, <1>3, <2>1 DEF Sound
  <1>5. Told(i, c)'
    <2>1. AllResults' = AllResults
      BY DEF AllResults
    <2>2. \A r \in AllResults : r.id = i => ~r.final
      BY DEF OutOf, Told
    <2> QED  BY <1>1, <1>2, <2>1, <2>2 DEF Told
  <1>6. ASSUME NEW k \in 0 .. n, Arrived(landed, i, Raw(i), c, k)
        PROVE  Arrived(landed, i, Raw(i), c, k)'
    <2>1. Arrived(landed, i, t, c, k)
      BY <1>1, <1>6, ArrivedStays DEF t
    <2> QED  BY <1>1, <2>1
  <1>7. ASSUME NEW k, Way(i, k)  PROVE Way(i, k)'
    BY <1>7 DEF Way
  <1> QED  BY <1>1, <1>3, <1>4, <1>5, <1>6, <1>7 DEF OutOf

\* The command has printed x, and what is before e leaves as result r.
LEMMA OutSends ==
    ASSUME Base, NEW i \in Invokes, conn # "gone",
           NEW c \in Cuts(reports[i], Len(Raw(i))), OutOf(i, c),
           NEW x \in Seq(Bytes), disp[i] = "running" \/ x = <<>>,
           Raw(i)' = Raw(i) \o x,
           NEW e \in c[reports[i]] .. Len(Raw(i) \o x),
           NEW r \in Results, r.id = i, r.nr = reports[i] + 1, Send(r),
           r.text = Piece(Raw(i) \o x, c[reports[i]], e),
           kept'[i] = SubSeq(Raw(i) \o x, e + 1, Len(Raw(i) \o x)),
           disp[i] \in {"running", "flushed"},
           disp'[i] = "running" => disp[i] = "running",
           \/ Clean(Raw(i) \o x, e)
           \/ e = Len(Raw(i) \o x) /\ disp'[i] # "running",
           r.final => /\ c[reports[i]] = e /\ e = Len(Raw(i) \o x)
                      /\ disp'[i] \notin {"running", "flushed"}
    PROVE  \E d \in Cuts(reports'[i], Len(Raw(i)')) : OutOf(i, d)'
  <1> DEFINE t == Raw(i) \o x
             n == reports[i]
  <1>1. /\ Raw(i) \in Seq(Bytes) /\ Len(Raw(i)) \in Nat /\ n \in Nat
        /\ Raw(i)' = t
    BY RawIs
  <1>2. /\ t \in Seq(Bytes) /\ Len(t) \in Nat /\ Len(Raw(i)) <= Len(t)
        /\ \A j \in 0 .. n :
              /\ c[j] \in 0 .. Len(Raw(i))
              /\ Clean(t, c[j]) \/ (c[j] = Len(t) /\ disp[i] # "running")
        /\ \A s \in AllResults : s.id = i =>
              s.text = Piece(t, c[s.nr - 1], c[s.nr])
    BY MoreText DEF OutOf
  <1>3. /\ reports'[i] = n + 1
        /\ UNCHANGED <<conn, posting, landed, late, unsent>>
        /\ queue' = Append(queue, r)
    BY DEF Send, Base, HostType
  <1>4. /\ e \in c[n] .. Len(t) /\ r.text = Piece(t, c[n], e)
        /\ kept'[i] = SubSeq(t, e + 1, Len(t))
        /\ Clean(t, e) \/ (e = Len(t) /\ disp'[i] # "running")
        /\ r.final => /\ c[n] = e /\ e = Len(t)
                      /\ disp'[i] \notin {"running", "flushed"}
    OBVIOUS
  <1>5. \A s \in AllResults : s.id = i => s.nr \in 1 .. n /\ ~s.final
    BY AllCounted DEF OutOf, Told
  <1> HIDE DEF t, n
  <1>6. PICK d : d = [j \in 0 .. n + 1 |-> IF j <= n THEN c[j] ELSE e]
    OBVIOUS
  <1>7. /\ \A j \in 0 .. n : d[j] = c[j]
        /\ d[n + 1] = e
    BY <1>6, <1>1
  <1>8. d \in Cuts(n + 1, Len(t))
    <2>1. c[0] = 0 /\ \A j \in 1 .. n : c[j - 1] <= c[j]
      BY DEF Cuts, n
    <2>2. n \in 0 .. n /\ c[n] \in 0 .. Len(Raw(i))
      BY <1>1, <1>2
    <2>3. d \in [0 .. n + 1 -> 0 .. Len(t)]
      BY <1>6, <1>1, <1>2, <1>4, <2>2
    <2>4. ASSUME NEW j \in 1 .. n + 1  PROVE d[j - 1] <= d[j]
      <3>1. CASE j \in 1 .. n
        <4>1. j - 1 \in 0 .. n /\ j \in 0 .. n
          BY <1>1, <3>1
        <4> QED  BY <1>7, <2>1, <3>1, <4>1
      <3>2. CASE j = n + 1
        <4>1. j - 1 = n
          BY <1>1, <3>2
        <4> QED  BY <1>4, <1>7, <2>2, <3>2, <4>1
      <3> QED  BY <1>1, <3>1, <3>2
    <2>5. d[0] = 0
      BY <1>1, <1>7, <2>1
    <2> QED  BY <2>3, <2>4, <2>5 DEF Cuts
  <1>9. Sound(i, d)'
    <2>1. ASSUME NEW j \in 0 .. n + 1
          PROVE  Clean(t, d[j]) \/ (d[j] = Len(t) /\ disp'[i] # "running")
      <3>1. CASE j \in 0 .. n
        BY <1>2, <1>7, <3>1
      <3>2. CASE j = n + 1
        BY <1>4, <1>7, <3>2
      <3> QED  BY <1>1, <3>1, <3>2
    <2>2. kept'[i] = SubSeq(t, d[n + 1] + 1, Len(t))
      BY <1>4, <1>7
    <2> QED  BY <1>1, <1>3, <1>8, <2>1, <2>2 DEF Sound
  <1>10. /\ queue \in Seq(Results) /\ Len(queue) \in Nat
        /\ Len(queue') = Len(queue) + 1
        /\ DOMAIN queue = 1 .. Len(queue) /\ DOMAIN queue' = 1 .. Len(queue) + 1
        /\ queue'[Len(queue) + 1] = r
        /\ \A m \in 1 .. Len(queue) : queue'[m] = queue[m]
    <2>1. queue \in Seq(Results)
      BY DEF Base, SendType
    <2> QED  BY <1>3, <2>1, AppendProperties
  <1>11. /\ DOMAIN queue' = DOMAIN queue \cup {Len(queue) + 1}
         /\ \A m \in DOMAIN queue : queue'[m] = queue[m]
    BY <1>10
  <1>12. Range(queue') = Range(queue) \cup {r}
    <2>1. ASSUME NEW s \in Range(queue')  PROVE s \in Range(queue) \cup {r}
      <3>1. PICK m \in DOMAIN queue' : s = queue'[m]
        BY DEF Range
      <3>2. CASE m \in DOMAIN queue
        BY <1>11, <3>1, <3>2 DEF Range
      <3> QED  BY <1>10, <1>11, <3>1, <3>2
    <2>2. ASSUME NEW s \in Range(queue)  PROVE s \in Range(queue')
      <3>1. PICK m \in DOMAIN queue : s = queue[m]
        BY DEF Range
      <3>2. m \in DOMAIN queue' /\ queue'[m] = s
        BY <1>11, <3>1
      <3> QED  BY <3>2 DEF Range
    <2>3. r \in Range(queue')
      <3>1. Len(queue) + 1 \in DOMAIN queue' /\ queue'[Len(queue) + 1] = r
        BY <1>10, <1>11
      <3> QED  BY <3>1 DEF Range
    <2> QED  BY <2>1, <2>2, <2>3
  <1>13. Told(i, d)'
    <2>1. AllResults' = AllResults \cup {r}
      BY <1>3, <1>12 DEF AllResults
    <2>2. ASSUME NEW s \in AllResults, s.id = i
          PROVE  s.text = Piece(t, d[s.nr - 1], d[s.nr])
      <3>1. s.nr \in 0 .. n /\ s.nr - 1 \in 0 .. n
        BY <1>1, <1>5, <2>2
      <3> QED  BY <1>2, <1>7, <2>2, <3>1
    <2>3. /\ r.nr = n + 1 /\ r.nr - 1 = n
          /\ d[r.nr - 1] = c[n] /\ d[r.nr] = e
      <3>1. r.nr = n + 1 /\ r.nr - 1 = n /\ n \in 0 .. n
        BY <1>1 DEF n
      <3> QED  BY <1>7, <3>1
    <2> QED  BY <1>1, <1>3, <1>4, <1>5, <2>1, <2>2, <2>3 DEF Told
  <1>14. ASSUME NEW k \in 0 .. n, Arrived(landed, i, Raw(i), c, k)
         PROVE  Arrived(landed, i, Raw(i), d, k)'
    <2>1. c \in Cuts(n, Len(Raw(i)))
      BY DEF n
    <2>2. Arrived(landed, i, t, d, k)
      BY <1>1, <1>7, <1>14, <2>1, ArrivedStays DEF t
    <2> QED  BY <1>1, <1>3, <2>2
  <1>15. ASSUME NEW k \in 0 .. n, Way(i, k)  PROVE Way(i, k)'
    <2>1. r.nr = n + 1 /\ r.id = i /\ k \in Nat
      BY <1>1 DEF n
    <2>2. \A s \in Range(posting) \cup Range(queue) :
             s.id = i => s.nr \in 1 .. n /\ s.nr > k
      BY <1>5, <1>15 DEF AllResults, Way
    <2>3. \A s \in Range(posting) \cup Range(queue') : s.id = i => s.nr > k
      BY <1>1, <1>12, <2>1, <2>2
    <2>4. ASSUME NEW y \in k + 1 .. n + 1
          PROVE  \E s \in Range(posting) \cup Range(queue') :
                    s.id = i /\ s.nr = y
      <3>1. CASE y \in k + 1 .. n
        BY <1>12, <1>15, <3>1 DEF Way, n
      <3>2. CASE y = n + 1
        BY <1>12, <2>1, <3>2
      <3> QED  BY <1>1, <3>1, <3>2
    <2>5. \A m \in DOMAIN posting : posting[m] \in Range(posting)
      BY DEF Range
    <2>6. \A m \in DOMAIN queue : queue[m] \in Range(queue)
      BY DEF Range
    <2>7. ASSUME NEW m \in DOMAIN posting, NEW l \in DOMAIN queue',
                 posting[m].id = i, queue'[l].id = i
          PROVE  posting[m].nr < queue'[l].nr
      <3>1. CASE l \in DOMAIN queue
        <4>1. queue'[l] = queue[l]
          BY <1>10, <3>1
        <4> QED  BY <1>15, <2>7, <3>1, <4>1 DEF Way
      <3>2. CASE l = Len(queue) + 1
        BY <1>1, <1>10, <2>1, <2>2, <2>5, <2>7, <3>2
      <3> QED  BY <1>11, <3>1, <3>2
    <2>8. ASSUME NEW m \in DOMAIN queue', NEW l \in DOMAIN queue', m < l,
                 queue'[m].id = i, queue'[l].id = i
          PROVE  queue'[m].nr < queue'[l].nr
      <3>1. m \in DOMAIN queue /\ queue'[m] = queue[m]
        <4>1. m \in 1 .. Len(queue)
          BY <1>10, <2>8
        <4> QED  BY <1>10, <4>1
      <3>2. CASE l \in DOMAIN queue
        <4>1. queue'[l] = queue[l]
          BY <1>10, <3>2
        <4> QED  BY <1>15, <2>8, <3>1, <3>2, <4>1 DEF Way
      <3>3. CASE l = Len(queue) + 1
        BY <1>1, <1>10, <2>1, <2>2, <2>6, <2>8, <3>1, <3>3
      <3> QED  BY <1>11, <3>2, <3>3
    <2> QED  BY <1>3, <1>15, <2>3, <2>4, <2>7, <2>8 DEF Way
  <1>16. i \notin unsent' => \E k \in 0 .. n + 1 :
            Arrived(landed, i, Raw(i), d, k)' /\ Way(i, k)'
    <2> SUFFICES ASSUME i \notin unsent
                 PROVE  \E k \in 0 .. n + 1 :
                           Arrived(landed, i, Raw(i), d, k)' /\ Way(i, k)'
      BY <1>3
    <2>1. PICK k \in 0 .. n : Arrived(landed, i, Raw(i), c, k) /\ Way(i, k)
      BY DEF OutOf, n
    <2>2. k \in 0 .. n + 1
      BY <1>1
    <2> QED  BY <1>14, <1>15, <2>1, <2>2
  <1>17. OutOf(i, d)'
    BY <1>3, <1>9, <1>13, <1>16 DEF OutOf
  <1> QED  BY <1>1, <1>3, <1>8, <1>17

-----------------------------------------------------------------------------
(* What an invoke does.                                                    *)

LEMMA SliceOfSlice ==
    ASSUME NEW S, NEW t \in Seq(S), NEW b \in 0 .. Len(t), NEW a \in 0 .. b,
           NEW v \in 0 .. b - a, NEW u \in 0 .. v
    PROVE  SubSeq(SubSeq(t, a + 1, b), u + 1, v) = SubSeq(t, a + u + 1, a + v)
  <1> DEFINE p == SubSeq(t, a + 1, b)
             l == SubSeq(p, u + 1, v)
             r == SubSeq(t, a + u + 1, a + v)
  <1>1. /\ p \in Seq(S) /\ Len(p) = b - a
        /\ \A n \in 1 .. b - a : p[n] = t[a + n]
    BY SliceIs
  <1>2. Len(t) \in Nat /\ v \in 0 .. Len(p) /\ a + v \in 0 .. Len(t)
        /\ a + u \in 0 .. a + v
    BY <1>1
  <1> HIDE DEF p
  <1>3. /\ l \in Seq(S) /\ Len(l) = v - u
        /\ \A n \in 1 .. v - u : l[n] = p[u + n]
    BY <1>1, <1>2, SliceIs
  <1>4. /\ r \in Seq(S) /\ Len(r) = v - u
        /\ \A n \in 1 .. v - u : r[n] = t[a + u + n]
    <2>1. a + v - (a + u) = v - u
      BY <1>2
    <2>2. /\ r \in Seq(S) /\ Len(r) = a + v - (a + u)
          /\ \A n \in 1 .. a + v - (a + u) : r[n] = t[a + u + n]
      BY <1>2, SliceIs
    <2> QED  BY <2>1, <2>2
  <1> HIDE DEF l, r
  <1>5. ASSUME NEW n \in 1 .. v - u  PROVE l[n] = r[n]
    <2>1. u + n \in 1 .. b - a /\ a + (u + n) = a + u + n
      BY <1>2
    <2> QED  BY <1>1, <1>3, <1>4, <2>1
  <1>6. l = r
    BY <1>3, <1>4, <1>5, SeqEqual
  <1> QED  BY <1>6 DEF l, r, p

\* What is behind a goes on as the text does.
LEMMA SliceGrows ==
    ASSUME NEW S, NEW t \in Seq(S), NEW x \in Seq(S), NEW a \in 0 .. Len(t)
    PROVE  SubSeq(t, a + 1, Len(t)) \o x = SubSeq(t \o x, a + 1, Len(t \o x))
  <1> DEFINE w == t \o x
             p == SubSeq(t, a + 1, Len(t))
             l == p \o x
             r == SubSeq(w, a + 1, Len(w))
  <1>1. /\ w \in Seq(S) /\ Len(w) = Len(t) + Len(x)
        /\ Len(t) \in Nat /\ Len(x) \in Nat
        /\ \A n \in 1 .. Len(t) + Len(x) :
              w[n] = IF n <= Len(t) THEN t[n] ELSE x[n - Len(t)]
    BY ConcatProperties
  <1>2. /\ p \in Seq(S) /\ Len(p) = Len(t) - a
        /\ \A n \in 1 .. Len(t) - a : p[n] = t[a + n]
    BY <1>1, SliceIs
  <1> HIDE DEF w, p
  <1>3. /\ l \in Seq(S) /\ Len(l) = Len(p) + Len(x)
        /\ \A n \in 1 .. Len(p) + Len(x) :
              l[n] = IF n <= Len(p) THEN p[n] ELSE x[n - Len(p)]
    BY <1>2, ConcatProperties
  <1>4. /\ r \in Seq(S) /\ Len(r) = Len(w) - a
        /\ \A n \in 1 .. Len(w) - a : r[n] = w[a + n]
    BY <1>1, SliceIs
  <1> HIDE DEF l, r
  <1>5. Len(l) = Len(r)
    BY <1>1, <1>2, <1>3, <1>4
  <1>6. ASSUME NEW n \in 1 .. Len(l)  PROVE l[n] = r[n]
    <2>1. /\ n \in 1 .. Len(p) + Len(x) /\ n \in 1 .. Len(w) - a
          /\ a + n \in 1 .. Len(t) + Len(x)
      BY <1>1, <1>2, <1>3
    <2>2. CASE n <= Len(p)
      <3>1. a + n <= Len(t) /\ n \in 1 .. Len(t) - a
        BY <1>1, <1>2, <2>2
      <3> QED  BY <1>1, <1>2, <1>3, <1>4, <2>1, <2>2, <3>1
    <2>3. CASE ~(n <= Len(p))
      <3>1. ~(a + n <= Len(t)) /\ n - Len(p) = a + n - Len(t)
        BY <1>1, <1>2, <2>3
      <3>2. l[n] = x[n - Len(p)]
        BY <1>3, <2>1, <2>3
      <3>3. r[n] = w[a + n]
        BY <1>4, <2>1
      <3>4. w[a + n] = x[a + n - Len(t)]
        BY <1>1, <2>1, <3>1
      <3> QED  BY <3>1, <3>2, <3>3, <3>4
    <2> QED  BY <2>2, <2>3
  <1>7. l = r
    BY <1>3, <1>4, <1>5, <1>6, SeqEqual
  <1> QED  BY <1>7 DEF l, r, p, w

\* A Push gives out the next piece of the text, and keeps what is behind it.
LEMMA PushSlices ==
    ASSUME NEW S, NEW t \in Seq(S), NEW a \in 0 .. Len(t), Clean(t, a)
    PROVE  LET p == SubSeq(t, a + 1, Len(t)) IN
           \E e \in a .. Len(t) :
              /\ Clean(t, e)
              /\ PushOut(p) = Piece(t, a, e)
              /\ PushKeep(p) = SubSeq(t, e + 1, Len(t))
              /\ PushOut(p) = <<>> => e = a
  <1> DEFINE p == SubSeq(t, a + 1, Len(t))
             c == Cut(p)
  <1>1. c \in 0 .. Len(t) - a /\ Clean(t, a + c) /\ Len(t) \in Nat
    BY CleanPush
  <1>2. Len(p) = Len(t) - a
    BY <1>1, SliceIs
  <1>3. SubSeq(p, 0 + 1, c) = SubSeq(t, a + 0 + 1, a + c)
    <2> HIDE DEF c
    <2> QED  BY <1>1, SliceOfSlice
  <1>4. SubSeq(p, c + 1, Len(t) - a)
          = SubSeq(t, a + c + 1, a + (Len(t) - a))
    <2>1. Len(t) - a \in 0 .. Len(t) - a
      BY <1>1
    <2> HIDE DEF c
    <2> QED  BY <1>1, <2>1, SliceOfSlice
  <1>5. PushOut(p) = Piece(t, a, a + c)
    <2>1. 0 + 1 = 1 /\ a + 0 + 1 = a + 1
      BY <1>1
    <2> QED  BY <1>3, <2>1 DEF PushOut, Piece
  <1>6. PushKeep(p) = SubSeq(t, a + c + 1, Len(t))
    <2>1. a + (Len(t) - a) = Len(t)
      BY <1>1
    <2> QED  BY <1>2, <1>4, <2>1 DEF PushKeep
  <1>7. a + c \in a .. Len(t)
    BY <1>1
  <1>8. PushOut(p) = <<>> => a + c = a
    <2> HIDE DEF c, p
    <2>1. a + c \in 0 .. Len(t) /\ a \in 0 .. a + c /\ (a + c) - a = c
      BY <1>1
    <2>2. Len(Piece(t, a, a + c)) = c
      <3>1. PICK b : b = a + c
        OBVIOUS
      <3>2. b \in 0 .. Len(t) /\ a \in 0 .. b /\ b - a = c
        BY <2>1, <3>1
      <3>3. Len(Piece(t, a, b)) = b - a
        BY <3>2, PieceSize
      <3> QED  BY <3>1, <3>2, <3>3
    <2>3. Len(<<>>) = 0
      OBVIOUS
    <2>4. PushOut(p) = <<>> => c = 0
      BY <1>5, <2>2, <2>3, Zenon
    <2> QED  BY <2>1, <2>4
  <1> HIDE DEF c
  <1> QED  BY <1>1, <1>5, <1>6, <1>7, <1>8

LEMMA SendAdds ==
    ASSUME Base, NEW r \in Results, Send(r)
    PROVE  /\ AllResults' \subseteq AllResults \cup {r}
           /\ conn' = conn
           /\ \A j \in Invokes : j # r.id => reports'[j] = reports[j]
  <1>1. queue \in Seq(Results) /\ queue' = Append(queue, r)
    BY DEF Base, SendType, Send
  <1>2. /\ Len(queue) \in Nat /\ DOMAIN queue = 1 .. Len(queue)
        /\ DOMAIN queue' = 1 .. Len(queue) + 1
        /\ \A n \in 1 .. Len(queue) : queue'[n] = queue[n]
        /\ queue'[Len(queue) + 1] = r
    BY <1>1, AppendProperties
  <1>3. ASSUME NEW s \in Range(queue')  PROVE s \in Range(queue) \cup {r}
    <2>1. PICK n \in 1 .. Len(queue) + 1 : s = queue'[n]
      BY <1>2 DEF Range
    <2>2. CASE n \in 1 .. Len(queue)
      BY <1>2, <2>1, <2>2 DEF Range
    <2> QED  BY <1>2, <2>1, <2>2
  <1>4. UNCHANGED <<posting, landed, late, conn>>
    BY DEF Send
  <1>5. \A j \in Invokes : j # r.id => reports'[j] = reports[j]
    BY DEF Send, Base, HostType
  <1>6. AllResults' \subseteq AllResults \cup {r}
    BY <1>3, <1>4 DEF AllResults
  <1> QED  BY <1>4, <1>5, <1>6

LEMMA OutExec ==
    ASSUME Base, NEW i \in Invokes, NEW x \in Chunks, ExecChunk(i, x),
           conn # "gone", NEW c \in Cuts(reports[i], Len(Raw(i))), OutOf(i, c)
    PROVE  \E d \in Cuts(reports'[i], Len(Raw(i)')) : OutOf(i, d)'
  <1> DEFINE t == Raw(i) \o x
             n == reports[i]
             p == SubSeq(t, c[n] + 1, Len(t))
  <1>1. /\ Raw(i) \in Seq(Bytes) /\ Len(Raw(i)) \in Nat /\ n \in Nat
        /\ x \in Seq(Bytes)
    <2>1. x \in Text
      <3>1. <<>> \in Seq(Chunks)
        OBVIOUS
      <3> QED  BY <3>1, ChunksAre
    <2>2. Text = Seq(Bytes)
      BY DEF Text, Bytes
    <2> QED  BY <2>1, <2>2, RawIs
  <1>2. disp[i] = "running" /\ disp' = disp
    BY DEF ExecChunk
  <1>3. Raw(i)' = t
    <2>1. printed[i] \in Seq(Chunks) /\ printed'[i] = Append(printed[i], x)
      BY DEF Base, HostType, ExecChunk
    <2> QED  BY <2>1, ChunksAre DEF Raw
  <1>4. /\ t \in Seq(Bytes) /\ Len(t) \in Nat /\ Len(Raw(i)) <= Len(t)
        /\ c[n] \in 0 .. Len(Raw(i)) /\ Clean(t, c[n])
    <2>1. n \in 0 .. n
      BY <1>1
    <2> QED  BY <1>1, <1>2, <2>1, MoreText DEF OutOf
  <1>5. kept[i] \o x = p
    <2>1. kept[i] = SubSeq(Raw(i), c[n] + 1, Len(Raw(i)))
      BY DEF OutOf, Sound
    <2> QED  BY <1>1, <1>4, <2>1, SliceGrows
  <1>6. PICK e \in c[n] .. Len(t) :
           /\ Clean(t, e)
           /\ PushOut(p) = Piece(t, c[n], e)
           /\ PushKeep(p) = SubSeq(t, e + 1, Len(t))
           /\ PushOut(p) = <<>> => e = c[n]
    <2>1. c[n] \in 0 .. Len(t)
      BY <1>1, <1>4
    <2> HIDE DEF t, n
    <2> QED  BY <1>4, <2>1, PushSlices
  <1>7. kept'[i] = SubSeq(t, e + 1, Len(t))
    <2>1. kept'[i] = PushKeep(kept[i] \o x)
      BY DEF ExecChunk, Base, HostType
    <2> QED  BY <1>5, <1>6, <2>1
  <1>8. PushOut(kept[i] \o x) = PushOut(p)
    BY <1>5
  <1>9. CASE PushOut(p) = <<>>
    <2>1. UNCHANGED <<conn, op, wire, reports, sendVars, posting, landed, late,
                      unsent>>
      BY <1>8, <1>9 DEF ExecChunk
    <2>2. e = c[n]
      BY <1>6, <1>9
    <2>3. UNCHANGED <<conn, disp, reports, queue, posting, landed, late,
                      unsent>>
      BY <1>2, <2>1 DEF sendVars
    <2>4. c \in Cuts(reports'[i], Len(Raw(i)')) /\ OutOf(i, c)'
      BY <1>1, <1>2, <1>3, <1>7, <2>2, <2>3, OutPrints
    <2> QED  BY <2>4
  <1>10. CASE PushOut(p) # <<>>
    <2>1. PICK r : r = Result(i, FALSE, PushOut(p))
      OBVIOUS
    <2>2. Send(r)
      BY <1>8, <1>10, <2>1 DEF ExecChunk
    <2>3. PushOut(p) \in Text
      <3>1. p \in Text
        BY <1>5, ChunkIs DEF Base, HostType
      <3> QED  BY <3>1, PushIs
    <2>4. r \in Results
      BY <2>1, <2>3, ResultOf
    <2>5. r.id = i /\ r.nr = n + 1 /\ ~r.final /\ r.text = Piece(t, c[n], e)
      BY <1>6, <2>1 DEF Result
    <2> HIDE DEF p
    <2> QED
      BY <1>1, <1>2, <1>3, <1>6, <1>7, <2>2, <2>4, <2>5, OutSends
  <1> QED  BY <1>9, <1>10

LEMMA OutFlush ==
    ASSUME Base, NEW i \in Invokes, Flush(i),
           conn # "gone", NEW c \in Cuts(reports[i], Len(Raw(i))), OutOf(i, c)
    PROVE  \E d \in Cuts(reports'[i], Len(Raw(i)')) : OutOf(i, d)'
  <1> DEFINE n == reports[i]
             e == Len(Raw(i))
  <1>1. /\ Raw(i) \in Seq(Bytes) /\ e \in Nat /\ n \in Nat
        /\ <<>> \in Seq(Bytes) /\ Raw(i) \o <<>> = Raw(i)
        /\ n \in 0 .. n /\ c[n] \in 0 .. e
    <2>1. Raw(i) \in Seq(Bytes) /\ e \in Nat /\ n \in Nat
      BY RawIs
    <2>2. n \in 0 .. n
      BY <2>1
    <2> QED  BY <2>1, <2>2, ConcatEmptySeq, CutsIs
  <1>2. /\ disp[i] = "running" /\ disp'[i] = "flushed"
        /\ kept'[i] = <<>> /\ Raw(i)' = Raw(i)
    BY DEF Flush, Base, HostType, Raw
  <1>3. Redacted(kept[i]) = Piece(Raw(i), c[n], e)
    BY DEF OutOf, Sound, Piece
  <1>4. PICK r : r = Result(i, FALSE, Redacted(kept[i]))
    OBVIOUS
  <1>5. Send(r) /\ r \in Results
    <2>1. Redacted(kept[i]) \in Text
      BY RedactedIs DEF Base, HostType
    <2> QED  BY <1>4, <2>1, ResultOf DEF Flush
  <1>6. r.id = i /\ r.nr = n + 1 /\ ~r.final /\ r.text = Piece(Raw(i), c[n], e)
    BY <1>3, <1>4 DEF Result
  <1>7. SubSeq(Raw(i), e + 1, e) = <<>> /\ e \in c[n] .. e
    BY <1>1, SubSeqEmpty
  <1> QED
    BY <1>1, <1>2, <1>5, <1>6, <1>7, OutSends

LEMMA OutSettle ==
    ASSUME Base, NEW i \in Invokes, Settle(i),
           conn # "gone", NEW c \in Cuts(reports[i], Len(Raw(i))), OutOf(i, c)
    PROVE  \E d \in Cuts(reports'[i], Len(Raw(i)')) : OutOf(i, d)'
  <1> DEFINE n == reports[i]
             e == Len(Raw(i))
  <1>1. /\ Raw(i) \in Seq(Bytes) /\ e \in Nat /\ n \in Nat
        /\ <<>> \in Seq(Bytes) /\ Raw(i) \o <<>> = Raw(i)
        /\ n \in 0 .. n /\ c[n] \in 0 .. e
    <2>1. Raw(i) \in Seq(Bytes) /\ e \in Nat /\ n \in Nat
      BY RawIs
    <2>2. n \in 0 .. n
      BY <2>1
    <2> QED  BY <2>1, <2>2, ConcatEmptySeq, CutsIs
  <1>2. /\ disp[i] \in {"running", "flushed"} /\ disp'[i] = "settled"
        /\ kept[i] = <<>> /\ kept'[i] = <<>> /\ Raw(i)' = Raw(i)
    BY DEF Settle, Base, HostType, Raw
  <1>3. c[n] = e
    <2>1. SubSeq(Raw(i), c[n] + 1, e) = <<>>
      BY <1>2 DEF OutOf, Sound
    <2>2. Len(SubSeq(Raw(i), c[n] + 1, e)) = e - c[n]
      BY <1>1, SliceIs
    <2>3. Len(<<>>) = 0
      OBVIOUS
    <2>4. e - c[n] = 0
      BY <2>1, <2>2, <2>3, Zenon
    <2> QED  BY <1>1, <2>4
  <1>4. Piece(Raw(i), e, e) = <<>>
    <2>1. e \in 0 .. e /\ e \in 0 .. Len(Raw(i)) /\ e - e = 0
      BY <1>1
    <2>2. /\ Len(Piece(Raw(i), e, e)) = e - e
          /\ Piece(Raw(i), e, e) \in Seq(Bytes \cup {Hidden})
      BY <1>1, <2>1, PieceSize
    <2> HIDE DEF e
    <2> QED  BY <2>1, <2>2, EmptySeq
  <1>5. PICK r : r = Result(i, TRUE, <<>>)
    OBVIOUS
  <1>6. Send(r) /\ r \in Results
    <2>1. <<>> \in Text
      BY DEF Text
    <2> QED  BY <1>5, <2>1, ResultOf DEF Settle
  <1>7. r.id = i /\ r.nr = n + 1 /\ r.text = Piece(Raw(i), c[n], e)
    BY <1>3, <1>4, <1>5 DEF Result
  <1>8. SubSeq(Raw(i), e + 1, e) = <<>> /\ e \in c[n] .. e
    BY <1>1, SubSeqEmpty
  <1> QED
    BY <1>1, <1>2, <1>3, <1>6, <1>7, <1>8, OutSends

\* Invoke i reports nothing, and no result moves.
LEMMA OutQuiet ==
    ASSUME Base, NEW i \in Invokes, Rests(i), conn' = conn \/ conn' # "gone",
           UNCHANGED <<queue, posting, landed, late, unsent>>, HasCuts(i)
    PROVE  HasCuts(i)'
  <1>1. PICK c \in Cuts(reports[i], Len(Raw(i))) : OutOf(i, c)
    BY DEF HasCuts
  <1>2. OutOf(i, c)'
    BY <1>1, OutRests
  <1>3. reports'[i] = reports[i] /\ Raw(i)' = Raw(i)
    BY DEF Rests, Raw
  <1> QED  BY <1>2, <1>3 DEF HasCuts

LEMMA OutOther ==
    ASSUME Base, NEW i \in Invokes, NEW r \in Results, r.id # i, Send(r),
           UNCHANGED <<printed[i], kept[i], disp[i]>>, HasCuts(i)
    PROVE  HasCuts(i)'
  <1>1. PICK c \in Cuts(reports[i], Len(Raw(i))) : OutOf(i, c)
    BY DEF HasCuts
  <1>2. Rests(i)
    BY SendAdds DEF Rests
  <1>3. OutOf(i, c)'
    BY <1>1, <1>2, OutOtherSends
  <1>4. reports'[i] = reports[i] /\ Raw(i)' = Raw(i)
    BY <1>2 DEF Rests, Raw
  <1> QED  BY <1>3, <1>4 DEF HasCuts

\* Only invokes that were dispatched get on.
LEMMA CalmStays ==
    ASSUME Calm, conn # "gone", conn' # "gone",
           \A i \in Invokes : disp'[i] = "no" =>
              disp[i] = "no" /\ UNCHANGED <<printed[i], kept[i], reports[i]>>
    PROVE  Calm'
  BY DEF Calm

LEMMA OutInvoke ==
    ASSUME Base, Calm, OutInv, NEW j \in Invokes, Invoke(j)
    PROVE  Calm' /\ OutInv'
  <1>1. op' = op => \A i \in Invokes : op'[i] \in {"exec", Nil} => HasCuts(i)
    BY DEF OutInv
  <1>2. ASSUME NEW o \in OpsOf[j], Ask(j, o)  PROVE Calm' /\ OutInv'
    <2>1. /\ conn # "gone" /\ conn' = conn /\ UNCHANGED hostVars
          /\ UNCHANGED <<queue, posting, landed, late, unsent>>
      BY <1>2 DEF Ask, sendVars
    <2>2. Calm'
      BY <2>1, CalmStays DEF hostVars
    <2>3. ASSUME NEW i \in Invokes, op'[i] \in {"exec", Nil}  PROVE HasCuts(i)'
      <3>1. op[i] \in {"exec", Nil}
        <4>1. CASE i = j
          BY <1>2, <4>1 DEF Ask
        <4>2. CASE i # j
          BY <1>2, <2>3, <4>2 DEF Ask, Base, ConnType
        <4> QED  BY <4>1, <4>2
      <3>2. Rests(i)
        BY <2>1 DEF Rests, hostVars, AllResults
      <3> QED  BY <2>1, <3>1, <3>2, OutQuiet DEF OutInv
    <2> QED  BY <2>2, <2>3 DEF OutInv
  <1>3. CASE Dispatch(j)
    <2>1. /\ conn # "gone" /\ conn' = conn /\ op' = op
          /\ UNCHANGED <<printed, kept, reports>>
          /\ UNCHANGED <<queue, posting, landed, late, unsent>>
          /\ disp[j] = "no" /\ reports[j] = 0
          /\ \A i \in Invokes : disp'[i] = IF i = j THEN "running" ELSE disp[i]
      BY <1>3 DEF Dispatch, Alive, sendVars, Base, AskInv, Calm, HostType
    <2>2. Calm'
      BY <2>1, CalmStays
    <2>3. ASSUME NEW i \in Invokes, op'[i] \in {"exec", Nil}  PROVE HasCuts(i)'
      <3>1. Rests(i)
        BY <2>1 DEF Rests, AllResults
      <3> QED  BY <1>1, <2>1, <2>3, <3>1, OutQuiet
    <2> QED  BY <2>2, <2>3 DEF OutInv
  <1>4. CASE Return(j)
    <2>1. /\ conn # "gone" /\ conn' = conn /\ op' = op
          /\ UNCHANGED <<printed, kept, reports>>
          /\ UNCHANGED <<queue, posting, landed, late, unsent>>
          /\ \A i \in Invokes : disp'[i] = IF i = j THEN "over" ELSE disp[i]
      BY <1>4 DEF Return, sendVars, Base, Calm, HostType
    <2>2. Calm'
      BY <2>1, CalmStays
    <2>3. ASSUME NEW i \in Invokes, op'[i] \in {"exec", Nil}  PROVE HasCuts(i)'
      <3>1. Rests(i)
        BY <2>1 DEF Rests, AllResults
      <3> QED  BY <1>1, <2>1, <2>3, <3>1, OutQuiet
    <2> QED  BY <2>2, <2>3 DEF OutInv
  \* Invoke j reports something, and only it gets on.
  <1>5. ASSUME NEW r \in Results, r.id = j, Send(r), disp[j] # "no",
               disp'[j] # "no",
               \A i \in Invokes : i # j =>
                  UNCHANGED <<printed[i], kept[i], disp[i]>>,
               op[j] \in {"exec", Nil} => HasCuts(j)'
        PROVE  Calm' /\ OutInv'
    <2>1. conn # "gone" /\ conn' = conn /\ op' = op
      BY <1>5 DEF Calm, Send
    <2>2. \A i \in Invokes : i # j => reports'[i] = reports[i]
      BY <1>5, SendAdds
    <2>3. Calm'
      BY <1>5, <2>1, <2>2, CalmStays
    <2>4. ASSUME NEW i \in Invokes, op'[i] \in {"exec", Nil}  PROVE HasCuts(i)'
      <3>1. CASE i = j
        BY <1>5, <2>1, <2>4, <3>1
      <3>2. CASE i # j
        BY <1>1, <1>5, <2>1, <2>4, <3>2, OutOther
      <3> QED  BY <3>1, <3>2
    <2> QED  BY <2>3, <2>4 DEF OutInv
  <1>6. ASSUME op[j] \in {"exec", Nil}
        PROVE  \E c \in Cuts(reports[j], Len(Raw(j))) : OutOf(j, c)
    BY <1>6 DEF OutInv, HasCuts
  <1>7. ASSUME NEW x \in Chunks, ExecChunk(j, x)  PROVE Calm' /\ OutInv'
    <2>1. /\ disp[j] = "running" /\ disp' = disp /\ op[j] = "exec"
          /\ conn # "gone"
          /\ \A i \in Invokes : i # j =>
                UNCHANGED <<printed[i], kept[i], disp[i]>>
      BY <1>7 DEF ExecChunk, Calm, Base, HostType
    <2>2. HasCuts(j)'
      BY <1>6, <1>7, <2>1, OutExec DEF HasCuts
    <2>3. CASE PushOut(kept[j] \o x) # <<>>
      <3>1. PICK r : r = Result(j, FALSE, PushOut(kept[j] \o x))
        OBVIOUS
      <3>2. Send(r)
        BY <1>7, <2>3, <3>1 DEF ExecChunk
      <3>3. r \in Results /\ r.id = j
        <4>1. PushOut(kept[j] \o x) \in Text
          BY ChunkIs, PushIs DEF Base, HostType
        <4> QED  BY <3>1, <4>1, ResultOf DEF Result
      <3> QED  BY <1>5, <2>1, <2>2, <3>2, <3>3
    <2>4. CASE PushOut(kept[j] \o x) = <<>>
      <3>1. /\ conn' = conn /\ op' = op /\ reports' = reports
            /\ UNCHANGED <<queue, posting, landed, late, unsent>>
        BY <1>7, <2>4 DEF ExecChunk, sendVars
      <3>2. Calm'
        BY <2>1, <3>1, CalmStays
      <3>3. ASSUME NEW i \in Invokes, op'[i] \in {"exec", Nil}
            PROVE  HasCuts(i)'
        <4>1. CASE i = j
          BY <2>2, <4>1
        <4>2. CASE i # j
          <5>1. Rests(i)
            BY <2>1, <3>1, <4>2 DEF Rests, AllResults
          <5> QED  BY <1>1, <3>1, <3>3, <5>1, OutQuiet
        <4> QED  BY <4>1, <4>2
      <3> QED  BY <3>2, <3>3 DEF OutInv
    <2> QED  BY <2>3, <2>4
  <1>8. CASE Flush(j)
    <2>1. /\ disp[j] = "running" /\ disp'[j] = "flushed" /\ conn # "gone"
          /\ \A i \in Invokes : i # j =>
                UNCHANGED <<printed[i], kept[i], disp[i]>>
      BY <1>8 DEF Flush, Calm, Base, HostType
    <2>2. op[j] \in {"exec", Nil} => HasCuts(j)'
      BY <1>6, <1>8, <2>1, OutFlush DEF HasCuts
    <2>3. PICK r : r = Result(j, FALSE, Redacted(kept[j]))
      OBVIOUS
    <2>4. Send(r) /\ r \in Results /\ r.id = j
      <3>1. Redacted(kept[j]) \in Text
        BY RedactedIs DEF Base, HostType
      <3> QED  BY <1>8, <2>3, <3>1, ResultOf DEF Flush, Result
    <2> QED  BY <1>5, <2>1, <2>2, <2>4
  <1>9. <<>> \in Text
    BY DEF Text
  <1>10. CASE Settle(j)
    <2>1. /\ disp[j] # "no" /\ disp'[j] = "settled" /\ conn # "gone"
          /\ \A i \in Invokes : i # j =>
                UNCHANGED <<printed[i], kept[i], disp[i]>>
      BY <1>10 DEF Settle, Calm, Base, HostType
    <2>2. op[j] \in {"exec", Nil} => HasCuts(j)'
      BY <1>6, <1>10, <2>1, OutSettle DEF HasCuts
    <2>3. PICK r : r = Result(j, TRUE, <<>>)
      OBVIOUS
    <2>4. Send(r) /\ r \in Results /\ r.id = j
      BY <1>9, <1>10, <2>3, ResultOf DEF Settle, Result
    <2> QED  BY <1>5, <2>1, <2>2, <2>4
  <1>11. CASE Stray(j)
    <2>1. /\ disp[j] # "no" /\ disp' = disp /\ op[j] = "terminal"
          /\ UNCHANGED <<printed, kept>>
      BY <1>11 DEF Stray
    <2>2. op[j] \notin {"exec", Nil}
      BY <2>1, OutboundAssumption
    <2>3. PICK r : r = Result(j, FALSE, <<>>)
      OBVIOUS
    <2>4. Send(r) /\ r \in Results /\ r.id = j
      BY <1>9, <1>11, <2>3, ResultOf DEF Stray, Result
    <2> QED  BY <1>5, <2>1, <2>2, <2>4
  <1> QED  BY <1>2, <1>3, <1>4, <1>7, <1>8, <1>10, <1>11 DEF Invoke

-----------------------------------------------------------------------------
(* The connection, and the way of a result to the cloud.                   *)

LEMMA OutConnection ==
    ASSUME Base, Calm, OutInv, Connection, ~Exit
    PROVE  Calm' /\ OutInv'
  <1>1. /\ conn # "gone" /\ conn' # "gone"
        /\ UNCHANGED <<op, hostVars, sendVars, posting, landed, late, unsent>>
    BY DEF Connection, Connect, Refused, Drop, Retry, Revoked, Stop, ConnStep
  <1>2. Calm'
    BY <1>1, CalmStays DEF hostVars
  <1>3. ASSUME NEW i \in Invokes, op'[i] \in {"exec", Nil}  PROVE HasCuts(i)'
    <2>1. Rests(i)
      BY <1>1 DEF Rests, hostVars, sendVars, AllResults
    <2>2. HasCuts(i)
      BY <1>1, <1>3 DEF OutInv
    <2> QED  BY <1>1, <2>1, <2>2, OutQuiet DEF sendVars
  <1> QED  BY <1>2, <1>3 DEF OutInv

\* A result that is being posted is the only one, and the next of its invoke.
LEMMA NextPosted ==
    ASSUME Base, conn # "gone", NEW i \in Invokes, NEW k \in 0 .. reports[i],
           Way(i, k), NEW r \in Range(posting), r.id = i
    PROVE  /\ Range(posting) = {r}
           /\ r.nr = k + 1 /\ k \in 0 .. reports[i] - 1
           /\ \A s \in Range(queue) : s.id = i => s.nr > k + 1
  <1>1. posting \in Seq(Results) /\ Len(posting) \in Nat /\ drains \in Nat
        /\ DOMAIN posting = 1 .. Len(posting)
    BY DEF Base, SendType
  <1>2. Len(posting) <= 1
    BY <1>1 DEF Base, OneDrain
  <1>3. PICK m \in DOMAIN posting : r = posting[m]
    BY DEF Range
  <1>4. m = 1 /\ DOMAIN posting = {1}
    BY <1>1, <1>2, <1>3
  <1>5. Range(posting) = {r}
    BY <1>3, <1>4 DEF Range
  <1>6. /\ r \in Results /\ r.nr \in 1 .. reports[i]
        /\ reports[i] \in Nat /\ r.nr > k
    <2>1. r \in AllResults
      BY DEF AllResults
    <2> QED  BY <2>1, AllCounted, RawIs DEF Way
  <1>7. ASSUME NEW s \in Range(queue), s.id = i  PROVE r.nr < s.nr
    <2>1. PICK n \in DOMAIN queue : s = queue[n]
      BY DEF Range
    <2> QED  BY <1>3, <1>7, <2>1 DEF Way
  <1>8. PICK s \in Range(posting) \cup Range(queue) : s.id = i /\ s.nr = k + 1
    <2>1. k + 1 \in k + 1 .. reports[i]
      BY <1>6
    <2> QED  BY <2>1 DEF Way
  <1>9. s = r
    <2>1. CASE s \in Range(queue)
      BY <1>6, <1>7, <1>8, <2>1
    <2> QED  BY <1>5, <1>8, <2>1
  <1>10. ASSUME NEW x \in Range(queue), x.id = i  PROVE x.nr > k + 1
    <2>1. x \in AllResults
      BY DEF AllResults
    <2>2. x.nr \in Nat
      BY <2>1, <1>6, <1>10, AllCounted
    <2> QED  BY <1>7, <1>8, <1>9, <1>10, <2>2
  <1> QED  BY <1>5, <1>6, <1>8, <1>9, <1>10

\* Results move, and no invoke does anything.
LEMMA OutMoves ==
    ASSUME Base, NEW i \in Invokes, HasCuts(i), UNCHANGED <<conn, hostVars>>,
           AllResults' \subseteq AllResults, unsent \subseteq unsent',
           i \notin unsent' =>
              \A c \in Cuts(reports[i], Len(Raw(i))), k \in 0 .. reports[i] :
                 OutOf(i, c) /\ Arrived(landed, i, Raw(i), c, k) /\ Way(i, k) =>
                    \E m \in 0 .. reports[i] :
                       Arrived(landed', i, Raw(i), c, m) /\ Way(i, m)'
    PROVE  HasCuts(i)'
  <1>1. PICK c \in Cuts(reports[i], Len(Raw(i))) : OutOf(i, c)
    BY DEF HasCuts
  <1>2. reports'[i] = reports[i] /\ Raw(i)' = Raw(i)
    BY DEF hostVars, Raw
  <1>3. Rests(i)
    BY DEF Rests, hostVars
  <1>4. Sound(i, c)' /\ Told(i, c)'
    BY <1>1, <1>3, RestsKeeps DEF OutOf
  <1>5. ASSUME i \notin unsent'
        PROVE  \E m \in 0 .. reports[i] :
                  Arrived(landed', i, Raw(i), c, m) /\ Way(i, m)'
    <2>1. PICK k \in 0 .. reports[i] :
             Arrived(landed, i, Raw(i), c, k) /\ Way(i, k)
      BY <1>1, <1>5 DEF OutOf
    <2> QED  BY <1>1, <1>5, <2>1
  <1>6. OutOf(i, c)'
    BY <1>2, <1>4, <1>5 DEF OutOf
  <1> QED  BY <1>2, <1>6 DEF HasCuts

\* The head of the queue goes to be posted: the same results,
LEMMA TakeMoves ==
    ASSUME Base, Take, queue # <<>>
    PROVE  /\ AllResults' = AllResults
           /\ Range(posting') \cup Range(queue')
                = Range(posting) \cup Range(queue)
           /\ DOMAIN posting' = {1} /\ posting'[1] = queue[1]
           /\ \A n \in DOMAIN queue' :
                 /\ n \in Nat \ {0} /\ 1 \in DOMAIN queue
                 /\ n + 1 \in DOMAIN queue /\ queue'[n] = queue[n + 1]
  <1>1. /\ posting = <<>> /\ queue' = Tail(queue) /\ posting' = <<Head(queue)>>
        /\ UNCHANGED <<conn, landed, late>> /\ reports' = reports
    BY TakeIs DEF hostVars
  <1>2. /\ queue \in Seq(Results) /\ Len(queue) \in Nat /\ Len(queue) > 0
        /\ DOMAIN queue = 1 .. Len(queue)
    BY DEF Base, SendType
  <1>3. /\ queue' \in Seq(Results) /\ Len(queue') = Len(queue) - 1
        /\ \A n \in 1 .. Len(queue) - 1 : queue'[n] = queue[n + 1]
    BY <1>1, <1>2, HeadTailProperties
  <1>4. /\ DOMAIN queue' = 1 .. Len(queue) - 1
        /\ DOMAIN posting' = {1} /\ posting'[1] = queue[1]
        /\ DOMAIN posting = {} /\ Range(posting) = {}
        /\ Range(posting') = {queue[1]}
    BY <1>1, <1>2, <1>3 DEF Range
  <1>5. \A n \in DOMAIN queue' :
           n + 1 \in DOMAIN queue /\ queue'[n] = queue[n + 1]
    BY <1>2, <1>3, <1>4
  <1>6. Range(posting') \cup Range(queue') = Range(queue)
    <2>1. ASSUME NEW s \in Range(queue')  PROVE s \in Range(queue)
      BY <1>5 DEF Range
    <2>2. 1 \in DOMAIN queue
      BY <1>2
    <2>3. queue[1] \in Range(queue)
      BY <2>2 DEF Range
    <2>4. ASSUME NEW s \in Range(queue)
          PROVE  s = queue[1] \/ s \in Range(queue')
      <3>1. PICK n \in DOMAIN queue : s = queue[n]
        BY DEF Range
      <3>2. CASE n # 1
        <4>1. n - 1 \in DOMAIN queue' /\ n - 1 + 1 = n
          BY <1>2, <1>4, <3>2
        <4>2. queue'[n - 1] = s
          BY <1>5, <3>1, <4>1
        <4> QED  BY <4>1, <4>2 DEF Range
      <3> QED  BY <3>1, <3>2
    <2> QED  BY <1>4, <2>1, <2>3, <2>4
  <1>7. AllResults' = AllResults
    BY <1>1, <1>4, <1>6 DEF AllResults
  <1> QED  BY <1>2, <1>4, <1>5, <1>6, <1>7

\* in their order.
LEMMA WayTake ==
    ASSUME Base, Take, queue # <<>>, NEW i, NEW k, Way(i, k)
    PROVE  Way(i, k)'
  <1>1. UNCHANGED <<conn, late, reports>>
    BY TakeIs DEF hostVars
  <1>2. ASSUME NEW m \in DOMAIN queue', NEW n \in DOMAIN queue', m < n,
               queue'[m].id = i, queue'[n].id = i
        PROVE  queue'[m].nr < queue'[n].nr
    <2>1. /\ m + 1 \in DOMAIN queue /\ n + 1 \in DOMAIN queue /\ m + 1 < n + 1
          /\ queue'[m] = queue[m + 1] /\ queue'[n] = queue[n + 1]
      BY <1>2, TakeMoves
    <2> QED  BY <1>2, <2>1 DEF Way
  <1>3. ASSUME NEW m \in DOMAIN posting', NEW n \in DOMAIN queue',
               posting'[m].id = i, queue'[n].id = i
        PROVE  posting'[m].nr < queue'[n].nr
    <2>1. /\ 1 \in DOMAIN queue /\ n + 1 \in DOMAIN queue /\ 1 < n + 1
          /\ posting'[m] = queue[1] /\ queue'[n] = queue[n + 1]
      BY TakeMoves
    <2> QED  BY <1>3, <2>1 DEF Way
  <1>4. Range(posting') \cup Range(queue') = Range(posting) \cup Range(queue)
    BY TakeMoves
  <1> QED  BY <1>1, <1>2, <1>3, <1>4 DEF Way

LEMMA OutTake ==
    ASSUME Base, Calm, OutInv, Take
    PROVE  Calm' /\ OutInv'
  <1>1. UNCHANGED <<conn, op, hostVars, landed, late, unsent>>
    BY TakeIs
  <1>2. CASE queue = <<>>
    <2>1. UNCHANGED <<queue, posting>>
      BY <1>2, TakeIs
    <2>2. Calm'
      BY <1>1, <2>1 DEF Calm, hostVars
    <2>3. ASSUME NEW i \in Invokes, op'[i] \in {"exec", Nil}
          PROVE  HasCuts(i)'
      <3>1. Rests(i)
        BY <1>1, <2>1 DEF Rests, hostVars, AllResults
      <3> QED  BY <1>1, <2>1, <2>3, <3>1, OutQuiet DEF OutInv
    <2> QED  BY <2>2, <2>3 DEF OutInv
  <1>3. CASE queue # <<>>
    <2>1. conn # "gone"
      BY <1>3 DEF Calm
    <2>2. Calm'
      BY <1>1, <2>1, CalmStays DEF hostVars
    <2>3. ASSUME NEW i \in Invokes, op'[i] \in {"exec", Nil}
          PROVE  HasCuts(i)'
      <3>1. HasCuts(i)
        BY <1>1, <2>3 DEF OutInv
      <3>2. ASSUME NEW k, Way(i, k)  PROVE Way(i, k)'
        BY <1>3, <3>2, WayTake
      <3>3. AllResults' \subseteq AllResults
        BY <1>3, TakeMoves
      <3> QED  BY <1>1, <3>1, <3>2, <3>3, OutMoves
    <2> QED  BY <2>2, <2>3 DEF OutInv
  <1> QED  BY <1>2, <1>3

\* What arrives.
LEMMA LandedMore ==
    ASSUME Base, NEW r \in AllResults, landed' = Append(landed, r)
    PROVE  Range(landed') \subseteq Range(landed) \cup {r}
  <1>1. landed \in Seq(Results) /\ Len(landed) \in Nat
        /\ DOMAIN landed = 1 .. Len(landed) /\ r \in Results
    BY AllCounted DEF Base, CloudType
  <1> QED  BY <1>1, AppendProperties DEF Range

LEMMA ArrivesNext ==
    ASSUME Base, NEW i \in Invokes, NEW c \in Cuts(reports[i], Len(Raw(i))),
           OutOf(i, c), NEW k \in 0 .. reports[i] - 1,
           Arrived(landed, i, Raw(i), c, k),
           NEW r \in AllResults, r.id = i, r.nr = k + 1
    PROVE  Arrived(Append(landed, r), i, Raw(i), c, k + 1)
  <1>1. /\ Raw(i) \in Seq(Bytes) /\ reports[i] \in Nat
        /\ landed \in Seq(Results) /\ r \in Results
    BY RawIs, AllCounted DEF Base, CloudType
  <1>2. r.nr - 1 = k /\ k \in Nat
    BY <1>1
  <1>3. r.text = Piece(Raw(i), c[k], c[k + 1]) /\ (r.final => c[k] = c[k + 1])
    BY <1>2 DEF OutOf, Told
  <1> QED  BY <1>1, <1>3, ArrivesOwn

LEMMA OutPost ==
    ASSUME Base, Calm, OutInv, NEW n \in DOMAIN posting, Lands(n) \/ Fails(n)
    PROVE  Calm' /\ OutInv'
  <1> DEFINE r == posting[n]
  <1>1. /\ posting = <<r>> /\ r \in Results /\ posting' = <<>>
        /\ UNCHANGED <<conn, op, hostVars, queue>>
    BY PostedIs DEF Lands, Fails
  <1>2. conn # "gone" /\ Range(posting') = {} /\ DOMAIN posting' = {}
        /\ r \in Range(posting) /\ r \in AllResults
    BY <1>1 DEF Calm, Range, AllResults
  <1>3. Calm'
    BY <1>1, <1>2, CalmStays DEF hostVars
  <1> HIDE DEF r
  <1>4. \/ /\ landed' = Append(landed, r)
           /\ UNCHANGED <<late, unsent>>
        \/ /\ late' \subseteq late \cup {r}
           /\ unsent' = unsent \cup {j \in {r.id} : op[j] = "exec"}
           /\ landed' = landed
    BY DEF Lands, Fails, r
  <1>5. AllResults' \subseteq AllResults
    BY <1>1, <1>2, <1>4, LandedMore DEF AllResults
  <1>6. ASSUME NEW i \in Invokes, op'[i] \in {"exec", Nil}  PROVE HasCuts(i)'
    <2>1. HasCuts(i) /\ op[i] \in {"exec", Nil}
      BY <1>1, <1>6 DEF OutInv
    <2> SUFFICES
          ASSUME i \notin unsent',
                 NEW c \in Cuts(reports[i], Len(Raw(i))),
                 NEW k \in 0 .. reports[i],
                 OutOf(i, c), Arrived(landed, i, Raw(i), c, k), Way(i, k)
          PROVE  \E m \in 0 .. reports[i] :
                    Arrived(landed', i, Raw(i), c, m) /\ Way(i, m)'
      <3>1. unsent \subseteq unsent'
        BY <1>4
      <3> QED  BY <1>1, <1>5, <2>1, <3>1, OutMoves
    <2>2. reports' = reports /\ reports[i] \in Nat
      BY <1>1, RawIs DEF hostVars
    <2>3. CASE r.id # i
      <3>1. Arrived(landed', i, Raw(i), c, k)
        <4>1. landed \in Seq(Results) /\ k \in Nat
          BY <2>2 DEF Base, CloudType
        <4> QED  BY <1>1, <1>4, <2>3, <4>1, ArrivesOther
      <3>2. \A s \in late' : s.id = i => s \in late
        BY <1>4, <2>3
      <3>3. \A s \in Range(posting) : s.id # i
        BY <1>1, <2>3 DEF Range
      <3>4. Way(i, k)'
        BY <1>1, <1>2, <2>2, <3>2, <3>3 DEF Way
      <3> QED  BY <3>1, <3>4
    <2>4. CASE r.id = i
      <3>1. /\ Range(posting) = {r} /\ r.nr = k + 1 /\ k \in 0 .. reports[i] - 1
            /\ \A s \in Range(queue) : s.id = i => s.nr > k + 1
        BY <1>2, <2>4, NextPosted
      <3>2. op[i] = "exec"
        <4>1. op[i] # Nil
          <5>1. reports[i] # 0
            BY <2>2, <3>1
          <5> QED  BY <1>2, <5>1 DEF Calm, Base, AskInv
        <4> QED  BY <2>1, <4>1
      <3>3. landed' = Append(landed, r) /\ UNCHANGED <<late, unsent>>
        BY <1>4, <2>4, <3>2
      <3>4. Arrived(landed', i, Raw(i), c, k + 1)
        BY <1>2, <2>4, <3>1, <3>3, ArrivesNext
      <3>5. \A s \in late : s.id # i
        BY <1>2 DEF Way
      <3>6. Way(i, k + 1)'
        <4>1. \A y \in k + 1 + 1 .. reports[i] :
                 \E s \in Range(queue) : s.id = i /\ s.nr = y
          <5> SUFFICES ASSUME NEW y \in k + 1 + 1 .. reports[i]
                       PROVE  \E s \in Range(queue) : s.id = i /\ s.nr = y
            OBVIOUS
          <5>1. y \in k + 1 .. reports[i] /\ y # k + 1
            BY <2>2
          <5>2. PICK s \in Range(posting) \cup Range(queue) :
                   s.id = i /\ s.nr = y
            BY <1>2, <5>1 DEF Way
          <5> QED  BY <3>1, <5>1, <5>2
        <4>2. \A a, b \in DOMAIN queue :
                 a < b /\ queue[a].id = i /\ queue[b].id = i
                    => queue[a].nr < queue[b].nr
          BY DEF Way
        <4> QED  BY <1>1, <1>2, <2>2, <3>1, <3>3, <3>5, <4>1, <4>2 DEF Way
      <3>7. k + 1 \in 0 .. reports[i]
        BY <2>2, <3>1
      <3> QED  BY <3>4, <3>6, <3>7
    <2> QED  BY <2>3, <2>4
  <1> QED  BY <1>3, <1>6 DEF OutInv

LEMMA OutLandsLate ==
    ASSUME Base, Calm, OutInv, NEW r \in late, LandsLate(r)
    PROVE  Calm' /\ OutInv'
  <1>1. /\ landed' = Append(landed, r) /\ late' = late \ {r}
        /\ UNCHANGED <<conn, op, hostVars, queue, posting, unsent>>
        /\ r \in AllResults
    BY DEF LandsLate, sendVars, AllResults
  <1>2. Calm'
    BY <1>1 DEF Calm, hostVars
  <1>3. AllResults' \subseteq AllResults
    BY <1>1, LandedMore DEF AllResults
  <1>4. ASSUME NEW i \in Invokes, op'[i] \in {"exec", Nil}  PROVE HasCuts(i)'
    <2> SUFFICES
          ASSUME i \notin unsent',
                 NEW c \in Cuts(reports[i], Len(Raw(i))),
                 NEW k \in 0 .. reports[i],
                 OutOf(i, c), Arrived(landed, i, Raw(i), c, k), Way(i, k)
          PROVE  \E m \in 0 .. reports[i] :
                    Arrived(landed', i, Raw(i), c, m) /\ Way(i, m)'
      <3>1. HasCuts(i)
        BY <1>1, <1>4 DEF OutInv
      <3> QED  BY <1>1, <1>3, <3>1, OutMoves
    <2>1. reports' = reports /\ reports[i] \in Nat
      BY <1>1, RawIs DEF hostVars
    <2>2. CASE r.id # i
      <3>1. Arrived(landed', i, Raw(i), c, k)
        <4>1. landed \in Seq(Results) /\ k \in Nat /\ r \in Results
          BY <1>1, <2>1, AllCounted DEF Base, CloudType
        <4> QED  BY <1>1, <2>2, <4>1, ArrivesOther
      <3>2. Way(i, k)'
        BY <1>1, <2>1 DEF Way
      <3> QED  BY <3>1, <3>2
    <2>3. CASE r.id = i
      <3>1. conn = "gone" /\ r.nr = k + 1
        BY <2>3 DEF Way
      <3>2. r.nr \in 1 .. reports[i]
        BY <1>1, <2>3, AllCounted
      <3>3. k \in 0 .. reports[i] - 1 /\ k + 1 \in 0 .. reports[i]
        BY <2>1, <3>1, <3>2
      <3>4. Arrived(landed', i, Raw(i), c, k + 1)
        BY <1>1, <2>3, <3>1, <3>3, ArrivesNext
      <3>5. \A s \in late' : s.id # i
        BY <1>1, <2>3 DEF Way
      <3>6. Way(i, k + 1)'
        <4>1. /\ DOMAIN posting' = {} /\ DOMAIN queue' = {}
              /\ Range(posting') = {} /\ Range(queue') = {}
          BY <1>1, <3>1 DEF Calm, Range
        <4> QED  BY <1>1, <3>1, <3>5, <4>1 DEF Way
      <3> QED  BY <3>3, <3>4, <3>6
    <2> QED  BY <2>2, <2>3
  <1> QED  BY <1>2, <1>4 DEF OutInv

LEMMA OutExit ==
    ASSUME Base, Calm, OutInv, Exit
    PROVE  Calm' /\ OutInv'
  <1>1. /\ conn = "over" /\ conn' = "gone" /\ queue' = <<>> /\ posting' = <<>>
        /\ disp' = [i \in Invokes |-> "no"]
        /\ late' \in {late, late \cup Range(posting)}
        /\ UNCHANGED <<op, printed, reports, landed, unsent>>
    BY DEF Exit
  <1>2. Calm'
    BY <1>1 DEF Calm
  <1>3. /\ DOMAIN posting' = {} /\ DOMAIN queue' = {}
        /\ Range(posting') = {} /\ Range(queue') = {}
    BY <1>1 DEF Range
  <1>4. AllResults' \subseteq AllResults
    BY <1>1, <1>3 DEF AllResults
  <1>5. ASSUME NEW i \in Invokes, op'[i] \in {"exec", Nil}  PROVE HasCuts(i)'
    <2>1. PICK c \in Cuts(reports[i], Len(Raw(i))) : OutOf(i, c)
      BY <1>1, <1>5 DEF OutInv, HasCuts
    <2>2. Rests(i)
      BY <1>1, <1>4 DEF Rests
    <2>3. Sound(i, c)' /\ Told(i, c)'
      BY <2>1, <2>2, RestsKeeps DEF OutOf
    <2>4. Raw(i)' = Raw(i) /\ reports' = reports
      BY <1>1 DEF Raw
    <2>5. ASSUME NEW k \in 0 .. reports[i], Way(i, k)  PROVE Way(i, k)'
      <3>1. \A s \in late : s.id # i
        BY <1>1, <2>5 DEF Way
      <3>2. \A s \in Range(posting) : s.id = i =>
               s.nr = k + 1 /\ Range(posting) = {s}
        BY <1>1, <2>5, NextPosted
      <3>3. \A s \in late' : s.id = i => s.nr = k + 1 /\ Range(posting) = {s}
        BY <1>1, <3>1, <3>2
      <3>4. \A s, u \in late' : s.id = i /\ u.id = i => s = u
        BY <3>3
      <3> QED  BY <1>1, <1>3, <3>3, <3>4 DEF Way
    <2>6. OutOf(i, c)'
      BY <1>1, <2>1, <2>3, <2>4, <2>5 DEF OutOf
    <2> QED  BY <2>4, <2>6 DEF HasCuts
  <1> QED  BY <1>2, <1>5 DEF OutInv

LEMMA OutInit == Init => Calm /\ OutInv
  <1> SUFFICES ASSUME Init PROVE Calm /\ OutInv
    OBVIOUS
  <1>1. Calm
    BY DEF Init, Calm
  <1>2. ASSUME NEW i \in Invokes  PROVE HasCuts(i)
    <2>1. Raw(i) = <<>> /\ reports[i] = 0
      BY FlattenEmpty DEF Init, Raw
    <2>2. Len(<<>>) = 0 /\ <<>> \in Seq(Bytes) /\ 0 \in Nat /\ 0 .. 0 = {0}
          /\ SubSeq(<<>>, 0 + 1, 0) = <<>>
      BY SubSeqEmpty
    <2>3. PICK c : c = [j \in 0 .. 0 |-> 0]
      OBVIOUS
    <2>4. c \in Cuts(0, 0) /\ c[0] = 0
      <3>1. c \in [0 .. 0 -> 0 .. 0] /\ c[0] = 0
        BY <2>3
      <3>2. 1 .. 0 = {}
        OBVIOUS
      <3> QED  BY <3>1, <3>2 DEF Cuts
    <2>5. /\ queue = <<>> /\ posting = <<>> /\ landed = <<>> /\ late = {}
          /\ Range(<<>>) = {} /\ DOMAIN <<>> = {} /\ conn # "gone"
          /\ kept[i] = <<>>
      BY DEF Init, Range
    <2>6. Sound(i, c)
      <3>1. \A j \in 0 .. 0 : Clean(<<>>, c[j])
        BY <2>2, <2>4 DEF Clean
      <3>2. kept[i] = SubSeq(Raw(i), c[0] + 1, 0)
        BY <2>1, <2>2, <2>4, <2>5
      <3> QED  BY <2>1, <2>2, <2>4, <3>1, <3>2 DEF Sound
    <2>7. Told(i, c)
      BY <2>5 DEF Told, AllResults
    <2>8. Arrived(landed, i, Raw(i), c, 0)
      <3>1. Heard(<<>>, i, 0) = <<>>
        BY HeardNothing
      <3>2. Shows(<<>>, <<>>, c, 0)
        BY <2>2, <2>4, ShowsNothing
      <3> QED  BY <2>1, <2>2, <2>5, <3>1, <3>2 DEF Arrived
    <2>9. Way(i, 0)
      <3>1. 0 + 1 .. 0 = {}
        OBVIOUS
      <3> QED  BY <2>1, <2>5, <3>1 DEF Way
    <2>10. OutOf(i, c)
      BY <2>1, <2>2, <2>6, <2>7, <2>8, <2>9 DEF OutOf
    <2> QED  BY <2>1, <2>2, <2>4, <2>10 DEF HasCuts
  <1> QED  BY <1>1, <1>2 DEF OutInv

LEMMA OutNext == Base /\ Calm /\ OutInv /\ [Next]_vars => Calm' /\ OutInv'
  <1> SUFFICES ASSUME Base, Calm, OutInv, [Next]_vars PROVE Calm' /\ OutInv'
    OBVIOUS
  <1>1. CASE Connection
    BY <1>1, OutConnection, OutExit
  <1>2. ASSUME NEW i \in Invokes, Invoke(i)  PROVE Calm' /\ OutInv'
    BY <1>2, OutInvoke
  <1>3. CASE Take
    BY <1>3, OutTake
  <1>4. CASE Post
    BY <1>4, OutPost DEF Post
  <1>5. ASSUME NEW r \in late, LandsLate(r)  PROVE Calm' /\ OutInv'
    BY <1>5, OutLandsLate
  <1>6. CASE UNCHANGED vars
    <2>1. /\ UNCHANGED <<conn, op, disp, printed, kept, reports>>
          /\ UNCHANGED <<queue, posting, landed, late, unsent>>
      BY <1>6 DEF vars, hostVars, sendVars
    <2>2. Calm'
      BY <2>1 DEF Calm
    <2>3. ASSUME NEW i \in Invokes, op'[i] \in {"exec", Nil}  PROVE HasCuts(i)'
      <3>1. Rests(i)
        BY <2>1 DEF Rests, AllResults
      <3> QED  BY <2>1, <2>3, <3>1, OutQuiet DEF OutInv
    <2> QED  BY <2>2, <2>3 DEF OutInv
  <1> QED  BY <1>1, <1>2, <1>3, <1>4, <1>5, <1>6 DEF Next

LEMMA OutSays == Base /\ OutInv => OutputArrives
  <1> SUFFICES ASSUME Base, OutInv, NEW i \in Invokes, Answered(i),
                      i \notin unsent, op[i] = "exec"
               PROVE  LET raw == FlattenSeq(printed[i])
                          got == Got(i, Answer(i))
                      IN /\ Len(got) = Len(raw)
                         /\ \A n \in DOMAIN raw :
                               \/ got[n] = raw[n]
                               \/ /\ got[n] = Hidden
                                  /\ \E f \in Found(raw) : n \in Span(f)
                         /\ \A f \in Found(raw) :
                               InShortLine(raw, f) =>
                                  \A n \in Span(f) : got[n] = Hidden
                         /\ \A n \in 1 .. Answer(i) :
                               LET end == Len(Got(i, n))
                               IN end \in 1 .. Len(raw) - 1 =>
                                     \/ raw[end + 1] \notin Conts
                                     \/ raw[end] = Newline
    BY DEF OutputArrives
  <1> DEFINE t == Raw(i)
             a == Answer(i)
  <1>1. PICK c \in Cuts(reports[i], Len(t)) : OutOf(i, c)
    BY DEF OutInv, HasCuts
  <1>2. PICK k \in 0 .. reports[i] : Arrived(landed, i, t, c, k)
    BY <1>1 DEF OutOf
  <1>3. a \in DOMAIN landed /\ landed[a].id = i /\ landed[a].final
    BY DEF Answered, Answer, Final
  <1>4. /\ landed \in Seq(Results) /\ Len(landed) \in Nat
        /\ DOMAIN landed = 1 .. Len(landed)
        /\ a \in 1 .. Len(landed) /\ landed[a] \in AllResults
    BY <1>3 DEF Base, CloudType, AllResults, Range
  <1>5. t \in Seq(Bytes) /\ Len(t) \in Nat /\ reports[i] \in Nat
    BY RawIs
  <1>6. /\ landed[a].nr = reports[i] /\ c[reports[i]] = Len(t)
        /\ disp[i] # "running"
    BY <1>1, <1>3, <1>4 DEF OutOf, Told
  <1>7. \A j \in 0 .. reports[i] : Clean(t, c[j]) \/ c[j] = Len(t)
    BY <1>1 DEF OutOf, Sound
  <1> HIDE DEF t, a
  <1>8. \A n \in 0 .. Len(landed) : \E q \in 0 .. k :
           /\ Shows(Got(i, n), t, c, q)
           /\ n # 0 /\ landed[n].id = i => q = landed[n].nr
    BY <1>2, HeardIs DEF Arrived
  <1>9. Shows(Got(i, a), t, c, reports[i])
    <2>1. a \in 0 .. Len(landed) /\ a # 0
      BY <1>4
    <2> QED  BY <1>3, <1>6, <1>8, <2>1
  <1>10. /\ Len(Got(i, a)) = Len(t)
         /\ \A n \in DOMAIN t :
               \/ Got(i, a)[n] = t[n]
               \/ Got(i, a)[n] = Hidden /\ \E f \in Found(t) : n \in Span(f)
         /\ \A f \in Found(t) :
               InShortLine(t, f) => \A n \in Span(f) : Got(i, a)[n] = Hidden
    BY <1>5, <1>6, <1>7, <1>9, ShowsAll
  <1>11. ASSUME NEW n \in 1 .. a, Len(Got(i, n)) \in 1 .. Len(t) - 1
         PROVE  \/ t[Len(Got(i, n)) + 1] \notin Conts
                \/ t[Len(Got(i, n))] = Newline
    <2>1. n \in 0 .. Len(landed)
      BY <1>4
    <2>2. PICK q \in 0 .. k : Shows(Got(i, n), t, c, q)
      BY <1>8, <2>1
    <2>3. q \in 0 .. reports[i]
      BY <1>5
    <2>4. Len(Got(i, n)) = c[q]
      BY <2>2 DEF Shows
    <2>5. Clean(t, c[q])
      BY <1>5, <1>7, <1>11, <2>3, <2>4
    <2> QED  BY <1>5, <1>11, <2>4, <2>5 DEF Clean
  <1> QED  BY <1>10, <1>11 DEF t, a, Raw

\* When the final result of a command arrives and none of its results was
\* lost, the cloud has all the command printed, in the order it printed it and
\* with nothing twice; what is not what was printed belongs to a secret; a
\* secret in a line no longer than the carry is hidden wherever the chunks
\* and the pushes cut it; and no partial ends inside a character (execChunk,
\* execExit, Push, Flush, Send, drain).
THEOREM OutputIsWhole == Spec => []OutputArrives
  <1>1. Init => Base /\ Calm /\ OutInv
    BY BaseInit, OutInit
  <1>2. Base /\ Calm /\ OutInv /\ [Next]_vars => (Base /\ Calm /\ OutInv)'
    BY BaseNext, OutNext
  <1>3. Base /\ Calm /\ OutInv => OutputArrives
    BY OutSays
  <1> QED  BY <1>1, <1>2, <1>3, PTL DEF Spec

=============================================================================
