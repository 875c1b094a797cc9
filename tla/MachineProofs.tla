--------------------------- MODULE MachineProofs ---------------------------
(***************************************************************************)
(* Theorems about Machine, for any number of processes, servers, folders   *)
(* and entries.                                                            *)
(***************************************************************************)
EXTENDS Machine, SequenceTheorems, TLAPS

-----------------------------------------------------------------------------
(* Type correctness.                                                       *)

FileType ==
    /\ config \in Saves \cup {Nil}
    /\ tmp \in Saves \cup {Nil}
    /\ ids \in Ids \cup {0}
    /\ granted \subseteq Folders
    /\ overlap \in BOOLEAN

ProcType ==
    /\ way \in [Procs -> Ways \cup {Nil}]
    /\ pc \in [Procs -> {"none", "load", "pair", "create", "write", "rename",
                         "serve"}]
    /\ cfg \in [Procs -> Configs]

LogType ==
    /\ audit \in Seq(Lines)
    /\ open \in BOOLEAN
    /\ last \in [Procs -> 0 .. MaxLines]
    /\ entries \in 0 .. MaxLines
    /\ tampered \in BOOLEAN
    /\ hidden \in BOOLEAN
    /\ broken \in BOOLEAN

LEMMA TypeParts == TypeOK <=> FileType /\ ProcType /\ LogType
  BY DEF TypeOK, FileType, ProcType, LogType

LEMMA TypePartsNext == TypeOK' <=> FileType' /\ ProcType' /\ LogType'
  BY DEF TypeOK, FileType, ProcType, LogType

\* A process that has begun was started for something, and only a log that
\* has a line can have an open one.
Begun == {"load", "pair", "create", "write", "rename"}

BeginInv == /\ \A p \in Procs : pc[p] \in Begun => way[p] \in Ways
            /\ open => audit # <<>>

Base == TypeOK /\ BeginInv

\* What a process is started for.
LEMMA WayIs ==
    ASSUME NEW w \in Ways
    PROVE  /\ w.kind \in {"pair", "allow", "serve"}
           /\ w.kind = "pair" => w.server \in Servers
           /\ w.kind = "allow" => w.root \in Folders
           /\ "server" \in DOMAIN w => w.server \in Servers
  BY DEF Ways

\* The token of a config was given for its machine and by its server.
Sound(c) ==
    c.token # Nil => /\ c.token.server = c.server /\ c.server # Nil
                     /\ c.token.id = c.id /\ c.id # Nil

LEMMA SetServerIs ==
    ASSUME NEW c \in Configs, NEW s \in Servers
    PROVE  /\ SetServer(c, s) \in Configs
           /\ SetServer(c, s).server = s
           /\ SetServer(c, s).roots = c.roots
           /\ Sound(c) => Sound(SetServer(c, s))
  <1>1. CASE s = c.server
    BY <1>1 DEF SetServer
  <1>2. CASE s # c.server
    <2>1. SetServer(c, s) = [c EXCEPT !.server = s, !.id = Nil, !.token = Nil]
      BY <1>2 DEF SetServer
    <2> QED  BY <2>1 DEF Configs, Sound
  <1> QED  BY <1>1, <1>2

LEMMA EnsureIs ==
    ASSUME NEW c \in Configs, ids \in Ids \cup {0},
           EnsureMachineID(c).id \in Ids
    PROVE  /\ EnsureMachineID(c) \in Configs
           /\ EnsureMachineID(c).server = c.server
           /\ EnsureMachineID(c).roots = c.roots
           /\ Sound(c) => Sound(EnsureMachineID(c))
  BY DEF EnsureMachineID, Configs, Sound

LEMMA OrDefaultIs ==
    ASSUME NEW c \in Configs
    PROVE  /\ OrDefault(c) \in Configs
           /\ OrDefault(c).roots = c.roots
           /\ Sound(c) => Sound(OrDefault(c))
  BY MachineAssumption DEF OrDefault, Configs, Sound

LEMMA FlaggedIs ==
    ASSUME NEW c \in Configs, NEW w \in Ways
    PROVE  /\ Flagged(c, w) \in Configs
           /\ Flagged(c, w).roots = c.roots
           /\ Sound(c) => Sound(Flagged(c, w))
  <1> DEFINE d == IF "server" \in DOMAIN w THEN SetServer(c, w.server) ELSE c
  <1>1. d \in Configs /\ d.roots = c.roots /\ (Sound(c) => Sound(d))
    BY WayIs, SetServerIs
  <1>2. Flagged(c, w) = OrDefault(d)
    BY DEF Flagged
  <1> HIDE DEF d
  <1> QED  BY <1>1, <1>2, OrDefaultIs

\* What main makes of the config it loaded.
LEMMA ChangedIs ==
    ASSUME NEW c \in Configs, NEW w \in Ways, ids \in Ids \cup {0},
           Changed(c, w).id # Nil => Changed(c, w).id \in Ids
    PROVE  /\ Changed(c, w) \in Configs
           /\ w.kind = "pair" => /\ Changed(c, w).server # Nil
                                 /\ Changed(c, w).id # Nil
           /\ c.roots \subseteq Changed(c, w).roots
           /\ w.kind = "allow" => w.root \in Changed(c, w).roots
           /\ Sound(c) => Sound(Changed(c, w))
  <1>1. CASE w.kind = "pair"
    <2> DEFINE d == SetServer(c, w.server)
    <2>1. /\ d \in Configs /\ d.server \in Servers /\ d.roots = c.roots
          /\ Sound(c) => Sound(d)
      BY <1>1, WayIs, SetServerIs
    <2>2. Changed(c, w) = EnsureMachineID(d)
      BY <1>1 DEF Changed
    <2> HIDE DEF d
    <2>3. EnsureMachineID(d).id # Nil
      <3>1. ids + 1 \in Nat
        BY MachineAssumption DEF Ids
      <3> QED  BY <2>1, <3>1, SaveAssumption DEF EnsureMachineID, Configs
    <2> QED  BY <1>1, <2>1, <2>2, <2>3, EnsureIs, MachineAssumption
  <1>2. CASE w.kind = "allow"
    <2> DEFINE d == Flagged(c, w)
    <2>1. d \in Configs /\ d.roots = c.roots /\ (Sound(c) => Sound(d))
      BY FlaggedIs
    <2>2. Changed(c, w) = [d EXCEPT !.roots = @ \cup {w.root}]
      BY <1>2 DEF Changed
    <2>3. w.root \in Folders
      BY <1>2, WayIs
    <2> HIDE DEF d
    <2> QED  BY <1>2, <2>1, <2>2, <2>3 DEF Configs, Sound
  <1>3. CASE w.kind = "serve"
    <2>1. Changed(c, w) = Flagged(c, w)
      BY <1>3 DEF Changed
    <2> QED  BY <1>3, <2>1, FlaggedIs
  <1> QED  BY <1>1, <1>2, <1>3, WayIs

\* A process ends: the others go on, and the log stays.
LEMMA EndsIs ==
    ASSUME Base, NEW p \in Procs, Ends(p)
    PROVE  /\ ProcType' /\ LogType' /\ UNCHANGED <<audit, open>>
           /\ \A q \in Procs : /\ pc'[q] = IF q = p THEN "none" ELSE pc[q]
                               /\ q # p => /\ way'[q] = way[q]
                                           /\ cfg'[q] = cfg[q]
  <1>1. Empty \in Configs
    BY DEF Empty, Configs
  <1>2. 0 \in 0 .. MaxLines
    BY MachineAssumption
  <1> QED
    BY <1>1, <1>2 DEF Base, TypeOK, Ends, Goto, ProcType, LogType

\* The scanner gets to the end of the log.
NoLong(a) == \A n \in DOMAIN a : ~a[n].long

LEMMA TailIs ==
    ASSUME NEW a \in Seq(Lines)
    PROVE  /\ TailHash(a) \in 0 .. MaxLines
           /\ a # <<>> /\ NoLong(a) => TailHash(a) = a[Len(a)].hash
           /\ a = <<>> => TailHash(a) = 0
  <1>1. 0 \in 0 .. MaxLines
    BY MachineAssumption
  <1>2. Len(a) \in Nat /\ DOMAIN a = 1 .. Len(a)
        /\ \A n \in DOMAIN a : a[n].hash \in 0 .. MaxLines
    <2>1. Len(a) \in Nat /\ DOMAIN a = 1 .. Len(a)
          /\ \A n \in 1 .. Len(a) : a[n] \in Lines
      OBVIOUS
    <2>2. \A k \in Lines : k.hash \in 0 .. MaxLines
      BY DEF Lines
    <2> QED  BY <2>1, <2>2
  <1>3. LastSeen(a) \subseteq DOMAIN a
    BY DEF LastSeen
  <1>4. CASE LastSeen(a) = {}
    <2>1. TailHash(a) = 0
      BY <1>4 DEF TailHash, TailOf
    <2>2. ASSUME a # <<>>, NoLong(a)  PROVE FALSE
      <3>1. Len(a) \in DOMAIN a
        BY <1>2, <2>2
      <3>2. Seen(a, Len(a))
        BY <1>2, <2>2 DEF Seen, NoLong
      <3> QED  BY <1>4, <3>1, <3>2 DEF LastSeen
    <2> QED  BY <1>1, <2>1, <2>2
  <1>5. CASE LastSeen(a) # {}
    <2>1. PICK n \in LastSeen(a) : TailHash(a) = a[n].hash
      BY <1>5 DEF TailHash, TailOf
    <2>2. n \in DOMAIN a /\ (n # Len(a) => a[n + 1].long)
      BY <2>1 DEF LastSeen
    <2>3. n # Len(a) => n + 1 \in DOMAIN a
      BY <1>2, <2>2
    <2>4. NoLong(a) => n = Len(a)
      BY <2>2, <2>3 DEF NoLong
    <2>5. a # <<>>
      BY <2>2
    <2> QED  BY <1>2, <2>1, <2>2, <2>4, <2>5
  <1> QED  BY <1>4, <1>5

LEMMA BaseFiles ==
    ASSUME Base, NEW p \in Procs,
           \/ \E w \in Ways : Starts(p, w)
           \/ Load(p) \/ Pair(p) \/ Create(p) \/ Write(p)
           \/ Rename(p) \/ RenameFails(p) \/ Crash(p)
    PROVE  Base'
  <1> USE DEF Base
  <1>0. FileType /\ ProcType /\ LogType
    BY TypeParts
  <1>1. ASSUME NEW l \in Begun \cup {"none"}, NEW q \in Procs, pc[q] \in Begun,
               Goto(q, l), FileType', UNCHANGED <<way, log>>,
               cfg' \in [Procs -> Configs]
        PROVE  Base'
    <2>1. \A r \in Procs : pc'[r] = IF r = q THEN l ELSE pc[r]
      BY <1>0, <1>1 DEF Goto, ProcType
    <2>2. ProcType' /\ LogType'
      BY <1>0, <1>1 DEF Goto, ProcType, LogType, Begun, log
    <2> QED  BY <1>1, <2>1, <2>2, TypePartsNext DEF BeginInv, log
  <1>2. ASSUME Ends(p), FileType'  PROVE Base'
    <2>1. /\ ProcType' /\ LogType' /\ UNCHANGED <<audit, open>>
          /\ \A q \in Procs : /\ pc'[q] = IF q = p THEN "none" ELSE pc[q]
                              /\ q # p => way'[q] = way[q]
      BY <1>2, EndsIs
    <2>2. BeginInv'
      BY <2>1 DEF BeginInv, Begun
    <2> QED  BY <1>2, <2>1, <2>2, TypePartsNext
  <1>3. ASSUME NEW w \in Ways, Starts(p, w)  PROVE Base'
    <2>1. \A r \in Procs : /\ pc'[r] = IF r = p THEN "load" ELSE pc[r]
                           /\ way'[r] = IF r = p THEN w ELSE way[r]
      BY <1>0, <1>3 DEF Starts, Goto, ProcType
    <2>2. FileType' /\ ProcType' /\ LogType'
      BY <1>0, <1>3 DEF Starts, Goto, FileType, ProcType, LogType, files, log
    <2> QED  BY <1>3, <2>1, <2>2, TypePartsNext DEF BeginInv, Starts, log
  <1>4. CASE Load(p)
    <2>1. CASE config # Nil /\ ~config.whole
      <3>1. FileType'
        BY <1>0, <1>4, <2>1 DEF Load, FileType
      <3> QED  BY <1>2, <1>4, <2>1, <3>1 DEF Load
    <2>2. CASE ~(config # Nil /\ ~config.whole)
      <3> DEFINE b == IF config = Nil THEN Empty ELSE config.cfg
                 c == Changed(b, way[p])
      <3>1. /\ c.id # Nil => c.id \in Ids
            /\ ids' = IF c.id # Nil /\ c.id > ids THEN c.id ELSE ids
            /\ cfg' = [cfg EXCEPT ![p] = c]
            /\ overlap' = (overlap \/ Changing \ {p} # {})
            /\ Goto(p, IF way[p].kind = "pair" THEN "pair" ELSE "create")
            /\ UNCHANGED <<config, tmp, granted, way, log>>
        BY <1>4, <2>2 DEF Load
      <3>2. b \in Configs
        BY <1>0 DEF FileType, Saves, Empty, Configs
      <3>3. way[p] \in Ways /\ pc[p] = "load"
        BY <1>4 DEF Load, BeginInv, Begun
      <3> HIDE DEF b
      <3>4. c \in Configs
        BY <1>0, <3>1, <3>2, <3>3, ChangedIs DEF FileType
      <3> HIDE DEF c
      <3>5. FileType'
        BY <1>0, <3>1 DEF FileType
      <3>6. cfg' \in [Procs -> Configs]
        BY <1>0, <3>1, <3>4 DEF ProcType
      <3>7. CASE way[p].kind = "pair"
        BY <1>1, <3>1, <3>3, <3>5, <3>6, <3>7 DEF Begun
      <3>8. CASE way[p].kind # "pair"
        BY <1>1, <3>1, <3>3, <3>5, <3>6, <3>8 DEF Begun
      <3> QED  BY <3>7, <3>8
    <2> QED  BY <2>1, <2>2
  <1>5. CASE Pair(p)
    <2>1. pc[p] = "pair"
      BY <1>5 DEF Pair
    <2>2. CASE Ends(p) /\ UNCHANGED <<config, tmp, ids, granted, overlap>>
      <3>1. FileType'
        BY <1>0, <2>2 DEF FileType
      <3> QED  BY <1>2, <2>2, <3>1
    <2>3. CASE /\ cfg' = [cfg EXCEPT ![p].token =
                            [server |-> cfg[p].server, id |-> cfg[p].id]]
               /\ Goto(p, "create")
               /\ UNCHANGED <<way, files, log>>
      <3>1. cfg' \in [Procs -> Configs]
        BY <1>0, <2>3 DEF ProcType, Configs, Tokens
      <3>2. FileType'
        BY <1>0, <2>3 DEF FileType, files
      <3> QED  BY <1>1, <2>1, <2>3, <3>1, <3>2 DEF Begun
    <2> QED  BY <1>5, <2>2, <2>3 DEF Pair
  <1>6. CASE Create(p)
    <2>1. [cfg |-> cfg[p], whole |-> FALSE, by |-> p] \in Saves
      BY <1>0 DEF ProcType, Saves
    <2>2. FileType'
      BY <1>0, <1>6, <2>1 DEF Create, FileType
    <2> QED  BY <1>0, <1>1, <1>6, <2>2 DEF Create, Begun, ProcType
  <1>7. CASE Write(p)
    <2>1. PICK whole \in BOOLEAN :
             LET new == [cfg |-> cfg[p], whole |-> whole, by |-> p] IN
             IF tmp # Nil THEN tmp' = new /\ UNCHANGED config
             ELSE config' = [new EXCEPT !.by = Nil] /\ UNCHANGED tmp
      BY <1>7 DEF Write
    <2>2. FileType'
      BY <1>0, <1>7, <2>1 DEF Write, FileType, ProcType, Saves
    <2> QED  BY <1>0, <1>1, <1>7, <2>2 DEF Write, Begun, ProcType
  <1>8. CASE Rename(p)
    <2>1. pc[p] = "rename" /\ way[p] \in Ways
      BY <1>8 DEF Rename, BeginInv, Begun
    <2>2. FileType'
      BY <1>0, <1>8, <2>1, WayIs DEF Rename, FileType, Saves
    <2>3. /\ Empty \in Configs /\ TailHash(audit) \in 0 .. MaxLines
      <3>1. Empty \in Configs
        BY DEF Empty, Configs
      <3>2. audit \in Seq(Lines)
        BY <1>0 DEF LogType
      <3> QED  BY <3>1, <3>2, TailIs
    <2>4. PICK l \in {"none", "serve"} :
             /\ pc' = [pc EXCEPT ![p] = l]
             /\ way' = [way EXCEPT ![p] = Nil]
             /\ cfg' = [cfg EXCEPT ![p] = Empty]
      BY <1>8 DEF Rename, Saved, Goto
    <2>5. ProcType'
      BY <1>0, <2>3, <2>4 DEF ProcType
    <2>6. LogType' /\ UNCHANGED <<audit, open>>
      BY <1>0, <1>8, <2>3 DEF Rename, LogType
    <2>7. \A q \in Procs : pc'[q] \in Begun => pc[q] \in Begun /\ way'[q] = way[q]
      BY <1>0, <2>4 DEF ProcType, Begun
    <2> QED  BY <2>2, <2>5, <2>6, <2>7, TypePartsNext DEF BeginInv
  <1>9. CASE RenameFails(p) \/ Crash(p)
    <2>1. FileType'
      BY <1>0, <1>9 DEF RenameFails, Crash, FileType
    <2> QED  BY <1>2, <1>9, <2>1 DEF RenameFails, Crash
  <1> QED  BY <1>3, <1>4, <1>5, <1>6, <1>7, <1>8, <1>9

-----------------------------------------------------------------------------
(* The steps on the log.                                                   *)

\* What a write makes of the log: a line more, or, behind an open line, that
\* line spoilt.
LEMMA JoinedIs ==
    ASSUME audit \in Seq(Lines), open => audit # <<>>, NEW l \in Lines
    PROVE  /\ Joined(l) \in Seq(Lines)
           /\ Joined(l) # <<>>
           /\ ~open => /\ Len(Joined(l)) = Len(audit) + 1
                       /\ Joined(l)[Len(audit) + 1] = l
                       /\ \A i \in 1 .. Len(audit) : Joined(l)[i] = audit[i]
           /\ open => /\ Len(Joined(l)) = Len(audit)
                      /\ \A i \in 1 .. Len(audit) - 1 :
                           Joined(l)[i] = audit[i]
  <1>1. CASE ~open
    <2>1. Joined(l) = Append(audit, l)
      BY <1>1 DEF Joined
    <2> QED  BY <1>1, <2>1, AppendProperties
  <1>2. CASE open
    <2> DEFINE n == Len(audit)
               k == [Spoilt(Last(audit)) EXCEPT !.long = @ \/ l.long]
               f == Front(audit)
    <2>1. Joined(l) = Append(f, k)
      BY <1>2 DEF Joined
    <2>2. n \in Nat /\ n > 0 /\ audit[n] \in Lines /\ Last(audit) = audit[n]
      BY <1>2 DEF Last
    <2>3. k \in Lines
      <3>1. 0 \in 0 .. MaxLines
        BY MachineAssumption
      <3>2. \A x \in Lines, b \in BOOLEAN :
               [[x EXCEPT !.hash = 0, !.ok = FALSE] EXCEPT !.long = b] \in Lines
        BY <3>1 DEF Lines
      <3>3. /\ (Last(audit).long \/ l.long) \in BOOLEAN
            /\ Spoilt(Last(audit)).long = Last(audit).long
        BY <2>2 DEF Lines, Spoilt
      <3>4. k = [Spoilt(Last(audit)) EXCEPT
                   !.long = Last(audit).long \/ l.long]
        BY <3>3
      <3> QED  BY <2>2, <3>2, <3>3, <3>4 DEF Spoilt
    <2>4. f \in Seq(Lines) /\ Len(f) = n - 1
          /\ \A i \in 1 .. n - 1 : f[i] = audit[i]
      <3>1. f = SubSeq(audit, 1, n - 1)
        BY DEF Front
      <3>2. /\ 1 \in Int /\ n - 1 \in Int
            /\ \A i \in 1 .. n - 1 : audit[i] \in Lines
        BY <2>2
      <3>3. LET g == SubSeq(audit, 1, n - 1) IN
            /\ g \in Seq(Lines)
            /\ Len(g) = IF 1 <= n - 1 THEN n - 1 - 1 + 1 ELSE 0
            /\ \A i \in 1 .. n - 1 - 1 + 1 : g[i] = audit[1 + i - 1]
        BY <3>2, SubSeqProperties
      <3> HIDE DEF f, n
      <3>4. n \in Nat /\ n > 0
        BY <2>2
      <3>5. n - 1 - 1 + 1 = n - 1 /\ (~(1 <= n - 1) => n - 1 = 0)
            /\ \A i \in 1 .. n - 1 : 1 + i - 1 = i
        BY <3>4
      <3> QED  BY <3>1, <3>3, <3>5
    <2> HIDE DEF k, f
    <2>5. /\ Append(f, k) \in Seq(Lines)
          /\ Len(Append(f, k)) = n
          /\ Append(f, k)[n] = k
          /\ \A i \in 1 .. n - 1 : Append(f, k)[i] = audit[i]
      BY <2>2, <2>3, <2>4, AppendProperties
    <2> QED  BY <1>2, <2>1, <2>2, <2>3, <2>5
  <1> QED  BY <1>1, <1>2

\* What is left of the log when somebody takes out a line.
LEMMA RemovedIs ==
    ASSUME audit \in Seq(Lines), NEW n \in 1 .. Len(audit) - 1
    PROVE  /\ RemoveAt(audit, n) \in Seq(Lines)
           /\ Len(RemoveAt(audit, n)) = Len(audit) - 1
           /\ \A i \in 1 .. n - 1 : RemoveAt(audit, n)[i] = audit[i]
           /\ \A i \in n .. Len(audit) - 1 :
                RemoveAt(audit, n)[i] = audit[i + 1]
  <1> DEFINE a == SubSeq(audit, 1, n - 1)
             b == SubSeq(audit, n + 1, Len(audit))
  <1>1. Len(audit) \in Nat /\ n \in Nat /\ n < Len(audit)
    OBVIOUS
  <1>2. /\ a \in Seq(Lines) /\ Len(a) = n - 1
        /\ \A i \in 1 .. n - 1 : a[i] = audit[i]
    BY <1>1
  <1>3. /\ b \in Seq(Lines) /\ Len(b) = Len(audit) - n
        /\ \A i \in 1 .. Len(audit) - n : b[i] = audit[n + i]
    BY <1>1
  <1>4. RemoveAt(audit, n) = a \o b
    BY DEF RemoveAt
  <1> HIDE DEF a, b
  <1>5. /\ a \o b \in Seq(Lines)
        /\ Len(a \o b) = Len(audit) - 1
        /\ \A i \in 1 .. Len(audit) - 1 :
             (a \o b)[i] = IF i <= n - 1 THEN a[i] ELSE b[i - (n - 1)]
    <2>1. /\ a \o b \in Seq(Lines)
          /\ Len(a \o b) = Len(a) + Len(b)
          /\ \A i \in 1 .. Len(a) + Len(b) :
               (a \o b)[i] = IF i <= Len(a) THEN a[i] ELSE b[i - Len(a)]
      BY <1>2, <1>3, ConcatProperties
    <2>2. Len(a) + Len(b) = Len(audit) - 1 /\ Len(a) = n - 1
      BY <1>1, <1>2, <1>3
    <2> QED  BY <2>1, <2>2
  <1>6. ASSUME NEW i \in n .. Len(audit) - 1
        PROVE  (a \o b)[i] = audit[i + 1]
    <2>1. i - (n - 1) \in 1 .. Len(audit) - n /\ n + (i - (n - 1)) = i + 1
          /\ ~(i <= n - 1) /\ i \in 1 .. Len(audit) - 1
      BY <1>1
    <2> QED  BY <1>3, <1>5, <2>1
  <1>7. ASSUME NEW i \in 1 .. n - 1
        PROVE  (a \o b)[i] = audit[i]
    BY <1>1, <1>2, <1>5
  <1> QED  BY <1>4, <1>5, <1>6, <1>7

\* What a daemon writes.
LEMMA EntryIs ==
    ASSUME LogType, NEW p \in Procs, NEW long \in BOOLEAN, entries < MaxLines
    PROVE  /\ Entry(p, long) \in Lines /\ Spoilt(Entry(p, long)) \in Lines
           /\ entries + 1 \in 0 .. MaxLines
  <1>1. MaxLines \in Nat /\ entries \in Nat /\ last[p] \in 0 .. MaxLines
    BY MachineAssumption DEF LogType
  <1>2. entries + 1 \in 0 .. MaxLines /\ 0 \in 0 .. MaxLines
    BY <1>1
  <1>3. Entry(p, long) \in Lines
    BY <1>1, <1>2 DEF Entry, Lines
  <1> QED  BY <1>2, <1>3 DEF Spoilt, Lines

\* What somebody makes of the log: a line less, or a line that is not what was
\* written.
LEMMA TamperIs ==
    ASSUME audit \in Seq(Lines), Tamper
    PROVE  /\ audit' \in Seq(Lines) /\ audit' # <<>> /\ hidden' \in BOOLEAN
           /\ \E n \in 1 .. Len(audit) - 1 :
                \/ audit' = RemoveAt(audit, n) /\ hidden' = ~Seen(audit, n + 1)
                \/ /\ Len(audit') = Len(audit) /\ ~audit'[n].ok
                   /\ hidden' = ~Seen(audit', n)
  <1>1. PICK n \in 1 .. Len(audit) - 1 :
           \/ audit' = RemoveAt(audit, n) /\ hidden' = ~Seen(audit, n + 1)
           \/ \E long \in BOOLEAN :
                /\ audit' = [audit EXCEPT ![n] =
                                [@ EXCEPT !.ok = FALSE, !.long = long]]
                /\ hidden' = ~Seen(audit', n)
    BY DEF Tamper
  <1>2. Len(audit) \in Nat /\ n \in 1 .. Len(audit) /\ audit[n] \in Lines
        /\ Len(audit) - 1 # 0
    OBVIOUS
  <1>3. hidden' \in BOOLEAN
    BY <1>1
  <1>4. CASE audit' = RemoveAt(audit, n) /\ hidden' = ~Seen(audit, n + 1)
    <2>1. audit' \in Seq(Lines) /\ Len(audit') = Len(audit) - 1
      BY <1>4, RemovedIs
    <2>2. Len(<<>>) = 0
      OBVIOUS
    <2>3. audit' # <<>>
      BY <1>2, <2>1, <2>2
    <2> QED  BY <1>3, <1>4, <2>1, <2>3
  <1>5. ASSUME NEW long \in BOOLEAN,
               audit' = [audit EXCEPT ![n] =
                            [@ EXCEPT !.ok = FALSE, !.long = long]],
               hidden' = ~Seen(audit', n)
        PROVE  /\ audit' \in Seq(Lines) /\ audit' # <<>>
               /\ Len(audit') = Len(audit) /\ ~audit'[n].ok
    <2> DEFINE k == [audit[n] EXCEPT !.ok = FALSE, !.long = long]
    <2>1. k \in Lines /\ ~k.ok
      BY <1>2 DEF Lines
    <2>2. audit' = [audit EXCEPT ![n] = k]
      BY <1>5
    <2> HIDE DEF k
    <2>3. audit' \in Seq(Lines) /\ Len(audit') = Len(audit) /\ audit'[n] = k
      BY <1>2, <2>1, <2>2
    <2>4. Len(<<>>) = 0
      OBVIOUS
    <2>5. audit' # <<>>
      BY <1>2, <2>3, <2>4
    <2> QED  BY <2>1, <2>3, <2>5
  <1> QED  BY <1>1, <1>3, <1>4, <1>5

LEMMA BaseLog ==
    ASSUME Base,
           \/ \E p \in Procs : AppendEntry(p) \/ TornAppend(p)
           \/ Tamper \/ CutOff
    PROVE  Base'
  <1> USE DEF Base
  <1>0. FileType /\ ProcType /\ LogType
    BY TypeParts
  <1>1. audit \in Seq(Lines) /\ (open => audit # <<>>)
    BY <1>0 DEF LogType, BeginInv
  <1>2. ASSUME UNCHANGED <<files, procs>>, LogType', open' => audit' # <<>>
        PROVE  Base'
    <2>1. FileType' /\ ProcType'
      BY <1>0, <1>2 DEF FileType, ProcType, files, procs
    <2> QED  BY <1>2, <2>1, TypePartsNext DEF BeginInv, procs
  <1>4. ASSUME NEW p \in Procs, AppendEntry(p)  PROVE Base'
    <2>1. PICK long \in BOOLEAN : audit' = Joined(Entry(p, long))
      BY <1>4 DEF AppendEntry
    <2>5. Entry(p, long) \in Lines /\ entries + 1 \in 0 .. MaxLines
      <3>1. entries < MaxLines
        BY <1>4 DEF AppendEntry
      <3> QED  BY <1>0, <3>1, EntryIs
    <2>2. /\ Joined(Entry(p, long)) \in Seq(Lines)
          /\ entries + 1 \in 0 .. MaxLines
      BY <1>1, <2>5, JoinedIs
    <2>3. last' \in [Procs -> 0 .. MaxLines]
      BY <1>0, <1>4, <2>2 DEF AppendEntry, LogType
    <2>4. LogType' /\ ~open'
      BY <1>0, <1>4, <2>1, <2>2, <2>3 DEF AppendEntry, LogType
    <2> QED  BY <1>2, <1>4, <2>4 DEF AppendEntry
  <1>5. ASSUME NEW p \in Procs, TornAppend(p)  PROVE Base'
    <2>1. PICK long \in BOOLEAN : audit' = Joined(Spoilt(Entry(p, long)))
      BY <1>5 DEF TornAppend
    <2>2. /\ Spoilt(Entry(p, long)) \in Lines
          /\ entries + 1 \in 0 .. MaxLines
      <3>1. entries < MaxLines
        BY <1>5 DEF TornAppend
      <3> QED  BY <1>0, <3>1, EntryIs
    <2>3. audit' \in Seq(Lines) /\ audit' # <<>>
      BY <1>1, <2>1, <2>2, JoinedIs
    <2>4. LogType'
      BY <1>0, <1>5, <2>2, <2>3 DEF TornAppend, LogType
    <2> QED  BY <1>2, <1>5, <2>3, <2>4 DEF TornAppend
  <1>6. CASE Tamper
    <2>1. audit' \in Seq(Lines) /\ audit' # <<>> /\ hidden' \in BOOLEAN
      BY <1>1, <1>6, TamperIs
    <2>2. LogType'
      BY <1>0, <1>6, <2>1 DEF Tamper, LogType
    <2> QED  BY <1>2, <1>6, <2>1, <2>2 DEF Tamper
  <1>7. CASE CutOff
    <2>1. PICK n \in 0 .. Len(audit) - 1 : audit' = SubSeq(audit, 1, n)
      BY <1>7 DEF CutOff
    <2>2. audit' \in Seq(Lines)
      BY <1>1, <2>1
    <2>3. LogType' /\ ~open'
      BY <1>0, <1>7, <2>2 DEF CutOff, LogType
    <2> QED  BY <1>2, <1>7, <2>3 DEF CutOff
  <1> QED  BY <1>4, <1>5, <1>6, <1>7

LEMMA BaseInit == Init => Base
  <1> SUFFICES ASSUME Init PROVE Base
    OBVIOUS
  <1>1. Empty \in Configs
    BY DEF Empty, Configs
  <1>2. 0 \in 0 .. MaxLines
    BY MachineAssumption
  <1>3. FileType
    BY DEF Init, FileType
  <1>4. ProcType
    BY <1>1 DEF Init, ProcType
  <1>5. LogType
    <2>1. audit = <<>> /\ <<>> \in Seq(Lines)
      BY DEF Init
    <2>2. last \in [Procs -> 0 .. MaxLines] /\ entries \in 0 .. MaxLines
      BY <1>2 DEF Init
    <2>3. ~open /\ ~tampered /\ ~hidden /\ ~broken
          /\ {open, tampered, hidden, broken} \subseteq BOOLEAN
      BY DEF Init
    <2> QED  BY <2>1, <2>2, <2>3 DEF LogType
  <1>6. BeginInv
    BY DEF Init, BeginInv, Begun
  <1> QED  BY <1>3, <1>4, <1>5, <1>6, TypeParts DEF Base

LEMMA BaseNext == Base /\ [Next]_vars => Base'
  <1> SUFFICES ASSUME Base, [Next]_vars PROVE Base'
    OBVIOUS
  <1>1. CASE Next
    BY <1>1, BaseFiles, BaseLog DEF Next
  <1>2. CASE UNCHANGED vars
    BY <1>2 DEF vars, files, log, procs, Base, TypeOK, BeginInv
  <1> QED  BY <1>1, <1>2

LEMMA BaseAlways == Spec => []Base
  BY BaseInit, BaseNext, PTL DEF Spec

\* The value of every variable is one the code can give it (config.Load and
\* Save, main's three ways, audit.Open and Append).
THEOREM MachineTypeCorrect == Spec => []TypeOK
  <1>1. Base => TypeOK
    BY DEF Base
  <1> QED  BY <1>1, BaseAlways, PTL

-----------------------------------------------------------------------------
(* The config.                                                             *)

\* The copy of a process that is going to save it: all that was granted is in
\* it, and so is what this process grants; the temporary file is its own.
Carries(p) ==
    /\ Sound(cfg[p])
    /\ granted \subseteq cfg[p].roots
    /\ way[p].kind = "allow" => way[p].root \in cfg[p].roots
    /\ pc[p] = "pair" => cfg[p].server # Nil /\ cfg[p].id # Nil
    /\ pc[p] = "write" => tmp # Nil /\ tmp.by = p
    /\ pc[p] = "rename" => tmp # Nil /\ tmp.whole /\ tmp.cfg = cfg[p]

\* What config.json holds.
FileHolds ==
    /\ config = Nil => granted = {}
    /\ config # Nil => /\ config.whole
                       /\ Sound(config.cfg)
                       /\ granted \subseteq config.cfg.roots

FilesInv ==
    ~overlap => /\ \A p, q \in Changing : p = q
                /\ FileHolds
                /\ \A p \in Changing : Carries(p)

LEMMA FilesInit == Init => FilesInv
  BY DEF Init, FilesInv, FileHolds, Changing

\* The process that changes the config is alone with it, and the others leave
\* what it goes by.
LEMMA FilesStep ==
    ASSUME Base, FilesInv, NEW p \in Procs, ~overlap, ~overlap',
           Starts(p, way'[p]) \/ Load(p) \/ Pair(p) \/ Create(p) \/ Write(p)
           \/ Rename(p) \/ RenameFails(p) \/ Crash(p)
    PROVE  FilesInv'
  <1>0. FileType /\ ProcType /\ LogType
    BY TypeParts DEF Base
  <1>1. /\ \A q, r \in Changing : q = r
        /\ FileHolds
        /\ \A q \in Changing : Carries(q)
    BY DEF FilesInv
  <1>2. ASSUME UNCHANGED <<config, tmp, granted>>,
               \A q \in Procs : q # p => /\ pc'[q] = pc[q] /\ way'[q] = way[q]
                                         /\ cfg'[q] = cfg[q],
               pc'[p] \notin {"pair", "create", "write", "rename"}
        PROVE  FilesInv'
    <2>1. \A q \in Changing' : q \in Changing /\ q # p
      BY <1>2 DEF Changing
    <2>2. \A q \in Changing' : Carries(q)'
      BY <1>1, <1>2, <2>1 DEF Carries, Changing
    <2>3. FileHolds'
      BY <1>1, <1>2 DEF FileHolds
    <2> QED  BY <1>1, <2>1, <2>2, <2>3 DEF FilesInv
  <1>3. ASSUME Ends(p), UNCHANGED <<config, tmp, granted>>  PROVE FilesInv'
    <2>1. \A q \in Procs : /\ pc'[q] = IF q = p THEN "none" ELSE pc[q]
                           /\ q # p => way'[q] = way[q] /\ cfg'[q] = cfg[q]
      BY <1>3, EndsIs
    <2> QED  BY <1>2, <1>3, <2>1
  \* A step of the one process that changes the config.
  <1>4. ASSUME NEW l \in {"pair", "create", "write", "rename"},
               pc' = [pc EXCEPT ![p] = l], Changing \subseteq {p},
               FileHolds', Carries(p)'
        PROVE  FilesInv'
    <2>1. Changing' \subseteq {p}
      BY <1>0, <1>4 DEF Changing, ProcType
    <2> QED  BY <1>4, <2>1 DEF FilesInv
  <1>5. CASE Starts(p, way'[p])
    <2>1. \A q \in Procs : /\ pc'[q] = IF q = p THEN "load" ELSE pc[q]
                           /\ q # p => way'[q] = way[q] /\ cfg'[q] = cfg[q]
      BY <1>0, <1>5 DEF Starts, Goto, ProcType
    <2>2. UNCHANGED <<config, tmp, granted>>
      BY <1>5 DEF Starts, files
    <2> QED  BY <1>2, <2>1, <2>2
  <1>6. CASE RenameFails(p) \/ Crash(p)
    BY <1>3, <1>6 DEF RenameFails, Crash
  <1>7. CASE Load(p)
    <2>1. CASE config # Nil /\ ~config.whole
      BY <1>3, <1>7, <2>1 DEF Load
    <2>2. CASE ~(config # Nil /\ ~config.whole)
      <3> DEFINE b == IF config = Nil THEN Empty ELSE config.cfg
                 c == Changed(b, way[p])
      <3>1. /\ c.id # Nil => c.id \in Ids
            /\ cfg' = [cfg EXCEPT ![p] = c]
            /\ Changing \ {p} = {}
            /\ Goto(p, IF way[p].kind = "pair" THEN "pair" ELSE "create")
            /\ UNCHANGED <<config, tmp, granted, way>>
        BY <1>7, <2>2 DEF Load
      <3>2. b \in Configs /\ Sound(b) /\ granted \subseteq b.roots
        BY <1>0, <1>1
        DEF FileType, Saves, Empty, Configs, Sound, FileHolds
      <3>3. way[p] \in Ways
        BY <1>7 DEF Load, Base, BeginInv, Begun
      <3> HIDE DEF b
      <3>4. /\ way[p].kind = "pair" => c.server # Nil /\ c.id # Nil
            /\ b.roots \subseteq c.roots
            /\ way[p].kind = "allow" => way[p].root \in c.roots
            /\ Sound(c)
        BY <1>0, <3>1, <3>2, <3>3, ChangedIs DEF FileType
      <3> HIDE DEF c
      <3>5. PICK l \in {"pair", "create"} :
               /\ pc' = [pc EXCEPT ![p] = l]
               /\ l = "pair" => way[p].kind = "pair"
        BY <3>1 DEF Goto
      <3>6. cfg'[p] = c /\ pc'[p] = l /\ way'[p] = way[p]
        BY <1>0, <3>1, <3>5 DEF ProcType
      <3>7. Carries(p)'
        BY <3>1, <3>2, <3>4, <3>5, <3>6 DEF Carries, Sound
      <3>8. FileHolds'
        BY <1>1, <3>1 DEF FileHolds
      <3> QED  BY <1>4, <3>1, <3>5, <3>7, <3>8
    <2> QED  BY <2>1, <2>2
  <1>8. ASSUME p \in Changing  PROVE Changing \subseteq {p} /\ Carries(p)
    BY <1>1, <1>8
  <1>9. CASE Pair(p)
    <2>1. pc[p] = "pair" /\ p \in Changing
      BY <1>9 DEF Pair, Changing
    <2>2. CASE Ends(p) /\ UNCHANGED <<config, tmp, ids, granted, overlap>>
      BY <1>3, <2>2
    <2>3. CASE /\ cfg' = [cfg EXCEPT ![p].token =
                            [server |-> cfg[p].server, id |-> cfg[p].id]]
               /\ Goto(p, "create")
               /\ UNCHANGED <<way, files, log>>
      <3>1. pc' = [pc EXCEPT ![p] = "create"] /\ pc'[p] = "create"
        BY <1>0, <2>3 DEF Goto, ProcType
      <3>2. /\ cfg'[p].token = [server |-> cfg[p].server, id |-> cfg[p].id]
            /\ cfg'[p].server = cfg[p].server /\ cfg'[p].id = cfg[p].id
            /\ cfg'[p].roots = cfg[p].roots
        BY <1>0, <2>3 DEF ProcType, Configs
      <3>3. Carries(p)'
        BY <1>8, <2>1, <2>3, <3>1, <3>2 DEF Carries, Sound, files
      <3>4. FileHolds'
        BY <1>1, <2>3 DEF FileHolds, files
      <3> QED  BY <1>4, <1>8, <2>1, <3>1, <3>3, <3>4
    <2> QED  BY <1>9, <2>2, <2>3 DEF Pair
  <1>10. CASE Create(p)
    <2>1. pc[p] = "create" /\ p \in Changing
      BY <1>10 DEF Create, Changing
    <2> DEFINE t == [cfg |-> cfg[p], whole |-> FALSE, by |-> p]
    <2>2. t \in Saves
      BY <1>0 DEF ProcType, Saves
    <2>3. /\ tmp' = t /\ pc' = [pc EXCEPT ![p] = "write"]
          /\ UNCHANGED <<config, granted, way, cfg>> /\ pc'[p] = "write"
      BY <1>0, <1>10 DEF Create, Goto, ProcType
    <2>4. tmp' # Nil /\ tmp'.by = p
      BY <2>2, <2>3, SaveAssumption
    <2>5. Carries(p)'
      BY <1>8, <2>1, <2>3, <2>4 DEF Carries, Sound
    <2>6. FileHolds'
      BY <1>1, <2>3 DEF FileHolds
    <2> QED  BY <1>4, <1>8, <2>1, <2>3, <2>5, <2>6
  <1>11. CASE Write(p)
    <2>1. pc[p] = "write" /\ p \in Changing
      BY <1>11 DEF Write, Changing
    <2>2. tmp # Nil /\ tmp.by = p
      BY <1>8, <2>1 DEF Carries
    <2> DEFINE t == [cfg |-> cfg[p], whole |-> TRUE, by |-> p]
    <2>3. /\ tmp' = t /\ pc' = [pc EXCEPT ![p] = "rename"]
          /\ UNCHANGED <<config, granted, way, cfg>> /\ pc'[p] = "rename"
      BY <1>0, <1>11, <2>2 DEF Write, Goto, ProcType
    <2>4. t \in Saves
      BY <1>0 DEF ProcType, Saves
    <2>5. tmp' # Nil /\ tmp'.whole /\ tmp'.cfg = cfg[p]
      BY <2>3, <2>4, SaveAssumption
    <2>6. Carries(p)'
      BY <1>8, <2>1, <2>3, <2>5 DEF Carries, Sound
    <2>7. FileHolds'
      BY <1>1, <2>3 DEF FileHolds
    <2> QED  BY <1>4, <1>8, <2>1, <2>3, <2>6, <2>7
  <1>12. CASE Rename(p)
    <2>1. pc[p] = "rename" /\ p \in Changing
      BY <1>12 DEF Rename, Changing
    <2>2. /\ tmp \in Saves /\ tmp.whole /\ tmp.cfg = cfg[p]
          /\ Sound(cfg[p]) /\ granted \subseteq cfg[p].roots
          /\ way[p].kind = "allow" => way[p].root \in cfg[p].roots
      BY <1>0, <1>8, <2>1 DEF Carries, FileType
    <2>3. /\ [tmp EXCEPT !.by = Nil] \in Saves
          /\ [tmp EXCEPT !.by = Nil].whole
          /\ [tmp EXCEPT !.by = Nil].cfg = cfg[p]
      BY <2>2 DEF Saves
    <2>4. /\ config' = [tmp EXCEPT !.by = Nil]
          /\ granted' \subseteq cfg[p].roots
      BY <1>12, <2>2 DEF Rename
    <2>5. FileHolds'
      BY <2>2, <2>3, <2>4, SaveAssumption DEF FileHolds, Sound
    <2>6. Changing' = {}
      <3>1. \A q \in Procs : pc'[q] = IF q = p THEN pc'[p] ELSE pc[q]
        BY <1>0, <1>12 DEF Rename, Saved, Goto, ProcType
      <3>2. pc'[p] \in {"serve", "none"}
        BY <1>0, <1>12 DEF Rename, Saved, Goto, ProcType
      <3> QED  BY <1>8, <2>1, <3>1, <3>2 DEF Changing
    <2> QED  BY <2>5, <2>6 DEF FilesInv
  <1> QED  BY <1>5, <1>6, <1>7, <1>9, <1>10, <1>11, <1>12

LEMMA FilesNext == Base /\ FilesInv /\ [Next]_vars => FilesInv'
  <1> SUFFICES ASSUME Base, FilesInv, [Next]_vars, ~overlap'  PROVE FilesInv'
    BY DEF FilesInv
  <1>1. ASSUME UNCHANGED <<files, procs>>  PROVE FilesInv'
    BY <1>1 DEF files, procs, FilesInv, FileHolds, Carries, Changing, Sound
  <1>2. ASSUME NEW p \in Procs,
               (\E w \in Ways : Starts(p, w)) \/ Load(p) \/ Pair(p)
               \/ Create(p) \/ Write(p) \/ Rename(p) \/ RenameFails(p)
               \/ Crash(p)
        PROVE  FilesInv'
    <2>1. ~overlap
      BY <1>2 DEF Starts, Load, Pair, Create, Write, Rename, RenameFails,
                  Crash, files
    <2>2. ASSUME NEW w \in Ways, Starts(p, w)  PROVE Starts(p, way'[p])
      <3>1. way'[p] = w
        BY <2>2 DEF Starts, Base, TypeOK
      <3> QED  BY <2>2, <3>1
    <2> QED  BY <1>2, <2>1, <2>2, FilesStep
  <1>3. ASSUME NEW p \in Procs, AppendEntry(p) \/ TornAppend(p)  PROVE FilesInv'
    BY <1>1, <1>3 DEF AppendEntry, TornAppend
  <1>4. CASE Tamper \/ CutOff
    BY <1>1, <1>4 DEF Tamper, CutOff
  <1>5. CASE UNCHANGED vars
    BY <1>1, <1>5 DEF vars
  <1> QED  BY <1>2, <1>3, <1>4, <1>5 DEF Next

\* A crash in the middle of a save leaves the config that was there; what it
\* holds belongs together, and a grant is never lost - while nobody else
\* changes the config (Save, SetServer, AddRoot, handleDeepLink).
THEOREM ConfigIsSound == Spec => []ConfigHolds
  <1>1. Init => FilesInv
    BY FilesInit
  <1>2. Base /\ FilesInv /\ [Next]_vars => FilesInv'
    BY FilesNext
  <1>3. FilesInv => ConfigHolds
    BY DEF FilesInv, FileHolds, ConfigHolds, Sound
  <1> QED  BY <1>1, <1>2, <1>3, BaseAlways, PTL DEF Spec

-----------------------------------------------------------------------------
(* The audit log.                                                          *)

\* A log nobody touched: every hash is another one, so that a line that is
\* taken out is missed; and the one daemon goes on where the log ends, if the
\* scanner gets there.
Grows(a) == \A n \in 2 .. Len(a) : a[n - 1].hash < a[n].hash

Untouched ==
    /\ ~open /\ Verifies(audit)
    /\ \A n \in DOMAIN audit : audit[n].hash \in 1 .. entries
    /\ Grows(audit)
    /\ \A p, q \in Serving : p = q
    /\ NoLong(audit) => \A p \in Serving : last[p] = TailHash(audit)

\* A line that Verify looks at and that does not belong there.
Wrong(a, n) == Seen(a, n) /\ ~Chained(a, n)

\* What a change leaves behind is never the open line at the end, which the
\* next write spoils and may make too long.
ChainInv ==
    /\ ~tampered /\ ~broken => Untouched
    /\ tampered /\ ~hidden =>
         \E n \in DOMAIN audit : Wrong(audit, n) /\ (open => n # Len(audit))

\* Nothing that is written later makes a log whole again.
LEMMA JoinedTells ==
    ASSUME audit \in Seq(Lines), open => audit # <<>>, NEW l \in Lines,
           NEW n \in DOMAIN audit, Wrong(audit, n), open => n # Len(audit)
    PROVE  /\ n \in DOMAIN Joined(l) /\ Wrong(Joined(l), n)
           /\ n # Len(Joined(l))
  <1> DEFINE j == Joined(l)
  <1>1. j \in Seq(Lines) /\ Len(audit) \in Nat /\ n \in 1 .. Len(audit)
    <2>1. Len(audit) \in Nat /\ n \in 1 .. Len(audit)
      OBVIOUS
    <2> QED  BY <2>1, JoinedIs
  <1>2. /\ ~open => /\ Len(j) = Len(audit) + 1
                    /\ \A i \in 1 .. Len(audit) : j[i] = audit[i]
        /\ open => /\ Len(j) = Len(audit)
                   /\ \A i \in 1 .. Len(audit) - 1 : j[i] = audit[i]
    BY JoinedIs
  <1> HIDE DEF j
  <1>3. n \in 1 .. Len(j) /\ n # Len(j)
    BY <1>1, <1>2
  <1>4. \A i \in 1 .. n : j[i] = audit[i]
    BY <1>1, <1>2
  <1>5. n # 1 => n \in 1 .. n /\ n - 1 \in 1 .. n
    BY <1>1
  <1>6. j[n] = audit[n] /\ (n # 1 => j[n - 1] = audit[n - 1])
    BY <1>1, <1>4, <1>5
  <1>7. Wrong(j, n)
    BY <1>4, <1>6 DEF Wrong, Seen, Chained
  <1> QED  BY <1>1, <1>3, <1>7 DEF j

\* A line that is changed, or taken out before another, is missed, if Verify
\* looks there.
LEMMA TamperTells ==
    ASSUME audit \in Seq(Lines), Untouched, Tamper, ~hidden', entries \in Nat
    PROVE  \E n \in DOMAIN audit' : Wrong(audit', n)
  <1>1. PICK n \in 1 .. Len(audit) - 1 :
           \/ audit' = RemoveAt(audit, n) /\ hidden' = ~Seen(audit, n + 1)
           \/ /\ Len(audit') = Len(audit) /\ ~audit'[n].ok
              /\ hidden' = ~Seen(audit', n)
    BY TamperIs
  <1>2. Len(audit) \in Nat /\ n \in Nat /\ n >= 1 /\ n < Len(audit)
        /\ n \in 1 .. Len(audit) /\ n + 1 \in 1 .. Len(audit)
    BY <1>1
  <1>0. audit' \in Seq(Lines)
    BY TamperIs
  <1>3. CASE Len(audit') = Len(audit) /\ ~audit'[n].ok /\ Seen(audit', n)
    <2>1. n \in DOMAIN audit'
      BY <1>0, <1>2, <1>3
    <2> QED  BY <1>3, <2>1 DEF Wrong, Chained
  <1>4. CASE audit' = RemoveAt(audit, n) /\ Seen(audit, n + 1)
    <2> DEFINE a == RemoveAt(audit, n)
    <2>1. /\ a \in Seq(Lines) /\ Len(a) = Len(audit) - 1
          /\ \A i \in 1 .. n - 1 : a[i] = audit[i]
          /\ \A i \in n .. Len(audit) - 1 : a[i] = audit[i + 1]
      BY <1>1, RemovedIs
    <2> HIDE DEF a
    <2>2. n \in DOMAIN a /\ a[n] = audit[n + 1]
      BY <1>2, <2>1
    <2>3. /\ audit[n + 1].prev = audit[n].hash
          /\ audit[n].hash \in Nat /\ audit[n].hash # 0
      <3>1. n + 1 \in DOMAIN audit /\ n + 1 # 1 /\ n + 1 - 1 = n
        BY <1>2
      <3>2. audit[n + 1].prev = audit[n].hash
        BY <1>4, <3>1 DEF Untouched, Verifies, Chained
      <3>3. audit[n].hash \in 1 .. entries
        BY <1>2 DEF Untouched
      <3> QED  BY <3>2, <3>3
    <2>6. Seen(a, n)
      <3>1. ASSUME NEW i \in 1 .. n  PROVE ~a[i].long
        <4>1. i \in 1 .. n + 1 /\ i + 1 \in 1 .. n + 1
              /\ (i \in 1 .. n - 1 \/ i \in n .. Len(audit) - 1)
          BY <1>2
        <4> QED  BY <1>4, <2>1, <4>1 DEF Seen
      <3> QED  BY <3>1 DEF Seen
    <2>4. CASE n = 1
      <3>1. a[n].prev # 0
        BY <2>2, <2>3
      <3> QED  BY <1>4, <2>2, <2>4, <2>6, <3>1 DEF Wrong, Chained, a
    <2>5. CASE n # 1
      <3>1. n - 1 \in 1 .. n - 1 /\ n \in 2 .. Len(audit)
            /\ n - 1 \in 1 .. Len(audit)
        BY <1>2, <2>5
      <3>2. a[n - 1] = audit[n - 1] /\ audit[n - 1].hash < audit[n].hash
        BY <2>1, <3>1 DEF Untouched, Grows
      <3>3. audit[n - 1].hash \in 1 .. entries
        BY <3>1 DEF Untouched
      <3>4. a[n].prev # a[n - 1].hash
        BY <2>2, <2>3, <3>2, <3>3
      <3> QED  BY <1>4, <2>2, <2>5, <2>6, <3>4 DEF Wrong, Chained, a
    <2> QED  BY <2>4, <2>5
  <1> QED  BY <1>1, <1>3, <1>4

\* One daemon, appending at the end of a log nobody touched.
LEMMA AppendUntouched ==
    ASSUME Base, Untouched, NEW p \in Procs, AppendEntry(p)
    PROVE  Untouched'
  <1>0. FileType /\ ProcType /\ LogType
    BY TypeParts DEF Base
  <1>a. PICK long \in BOOLEAN : audit' = Joined(Entry(p, long))
    BY DEF AppendEntry
  <1> DEFINE l == Entry(p, long)
             j == Joined(l)
             N == Len(audit)
  <1>1. /\ audit \in Seq(Lines) /\ N \in Nat /\ DOMAIN audit = 1 .. N
        /\ entries \in Nat /\ entries < MaxLines /\ MaxLines \in Nat
        /\ ~open /\ last[p] \in 0 .. MaxLines
    BY <1>0, MachineAssumption DEF LogType, Untouched, AppendEntry
  <1>2. /\ l.prev = last[p] /\ l.hash = entries + 1 /\ l.ok
    BY DEF Entry
  <1>3. l \in Lines
    BY <1>0, <1>1, EntryIs
  <1> HIDE DEF l
  <1>4. /\ j \in Seq(Lines) /\ Len(j) = N + 1 /\ j[N + 1] = l
        /\ \A i \in 1 .. N : j[i] = audit[i]
    BY <1>1, <1>3, JoinedIs
  <1>5. /\ audit' = j /\ entries' = entries + 1 /\ ~open'
        /\ last' = [last EXCEPT ![p] = entries + 1] /\ pc' = pc
    BY <1>a DEF AppendEntry, procs, l
  <1> HIDE DEF j
  <1>6. p \in Serving
    BY DEF AppendEntry, Serving
  <1>7. NoLong(audit) => l.prev = IF N = 0 THEN 0 ELSE audit[N].hash
    <2>1. N = 0 => audit = <<>>
      BY <1>1
    <2>2. N # 0 => audit # <<>>
      BY <1>1
    <2>3. NoLong(audit) => last[p] = TailHash(audit)
      BY <1>6 DEF Untouched
    <2> QED  BY <1>1, <1>2, <2>1, <2>2, <2>3, TailIs
  <1>8. ASSUME NEW i \in DOMAIN j
        PROVE  /\ Seen(j, i) => Chained(j, i)
               /\ j[i].hash \in 1 .. entries + 1
               /\ i \in 2 .. Len(j) => j[i - 1].hash < j[i].hash
    <2>1. i \in 1 .. N + 1
      BY <1>1, <1>4
    <2>2. CASE i \in 1 .. N
      <3>1. i # 1 => /\ i - 1 \in 1 .. N /\ j[i - 1] = audit[i - 1]
                     /\ i \in 2 .. N
        BY <1>1, <1>4, <2>2
      <3>2. j[i] = audit[i] /\ audit[i].hash \in 1 .. entries
        BY <1>1, <1>4, <2>2 DEF Untouched
      <3>3. i # 1 => audit[i - 1].hash < audit[i].hash
        BY <3>1 DEF Untouched, Grows
      <3>4. \A m \in 1 .. i : j[m] = audit[m]
        BY <1>1, <1>4, <2>2
      <3>5. Seen(j, i) => Chained(audit, i)
        BY <1>1, <2>2, <3>4 DEF Seen, Untouched, Verifies
      <3>6. Seen(j, i) => Chained(j, i)
        BY <3>1, <3>2, <3>5 DEF Chained
      <3>7. audit[i].hash \in 1 .. entries + 1
        BY <1>1, <3>2
      <3> QED  BY <1>1, <2>2, <3>1, <3>2, <3>3, <3>6, <3>7
    <2>3. CASE i = N + 1
      <3>1. N # 0 => /\ N \in 1 .. N /\ j[N] = audit[N]
                     /\ audit[N].hash \in 1 .. entries
        <4>1. N # 0 => N \in 1 .. N
          BY <1>1
        <4> QED  BY <1>1, <1>4, <4>1 DEF Untouched
      <3>2. j[i] = l /\ i - 1 = N
        BY <1>1, <1>4, <2>3
      <3>3. (i = 1 <=> N = 0) /\ (i \in 2 .. Len(j) => N # 0)
        BY <1>1, <2>3
      <3>4. Seen(j, i) => NoLong(audit)
        <4>1. \A m \in 1 .. N : m \in 1 .. i
          BY <1>1, <2>3
        <4> QED  BY <1>1, <1>4, <4>1 DEF Seen, NoLong
      <3>5. Seen(j, i) => Chained(j, i)
        BY <1>2, <1>7, <3>1, <3>2, <3>3, <3>4 DEF Chained
      <3>6. j[i].hash \in 1 .. entries + 1
        BY <1>1, <1>2, <3>2
      <3>7. i \in 2 .. Len(j) => j[i - 1].hash < j[i].hash
        BY <1>1, <1>2, <3>1, <3>2, <3>3
      <3> QED  BY <3>5, <3>6, <3>7
    <2> QED  BY <1>1, <2>1, <2>2, <2>3
  <1>9. Verifies(audit)' /\ Grows(audit)'
        /\ \A n \in DOMAIN audit' : audit'[n].hash \in 1 .. entries'
    <2>1. \A n \in 2 .. Len(j) : n \in DOMAIN j
      BY <1>1, <1>4
    <2> QED  BY <1>5, <1>8, <2>1 DEF Verifies, Grows
  <1>10. NoLong(j) => TailHash(j) = entries + 1
    <2>1. j # <<>>
      BY <1>1, <1>4
    <2> QED  BY <1>2, <1>4, <2>1, TailIs
  <1>11. Serving' = Serving
    BY <1>5 DEF Serving
  <1>12. last'[p] = entries + 1
    BY <1>0, <1>5 DEF LogType
  <1>13. \A q \in Serving' : q = p
    BY <1>6, <1>11 DEF Untouched
  <1>14. NoLong(audit') => \A q \in Serving' : last'[q] = TailHash(audit')
    BY <1>5, <1>10, <1>12, <1>13
  <1> QED  BY <1>5, <1>9, <1>13, <1>14 DEF Untouched

\* The steps that leave the log alone; a daemon starts where the log ends.
LEMMA ChainOthers ==
    ASSUME Base, ChainInv, NEW p \in Procs,
           (\E w \in Ways : Starts(p, w)) \/ Load(p) \/ Pair(p) \/ Create(p)
           \/ Write(p) \/ Rename(p) \/ RenameFails(p) \/ Crash(p)
    PROVE  ChainInv'
  <1>0. FileType /\ ProcType /\ LogType
    BY TypeParts DEF Base
  <1>1. ASSUME UNCHANGED <<audit, open, entries, tampered, hidden, broken>>,
               \A q \in Serving' : q \in Serving /\ last'[q] = last[q]
        PROVE  ChainInv'
    <2>1. TailHash(audit') = TailHash(audit)
      BY <1>1
    <2>2. Verifies(audit)' = Verifies(audit) /\ Grows(audit)' = Grows(audit)
      BY <1>1
    <2>3. ~tampered /\ ~broken => Untouched'
      <3> SUFFICES ASSUME ~tampered /\ ~broken PROVE Untouched'
        OBVIOUS
      <3>1. Untouched
        BY DEF ChainInv
      <3>2. \A q, r \in Serving' : q = r
        BY <1>1, <3>1 DEF Untouched
      <3>3. NoLong(audit') => \A q \in Serving' : last'[q] = TailHash(audit')
        BY <1>1, <2>1, <3>1 DEF Untouched
      <3> QED  BY <1>1, <2>2, <3>1, <3>2, <3>3 DEF Untouched
    <2> QED  BY <1>1, <2>2, <2>3 DEF ChainInv
  <1>2. ASSUME UNCHANGED log,
               \A q \in Procs : pc'[q] = "serve" => pc[q] = "serve"
        PROVE  ChainInv'
    BY <1>1, <1>2 DEF log, Serving
  <1>3. ASSUME Ends(p)  PROVE ChainInv'
    <2>1. /\ UNCHANGED <<audit, open, entries, tampered, hidden, broken>>
          /\ \A q \in Procs : /\ pc'[q] = IF q = p THEN "none" ELSE pc[q]
                              /\ q # p => last'[q] = last[q]
      BY <1>0, <1>3 DEF Ends, Goto, ProcType, LogType
    <2> QED  BY <1>1, <2>1 DEF Serving
  <1>4. ASSUME NEW w \in Ways, Starts(p, w)  PROVE ChainInv'
    BY <1>0, <1>2, <1>4 DEF Starts, Goto, ProcType
  <1>5. CASE Load(p)
    <2>1. CASE config # Nil /\ ~config.whole
      BY <1>3, <1>5, <2>1 DEF Load
    <2>2. CASE ~(config # Nil /\ ~config.whole)
      BY <1>0, <1>2, <1>5, <2>2 DEF Load, Goto, ProcType
    <2> QED  BY <2>1, <2>2
  <1>6. CASE Pair(p)
    <2>1. CASE Ends(p)
      BY <1>3, <2>1
    <2>2. CASE Goto(p, "create") /\ UNCHANGED log
      BY <1>0, <1>2, <2>2 DEF Goto, ProcType
    <2> QED  BY <1>6, <2>1, <2>2 DEF Pair
  <1>7. CASE Create(p)
    BY <1>0, <1>2, <1>7 DEF Create, Goto, ProcType
  <1>8. CASE Write(p)
    BY <1>0, <1>2, <1>8 DEF Write, Goto, ProcType
  <1>9. CASE RenameFails(p) \/ Crash(p)
    BY <1>3, <1>9 DEF RenameFails, Crash
  <1>10. CASE Rename(p)
    <2>1. /\ UNCHANGED <<audit, open, entries, tampered, hidden>>
          /\ \A q \in Procs : q # p => pc'[q] = pc[q]
      BY <1>0, <1>10 DEF Rename, Saved, Goto, ProcType
    <2>2. CASE pc'[p] = "serve"
      <3>1. /\ last' = [last EXCEPT ![p] = TailHash(audit)]
            /\ ~broken' => ~broken /\ Serving = {}
        BY <1>10, <2>2 DEF Rename
      <3>2. Verifies(audit)' = Verifies(audit) /\ Grows(audit)' = Grows(audit)
            /\ TailHash(audit') = TailHash(audit)
        BY <2>1
      <3>3. ASSUME ~tampered, ~broken'  PROVE Untouched'
        <4>1. Untouched
          BY <3>1, <3>3 DEF ChainInv
        <4>2. \A q \in Serving' : q = p
          BY <2>1, <3>1, <3>3 DEF Serving
        <4>3. \A q \in Serving' : last'[q] = TailHash(audit')
          BY <1>0, <3>1, <3>2, <4>2 DEF LogType
        <4> QED  BY <2>1, <3>2, <4>1, <4>2, <4>3 DEF Untouched
      <3> QED  BY <2>1, <3>2, <3>3 DEF ChainInv
    <2>3. CASE pc'[p] # "serve"
      <3>1. UNCHANGED <<last, broken>>
        BY <1>10, <2>3 DEF Rename
      <3> QED  BY <1>1, <2>1, <2>3, <3>1 DEF Serving
    <2> QED  BY <2>2, <2>3
  <1> QED  BY <1>4, <1>5, <1>6, <1>7, <1>8, <1>9, <1>10

LEMMA ChainInit == Init => ChainInv
  <1> SUFFICES ASSUME Init PROVE ChainInv
    OBVIOUS
  <1>1. audit = <<>> /\ DOMAIN audit = {} /\ Len(audit) = 0
    BY DEF Init
  <1>2. Serving = {}
    BY DEF Init, Serving
  <1> QED  BY <1>1, <1>2 DEF Init, ChainInv, Untouched, Verifies, Grows

LEMMA ChainNext == Base /\ ChainInv /\ [Next]_vars => ChainInv'
  <1> SUFFICES ASSUME Base, ChainInv, [Next]_vars PROVE ChainInv'
    OBVIOUS
  <1>0. FileType /\ ProcType /\ LogType
    BY TypeParts DEF Base
  <1>1. audit \in Seq(Lines) /\ (open => audit # <<>>)
    BY <1>0 DEF LogType, Base, BeginInv
  <1>2. ASSUME NEW l \in Lines, audit' = Joined(l), hidden' = hidden,
               tampered, ~hidden
        PROVE  \E n \in DOMAIN audit' : Wrong(audit', n) /\ n # Len(audit')
    <2>1. PICK n \in DOMAIN audit : Wrong(audit, n) /\ (open => n # Len(audit))
      BY <1>2 DEF ChainInv
    <2> QED  BY <1>1, <1>2, <2>1, JoinedTells
  <1>3. ASSUME NEW p \in Procs, AppendEntry(p)  PROVE ChainInv'
    <2>1. PICK long \in BOOLEAN : audit' = Joined(Entry(p, long))
      BY <1>3 DEF AppendEntry
    <2>2. Entry(p, long) \in Lines
      BY <1>0, <1>3, EntryIs DEF AppendEntry
    <2>3. /\ tampered' = tampered /\ hidden' = hidden /\ broken' = broken
      BY <1>3 DEF AppendEntry
    <2>4. ~tampered /\ ~broken => Untouched'
      BY <1>3, AppendUntouched DEF ChainInv
    <2> QED  BY <1>2, <2>1, <2>2, <2>3, <2>4 DEF ChainInv
  <1>4. ASSUME NEW p \in Procs, TornAppend(p)  PROVE ChainInv'
    <2>1. PICK long \in BOOLEAN : audit' = Joined(Spoilt(Entry(p, long)))
      BY <1>4 DEF TornAppend
    <2>2. Spoilt(Entry(p, long)) \in Lines
      BY <1>0, <1>4, EntryIs DEF TornAppend
    <2>3. /\ tampered' = tampered /\ hidden' = hidden /\ broken'
      BY <1>4 DEF TornAppend
    <2> QED  BY <1>2, <2>1, <2>2, <2>3 DEF ChainInv
  <1>5. CASE Tamper
    <2>1. Untouched /\ entries \in Nat /\ ~open /\ ~open' /\ tampered'
      <3>1. Untouched /\ tampered' /\ open' = open
        BY <1>5 DEF Tamper, ChainInv
      <3>2. entries \in Nat
        BY <1>0, MachineAssumption DEF LogType
      <3> QED  BY <3>1, <3>2 DEF Untouched
    <2>2. ~hidden' => \E n \in DOMAIN audit' : Wrong(audit', n)
      BY <1>1, <1>5, <2>1, TamperTells
    <2> QED  BY <2>1, <2>2 DEF ChainInv
  <1>6. CASE CutOff
    BY <1>6 DEF CutOff, ChainInv
  <1>7. CASE UNCHANGED vars
    <2>1. UNCHANGED <<audit, open, entries, tampered, hidden, broken, last, pc>>
      BY <1>7 DEF vars, log, procs
    <2>2. Serving' = Serving
      BY <2>1 DEF Serving
    <2>3. Untouched' = Untouched
      BY <2>1, <2>2 DEF Untouched
    <2> QED  BY <2>1, <2>3 DEF ChainInv
  <1> QED  BY <1>3, <1>4, <1>5, <1>6, <1>7, ChainOthers DEF Next

\* A log somebody changed in the middle is never taken for whole again, unless
\* a line too long for the scanner hides it, and one nobody touched always is
\* (Open, Append, Verify).
THEOREM ChainIsTold == Spec => []ChainTells
  <1>1. Init => ChainInv
    BY ChainInit
  <1>2. Base /\ ChainInv /\ [Next]_vars => ChainInv'
    BY ChainNext
  <1>3. ChainInv => ChainTells
    BY DEF ChainInv, Untouched, ChainTells, Wrong, Verifies
  <1> QED  BY <1>1, <1>2, <1>3, BaseAlways, PTL DEF Spec

=============================================================================
