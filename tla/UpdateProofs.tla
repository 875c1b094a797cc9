---------------------------- MODULE UpdateProofs ----------------------------
(***************************************************************************)
(* Theorems about Update, for any jobs, processes, versions and tokens.    *)
(***************************************************************************)
EXTENDS Update, TLAPS

-----------------------------------------------------------------------------
(* Type correctness.                                                       *)

DiskType ==
    /\ exe \in File \cup {Nil}
    /\ backup \in [Versions -> File \cup {Nil}]
    /\ staged \in [Versions -> File \cup {Nil}]
    /\ outcome \in {Nil} \cup [from : Versions, to : Versions,
                               result : Results]

DaemonType ==
    /\ proc \in [Procs -> {"up", "down"}]
    /\ ver \in [Procs -> Versions]
    /\ busy \in [Procs -> BOOLEAN]
    /\ quiet \in [Procs -> BOOLEAN]
    /\ running \in [Procs -> BOOLEAN]
    /\ state \in [Procs -> States]

JobType ==
    /\ pc \in [Jobs -> {"idle", "done"} \cup Asking \cup Working]
    /\ own \in [Jobs -> Procs \cup {Nil}]
    /\ man \in [Jobs -> Tokens \cup {Nil}]
    /\ got \in [Jobs -> Codes \cup {Nil}]
    /\ child \in [Jobs -> Procs \cup {Nil}]

PastType == overlap \in BOOLEAN /\ killed \in BOOLEAN /\ mismatch \subseteq Procs

LEMMA TypeParts == TypeOK <=> DiskType /\ DaemonType /\ JobType /\ PastType
  BY DEF TypeOK, DiskType, DaemonType, JobType, PastType

LEMMA TypePartsNext ==
    TypeOK' <=> DiskType' /\ DaemonType' /\ JobType' /\ PastType'
  BY DEF TypeOK, DiskType, DaemonType, JobType, PastType

(***************************************************************************)
(* What a job has while it is at work: a process, from "take" on a         *)
(* manifest that passed the signature and is newer than the process, from  *)
(* "store" on the code the manifest names, and a child once it started it. *)
(***************************************************************************)
Fetched == Working \ {"wait", "download"}
Handing == {"handover", "record", "leave"}

JobInv ==
    \A j \in Jobs :
        /\ pc[j] \in Asking \cup Working <=> own[j] \in Procs
        /\ own[j] \in Procs => Up(own[j])
        /\ pc[j] \in Working \cup {"take"} =>
             /\ man[j] \in Tokens
             /\ man[j].code = "ours"
             /\ IsNewerVersion(New(j), Old(j))
        /\ pc[j] \in Fetched => got[j] = "ours"
        /\ pc[j] \in Handing => child[j] \in Procs

\* A slot without a process has forgotten everything.
DownInv ==
    \A p \in Procs : ~Up(p) => ~quiet[p] /\ ~running[p] /\ state[p] = "idle"

UpdateBase == TypeOK /\ JobInv /\ DownInv

\* The labels, told apart.
LEMMA Labels ==
    /\ "idle" \notin Asking \cup Working
    /\ "done" \notin Asking \cup Working
    /\ Fetched \subseteq Working /\ Handing \subseteq Fetched
    /\ Asking \cap Working = {}
  BY DEF Asking, Working, Fetched, Handing

\* A program is a file, complete, of its version.
LEMMA ProgramIs ==
    ASSUME NEW v \in Versions, NEW c \in Codes
    PROVE  /\ Program(v, c) \in File
           /\ Whole(Program(v, c))
           /\ Program(v, c).ver = v
           /\ Program(v, c).code = c
  <1>1. Program(v, c) \in File
    BY DEF Program, File
  <1>2. Program(v, c) # Nil
    BY <1>1, FileAssumption
  <1> QED  BY <1>1, <1>2 DEF Program, Whole

\* A file that is being written is one that is not complete.
LEMMA PartIs ==
    ASSUME NEW v \in Versions, NEW c \in Codes, NEW j \in Jobs
    PROVE  /\ Part(v, c, j) \in File
           /\ Part(v, c, j) # Nil
           /\ ~Whole(Part(v, c, j))
           /\ Part(v, c, j).ver = v
           /\ Part(v, c, j).code = c
           /\ Part(v, c, j).by = j
  <1>1. Part(v, c, j) \in File
    BY DEF Part, File
  <1>2. Part(v, c, j) # Nil
    BY <1>1, FileAssumption
  <1> QED  BY <1>1, <1>2 DEF Part, Whole

\* Completing a file changes neither what it is nor whether it is there.
LEMMA FinishIs ==
    ASSUME NEW f \in File \cup {Nil}, NEW j \in Jobs, NEW w \in BOOLEAN
    PROVE  /\ Finish(f, j, w) \in File \cup {Nil}
           /\ Finish(f, j, w) = Nil <=> f = Nil
           /\ f # Nil => /\ Finish(f, j, w).ver = f.ver
                         /\ Finish(f, j, w).code = f.code
           /\ Whole(f) => Whole(Finish(f, j, w))
           /\ f # Nil /\ f.by = j /\ w => Whole(Finish(f, j, w))
  <1>1. CASE f # Nil /\ f.by = j /\ w
    <2>1. f.ver \in Versions /\ f.code \in Codes
      BY <1>1 DEF File
    <2>2. Finish(f, j, w) = Program(f.ver, f.code)
      BY <1>1 DEF Finish
    <2>3. /\ Program(f.ver, f.code) \in File
          /\ Whole(Program(f.ver, f.code))
          /\ Program(f.ver, f.code).ver = f.ver
          /\ Program(f.ver, f.code).code = f.code
      BY <2>1, ProgramIs
    <2> QED  BY <1>1, <2>2, <2>3, FileAssumption
  <1>2. CASE ~(f # Nil /\ f.by = j /\ w)
    BY <1>2 DEF Finish
  <1> QED  BY <1>1, <1>2

\* What a token that is in use names.
LEMMA TokenIs == ASSUME NEW t \in Tokens
                 PROVE  /\ t.ver \in Versions /\ t.code \in Codes
                        /\ t.min \in Versions \cup {Nil} /\ t.fits \in BOOLEAN
  BY UpdateAssumption DEF Codes

\* A job at work, its process and its two versions.
LEMMA AtWork ==
    ASSUME UpdateBase, NEW j \in Jobs, pc[j] \in Asking \cup Working
    PROVE  /\ Me(j) \in Procs /\ Up(Me(j)) /\ Old(j) \in Versions
           /\ pc[j] \in Working \cup {"take"} =>
                man[j] \in Tokens /\ New(j) \in Versions
           /\ pc[j] \in Fetched => got[j] \in Codes
  <1>1. own[j] \in Procs /\ Up(own[j])
    BY DEF UpdateBase, JobInv
  <1>2. pc[j] \in Working \cup {"take"} => man[j] \in Tokens
    BY DEF UpdateBase, JobInv
  <1>3. pc[j] \in Fetched => got[j] = "ours"
    BY DEF UpdateBase, JobInv
  <1> QED  BY <1>1, <1>2, <1>3, TokenIs DEF Me, Old, New, Codes, UpdateBase, TypeOK

\* Jobs end: they have nothing any more, and the others what they had.
LEMMA EndJobsIs ==
    ASSUME TypeOK, NEW J, EndJobs(J)
    PROVE  /\ JobType'
           /\ \A j \in Jobs \cap J : pc'[j] = "done" /\ own'[j] = Nil
           /\ \A j \in Jobs \ J : /\ pc'[j] = pc[j] /\ own'[j] = own[j]
                                  /\ man'[j] = man[j] /\ got'[j] = got[j]
                                  /\ child'[j] = child[j]
  <1>1. /\ pc' \in [Jobs -> {"idle", "done"} \cup Asking \cup Working]
        /\ \A j \in Jobs : pc'[j] = IF j \in J THEN "done" ELSE pc[j]
    <2>1. pc \in [Jobs -> {"idle", "done"} \cup Asking \cup Working]
      BY DEF TypeOK
    <2>2. pc' = [j \in Jobs |-> IF j \in J THEN "done" ELSE pc[j]]
      BY <2>1 DEF EndJobs, With
    <2> HIDE DEF EndJobs
    <2> QED  BY <2>1, <2>2
  <1>2. /\ own' = [j \in Jobs |-> IF j \in J THEN Nil ELSE own[j]]
        /\ man' = [j \in Jobs |-> IF j \in J THEN Nil ELSE man[j]]
        /\ got' = [j \in Jobs |-> IF j \in J THEN Nil ELSE got[j]]
        /\ child' = [j \in Jobs |-> IF j \in J THEN Nil ELSE child[j]]
    BY DEF EndJobs, With, TypeOK
  <1>3. /\ own' \in [Jobs -> Procs \cup {Nil}]
        /\ man' \in [Jobs -> Tokens \cup {Nil}]
        /\ got' \in [Jobs -> Codes \cup {Nil}]
        /\ child' \in [Jobs -> Procs \cup {Nil}]
    BY <1>2 DEF TypeOK
  <1> QED  BY <1>1, <1>2, <1>3 DEF JobType

\* Processes end and start: what becomes of each slot.
LEMMA TurnoverIs ==
    ASSUME TypeOK, NEW gone \in SUBSET Procs, NEW q \in Procs \cup {Nil},
           Turnover(gone, q)
    PROVE  /\ DaemonType' /\ mismatch' = mismatch \ gone
           /\ \A p \in Procs :
                /\ proc'[p] = "up" <=> p = q \/ (Up(p) /\ p \notin gone)
                /\ p = q => ver'[p] = exe.ver
                /\ p # q /\ p \notin gone => ver'[p] = ver[p]
                /\ busy'[p] = (busy[p] /\ p \notin gone)
                /\ quiet'[p] = (quiet[p] /\ p \notin gone)
                /\ running'[p] = (running[p] /\ p \notin gone)
                /\ state'[p] = IF p \in gone THEN "idle" ELSE state[p]
  <1> USE DEF TypeOK, DaemonType, States, Settled
  <1>1. q # Nil => exe.ver \in Versions
    BY DEF Turnover, Whole, File
  <1>2. proc' = [p \in Procs |-> IF p = q THEN "up"
                                 ELSE IF p \in gone THEN "down" ELSE proc[p]]
    BY DEF Turnover
  <1>3. ver' = [p \in Procs |-> IF p = q THEN exe.ver
                                ELSE IF p \in gone THEN Base ELSE ver[p]]
    BY DEF Turnover
  <1>4. ver' \in [Procs -> Versions]
    <2>1. \A p \in Procs : p = q => q # Nil
      BY UpdateAssumption
    <2> QED  BY <1>1, <1>3, <2>1, UpdateAssumption
  <1>5. proc' \in [Procs -> {"up", "down"}]
    BY <1>2
  <1>6. /\ busy' = [p \in Procs |-> IF p \in gone THEN FALSE ELSE busy[p]]
        /\ quiet' = [p \in Procs |-> IF p \in gone THEN FALSE ELSE quiet[p]]
        /\ running' = [p \in Procs |-> IF p \in gone THEN FALSE ELSE running[p]]
        /\ state' = [p \in Procs |-> IF p \in gone THEN "idle" ELSE state[p]]
        /\ mismatch' = mismatch \ gone
    BY DEF Turnover, With
  <1>7. /\ busy' \in [Procs -> BOOLEAN]
        /\ quiet' \in [Procs -> BOOLEAN]
        /\ running' \in [Procs -> BOOLEAN]
        /\ state' \in [Procs -> States]
    BY <1>6
  <1>8. \A p \in Procs : proc'[p] = "up" <=> p = q \/ (Up(p) /\ p \notin gone)
    BY <1>2 DEF Up
  <1>9. \A p \in Procs :
           /\ p = q => ver'[p] = exe.ver
           /\ p # q /\ p \notin gone => ver'[p] = ver[p]
           /\ busy'[p] = (busy[p] /\ p \notin gone)
           /\ quiet'[p] = (quiet[p] /\ p \notin gone)
           /\ running'[p] = (running[p] /\ p \notin gone)
           /\ state'[p] = IF p \in gone THEN "idle" ELSE state[p]
    BY <1>3, <1>6
  <1> HIDE DEF TypeOK, States, Settled
  <1> QED  BY <1>4, <1>5, <1>6, <1>7, <1>8, <1>9

\* A step of one job that is at work: nothing happens to any process, and it
\* gets no further in the update than it has what it needs for.
LEMMA BaseMoves ==
    ASSUME UpdateBase, NEW j \in Jobs, NEW l \in Working, pc[j] \in Working,
           Moves(j, l), l \in Fetched => pc[j] \in Fetched,
           l \in Handing => pc[j] \in Handing,
           UNCHANGED <<proc, ver>>, DiskType', DaemonType', DownInv'
    PROVE  UpdateBase'
  <1> USE DEF UpdateBase, Moves, Goto
  <1>1. JobType' /\ PastType'
    BY TypeParts DEF JobType, PastType
  <1>2. TypeOK'
    BY <1>1, TypePartsNext
  <1>3. JobInv'
    <2>1. UNCHANGED <<own, man, got, child, ver, proc>>
      OBVIOUS
    <2>2. \A k \in Jobs : pc'[k] = IF k = j THEN l ELSE pc[k]
      BY DEF TypeOK
    <2>3. l \in Working /\ pc[j] \in Working /\ l # "take" /\ pc[j] # "take"
      BY DEF Working
    <2> HIDE DEF UpdateBase, Moves, Goto
    <2> QED  BY <2>1, <2>2, <2>3 DEF JobInv, New, Old, Up, UpdateBase
  <1> QED  BY <1>2, <1>3

\* The set of jobs J ends, and nothing happens to the processes of others.
LEMMA BaseEnds ==
    ASSUME UpdateBase, NEW J, EndJobs(J), DiskType', DaemonType', PastType',
           DownInv',
           \A j \in Jobs \ J : own[j] \in Procs =>
               /\ proc'[own[j]] = "up"
               /\ ver'[own[j]] = ver[own[j]]
    PROVE  UpdateBase'
  <1> USE DEF UpdateBase
  <1>1. /\ JobType'
        /\ \A j \in Jobs \cap J : pc'[j] = "done" /\ own'[j] = Nil
        /\ \A j \in Jobs \ J : /\ pc'[j] = pc[j] /\ own'[j] = own[j]
                               /\ man'[j] = man[j] /\ got'[j] = got[j]
                               /\ child'[j] = child[j]
    BY EndJobsIs
  <1>2. TypeOK'
    BY <1>1, TypePartsNext
  <1>3. JobInv'
    <2> SUFFICES ASSUME NEW j \in Jobs
                 PROVE
        /\ pc'[j] \in Asking \cup Working <=> own'[j] \in Procs
        /\ own'[j] \in Procs => proc'[own'[j]] = "up"
        /\ pc'[j] \in Working \cup {"take"} =>
             /\ man'[j] \in Tokens
             /\ man'[j].code = "ours"
             /\ IsNewerVersion(man'[j].ver, ver'[own'[j]])
        /\ pc'[j] \in Fetched => got'[j] = "ours"
        /\ pc'[j] \in Handing => child'[j] \in Procs
      BY DEF JobInv, New, Old, Up
    <2>1. CASE j \in J
      <3>1. pc'[j] = "done" /\ own'[j] = Nil
        BY <1>1, <2>1
      <3> QED  BY <3>1, Labels, UpdateAssumption DEF Asking
    <2>2. CASE j \notin J
      <3>1. /\ pc'[j] = pc[j] /\ own'[j] = own[j] /\ man'[j] = man[j]
            /\ got'[j] = got[j] /\ child'[j] = child[j]
        BY <1>1, <2>2
      <3>2. pc[j] \in Working \cup {"take"} => own[j] \in Procs
        BY DEF JobInv, Asking
      <3> QED  BY <2>2, <3>1, <3>2 DEF JobInv, New, Old, Up
    <2> QED  BY <2>1, <2>2
  <1> QED  BY <1>2, <1>3

\* u.fail.
LEMMA BaseFail ==
    ASSUME UpdateBase, NEW j \in Jobs, pc[j] \in Working, Fail(j), DiskType'
    PROVE  UpdateBase'
  <1> USE DEF UpdateBase, Fail
  <1>1. Me(j) \in Procs /\ Up(Me(j))
    BY AtWork, Labels
  <1>2. DaemonType' /\ PastType'
    BY <1>1, TypeParts DEF DaemonType, PastType, SetState, ClearRunning, States,
       Settled
  <1>3. DownInv'
    BY <1>1 DEF DownInv, Up, SetState, ClearRunning, TypeOK
  <1>4. \A k \in Jobs \ {j} : own[k] \in Procs =>
           proc'[own[k]] = "up" /\ ver'[own[k]] = ver[own[k]]
    BY DEF JobInv, Up
  <1> QED  BY <1>2, <1>3, <1>4, BaseEnds

\* Processes end with their jobs, and perhaps one starts.
LEMMA BaseTurnover ==
    ASSUME UpdateBase, NEW gone \in SUBSET Procs, NEW q \in Procs \cup {Nil},
           Turnover(gone, q), NEW J, EndJobs(J),
           J = {j \in Jobs : own[j] \in gone},
           DiskType', overlap' = overlap, killed' \in BOOLEAN
    PROVE  UpdateBase'
  <1> USE DEF UpdateBase
  <1>0. TypeOK
    OBVIOUS
  <1>1. /\ DaemonType' /\ mismatch' = mismatch \ gone
        /\ \A p \in Procs :
             /\ proc'[p] = "up" <=> p = q \/ (Up(p) /\ p \notin gone)
             /\ p = q => ver'[p] = exe.ver
             /\ p # q /\ p \notin gone => ver'[p] = ver[p]
             /\ busy'[p] = (busy[p] /\ p \notin gone)
             /\ quiet'[p] = (quiet[p] /\ p \notin gone)
             /\ running'[p] = (running[p] /\ p \notin gone)
             /\ state'[p] = IF p \in gone THEN "idle" ELSE state[p]
    <2> HIDE DEF UpdateBase
    <2> QED  BY <1>0, TurnoverIs
  <1>2. PastType'
    BY <1>1, TypeParts DEF PastType
  <1>3. DownInv'
    BY <1>1 DEF DownInv, Up
  <1>4. \A j \in Jobs \ J : own[j] \in Procs =>
           proc'[own[j]] = "up" /\ ver'[own[j]] = ver[own[j]]
    <2> SUFFICES ASSUME NEW j \in Jobs \ J, own[j] \in Procs
                 PROVE  proc'[own[j]] = "up" /\ ver'[own[j]] = ver[own[j]]
      OBVIOUS
    <2>1. Up(own[j]) /\ own[j] \notin gone
      BY DEF JobInv
    <2>2. own[j] # q
      <3>1. q \in Procs => ~Up(q)
        BY UpdateAssumption DEF Turnover, Free
      <3> QED  BY <2>1, <3>1
    <2>4. \A r \in Procs : r # q /\ Up(r) /\ r \notin gone =>
             proc'[r] = "up" /\ ver'[r] = ver[r]
      BY <1>1 DEF Up
    <2> QED  BY <2>1, <2>2, <2>4
  <1> QED  BY <1>1, <1>2, <1>3, <1>4, BaseEnds

\* Nothing happens to the processes.
LEMMA StillDaemon == ASSUME UpdateBase, UNCHANGED daemon
                     PROVE  DaemonType' /\ DownInv'
  BY TypeParts DEF UpdateBase, DaemonType, DownInv, Up, daemon

\* Only the status of a job's process changes.
LEMMA StatusIs ==
    ASSUME UpdateBase, NEW j \in Jobs, pc[j] \in Asking \cup Working,
           NEW s \in States, SetState(j, s),
           UNCHANGED <<proc, ver, busy, quiet, running>>
    PROVE  DaemonType' /\ DownInv'
  <1>1. Me(j) \in Procs /\ Up(Me(j))
    BY AtWork
  <1> QED  BY <1>1, TypeParts DEF UpdateBase, DaemonType, DownInv, Up, SetState

LEMMA BaseAnswer ==
    ASSUME UpdateBase, NEW j \in Jobs, pc[j] \in Asking, NEW s \in States,
           Answer(j, s), mismatch' \subseteq Procs
    PROVE  UpdateBase'
  <1>1. DaemonType' /\ DownInv'
    BY StatusIs DEF Answer
  <1>2. DiskType' /\ PastType' /\ EndJobs({j}) /\ UNCHANGED <<proc, ver>>
    BY TypeParts DEF UpdateBase, Answer, DiskType, PastType, disk
  <1>3. \A k \in Jobs \ {j} : own[k] \in Procs =>
           proc'[own[k]] = "up" /\ ver'[own[k]] = ver[own[k]]
    BY <1>2 DEF UpdateBase, JobInv, Up
  <1> QED  BY <1>1, <1>2, <1>3, BaseEnds

\* A token that passes the gates is signed, so it names our code.
LEMMA PassedIsOurs == ASSUME NEW t \in Tokens, GateOf(t) = "none"
                      PROVE  t.code = "ours"
  BY UpdateAssumption DEF GateOf

LEMMA BaseApply ==
    ASSUME UpdateBase, NEW j \in Jobs, Applies(j)
    PROVE  UpdateBase'
  <1> USE DEF UpdateBase
  <1>1. ASSUME NEW p \in Procs, Ask(j, p)  PROVE UpdateBase'
    <2>1. CASE running[p]
      <3>1. /\ pc[j] = "idle" /\ pc' = [pc EXCEPT ![j] = "done"]
            /\ UNCHANGED <<disk, daemon, own, man, got, child, overlap, killed,
                           mismatch>>
        BY <1>1, <2>1 DEF Ask, Goto, daemon
      <3>2. DaemonType' /\ DownInv'
        BY <3>1, StillDaemon
      <3>3. TypeOK'
        BY <3>1, <3>2, TypePartsNext, TypeParts
        DEF DiskType, JobType, PastType, disk
      <3>4. JobInv'
        <4>1. \A k \in Jobs : pc'[k] = IF k = j THEN "done" ELSE pc[k]
          BY <3>1 DEF TypeOK
        <4>2. own[j] \notin Procs /\ "done" # "take"
          BY <3>1, Labels DEF JobInv
        <4> HIDE DEF UpdateBase
        <4> QED  BY <3>1, <4>1, <4>2, Labels
                 DEF JobInv, New, Old, Up, daemon, UpdateBase
      <3> QED  BY <3>2, <3>3, <3>4
    <2>2. CASE ~running[p]
      <3>1. /\ pc[j] = "idle" /\ pc' = [pc EXCEPT ![j] = "fetch"]
            /\ Up(p) /\ own' = [own EXCEPT ![j] = p]
            /\ state' = [state EXCEPT ![p] = "checking"]
            /\ mismatch' = mismatch \ {p}
            /\ UNCHANGED <<disk, proc, ver, busy, quiet, running, man, got,
                           child, overlap, killed>>
        BY <1>1, <2>2 DEF Ask, Goto
      <3>2. DaemonType' /\ DownInv'
        BY <3>1, TypeParts DEF DaemonType, DownInv, Up, States
      <3>3. TypeOK'
        BY <3>1, <3>2, TypePartsNext, TypeParts
        DEF DiskType, JobType, PastType, disk, Asking
      <3>4. JobInv'
        <4>1. \A k \in Jobs : /\ pc'[k] = IF k = j THEN "fetch" ELSE pc[k]
                              /\ own'[k] = IF k = j THEN p ELSE own[k]
          BY <3>1 DEF TypeOK
        <4>2. "fetch" \in Asking /\ "fetch" # "take" /\ "fetch" \notin Working
          BY DEF Asking, Working
        <4> HIDE DEF UpdateBase
        <4> QED  BY <3>1, <4>1, <4>2, Labels
                 DEF JobInv, New, Old, Up, UpdateBase
      <3> QED  BY <3>2, <3>3, <3>4
    <2> QED  BY <2>1, <2>2
  <1>2. CASE FetchFails(j)
    <2>1. pc[j] \in Asking /\ Answer(j, "failed") /\ mismatch' \subseteq Procs
      BY <1>2, TypeParts DEF FetchFails, Asking, PastType
    <2> QED  BY <2>1, BaseAnswer DEF States, Settled
  <1>3. ASSUME NEW t \in Tokens, NEW want \in Versions \cup {Nil},
               Fetch(j, t, want)
        PROVE  UpdateBase'
    <2>1. pc[j] = "fetch" /\ pc[j] \in Asking
      BY <1>3 DEF Fetch, Asking
    <2>2. Me(j) \in Procs /\ Up(Me(j)) /\ state[Me(j)] \in States
      BY <2>1, AtWork, TypeParts DEF DaemonType
    <2>3. ASSUME NEW s \in {"failed", "up_to_date", state[Me(j)]}, Answer(j, s),
                 mismatch' \in {mismatch, mismatch \cup {Me(j)}}
          PROVE  UpdateBase'
      <3>1. s \in States /\ mismatch' \subseteq Procs
        BY <2>2, <2>3, TypeParts DEF PastType, States, Settled
      <3> QED  BY <2>1, <2>3, <3>1, BaseAnswer
    <2>4. ASSUME /\ GateOf(t) = "none"
                 /\ IsNewerVersion(t.ver, Old(j))
                 /\ Goto(j, "take")
                 /\ man' = [man EXCEPT ![j] = t]
                 /\ UNCHANGED <<disk, daemon, own, got, child, overlap, killed,
                                mismatch>>
          PROVE  UpdateBase'
      <3>1. DaemonType' /\ DownInv'
        BY <2>4, StillDaemon
      <3>2. TypeOK'
        BY <2>4, <3>1, TypePartsNext, TypeParts
        DEF DiskType, JobType, PastType, disk, Asking, Goto
      <3>3. JobInv'
        <4>1. \A k \in Jobs : /\ pc'[k] = IF k = j THEN "take" ELSE pc[k]
                              /\ man'[k] = IF k = j THEN t ELSE man[k]
          BY <2>4 DEF TypeOK, Goto
        <4>2. "take" \in Asking /\ "take" \notin Working
          BY DEF Asking, Working
        <4>3. t.code = "ours"
          BY <2>4, PassedIsOurs
        <4> HIDE DEF UpdateBase
        <4> QED  BY <2>1, <2>4, <4>1, <4>2, <4>3, Labels
                 DEF JobInv, New, Old, Up, daemon, UpdateBase
      <3> QED  BY <3>1, <3>2, <3>3
    <2> QED  BY <1>3, <2>3, <2>4 DEF Fetch
  <1>4. CASE Take(j)
    <2>1. /\ pc[j] = "take" /\ pc[j] \in Asking
          /\ pc' = [pc EXCEPT ![j] = "wait"]
          /\ UNCHANGED <<disk, proc, ver, own, man, got, child, killed,
                         mismatch>>
      BY <1>4 DEF Take, Goto, Asking
    <2>2. Me(j) \in Procs /\ Up(Me(j))
      BY <2>1, AtWork
    <2>3. DaemonType' /\ DownInv'
      BY <1>4, <2>2, TypeParts
      DEF Take, DaemonType, DownInv, Up, SetState, States
    <2>4. TypeOK'
      BY <1>4, <2>1, <2>3, TypePartsNext, TypeParts
      DEF Take, DiskType, JobType, PastType, disk, Working
    <2>5. JobInv'
      <3>1. \A k \in Jobs : pc'[k] = IF k = j THEN "wait" ELSE pc[k]
        BY <2>1 DEF TypeOK
      <3>2. /\ "wait" \in Working /\ "wait" \notin Fetched
            /\ "wait" \notin Handing
        BY DEF Working, Fetched, Handing
      <3> HIDE DEF UpdateBase
      <3> QED  BY <2>1, <3>1, <3>2, Labels
               DEF JobInv, New, Old, Up, UpdateBase
    <2> QED  BY <2>3, <2>4, <2>5
  <1> QED  BY <1>1, <1>2, <1>3, <1>4 DEF Applies

\* A job's process, versions, and files.
LEMMA BaseFiles ==
    ASSUME UpdateBase, NEW j \in Jobs, pc[j] \in Working
    PROVE  /\ DiskType /\ Old(j) \in Versions /\ New(j) \in Versions
           /\ pc[j] \in Fetched => got[j] \in Codes
  BY AtWork, TypeParts, Labels DEF UpdateBase

LEMMA BasePrepare ==
    ASSUME UpdateBase, NEW j \in Jobs, Prepares(j) \/ KeepWaiting(j)
    PROVE  UpdateBase'
  <1>0. pc[j] \in Working
    BY DEF Prepares, KeepWaiting, Wait, GiveUpWaiting, StepFails, Download,
       Store, SmokeTest, Quiesce, Working
  <1>1. CASE Wait(j)
    <2>1. DaemonType' /\ DownInv' /\ DiskType'
      BY <1>1, StillDaemon, BaseFiles, <1>0 DEF Wait, DiskType, disk
    <2> QED
      BY <1>0, <1>1, <2>1, BaseMoves
      DEF Wait, daemon, Working, Fetched, Handing
  <1>2. CASE GiveUpWaiting(j)
    BY <1>0, <1>2, BaseFail, BaseFiles DEF GiveUpWaiting, DiskType, disk
  <1>3. CASE StepFails(j)
    BY <1>0, <1>3, BaseFail, BaseFiles DEF StepFails, DiskType, disk
  <1>4. ASSUME NEW c \in Codes, Download(j, c)  PROVE UpdateBase'
    <2>1. CASE VerifyBytes(c, man[j])
      <3>1. /\ pc[j] = "download" /\ pc' = [pc EXCEPT ![j] = "store"]
            /\ SetState(j, "verifying") /\ got' = [got EXCEPT ![j] = c]
            /\ staged' = [staged EXCEPT ![New(j)] = Part(New(j), c, j)]
            /\ UNCHANGED <<proc, ver, busy, quiet, running, own, man, child,
                           overlap, killed, mismatch, exe, backup, outcome>>
        BY <1>4, <2>1 DEF Download, Goto
      <3>2. DaemonType' /\ DownInv'
        BY <1>0, <3>1, StatusIs DEF States
      <3>3. DiskType'
        <4>1. New(j) \in Versions
          BY <1>0, BaseFiles
        <4>2. Part(New(j), c, j) \in File
          BY <4>1, PartIs
        <4> QED  BY <1>0, BaseFiles, <3>1, <4>2 DEF DiskType
      <3>4. TypeOK'
        BY <3>1, <3>2, <3>3, TypePartsNext, TypeParts
        DEF UpdateBase, JobType, PastType, Working
      <3>5. JobInv'
        <4>1. \A k \in Jobs : /\ pc'[k] = IF k = j THEN "store" ELSE pc[k]
                              /\ got'[k] = IF k = j THEN c ELSE got[k]
          BY <3>1 DEF TypeOK, UpdateBase
        <4>2. /\ "store" \in Working /\ "store" \notin Handing
          BY DEF Working, Handing
        <4>3. c = "ours"
          BY <1>0, <2>1 DEF VerifyBytes, UpdateBase, JobInv
        <4> QED  BY <1>0, <3>1, <4>1, <4>2, <4>3
                 DEF JobInv, New, Old, Up, UpdateBase
      <3> QED  BY <3>2, <3>4, <3>5 DEF UpdateBase
    <2>2. CASE ~VerifyBytes(c, man[j])
      <3>1. DiskType'
        BY <1>0, <1>4, <2>2, BaseFiles DEF Download, DiskType
      <3> QED  BY <1>0, <1>4, <2>2, <3>1, BaseFail DEF Download
    <2> QED  BY <2>1, <2>2
  <1>5. CASE Store(j)
    <2>1. pc[j] \in Fetched /\ "smoke" \in Working /\ "smoke" \notin Handing
      BY <1>5 DEF Store, Fetched, Working, Handing
    <2>2. Program(New(j), got[j]) \in File
      BY <1>0, <2>1, BaseFiles, ProgramIs
    <2>3. DiskType'
      BY <1>0, <1>5, <2>2, BaseFiles DEF Store, DiskType
    <2>4. DaemonType' /\ DownInv'
      BY <1>0, <1>5, StatusIs DEF Store, States
    <2> QED  BY <1>0, <1>5, <2>1, <2>3, <2>4, BaseMoves DEF Store
  <1>6. CASE SmokeTest(j)
    <2>1. DiskType'
      BY <1>0, <1>6, BaseFiles DEF SmokeTest, DiskType, disk
    <2>2. CASE Speaks(j)
      <3>1. DaemonType' /\ DownInv'
        BY <1>6, <2>2, StillDaemon DEF SmokeTest, Quietly
      <3> QED
        BY <1>0, <1>6, <2>1, <2>2, <3>1, BaseMoves
        DEF SmokeTest, Quietly, daemon, Working, Fetched, Handing
    <2>3. CASE ~Speaks(j)
      BY <1>0, <1>6, <2>1, <2>3, BaseFail DEF SmokeTest
    <2> QED  BY <2>2, <2>3
  <1>7. CASE Quiesce(j)
    <2>1. Me(j) \in Procs /\ Up(Me(j))
      BY <1>0, AtWork
    <2>2. DaemonType' /\ DownInv' /\ DiskType'
      BY <1>0, <1>7, <2>1, TypeParts
      DEF Quiesce, UpdateBase, DaemonType, DownInv, Up, DiskType, disk
    <2> QED
      BY <1>0, <1>7, <2>2, BaseMoves DEF Quiesce, Working, Fetched, Handing
  <1>8. CASE KeepWaiting(j)
    <2>1. DaemonType' /\ DownInv'
      BY <1>0, <1>8, StatusIs DEF KeepWaiting, States
    <2>2. TypeOK'
      BY <1>8, <2>1, TypePartsNext, TypeParts
      DEF KeepWaiting, UpdateBase, DiskType, JobType, PastType, disk, job
    <2>3. JobInv'
      BY <1>8 DEF KeepWaiting, UpdateBase, JobInv, New, Old, Up, job
    <2> QED  BY <2>1, <2>2, <2>3 DEF UpdateBase
  <1> QED
    BY <1>1, <1>2, <1>3, <1>4, <1>5, <1>6, <1>7, <1>8 DEF Prepares

\* Completing a copy.
LEMMA FinishCopyIs ==
    ASSUME DiskType, NEW j \in Jobs, NEW w \in BOOLEAN, FinishCopy(j, w)
    PROVE  /\ exe' \in File \cup {Nil}
           /\ backup' \in [Versions -> File \cup {Nil}]
           /\ \A v \in Versions : backup'[v] = Finish(backup[v], j, w)
           /\ exe' = Finish(exe, j, w)
  <1>1. exe' = Finish(exe, j, w)
    BY DEF FinishCopy
  <1>2. backup' = [v \in Versions |-> Finish(backup[v], j, w)]
    BY DEF FinishCopy
  <1>3. \A v \in Versions : Finish(backup[v], j, w) \in File \cup {Nil}
    BY FinishIs DEF DiskType
  <1> QED  BY <1>1, <1>2, <1>3, FinishIs DEF DiskType

\* The process starts: a slot that was empty is up.
LEMMA BaseStarts ==
    ASSUME UpdateBase, NEW q \in Procs, Turnover({}, q)
    PROVE  /\ DaemonType' /\ DownInv' /\ mismatch' = mismatch
           /\ \A p \in Procs : Up(p) => proc'[p] = "up" /\ ver'[p] = ver[p]
           /\ proc'[q] = "up"
  <1> DEFINE gone == {}
  <1>1. TypeOK /\ gone \in SUBSET Procs /\ Turnover(gone, q)
    BY DEF UpdateBase
  <1>2. \A p \in Procs : p \notin gone
    OBVIOUS
  <1>3. mismatch \ gone = mismatch
    OBVIOUS
  <1> HIDE DEF gone
  <1>4. /\ DaemonType' /\ mismatch' = mismatch \ gone
        /\ \A p \in Procs :
             /\ proc'[p] = "up" <=> p = q \/ (Up(p) /\ p \notin gone)
             /\ p = q => ver'[p] = exe.ver
             /\ p # q /\ p \notin gone => ver'[p] = ver[p]
             /\ busy'[p] = (busy[p] /\ p \notin gone)
             /\ quiet'[p] = (quiet[p] /\ p \notin gone)
             /\ running'[p] = (running[p] /\ p \notin gone)
             /\ state'[p] = IF p \in gone THEN "idle" ELSE state[p]
    BY <1>1, TurnoverIs
  <1>5. ~Up(q)
    BY UpdateAssumption DEF Turnover, Free
  <1> QED  BY <1>2, <1>3, <1>4, <1>5 DEF DownInv, UpdateBase, Up, TypeOK

LEMMA BaseSwap ==
    ASSUME UpdateBase, NEW j \in Jobs, Swaps(j)
    PROVE  UpdateBase'
  <1>0. pc[j] \in Fetched /\ pc[j] \in Working
    BY DEF Swaps, RemoveBackup, Rename, RenameFails, OpenCopy, Copy, CopyFails,
       PutBack, Spawn, SpawnFails, TookOver, ChildDied, RecordInstalled, Leave,
       Fetched, Working
  <1>1. /\ DiskType /\ Old(j) \in Versions /\ New(j) \in Versions
        /\ got[j] \in Codes
    BY <1>0, BaseFiles
  <1>2. ASSUME NEW l \in Working, Moves(j, l), l \notin Handing, DiskType',
               Quietly
        PROVE  UpdateBase'
    BY <1>0, <1>2, StillDaemon, BaseMoves DEF Quietly, daemon
  <1>3. CASE RemoveBackup(j)
    BY <1>1, <1>2, <1>3 DEF RemoveBackup, DiskType, Working, Handing
  <1>4. CASE Rename(j)
    <2>1. DiskType'
      BY <1>1, <1>4 DEF Rename, KeepBackup, DiskType
    <2> QED  BY <1>2, <1>4, <2>1 DEF Rename, Working, Handing
  <1>5. CASE RenameFails(j)
    BY <1>0, <1>1, <1>5, BaseFail DEF RenameFails, DiskType, disk
  <1>6. CASE OpenCopy(j)
    <2>1. Part(New(j), got[j], j) \in File
      BY <1>1, PartIs
    <2>2. DiskType'
      BY <1>1, <1>6, <2>1 DEF OpenCopy, DiskType
    <2> QED  BY <1>2, <1>6, <2>2 DEF OpenCopy, Working, Handing
  <1>7. CASE Copy(j)
    <2> DEFINE w == staged[New(j)] = Nil \/ Whole(staged[New(j)])
    <2>1. FinishCopy(j, w) /\ w \in BOOLEAN
      BY <1>1, <1>7 DEF Copy, Whole, File, DiskType
    <2> HIDE DEF w
    <2>2. DiskType'
      BY <1>1, <1>7, <2>1, FinishCopyIs DEF Copy, DiskType
    <2>3. DaemonType' /\ DownInv'
      BY <1>0, <1>7, StatusIs DEF Copy, States
    <2> QED
      BY <1>0, <1>7, <2>2, <2>3, BaseMoves DEF Copy, Working, Handing
  <1>8. CASE CopyFails(j)
    BY <1>1, <1>2, <1>8 DEF CopyFails, DiskType, disk, Working, Handing
  <1>9. CASE PutBack(j)
    <2>1. DiskType'
      BY <1>1, <1>9 DEF PutBack, DiskType
    <2> QED  BY <1>0, <1>9, <2>1, BaseFail DEF PutBack
  <1>10. ASSUME NEW q \in Procs, Spawn(j, q)  PROVE UpdateBase'
    <2>1. /\ DaemonType' /\ DownInv' /\ mismatch' = mismatch
          /\ \A p \in Procs : Up(p) => proc'[p] = "up" /\ ver'[p] = ver[p]
      BY <1>10, BaseStarts DEF Spawn
    <2>2. TypeOK'
      BY <1>1, <1>10, <2>1, TypePartsNext, TypeParts
      DEF Spawn, Goto, DiskType, JobType, PastType, disk, UpdateBase, Working
    <2>3. JobInv'
      <3>1. \A k \in Jobs : /\ pc'[k] = IF k = j THEN "handover" ELSE pc[k]
                            /\ child'[k] = IF k = j THEN q ELSE child[k]
        BY <1>10 DEF Spawn, Goto, TypeOK, UpdateBase
      <3>2. "handover" \in Working /\ "handover" # "take"
        BY DEF Working
      <3>3. \A k \in Jobs : pc[k] \in Working \cup {"take"} => own[k] \in Procs
        BY DEF UpdateBase, JobInv, Asking
      <3> QED  BY <1>0, <1>10, <2>1, <3>1, <3>2, <3>3
               DEF Spawn, JobInv, New, Old, Up, UpdateBase
    <2> QED  BY <2>1, <2>2, <2>3 DEF UpdateBase
  <1>11. CASE SpawnFails(j)
    BY <1>1, <1>2, <1>11 DEF SpawnFails, DiskType, disk, Working, Handing
  <1>12. CASE TookOver(j)
    <2>1. DaemonType' /\ DownInv' /\ DiskType'
      BY <1>1, <1>12, StillDaemon DEF TookOver, Quietly, DiskType, disk
    <2> QED
      BY <1>0, <1>12, <2>1, BaseMoves
      DEF TookOver, Quietly, daemon, Working, Handing
  <1>13. CASE ChildDied(j)
    <2>1. DaemonType' /\ DownInv'
      BY <1>13, StillDaemon DEF ChildDied
    <2>2. TypeOK'
      BY <1>1, <1>13, <2>1, TypePartsNext, TypeParts
      DEF ChildDied, Goto, DiskType, JobType, PastType, disk, UpdateBase, Working
    <2>3. JobInv'
      <3>1. \A k \in Jobs : /\ pc'[k] = IF k = j THEN "undo" ELSE pc[k]
                            /\ child'[k] = IF k = j THEN Nil ELSE child[k]
        BY <1>13 DEF ChildDied, Goto, TypeOK, UpdateBase
      <3>2. "undo" \in Working /\ "undo" # "take" /\ "undo" \notin Handing
        BY DEF Working, Handing
      <3> QED  BY <1>0, <1>13, <3>1, <3>2
               DEF ChildDied, JobInv, New, Old, Up, UpdateBase, daemon
    <2> QED  BY <2>1, <2>2, <2>3 DEF UpdateBase
  <1>14. CASE RecordInstalled(j)
    <2>1. Result(j, "installed") \in [from : Versions, to : Versions,
                                      result : Results]
      BY <1>1 DEF Result, Results
    <2>2. DaemonType' /\ DownInv' /\ DiskType'
      BY <1>1, <1>14, <2>1, StillDaemon DEF RecordInstalled, Quietly, DiskType
    <2> QED
      BY <1>0, <1>14, <2>2, BaseMoves
      DEF RecordInstalled, Quietly, daemon, Working, Handing
  <1>15. CASE Leave(j)
    <2>1. Me(j) \in Procs
      BY <1>0, AtWork
    <2>2. DiskType'
      BY <1>1, <1>15 DEF Leave, DiskType
    <2>3. JobsOf(Me(j)) = {k \in Jobs : own[k] \in {Me(j)}}
      BY DEF JobsOf
    <2>4. killed' \in BOOLEAN /\ overlap' = overlap
      BY <1>15 DEF Leave, UpdateBase, TypeOK
    <2> QED  BY <1>15, <2>1, <2>2, <2>3, <2>4, BaseTurnover DEF Leave
  <1> QED
    BY <1>3, <1>4, <1>5, <1>6, <1>7, <1>8, <1>9, <1>10, <1>11, <1>12, <1>13,
       <1>14, <1>15 DEF Swaps

LEMMA BaseRollback ==
    ASSUME UpdateBase, NEW j \in Jobs, RollsBack(j)
    PROVE  UpdateBase'
  <1>0. pc[j] \in Fetched /\ pc[j] \in Working
    BY DEF RollsBack, Undo, OpenBackup, CopyBack, UndoFails, RecordRolledBack,
       RespawnFails, Respawn, Fetched, Working
  <1>1. /\ DiskType /\ Old(j) \in Versions /\ New(j) \in Versions
        /\ got[j] \in Codes
    BY <1>0, BaseFiles
  <1>2. ASSUME NEW l \in Working, Moves(j, l), l \notin Handing, DiskType',
               Quietly
        PROVE  UpdateBase'
    BY <1>0, <1>2, StillDaemon, BaseMoves DEF Quietly, daemon
  <1>3. CASE Undo(j)
    BY <1>1, <1>2, <1>3 DEF Undo, ThenCopy, DiskType, Working, Handing
  <1>4. CASE OpenBackup(j)
    <2>1. /\ backup[Old(j)] \in File
          /\ backup[Old(j)].ver \in Versions /\ backup[Old(j)].code \in Codes
      BY <1>1, <1>4 DEF OpenBackup, DiskType, File
    <2>2. Part(backup[Old(j)].ver, backup[Old(j)].code, j) \in File
      BY <2>1, PartIs
    <2>3. DiskType'
      BY <1>1, <1>4, <2>2 DEF OpenBackup, DiskType
    <2> QED  BY <1>2, <1>4, <2>3 DEF OpenBackup, Working, Handing
  <1>5. CASE CopyBack(j)
    <2> DEFINE w == backup[Old(j)] = Nil \/ Whole(backup[Old(j)])
    <2>1. FinishCopy(j, w) /\ w \in BOOLEAN
      BY <1>1, <1>5 DEF CopyBack, Whole, File, DiskType
    <2> HIDE DEF w
    <2>2. DiskType'
      BY <1>1, <1>5, <2>1, FinishCopyIs DEF CopyBack, DiskType
    <2> QED  BY <1>2, <1>5, <2>2 DEF CopyBack, Working, Handing
  <1>6. CASE UndoFails(j)
    <2>1. Result(j, "failed") \in [from : Versions, to : Versions,
                                   result : Results]
      BY <1>1 DEF Result, Results
    <2>2. DiskType'
      BY <1>1, <1>6, <2>1 DEF UndoFails, DiskType
    <2> QED  BY <1>0, <1>6, <2>2, BaseFail DEF UndoFails
  <1>7. CASE RecordRolledBack(j)
    <2>1. Result(j, "rolled_back") \in [from : Versions, to : Versions,
                                        result : Results]
      BY <1>1 DEF Result, Results
    <2>2. DiskType'
      BY <1>1, <1>7, <2>1 DEF RecordRolledBack, DiskType
    <2>3. DaemonType' /\ DownInv'
      BY <1>0, <1>7, StatusIs DEF RecordRolledBack, States, Settled
    <2> QED
      BY <1>0, <1>7, <2>2, <2>3, BaseMoves
      DEF RecordRolledBack, Working, Handing
  <1>8. CASE RespawnFails(j)
    BY <1>0, <1>1, <1>8, BaseFail DEF RespawnFails, DiskType, disk
  <1>9. ASSUME NEW q \in Procs, Respawn(j, q)  PROVE UpdateBase'
    <2>1. Me(j) \in Procs
      BY <1>0, AtWork
    <2>2. DiskType'
      BY <1>1, <1>9 DEF Respawn, DiskType, disk
    <2>3. JobsOf(Me(j)) = {k \in Jobs : own[k] \in {Me(j)}}
      BY DEF JobsOf
    <2>4. killed' \in BOOLEAN /\ overlap' = overlap
      BY <1>9 DEF Respawn, UpdateBase, TypeOK
    <2> QED  BY <1>9, <2>1, <2>2, <2>3, <2>4, BaseTurnover DEF Respawn
  <1> QED
    BY <1>3, <1>4, <1>5, <1>6, <1>7, <1>8, <1>9 DEF RollsBack

LEMMA BaseAround ==
    ASSUME UpdateBase,
           \/ \E p \in Procs : \/ MainReturns(p) \/ Crash(p) \/ Work(p)
                               \/ UserStarts(p)
           \/ UserRepairs
    PROVE  UpdateBase'
  <1>1. ASSUME NEW p \in Procs, MainReturns(p) \/ Crash(p)  PROVE UpdateBase'
    <2>1. DiskType'
      BY <1>1, TypeParts DEF MainReturns, Crash, Ends, DiskType, disk, UpdateBase
    <2>2. JobsOf(p) = {k \in Jobs : own[k] \in {p}}
      BY DEF JobsOf
    <2>3. killed' \in BOOLEAN /\ overlap' = overlap
      BY <1>1 DEF MainReturns, Crash, Ends, UpdateBase, TypeOK
    <2> QED
      BY <1>1, <2>1, <2>2, <2>3, BaseTurnover DEF MainReturns, Crash, Ends
  <1>2. ASSUME NEW p \in Procs, Work(p)  PROVE UpdateBase'
    <2>1. DaemonType' /\ DownInv'
      BY <1>2, TypeParts DEF Work, DaemonType, DownInv, Up, UpdateBase
    <2>2. TypeOK'
      BY <1>2, <2>1, TypePartsNext, TypeParts
      DEF Work, DiskType, JobType, PastType, disk, job, UpdateBase
    <2>3. JobInv'
      BY <1>2 DEF Work, UpdateBase, JobInv, New, Old, Up, job
    <2> QED  BY <2>1, <2>2, <2>3 DEF UpdateBase
  <1>3. ASSUME NEW q \in Procs, UserStarts(q)  PROVE UpdateBase'
    <2>1. /\ DaemonType' /\ DownInv' /\ mismatch' = mismatch
          /\ \A p \in Procs : Up(p) => proc'[p] = "up" /\ ver'[p] = ver[p]
      BY <1>3, BaseStarts DEF UserStarts
    <2>2. TypeOK'
      BY <1>3, <2>1, TypePartsNext, TypeParts
      DEF UserStarts, DiskType, JobType, PastType, disk, job, UpdateBase
    <2>3. JobInv'
      <3>1. \A k \in Jobs : pc[k] \in Working \cup {"take"} => own[k] \in Procs
        BY DEF UpdateBase, JobInv, Asking
      <3> QED  BY <1>3, <2>1, <3>1
               DEF UserStarts, UpdateBase, JobInv, New, Old, Up, job
    <2> QED  BY <2>1, <2>2, <2>3 DEF UpdateBase
  <1>4. CASE UserRepairs
    <2>1. DaemonType' /\ DownInv'
      BY <1>4, StillDaemon DEF UserRepairs
    <2>2. DiskType'
      <3>1. Program(Base, "ours") \in File
        BY ProgramIs, UpdateAssumption DEF Codes
      <3> QED  BY <1>4, <3>1, TypeParts DEF UserRepairs, DiskType, UpdateBase
    <2>3. TypeOK'
      BY <1>4, <2>1, <2>2, TypePartsNext, TypeParts
      DEF UserRepairs, JobType, PastType, job, UpdateBase
    <2>4. JobInv'
      BY <1>4 DEF UserRepairs, UpdateBase, JobInv, New, Old, Up, job, daemon
    <2> QED  BY <2>1, <2>3, <2>4 DEF UpdateBase
  <1> QED  BY <1>1, <1>2, <1>3, <1>4

LEMMA BaseInit == Init => UpdateBase
  <1> SUFFICES ASSUME Init  PROVE UpdateBase
    OBVIOUS
  <1>1. Program(Base, "ours") \in File
    BY ProgramIs, UpdateAssumption DEF Codes
  <1>2. proc \in [Procs -> {"up", "down"}]
    BY DEF Init
  <1>3. TypeOK
    BY <1>1, <1>2, UpdateAssumption DEF Init, TypeOK, States, Settled
  <1>4. JobInv
    BY Labels, UpdateAssumption DEF Init, JobInv, Asking
  <1>5. DownInv
    BY DEF Init, DownInv
  <1> QED  BY <1>3, <1>4, <1>5 DEF UpdateBase

LEMMA BaseNext == UpdateBase /\ [Next]_vars => UpdateBase'
  <1> SUFFICES ASSUME UpdateBase, [Next]_vars  PROVE UpdateBase'
    OBVIOUS
  <1>1. CASE UNCHANGED vars
    BY <1>1 DEF vars, disk, daemon, job, UpdateBase, TypeOK, JobInv, DownInv,
       New, Old, Up
  <1>2. CASE Next
    BY <1>2, BaseApply, BasePrepare, BaseSwap, BaseRollback, BaseAround DEF Next
  <1> QED  BY <1>1, <1>2

LEMMA BaseAlways == Spec => []UpdateBase
  <1>1. Init => UpdateBase  BY BaseInit
  <1>2. UpdateBase /\ [Next]_vars => UpdateBase'  BY BaseNext
  <1> QED  BY <1>1, <1>2, PTL DEF Spec

(***************************************************************************)
(* Every variable of the updater, of its jobs and of the disk keeps its    *)
(* type.                                                                   *)
(***************************************************************************)
THEOREM UpdateTypeCorrect == Spec => []TypeOK
  <1>1. UpdateBase => TypeOK  BY DEF UpdateBase
  <1> QED  BY <1>1, BaseAlways, PTL

-----------------------------------------------------------------------------
(* What is on the disk is ours.                                            *)

Ours(f) == f # Nil => f.code = "ours"

LEMMA OnlyOursIs ==
    OnlyOurs <=> Ours(exe) /\ \A v \in Versions : Ours(backup[v]) /\ Ours(staged[v])
  BY DEF OnlyOurs, Ours

LEMMA OnlyOursNextIs ==
    OnlyOurs' <=> /\ Ours(exe')
                  /\ \A v \in Versions : Ours(backup'[v]) /\ Ours(staged'[v])
  BY DEF OnlyOurs, Ours

\* The steps that put a file somewhere: from the download, from the staged
\* file, from a backup, or back from there.
LEMMA OursPrepare ==
    ASSUME UpdateBase, OnlyOurs, NEW j \in Jobs, Prepares(j) \/ KeepWaiting(j)
    PROVE  OnlyOurs'
  <1>0. pc[j] \in Working
    BY DEF Prepares, KeepWaiting, Wait, GiveUpWaiting, StepFails, Download,
       Store, SmokeTest, Quiesce, Working
  <1>1. New(j) \in Versions /\ DiskType
    BY <1>0, BaseFiles
  <1>2. CASE \E c \in Codes : Download(j, c)
    <2>1. PICK c \in Codes : Download(j, c)
      BY <1>2
    <2>2. CASE VerifyBytes(c, man[j])
      <3>1. c = "ours"
        BY <1>0, <2>2 DEF VerifyBytes, UpdateBase, JobInv
      <3>2. Ours(Part(New(j), c, j))
        BY <1>1, <3>1, PartIs DEF Ours
      <3> QED
        BY <1>1, <2>1, <2>2, <3>2, OnlyOursIs, OnlyOursNextIs
        DEF Download, DiskType
    <2>3. CASE ~VerifyBytes(c, man[j])
      BY <2>1, <2>3, OnlyOursIs, OnlyOursNextIs DEF Download
    <2> QED  BY <2>2, <2>3
  <1>3. CASE Store(j)
    <2>1. pc[j] \in Fetched /\ got[j] = "ours" /\ got[j] \in Codes
      BY <1>3 DEF Store, UpdateBase, JobInv, Fetched, Working, Codes
    <2>2. Ours(Program(New(j), got[j]))
      BY <1>1, <2>1, ProgramIs DEF Ours
    <2> QED
      BY <1>1, <1>3, <2>2, OnlyOursIs, OnlyOursNextIs DEF Store, DiskType
  <1>4. CASE UNCHANGED disk
    BY <1>4, OnlyOursIs, OnlyOursNextIs DEF disk
  <1> QED
    BY <1>2, <1>3, <1>4 DEF Prepares, KeepWaiting, Wait, GiveUpWaiting,
       StepFails, SmokeTest, Quiesce

LEMMA OursFinish ==
    ASSUME DiskType, OnlyOurs, NEW j \in Jobs, NEW w \in BOOLEAN,
           FinishCopy(j, w), UNCHANGED staged
    PROVE  OnlyOurs'
  <1>1. Ours(Finish(exe, j, w))
    BY FinishIs, OnlyOursIs DEF DiskType, Ours
  <1>2. \A v \in Versions : Ours(Finish(backup[v], j, w))
    <2> SUFFICES ASSUME NEW v \in Versions
                 PROVE  Ours(Finish(backup[v], j, w))
      OBVIOUS
    <2>1. backup[v] \in File \cup {Nil} /\ Ours(backup[v])
      BY OnlyOursIs DEF DiskType
    <2> QED  BY <2>1, FinishIs DEF Ours
  <1> QED  BY <1>1, <1>2, FinishCopyIs, OnlyOursIs, OnlyOursNextIs

LEMMA OursSwap ==
    ASSUME UpdateBase, OnlyOurs, NEW j \in Jobs, Swaps(j) \/ RollsBack(j)
    PROVE  OnlyOurs'
  <1>0. pc[j] \in Fetched /\ pc[j] \in Working
    BY DEF Swaps, RemoveBackup, Rename, RenameFails, OpenCopy, Copy, CopyFails,
       PutBack, Spawn, SpawnFails, TookOver, ChildDied, RecordInstalled, Leave,
       RollsBack, Undo, OpenBackup, CopyBack, UndoFails, RecordRolledBack,
       RespawnFails, Respawn, Fetched, Working
  <1>1. /\ DiskType /\ Old(j) \in Versions /\ New(j) \in Versions
        /\ got[j] = "ours" /\ got[j] \in Codes
    BY <1>0, BaseFiles DEF UpdateBase, JobInv
  <1> USE DEF DiskType
  <1>2. CASE RemoveBackup(j) \/ Rename(j) \/ PutBack(j) \/ Leave(j) \/ Undo(j)
    BY <1>1, <1>2, OnlyOursIs, OnlyOursNextIs
    DEF RemoveBackup, Rename, KeepBackup, PutBack, Leave, Undo, Ours
  <1>3. CASE OpenCopy(j)
    <2>1. Ours(Part(New(j), got[j], j))
      BY <1>1, PartIs DEF Ours
    <2> QED  BY <1>3, <2>1, OnlyOursIs, OnlyOursNextIs DEF OpenCopy
  <1>4. CASE OpenBackup(j)
    <2>1. /\ backup[Old(j)] # Nil /\ backup[Old(j)].code = "ours"
          /\ backup[Old(j)].ver \in Versions
      BY <1>1, <1>4, OnlyOursIs DEF OpenBackup, Ours, File
    <2>2. Ours(Part(backup[Old(j)].ver, backup[Old(j)].code, j))
      BY <2>1, PartIs DEF Ours, Codes
    <2> QED  BY <1>4, <2>2, OnlyOursIs, OnlyOursNextIs DEF OpenBackup
  <1>5. CASE Copy(j)
    <2>1. (staged[New(j)] = Nil \/ Whole(staged[New(j)])) \in BOOLEAN
      BY <1>1 DEF Whole, File
    <2> QED  BY <1>1, <1>5, <2>1, OursFinish DEF Copy
  <1>6. CASE CopyBack(j)
    <2>1. (backup[Old(j)] = Nil \/ Whole(backup[Old(j)])) \in BOOLEAN
      BY <1>1 DEF Whole, File
    <2> QED  BY <1>1, <1>6, <2>1, OursFinish DEF CopyBack
  <1>7. CASE UNCHANGED <<exe, backup, staged>>
    BY <1>7, OnlyOursIs, OnlyOursNextIs
  <1> QED
    BY <1>2, <1>3, <1>4, <1>5, <1>6, <1>7 DEF Swaps, RenameFails, CopyFails,
       Spawn, SpawnFails, TookOver, ChildDied, RecordInstalled, RollsBack,
       UndoFails, RecordRolledBack, RespawnFails, Respawn, disk

LEMMA OursAround ==
    ASSUME UpdateBase, OnlyOurs,
           \/ \E j \in Jobs : Applies(j)
           \/ \E p \in Procs : \/ MainReturns(p) \/ Crash(p) \/ Work(p)
                               \/ UserStarts(p)
           \/ UserRepairs
    PROVE  OnlyOurs'
  <1>1. CASE UserRepairs
    <2>1. Ours(Program(Base, "ours"))
      BY ProgramIs, UpdateAssumption DEF Ours, Codes
    <2> QED
      BY <1>1, <2>1, OnlyOursIs, OnlyOursNextIs, TypeParts
      DEF UserRepairs, UpdateBase, DiskType, Ours
  <1>2. CASE UNCHANGED disk
    BY <1>2, OnlyOursIs, OnlyOursNextIs DEF disk
  <1> QED
    BY <1>1, <1>2 DEF Applies, Ask, FetchFails, Fetch, Answer, Take,
       MainReturns, Crash, Ends, Work, UserStarts

LEMMA OursNext == UpdateBase /\ OnlyOurs /\ [Next]_vars => OnlyOurs'
  <1> SUFFICES ASSUME UpdateBase, OnlyOurs, [Next]_vars  PROVE OnlyOurs'
    OBVIOUS
  <1>1. CASE UNCHANGED vars
    BY <1>1, OnlyOursIs, OnlyOursNextIs DEF vars, disk
  <1>2. CASE Next
    BY <1>2, OursPrepare, OursSwap, OursAround DEF Next
  <1> QED  BY <1>1, <1>2

(***************************************************************************)
(* Nothing but code we signed is ever in place, kept or staged, whatever   *)
(* the server answers to either request, however updates overlap and       *)
(* wherever they stop (VerifyManifest, VerifyBytes, swapIn, rollback).     *)
(***************************************************************************)
THEOREM OnlyOurCode == Spec => []OnlyOurs
  <1>1. Init => OnlyOurs
    <2>1. Ours(Program(Base, "ours"))
      BY ProgramIs, UpdateAssumption DEF Ours, Codes
    <2> QED  BY <2>1, OnlyOursIs DEF Init, Ours
  <1>2. UpdateBase /\ OnlyOurs /\ [Next]_vars => OnlyOurs'  BY OursNext
  <1> QED  BY <1>1, <1>2, BaseAlways, PTL DEF Spec

-----------------------------------------------------------------------------
(* While no two updates overlap, one job works at a time.                  *)

\* Steps after the process was told to be quiet, and those of them at which
\* the old program is under the backup's name.
Late  == Working \ {"wait", "download", "store", "smoke", "quiesce"}
Moved == Late \ {"unlink", "rename"}

(***************************************************************************)
(* A job at work is the only one at work and the only one of its process;  *)
(* a process that has such a job believes so, and is quiet from the swap   *)
(* on; two processes are up only while one hands over to the other; and a  *)
(* process without a job shows no step of one.                             *)
(***************************************************************************)
OneJob == \A j, k \in Jobs :
    pc[j] \in Working /\ k # j => pc[k] \notin Working /\ own[k] # own[j]

RunningInv == \A p \in Procs :
    running[p] <=> \E j \in Jobs : pc[j] \in Working /\ own[j] = p

QuietInv == \A j \in Jobs :
    pc[j] \in Asking \cup Working => (quiet[own[j]] <=> pc[j] \in Late)

PairInv == \A p, q \in Procs :
    Up(p) /\ Up(q) /\ p # q =>
        \E j \in Jobs : /\ pc[j] \in Handing
                        /\ \/ p = own[j] /\ q = child[j]
                           \/ q = own[j] /\ p = child[j]

RestInv == \A p \in Procs :
    Up(p) /\ p \notin mismatch /\ (\A j \in Jobs : own[j] # p) =>
        state[p] \in Settled

Alone == OneJob /\ RunningInv /\ QuietInv /\ PairInv /\ RestInv

LEMMA AloneNextIs ==
    Alone' <=>
      /\ \A j, k \in Jobs : pc'[j] \in Working /\ k # j =>
            pc'[k] \notin Working /\ own'[k] # own'[j]
      /\ \A p \in Procs :
            running'[p] <=> \E j \in Jobs : pc'[j] \in Working /\ own'[j] = p
      /\ \A j \in Jobs : pc'[j] \in Asking \cup Working =>
            (quiet'[own'[j]] <=> pc'[j] \in Late)
      /\ \A p, q \in Procs : proc'[p] = "up" /\ proc'[q] = "up" /\ p # q =>
            \E j \in Jobs : /\ pc'[j] \in Handing
                            /\ \/ p = own'[j] /\ q = child'[j]
                               \/ q = own'[j] /\ p = child'[j]
      /\ \A p \in Procs :
            /\ proc'[p] = "up"
            /\ p \notin mismatch'
            /\ \A j \in Jobs : own'[j] # p
            => state'[p] \in Settled
  BY DEF Alone, OneJob, RunningInv, QuietInv, PairInv, RestInv, Up

\* The job at work goes one step on; only its process may notice.
LEMMA AloneMoves ==
    ASSUME UpdateBase, Alone, NEW j \in Jobs, NEW l \in Working,
           pc[j] \in Working, Moves(j, l), UNCHANGED <<proc, running>>,
           pc[j] \in Handing => l \in Handing,
           quiet'[own[j]] <=> l \in Late,
           \A p \in Procs : p # own[j] => /\ quiet'[p] = quiet[p]
                                          /\ state'[p] = state[p]
    PROVE  Alone'
  <1>1. \A k \in Jobs : pc'[k] = IF k = j THEN l ELSE pc[k]
    BY DEF Moves, Goto, UpdateBase, TypeOK
  <1>2. own[j] \in Procs /\ UNCHANGED <<own, child, mismatch>>
    BY AtWork DEF Me, Moves
  <1>3. \A k \in Jobs : pc[k] \in Asking \cup Working => own[k] \in Procs
    BY DEF UpdateBase, JobInv
  <1>4. \A k \in Jobs : pc'[k] \in Asking \cup Working =>
           (quiet'[own[k]] <=> pc'[k] \in Late)
    BY <1>1, <1>3 DEF Alone, OneJob, QuietInv
  <1>5. \A p, q \in Procs : proc[p] = "up" /\ proc[q] = "up" /\ p # q =>
            \E k \in Jobs : /\ pc'[k] \in Handing
                            /\ \/ p = own[k] /\ q = child[k]
                               \/ q = own[k] /\ p = child[k]
    BY <1>1 DEF Alone, PairInv, Up
  <1>6. \A k, i \in Jobs : pc'[k] \in Working /\ i # k =>
            pc'[i] \notin Working /\ own[i] # own[k]
    BY <1>1 DEF Alone, OneJob
  <1>7. \A p \in Procs :
            running[p] <=> \E k \in Jobs : pc'[k] \in Working /\ own[k] = p
    BY <1>1 DEF Alone, RunningInv
  <1>8. \A p \in Procs :
            /\ proc[p] = "up"
            /\ p \notin mismatch
            /\ \A k \in Jobs : own[k] # p
            => state'[p] \in Settled
    BY DEF Alone, RestInv, Up
  <1> QED  BY <1>2, <1>4, <1>5, <1>6, <1>7, <1>8, AloneNextIs

\* The job at work is over, with an error.
LEMMA AloneFail ==
    ASSUME UpdateBase, Alone, NEW j \in Jobs, pc[j] \in Working \ Handing,
           Fail(j)
    PROVE  Alone'
  <1>1. own[j] \in Procs /\ UNCHANGED <<proc, quiet, mismatch>>
    BY AtWork DEF Me, Fail
  <1>2. /\ \A p \in Procs : running'[p] = (running[p] /\ p # own[j])
        /\ \A p \in Procs : state'[p] = IF p = own[j] THEN "failed" ELSE state[p]
    BY <1>1 DEF Fail, ClearRunning, SetState, Me, UpdateBase, TypeOK
  <1>3. /\ pc'[j] = "done" /\ own'[j] = Nil
        /\ \A k \in Jobs : k # j => /\ pc'[k] = pc[k] /\ own'[k] = own[k]
                                    /\ child'[k] = child[k]
    BY EndJobsIs DEF Fail, UpdateBase
  <1>4. Nil \notin Procs /\ "done" \notin Asking \cup Working
    BY UpdateAssumption, Labels
  <1>5. \A k \in Jobs : pc[k] \in Asking \cup Working => own[k] \in Procs
    BY DEF UpdateBase, JobInv
  <1>6. \A k, i \in Jobs : pc'[k] \in Working /\ i # k =>
            pc'[i] \notin Working /\ own'[i] # own'[k]
    BY <1>3, <1>4, <1>5 DEF Alone, OneJob
  <1>7. \A p \in Procs :
            running'[p] <=> \E k \in Jobs : pc'[k] \in Working /\ own'[k] = p
    <2> SUFFICES ASSUME NEW p \in Procs
                 PROVE  running'[p] <=>
                          \E k \in Jobs : pc'[k] \in Working /\ own'[k] = p
      OBVIOUS
    <2>1. \A k \in Jobs : pc'[k] \in Working /\ own'[k] = p <=>
                            k # j /\ pc[k] \in Working /\ own[k] = p
      BY <1>3, <1>4
    <2>2. CASE p = own[j]
      BY <1>2, <2>1, <2>2 DEF Alone, OneJob
    <2>3. CASE p # own[j]
      BY <1>2, <2>1, <2>3 DEF Alone, RunningInv
    <2> QED  BY <2>2, <2>3
  <1>8. \A k \in Jobs : pc'[k] \in Asking \cup Working =>
            (quiet[own'[k]] <=> pc'[k] \in Late)
    BY <1>3, <1>4 DEF Alone, QuietInv
  <1>9. \A p, q \in Procs : proc[p] = "up" /\ proc[q] = "up" /\ p # q =>
            \E k \in Jobs : /\ pc'[k] \in Handing
                            /\ \/ p = own'[k] /\ q = child'[k]
                               \/ q = own'[k] /\ p = child'[k]
    BY <1>3 DEF Alone, PairInv, Up
  <1>10. \A p \in Procs :
            /\ proc[p] = "up"
            /\ p \notin mismatch
            /\ \A k \in Jobs : own'[k] # p
            => state'[p] \in Settled
    BY <1>2, <1>3 DEF Alone, RestInv, Up, Settled
  <1> QED  BY <1>1, <1>6, <1>7, <1>8, <1>9, <1>10, AloneNextIs

\* An Apply ends with an answer.
LEMMA AloneAnswer ==
    ASSUME UpdateBase, Alone, NEW j \in Jobs, pc[j] \in Asking,
           NEW s \in States, Answer(j, s), mismatch \subseteq mismatch',
           s \in Settled \/ Me(j) \in mismatch'
    PROVE  Alone'
  <1>1. own[j] \in Procs /\ UNCHANGED <<proc, quiet, running>>
    BY AtWork DEF Me, Answer
  <1>2. \A p \in Procs : state'[p] = IF p = own[j] THEN s ELSE state[p]
    BY <1>1 DEF Answer, SetState, Me, UpdateBase, TypeOK
  <1>3. /\ pc'[j] = "done" /\ own'[j] = Nil
        /\ \A k \in Jobs : k # j => /\ pc'[k] = pc[k] /\ own'[k] = own[k]
                                    /\ child'[k] = child[k]
    BY EndJobsIs DEF Answer, UpdateBase
  <1>4. Nil \notin Procs /\ "done" \notin Asking \cup Working
        /\ pc[j] \notin Working /\ pc[j] \notin Handing
    BY UpdateAssumption, Labels
  <1>5. \A k \in Jobs : pc[k] \in Asking \cup Working => own[k] \in Procs
    BY DEF UpdateBase, JobInv
  <1>6. \A k, i \in Jobs : pc'[k] \in Working /\ i # k =>
            pc'[i] \notin Working /\ own'[i] # own'[k]
    BY <1>3, <1>4, <1>5 DEF Alone, OneJob
  <1>7. \A p \in Procs :
            running[p] <=> \E k \in Jobs : pc'[k] \in Working /\ own'[k] = p
    BY <1>3, <1>4 DEF Alone, RunningInv
  <1>8. \A k \in Jobs : pc'[k] \in Asking \cup Working =>
            (quiet[own'[k]] <=> pc'[k] \in Late)
    BY <1>3, <1>4 DEF Alone, QuietInv
  <1>9. \A p, q \in Procs : proc[p] = "up" /\ proc[q] = "up" /\ p # q =>
            \E k \in Jobs : /\ pc'[k] \in Handing
                            /\ \/ p = own'[k] /\ q = child'[k]
                               \/ q = own'[k] /\ p = child'[k]
    BY <1>3, <1>4 DEF Alone, PairInv, Up
  <1>10. \A p \in Procs :
            /\ proc[p] = "up"
            /\ p \notin mismatch'
            /\ \A k \in Jobs : own'[k] # p
            => state'[p] \in Settled
    BY <1>2, <1>3 DEF Alone, RestInv, Up, Me
  <1> QED  BY <1>1, <1>6, <1>7, <1>8, <1>9, <1>10, AloneNextIs

\* What a turnover does, for the values the invariant is about.
LEMMA AliveIs ==
    ASSUME UpdateBase, NEW gone \in SUBSET Procs, NEW q \in Procs \cup {Nil},
           Turnover(gone, q)
    PROVE  \A p \in Procs :
             /\ proc'[p] = "up" <=> p = q \/ (Up(p) /\ p \notin gone)
             /\ p \in gone => ~quiet'[p] /\ ~running'[p]
             /\ p \notin gone => /\ quiet'[p] = quiet[p]
                                 /\ running'[p] = running[p]
                                 /\ state'[p] = state[p]
                                 /\ p \in mismatch' <=> p \in mismatch
             /\ p = q => /\ ~Up(p) /\ ~quiet[p] /\ ~running[p]
                         /\ state'[p] = "idle"
  <1>1. /\ mismatch' = mismatch \ gone
        /\ \A p \in Procs :
             /\ proc'[p] = "up" <=> p = q \/ (Up(p) /\ p \notin gone)
             /\ p = q => ver'[p] = exe.ver
             /\ p # q /\ p \notin gone => ver'[p] = ver[p]
             /\ busy'[p] = (busy[p] /\ p \notin gone)
             /\ quiet'[p] = (quiet[p] /\ p \notin gone)
             /\ running'[p] = (running[p] /\ p \notin gone)
             /\ state'[p] = IF p \in gone THEN "idle" ELSE state[p]
    BY TurnoverIs DEF UpdateBase
  <1>2. q \in Procs => ~Up(q)
    BY UpdateAssumption DEF Turnover, Free
  <1>3. \A p \in Procs : quiet[p] \in BOOLEAN /\ running[p] \in BOOLEAN
    BY DEF UpdateBase, TypeOK
  <1> QED  BY <1>1, <1>2, <1>3 DEF UpdateBase, DownInv

\* A process ends with its jobs; if one starts, no other is left.
LEMMA AloneTurnover ==
    ASSUME UpdateBase, Alone, NEW o \in Procs, NEW q \in Procs \cup {Nil},
           Turnover({o}, q), EndJobs(JobsOf(o)),
           q # Nil => \A p \in Procs : Up(p) => p = o
    PROVE  Alone'
  <1> DEFINE gone == {o}
  <1>1. gone \in SUBSET Procs /\ Turnover(gone, q)
        /\ \A p \in Procs : p \in gone <=> p = o
    OBVIOUS
  <1> HIDE DEF gone
  <1>2. \A p \in Procs :
          /\ proc'[p] = "up" <=> p = q \/ (Up(p) /\ p \notin gone)
          /\ p \in gone => ~quiet'[p] /\ ~running'[p]
          /\ p \notin gone => /\ quiet'[p] = quiet[p]
                              /\ running'[p] = running[p]
                              /\ state'[p] = state[p]
                              /\ p \in mismatch' <=> p \in mismatch
          /\ p = q => /\ ~Up(p) /\ ~quiet[p] /\ ~running[p]
                      /\ state'[p] = "idle"
    BY <1>1, AliveIs
  <1>3. /\ \A k \in Jobs \cap JobsOf(o) : pc'[k] = "done" /\ own'[k] = Nil
        /\ \A k \in Jobs \ JobsOf(o) : /\ pc'[k] = pc[k] /\ own'[k] = own[k]
                                       /\ child'[k] = child[k]
    BY EndJobsIs DEF UpdateBase
  <1>4. /\ Nil \notin Procs
        /\ "done" \notin Asking \cup Working /\ "done" \notin Handing
        /\ \A k \in Jobs : k \in JobsOf(o) <=> own[k] = o
    BY UpdateAssumption, Labels DEF JobsOf
  <1>5. \A k \in Jobs : pc[k] \in Asking \cup Working => own[k] \in Procs
    BY DEF UpdateBase, JobInv
  <1>6. \A k, i \in Jobs : pc'[k] \in Working /\ i # k =>
            pc'[i] \notin Working /\ own'[i] # own'[k]
    BY <1>3, <1>4, <1>5 DEF Alone, OneJob
  <1>7. \A p \in Procs :
            running'[p] <=> \E k \in Jobs : pc'[k] \in Working /\ own'[k] = p
    <2> SUFFICES ASSUME NEW p \in Procs
                 PROVE  running'[p] <=>
                          \E k \in Jobs : pc'[k] \in Working /\ own'[k] = p
      OBVIOUS
    <2>1. \A k \in Jobs : pc'[k] \in Working /\ own'[k] = p <=>
                            p # o /\ pc[k] \in Working /\ own[k] = p
      BY <1>3, <1>4
    <2>2. running'[p] <=> running[p] /\ p # o
      BY <1>1, <1>2
    <2> QED  BY <2>1, <2>2 DEF Alone, RunningInv
  <1>8. \A k \in Jobs : pc'[k] \in Asking \cup Working =>
            (quiet'[own'[k]] <=> pc'[k] \in Late)
    BY <1>1, <1>2, <1>3, <1>4, <1>5 DEF Alone, QuietInv
  <1>9. \A p, r \in Procs : proc'[p] = "up" /\ proc'[r] = "up" /\ p # r =>
            \E k \in Jobs : /\ pc'[k] \in Handing
                            /\ \/ p = own'[k] /\ r = child'[k]
                               \/ r = own'[k] /\ p = child'[k]
    <2> SUFFICES ASSUME NEW p \in Procs, NEW r \in Procs, proc'[p] = "up",
                        proc'[r] = "up", p # r
                 PROVE  \E k \in Jobs : /\ pc'[k] \in Handing
                                        /\ \/ p = own'[k] /\ r = child'[k]
                                           \/ r = own'[k] /\ p = child'[k]
      OBVIOUS
    <2>1. q = Nil /\ p # q /\ r # q
      BY <1>1, <1>2, <1>4
    <2>2. Up(p) /\ Up(r) /\ p # o /\ r # o
      BY <1>1, <1>2, <2>1
    <2>3. PICK k \in Jobs : /\ pc[k] \in Handing
                            /\ \/ p = own[k] /\ r = child[k]
                               \/ r = own[k] /\ p = child[k]
      BY <2>2 DEF Alone, PairInv
    <2>4. own[k] # o
      BY <2>2, <2>3
    <2> QED  BY <1>3, <1>4, <2>3, <2>4
  <1>10. \A p \in Procs :
            /\ proc'[p] = "up"
            /\ p \notin mismatch'
            /\ \A k \in Jobs : own'[k] # p
            => state'[p] \in Settled
    BY <1>1, <1>2, <1>3, <1>4 DEF Alone, RestInv, Settled
  <1> QED  BY <1>6, <1>7, <1>8, <1>9, <1>10, AloneNextIs

\* The child starts; it is the only process besides that of the job.
LEMMA AloneSpawn ==
    ASSUME UpdateBase, Alone, NEW j \in Jobs, NEW q \in Procs, Spawn(j, q)
    PROVE  Alone'
  <1> DEFINE gone == {}
  <1>1. gone \in SUBSET Procs /\ Turnover(gone, q)
        /\ \A p \in Procs : p \notin gone
    BY DEF Spawn
  <1> HIDE DEF gone
  <1>2. \A p \in Procs :
          /\ proc'[p] = "up" <=> p = q \/ (Up(p) /\ p \notin gone)
          /\ p \in gone => ~quiet'[p] /\ ~running'[p]
          /\ p \notin gone => /\ quiet'[p] = quiet[p]
                              /\ running'[p] = running[p]
                              /\ state'[p] = state[p]
                              /\ p \in mismatch' <=> p \in mismatch
          /\ p = q => /\ ~Up(p) /\ ~quiet[p] /\ ~running[p]
                      /\ state'[p] = "idle"
    BY <1>1, AliveIs
  <1>3. /\ pc[j] = "spawn" /\ own' = own
        /\ \A k \in Jobs : /\ pc'[k] = IF k = j THEN "handover" ELSE pc[k]
                           /\ child'[k] = IF k = j THEN q ELSE child[k]
    BY DEF Spawn, Goto, UpdateBase, TypeOK
  <1>4. /\ "spawn" \in Late /\ "handover" \in Late
        /\ "spawn" \in Working /\ "handover" \in Working
        /\ "spawn" \notin Handing /\ "handover" \in Handing
        /\ Handing \subseteq Working
    BY Labels DEF Late, Working, Handing
  <1>5. /\ \A k \in Jobs : pc[k] \in Asking \cup Working => own[k] \in Procs
        /\ Up(own[j])
    BY <1>3, <1>4 DEF UpdateBase, JobInv
  <1>6. \A k, i \in Jobs : pc'[k] \in Working /\ i # k =>
            pc'[i] \notin Working /\ own'[i] # own'[k]
    BY <1>3, <1>4 DEF Alone, OneJob
  <1>7. \A p \in Procs :
            running'[p] <=> \E k \in Jobs : pc'[k] \in Working /\ own'[k] = p
    <2>1. \A k \in Jobs : pc'[k] \in Working <=> pc[k] \in Working
      BY <1>3, <1>4
    <2> QED  BY <1>1, <1>2, <1>3, <2>1 DEF Alone, RunningInv
  <1>8. \A k \in Jobs : pc'[k] \in Asking \cup Working =>
            (quiet'[own'[k]] <=> pc'[k] \in Late)
    BY <1>1, <1>2, <1>3, <1>4, <1>5 DEF Alone, QuietInv
  <1>9. \A p, r \in Procs : Up(p) /\ Up(r) => p = r
    BY <1>3, <1>4 DEF Alone, OneJob, PairInv
  <1>10. \A p, r \in Procs : proc'[p] = "up" /\ proc'[r] = "up" /\ p # r =>
            \E k \in Jobs : /\ pc'[k] \in Handing
                            /\ \/ p = own'[k] /\ r = child'[k]
                               \/ r = own'[k] /\ p = child'[k]
    <2>1. \A p \in Procs : proc'[p] = "up" <=> p = q \/ p = own[j]
      BY <1>1, <1>2, <1>3, <1>4, <1>5, <1>9
    <2> QED  BY <1>3, <1>4, <2>1
  <1>11. \A p \in Procs :
            /\ proc'[p] = "up"
            /\ p \notin mismatch'
            /\ \A k \in Jobs : own'[k] # p
            => state'[p] \in Settled
    BY <1>1, <1>2, <1>3 DEF Alone, RestInv, Settled
  <1> QED  BY <1>6, <1>7, <1>8, <1>10, <1>11, AloneNextIs

LEMMA AloneChildDied ==
    ASSUME UpdateBase, Alone, NEW j \in Jobs, ChildDied(j)
    PROVE  Alone'
  <1>1. /\ pc[j] = "handover" /\ ~Up(child[j])
        /\ UNCHANGED <<own, proc, quiet, running, state, mismatch>>
        /\ \A k \in Jobs : /\ pc'[k] = IF k = j THEN "undo" ELSE pc[k]
                           /\ child'[k] = IF k = j THEN Nil ELSE child[k]
    BY DEF ChildDied, Goto, UpdateBase, TypeOK, daemon
  <1>2. /\ "undo" \in Late /\ "handover" \in Late
        /\ "undo" \in Working /\ "handover" \in Working
        /\ Handing \subseteq Working
    BY Labels DEF Late, Working
  <1>3. \A k \in Jobs : pc'[k] \in Working <=> pc[k] \in Working
    BY <1>1, <1>2
  <1>4. \A p, r \in Procs : Up(p) /\ Up(r) => p = r
    BY <1>1, <1>2 DEF Alone, OneJob, PairInv
  <1>5. /\ \A k, i \in Jobs : pc'[k] \in Working /\ i # k =>
            pc'[i] \notin Working /\ own[i] # own[k]
        /\ \A p \in Procs :
            running[p] <=> \E k \in Jobs : pc'[k] \in Working /\ own[k] = p
    BY <1>3 DEF Alone, OneJob, RunningInv
  <1>6. \A k \in Jobs : pc'[k] \in Asking \cup Working =>
            (quiet[own[k]] <=> pc'[k] \in Late)
    BY <1>1, <1>2 DEF Alone, QuietInv
  <1> QED  BY <1>1, <1>4, <1>5, <1>6, AloneNextIs DEF Up, Alone, RestInv

LEMMA AloneApply ==
    ASSUME UpdateBase, Alone, NEW j \in Jobs, Applies(j), ~overlap'
    PROVE  Alone'
  <1>0. /\ \A k \in Jobs : pc[k] \in Asking \cup Working <=> own[k] \in Procs
        /\ Nil \notin Procs
    BY UpdateAssumption DEF UpdateBase, JobInv
  <1>1. ASSUME NEW p \in Procs, Ask(j, p)  PROVE Alone'
    <2>1. /\ pc[j] = "idle" /\ own[j] \notin Procs
          /\ UNCHANGED <<proc, quiet, running, child>>
      BY <1>0, <1>1, Labels DEF Ask
    <2>2. CASE running[p]
      <3>1. /\ \A k \in Jobs : pc'[k] = IF k = j THEN "done" ELSE pc[k]
            /\ UNCHANGED <<own, state, mismatch>>
        BY <1>1, <2>2 DEF Ask, Goto, UpdateBase, TypeOK
      <3>2. /\ \A k \in Jobs : pc'[k] \in Working <=> pc[k] \in Working
            /\ \A k \in Jobs : pc'[k] \in Asking \cup Working =>
                                 pc'[k] = pc[k]
            /\ \A k \in Jobs : pc[k] \in Handing => pc'[k] \in Handing
        BY <2>1, <3>1, Labels
      <3> QED
        BY <2>1, <3>1, <3>2, AloneNextIs
        DEF Alone, OneJob, RunningInv, QuietInv, PairInv, RestInv, Up
    <2>3. CASE ~running[p]
      <3>1. /\ \A k \in Jobs : /\ pc'[k] = IF k = j THEN "fetch" ELSE pc[k]
                               /\ own'[k] = IF k = j THEN p ELSE own[k]
            /\ \A r \in Procs : r # p => state'[r] = state[r]
            /\ mismatch' = mismatch \ {p} /\ ~quiet[p]
        BY <1>1, <2>3 DEF Ask, Goto, UpdateBase, TypeOK
      <3>2. /\ "fetch" \notin Working /\ "fetch" \notin Late
            /\ \A k \in Jobs : pc'[k] \in Working <=> pc[k] \in Working
            /\ \A k \in Jobs : pc[k] \in Handing => pc'[k] \in Handing /\ k # j
        BY <2>1, <3>1, Labels DEF Working, Late
      <3>3. \A k \in Jobs : pc[k] \in Working => own[k] # p
        BY <2>3 DEF Alone, RunningInv
      <3>4. \A k, i \in Jobs : pc'[k] \in Working /\ i # k =>
                pc'[i] \notin Working /\ own'[i] # own'[k]
        BY <2>1, <3>1, <3>2, <3>3, Labels DEF Alone, OneJob
      <3>5. \A r \in Procs :
              running[r] <=> \E k \in Jobs : pc'[k] \in Working /\ own'[k] = r
        <4>1. \A k \in Jobs : pc'[k] \in Working =>
                                pc[k] \in Working /\ own'[k] = own[k]
          BY <2>1, <3>1, <3>2, Labels
        <4>2. \A k \in Jobs : pc[k] \in Working =>
                                pc'[k] \in Working /\ own'[k] = own[k]
          BY <2>1, <3>1, <3>2, Labels
        <4> QED  BY <4>1, <4>2 DEF Alone, RunningInv
      <3>6. \A k \in Jobs : pc'[k] \in Asking \cup Working =>
                (quiet[own'[k]] <=> pc'[k] \in Late)
        BY <3>1, <3>2 DEF Alone, QuietInv
      <3>7. \A r, q \in Procs : proc[r] = "up" /\ proc[q] = "up" /\ r # q =>
                \E k \in Jobs : /\ pc'[k] \in Handing
                                /\ \/ r = own'[k] /\ q = child[k]
                                   \/ q = own'[k] /\ r = child[k]
        BY <3>1, <3>2 DEF Alone, PairInv, Up
      <3>8. \A r \in Procs :
              /\ proc[r] = "up"
              /\ r \notin mismatch'
              /\ \A k \in Jobs : own'[k] # r
              => state'[r] \in Settled
        BY <2>1, <3>1 DEF Alone, RestInv, Up
      <3> QED  BY <2>1, <3>4, <3>5, <3>6, <3>7, <3>8, AloneNextIs
    <2> QED  BY <2>2, <2>3
  <1>2. CASE FetchFails(j)
    BY <1>2, AloneAnswer DEF FetchFails, Asking, States, Settled
  <1>3. ASSUME NEW t \in Tokens, NEW want \in Versions \cup {Nil},
               Fetch(j, t, want)
        PROVE  Alone'
    <2>1. pc[j] = "fetch" /\ pc[j] \in Asking
      BY <1>3 DEF Fetch, Asking
    <2>2. Me(j) \in Procs /\ state[Me(j)] \in States
      BY <2>1, AtWork DEF UpdateBase, TypeOK
    <2>3. CASE \/ Answer(j, "failed") /\ UNCHANGED mismatch
               \/ Answer(j, "up_to_date") /\ UNCHANGED mismatch
      BY <2>1, <2>3, AloneAnswer DEF States, Settled
    <2>4. CASE Answer(j, state[Me(j)]) /\ mismatch' = mismatch \cup {Me(j)}
      BY <2>1, <2>2, <2>4, AloneAnswer
    <2>5. CASE Goto(j, "take") /\ UNCHANGED <<daemon, own, child, mismatch>>
      <3>1. \A k \in Jobs : pc'[k] = IF k = j THEN "take" ELSE pc[k]
        BY <2>5 DEF Goto, UpdateBase, TypeOK
      <3>2. "take" \in Asking /\ "take" \notin Late /\ "take" \notin Working
        BY DEF Asking, Late, Working
      <3>3. /\ \A k \in Jobs : pc'[k] \in Working <=> pc[k] \in Working
            /\ \A k \in Jobs : pc[k] \in Handing => pc'[k] \in Handing
            /\ pc[j] \notin Late
        BY <2>1, <3>1, <3>2, Labels DEF Late, Working
      <3>4. \A k \in Jobs : pc'[k] \in Asking \cup Working =>
                (quiet[own[k]] <=> pc'[k] \in Late)
        BY <2>1, <3>1, <3>2, <3>3 DEF Alone, QuietInv
      <3> QED
        BY <2>5, <3>3, <3>4, AloneNextIs
        DEF Alone, OneJob, RunningInv, PairInv, RestInv, Up, daemon
    <2> QED  BY <1>3, <2>3, <2>4, <2>5 DEF Fetch
  <1>4. CASE Take(j)
    <2>1. pc[j] = "take" /\ UNCHANGED <<own, child, proc, quiet, mismatch>>
      BY <1>4 DEF Take
    <2>2. /\ "take" \in Asking /\ "take" \notin Late /\ "take" \notin Working
          /\ "wait" \notin Late /\ "wait" \in Working
      BY DEF Asking, Late, Working
    <2>3. own[j] \in Procs
      BY <1>0, <2>1, <2>2
    <2>4. /\ \A k \in Jobs : pc'[k] = IF k = j THEN "wait" ELSE pc[k]
          /\ \A p \in Procs : running'[p] <=> p = own[j] \/ running[p]
          /\ \A p \in Procs : p # own[j] => state'[p] = state[p]
      BY <1>4, <2>3 DEF Take, Goto, SetState, Me, UpdateBase, TypeOK
    <2>5. \A k \in Jobs : /\ pc[k] \notin Working
                          /\ k # j => own[k] # own[j]
      <3>1. Active = {} /\ ~\E k \in JobsOf(Me(j)) \ {j} : pc[k] \in Asking
        BY <1>4 DEF Take
      <3> QED  BY <1>0, <2>3, <3>1 DEF Active, JobsOf, Me
    <2>6. \A k \in Jobs : pc[k] \notin Handing
      BY <2>5, Labels
    <2>7. \A p \in Procs :
            running'[p] <=> \E k \in Jobs : pc'[k] \in Working /\ own[k] = p
      BY <2>2, <2>4, <2>5 DEF Alone, RunningInv
    <2>8. \A k \in Jobs : pc'[k] \in Asking \cup Working =>
            (quiet[own[k]] <=> pc'[k] \in Late)
      BY <2>1, <2>2, <2>4 DEF Alone, QuietInv
    <2>9. \A p \in Procs :
            /\ proc[p] = "up"
            /\ p \notin mismatch
            /\ \A k \in Jobs : own[k] # p
            => state'[p] \in Settled
      BY <2>4 DEF Alone, RestInv, Up
    <2>10. \A k, i \in Jobs : pc'[k] \in Working /\ i # k =>
                pc'[i] \notin Working /\ own[i] # own[k]
      BY <2>2, <2>4, <2>5
    <2>11. \A p, q \in Procs : proc[p] = "up" /\ proc[q] = "up" => p = q
      BY <2>6 DEF Alone, PairInv, Up
    <2> QED  BY <2>1, <2>7, <2>8, <2>9, <2>10, <2>11, AloneNextIs
  <1> QED  BY <1>1, <1>2, <1>3, <1>4 DEF Applies

LEMMA AlonePrepare ==
    ASSUME UpdateBase, Alone, NEW j \in Jobs, Prepares(j) \/ KeepWaiting(j)
    PROVE  Alone'
  <1>0. pc[j] \in Working \ (Late \cup Handing)
    BY DEF Prepares, KeepWaiting, Wait, GiveUpWaiting, StepFails, Download,
       Store, SmokeTest, Quiesce, Working, Late, Handing
  <1>1. own[j] \in Procs /\ ~quiet[own[j]]
    BY <1>0, AtWork DEF Me, Alone, QuietInv
  <1>2. ASSUME Fail(j)  PROVE Alone'
    BY <1>0, <1>2, AloneFail
  <1>3. ASSUME NEW l \in Working \ (Late \cup Handing), Moves(j, l),
               UNCHANGED <<proc, running, quiet>>,
               UNCHANGED state \/ \E s \in States : SetState(j, s)
        PROVE  Alone'
    <2>1. \A p \in Procs : p # own[j] => state'[p] = state[p]
      BY <1>3 DEF SetState, Me, UpdateBase, TypeOK
    <2> QED  BY <1>0, <1>1, <1>3, <2>1, AloneMoves
  <1>4. CASE Wait(j)
    BY <1>3, <1>4 DEF Wait, daemon, Working, Late, Handing
  <1>5. CASE Store(j)
    BY <1>3, <1>5 DEF Store, States, Working, Late, Handing
  <1>6. CASE SmokeTest(j)
    BY <1>2, <1>3, <1>6 DEF SmokeTest, Quietly, daemon, Working, Late, Handing
  <1>7. CASE \E c \in Codes : Download(j, c)
    <2>1. PICK c \in Codes : Download(j, c)
      BY <1>7
    <2>2. CASE VerifyBytes(c, man[j])
      <3>1. /\ Goto(j, "store") /\ SetState(j, "verifying")
            /\ UNCHANGED <<proc, quiet, running, own, child, mismatch>>
        BY <2>1, <2>2 DEF Download
      <3>2. /\ \A k \in Jobs : pc'[k] = IF k = j THEN "store" ELSE pc[k]
            /\ \A p \in Procs : p # own[j] => state'[p] = state[p]
        BY <3>1 DEF Goto, SetState, Me, UpdateBase, TypeOK
      <3>3. /\ "store" \in Working /\ "store" \notin Late
            /\ \A k \in Jobs : pc'[k] \in Working <=> pc[k] \in Working
            /\ \A k \in Jobs : pc[k] \in Handing => pc'[k] \in Handing
        BY <1>0, <3>2 DEF Working, Late
      <3>4. \A k \in Jobs : pc'[k] \in Asking \cup Working =>
                (quiet[own[k]] <=> pc'[k] \in Late)
        BY <1>0, <1>1, <3>2, <3>3 DEF Alone, QuietInv
      <3>5. \A p \in Procs :
              /\ proc[p] = "up"
              /\ p \notin mismatch
              /\ \A k \in Jobs : own[k] # p
              => state'[p] \in Settled
        BY <3>2 DEF Alone, RestInv, Up
      <3> QED
        BY <3>1, <3>3, <3>4, <3>5, AloneNextIs
        DEF Alone, OneJob, RunningInv, PairInv, Up
    <2>3. CASE ~VerifyBytes(c, man[j])
      BY <1>2, <2>1, <2>3 DEF Download
    <2> QED  BY <2>2, <2>3
  <1>8. CASE Quiesce(j)
    <2>1. /\ "unlink" \in Working /\ "unlink" \in Late
          /\ Moves(j, "unlink") /\ UNCHANGED <<proc, running, state>>
      BY <1>8 DEF Quiesce, Working, Late
    <2>2. quiet'[own[j]] /\ \A p \in Procs : p # own[j] => quiet'[p] = quiet[p]
      BY <1>1, <1>8 DEF Quiesce, Me, UpdateBase, TypeOK
    <2> QED  BY <1>0, <2>1, <2>2, AloneMoves
  <1>9. CASE KeepWaiting(j)
    <2>1. /\ UNCHANGED <<pc, own, child, proc, running, quiet, mismatch>>
          /\ \A p \in Procs : p # own[j] => state'[p] = state[p]
      BY <1>9 DEF KeepWaiting, job, SetState, Me, UpdateBase, TypeOK
    <2> QED
      BY <2>1, AloneNextIs
      DEF Alone, OneJob, RunningInv, QuietInv, PairInv, RestInv, Up
  <1> QED
    BY <1>2, <1>4, <1>5, <1>6, <1>7, <1>8, <1>9 DEF Prepares, GiveUpWaiting,
       StepFails

\* A job that is at work and does not hand over has the only process.
LEMMA OnlyProcess ==
    ASSUME UpdateBase, Alone, NEW j \in Jobs, pc[j] \in Working \ Handing
    PROVE  /\ Me(j) \in Procs /\ Up(Me(j))
           /\ \A p \in Procs : Up(p) => p = Me(j)
  <1>1. Me(j) \in Procs /\ Up(Me(j))
    BY AtWork
  <1>2. \A k \in Jobs : pc[k] \notin Handing
    BY Labels DEF Alone, OneJob
  <1> QED  BY <1>1, <1>2 DEF Alone, PairInv

LEMMA AloneSwap ==
    ASSUME UpdateBase, Alone, NEW j \in Jobs, Swaps(j) \/ RollsBack(j)
    PROVE  Alone'
  <1>0. pc[j] \in Late
    BY DEF Swaps, RemoveBackup, Rename, RenameFails, OpenCopy, Copy, CopyFails,
       PutBack, Spawn, SpawnFails, TookOver, ChildDied, RecordInstalled, Leave,
       RollsBack, Undo, OpenBackup, CopyBack, UndoFails, RecordRolledBack,
       RespawnFails, Respawn, Late, Working
  <1>1. pc[j] \in Working /\ own[j] \in Procs /\ quiet[own[j]]
    BY <1>0, AtWork DEF Me, Late, Alone, QuietInv
  <1>2. ASSUME Fail(j), pc[j] \notin Handing  PROVE Alone'
    BY <1>1, <1>2, AloneFail
  <1>3. ASSUME NEW l \in Late, Moves(j, l), pc[j] \in Handing => l \in Handing,
               UNCHANGED <<proc, running, quiet>>,
               UNCHANGED state \/ \E s \in States : SetState(j, s)
        PROVE  Alone'
    <2>1. \A p \in Procs : p # own[j] => state'[p] = state[p]
      BY <1>3 DEF SetState, Me, UpdateBase, TypeOK
    <2> QED  BY <1>1, <1>3, <2>1, AloneMoves DEF Late
  <1>4. CASE RemoveBackup(j)
    BY <1>3, <1>4
    DEF RemoveBackup, Quietly, daemon, Working, Late, Handing
  <1>5. CASE Rename(j)
    BY <1>3, <1>5 DEF Rename, Quietly, daemon, Working, Late, Handing
  <1>6. CASE RenameFails(j)
    BY <1>2, <1>6 DEF RenameFails, Handing
  <1>7. CASE OpenCopy(j)
    BY <1>3, <1>7 DEF OpenCopy, Quietly, daemon, Working, Late, Handing
  <1>8. CASE Copy(j)
    BY <1>3, <1>8 DEF Copy, States, Working, Late, Handing
  <1>9. CASE CopyFails(j)
    BY <1>3, <1>9 DEF CopyFails, Quietly, daemon, Working, Late, Handing
  <1>10. CASE PutBack(j)
    BY <1>2, <1>10 DEF PutBack, Handing
  <1>11. CASE \E q \in Procs : Spawn(j, q)
    BY <1>11, AloneSpawn
  <1>12. CASE SpawnFails(j)
    BY <1>3, <1>12 DEF SpawnFails, Quietly, daemon, Working, Late, Handing
  <1>13. CASE TookOver(j)
    BY <1>3, <1>13 DEF TookOver, Quietly, daemon, Working, Late, Handing
  <1>14. CASE ChildDied(j)
    BY <1>14, AloneChildDied
  <1>15. CASE RecordInstalled(j)
    BY <1>3, <1>15 DEF RecordInstalled, Quietly, daemon, Working, Late, Handing
  <1>16. CASE Leave(j)
    BY <1>1, <1>16, AloneTurnover DEF Leave, Me
  <1>17. CASE Undo(j)
    BY <1>3, <1>17 DEF Undo, ThenCopy, Quietly, daemon, Working, Late, Handing
  <1>18. CASE OpenBackup(j)
    BY <1>3, <1>18 DEF OpenBackup, Quietly, daemon, Working, Late, Handing
  <1>19. CASE CopyBack(j)
    BY <1>3, <1>19 DEF CopyBack, Quietly, daemon, Working, Late, Handing
  <1>20. CASE UndoFails(j)
    BY <1>2, <1>20 DEF UndoFails, Handing
  <1>21. CASE RecordRolledBack(j)
    BY <1>3, <1>21 DEF RecordRolledBack, States, Settled, Working, Late, Handing
  <1>22. CASE RespawnFails(j)
    BY <1>2, <1>22 DEF RespawnFails, Handing
  <1>23. CASE \E q \in Procs : Respawn(j, q)
    <2>1. PICK q \in Procs : Respawn(j, q)
      BY <1>23
    <2>2. pc[j] \notin Handing
      BY <2>1 DEF Respawn, Handing
    <2>3. \A p \in Procs : Up(p) => p = Me(j)
      BY <1>1, <2>2, OnlyProcess
    <2> QED  BY <1>1, <2>1, <2>3, AloneTurnover DEF Respawn, Me
  <1> QED
    BY <1>4, <1>5, <1>6, <1>7, <1>8, <1>9, <1>10, <1>11, <1>12, <1>13, <1>14,
       <1>15, <1>16, <1>17, <1>18, <1>19, <1>20, <1>21, <1>22, <1>23
    DEF Swaps, RollsBack

LEMMA AloneAround ==
    ASSUME UpdateBase, Alone,
           \/ \E p \in Procs : \/ MainReturns(p) \/ Crash(p) \/ Work(p)
                               \/ UserStarts(p)
           \/ UserRepairs
    PROVE  Alone'
  <1>1. ASSUME NEW p \in Procs, MainReturns(p) \/ Crash(p)  PROVE Alone'
    BY <1>1, AloneTurnover DEF MainReturns, Crash, Ends
  <1>2. CASE UNCHANGED <<pc, own, child, proc, quiet, running, state, mismatch>>
    BY <1>2, AloneNextIs
    DEF Alone, OneJob, RunningInv, QuietInv, PairInv, RestInv, Up
  <1>3. ASSUME NEW q \in Procs, UserStarts(q)  PROVE Alone'
    <2> DEFINE gone == {}
    <2>1. gone \in SUBSET Procs /\ Turnover(gone, q)
          /\ \A p \in Procs : p \notin gone
      BY <1>3 DEF UserStarts
    <2> HIDE DEF gone
    <2>2. \A p \in Procs :
            /\ proc'[p] = "up" <=> p = q \/ (Up(p) /\ p \notin gone)
            /\ p \in gone => ~quiet'[p] /\ ~running'[p]
            /\ p \notin gone => /\ quiet'[p] = quiet[p]
                                /\ running'[p] = running[p]
                                /\ state'[p] = state[p]
                                /\ p \in mismatch' <=> p \in mismatch
            /\ p = q => /\ ~Up(p) /\ ~quiet[p] /\ ~running[p]
                        /\ state'[p] = "idle"
      BY <2>1, AliveIs
    <2>3. /\ \A p \in Procs : ~Up(p) /\ ~running[p]
          /\ UNCHANGED <<pc, own, child>>
      BY <1>3 DEF UserStarts, job, UpdateBase, DownInv
    <2>4. \A k \in Jobs : pc[k] \notin Asking \cup Working /\ own[k] \notin Procs
      BY <2>3 DEF UpdateBase, JobInv
    <2> QED  BY <2>1, <2>2, <2>3, <2>4, AloneNextIs DEF Settled
  <1> QED
    BY <1>1, <1>2, <1>3 DEF Work, UserRepairs, job, daemon

\* That updates overlapped is not forgotten.
LEMMA OverlapGrows == ASSUME [Next]_vars, overlap  PROVE overlap'
  <1>1. ASSUME NEW j \in Jobs, Applies(j)  PROVE overlap'
    BY <1>1 DEF Applies, Ask, FetchFails, Fetch, Answer, Take
  <1>2. ASSUME NEW j \in Jobs, Prepares(j) \/ KeepWaiting(j)
        PROVE  overlap' = overlap
    BY <1>2 DEF Prepares, KeepWaiting, Wait, GiveUpWaiting, StepFails,
       Download, Store, SmokeTest, Quiesce, Moves, Fail
  <1>3. ASSUME NEW j \in Jobs, Swaps(j)  PROVE overlap' = overlap
    BY <1>3 DEF Swaps, RemoveBackup, Rename, RenameFails, OpenCopy, Copy,
       CopyFails, PutBack, Spawn, SpawnFails, TookOver, ChildDied,
       RecordInstalled, Leave, Moves, Fail
  <1>4. ASSUME NEW j \in Jobs, RollsBack(j)  PROVE overlap' = overlap
    BY <1>4 DEF RollsBack, Undo, ThenCopy, OpenBackup, CopyBack, UndoFails,
       RecordRolledBack, RespawnFails, Respawn, Moves, Fail
  <1>5. CASE \/ \E p \in Procs : \/ MainReturns(p) \/ Crash(p) \/ Work(p)
                                 \/ UserStarts(p)
             \/ UserRepairs
    BY <1>5 DEF MainReturns, Crash, Ends, Work, UserStarts, UserRepairs
  <1> QED  BY <1>1, <1>2, <1>3, <1>4, <1>5 DEF vars, Next

LEMMA AloneNext ==
    UpdateBase /\ (overlap \/ Alone) /\ [Next]_vars => overlap' \/ Alone'
  <1> SUFFICES ASSUME UpdateBase, overlap \/ Alone, [Next]_vars, ~overlap'
               PROVE  Alone'
    OBVIOUS
  <1>1. CASE UNCHANGED vars
    BY <1>1, AloneNextIs DEF vars, daemon, job,
       Alone, OneJob, RunningInv, QuietInv, PairInv, RestInv, Up
  <1>2. CASE Next
    <2>1. ~overlap
      BY <1>2, OverlapGrows
    <2> QED
      BY <1>2, <2>1, AloneApply, AlonePrepare, AloneSwap, AloneAround DEF Next
  <1> QED  BY <1>1, <1>2

LEMMA AloneAlways == Spec => [](overlap \/ Alone)
  <1>1. Init => Alone
    <2> SUFFICES ASSUME Init  PROVE Alone
      OBVIOUS
    <2>1. /\ \A k \in Jobs : /\ pc[k] \notin Asking \cup Working
                             /\ pc[k] \notin Handing
          /\ \A p \in Procs : ~running[p] /\ state[p] \in Settled
          /\ \A p, q \in Procs : Up(p) /\ Up(q) => p = q
      BY Labels DEF Init, Settled, Up
    <2> QED
      BY <2>1 DEF Alone, OneJob, RunningInv, QuietInv, PairInv, RestInv
  <1>2. UpdateBase /\ (overlap \/ Alone) /\ [Next]_vars => (overlap \/ Alone)'
    BY AloneNext
  <1> QED  BY <1>1, <1>2, BaseAlways, PTL DEF Spec

(***************************************************************************)
(* While no two updates overlap, a process believes it is updating exactly *)
(* while one of its jobs is, whichever way that job ends (the defer of     *)
(* PerformUpdate, fail, Exit), and a process without a job shows no step   *)
(* of one.                                                                 *)
(***************************************************************************)
THEOREM StatusTellsTheTruth == Spec => []StatusIsHonest
  <1>1. UpdateBase /\ (overlap \/ Alone) => StatusIsHonest
    <2> SUFFICES ASSUME UpdateBase, Alone, NEW p \in Procs
                 PROVE  /\ running[p] = (JobsOf(p) \cap Active # {})
                        /\ Up(p) /\ p \notin mismatch /\ JobsOf(p) = {} =>
                               state[p] \in Settled
      BY DEF StatusIsHonest
    <2>1. running[p] \in BOOLEAN
      BY DEF UpdateBase, TypeOK
    <2>2. running[p] <=> JobsOf(p) \cap Active # {}
      BY DEF Alone, RunningInv, JobsOf, Active
    <2>3. Up(p) /\ p \notin mismatch /\ JobsOf(p) = {} => state[p] \in Settled
      BY DEF Alone, RestInv, JobsOf
    <2> QED  BY <2>1, <2>2, <2>3
  <1> QED  BY <1>1, BaseAlways, AloneAlways, PTL

-----------------------------------------------------------------------------
(* While no two updates overlap, the disk is what the steps left there.    *)

Is(e, v)     == Whole(e) /\ e.ver = v
Kept(b)      == \E v \in Versions : Whole(b[v]) /\ b[v].ver \notin Duds
Newest(v, b) == \A w \in Versions : Whole(b[w]) => Rank(v) >= Rank(w)

\* A backup is complete and under its own name, a program that lives is in
\* place or kept, and no kept one is newer than the one in place.
Files(e, b) ==
    /\ \A v \in Versions : b[v] # Nil => Is(b[v], v)
    /\ (Whole(e) /\ e.ver \notin Duds) \/ Kept(b)
    /\ Whole(e) => Newest(e.ver, b)

\* What job j of a process of version o that installs n finds at label l.
Phase(l, j, o, n, e, b, s) ==
    /\ l \in {"unlink", "rename", "rerecord", "respawn"} => Is(e, o)
    /\ l \in {"spawn", "handover", "record", "leave"} => Is(e, n)
    /\ l \in {"smoke", "quiesce", "unlink", "rename", "open", "copy"} =>
           Whole(s[n])
    /\ l = "copy" => e # Nil /\ e.by = j /\ e.ver = n
    /\ l = "recopy" => e # Nil /\ e.by = j /\ e.ver = o
    /\ l \in Moved => Is(b[o], o) /\ Kept(b) /\ Newest(o, b)

(***************************************************************************)
(* The files are in order, a process that was not told to be quiet runs    *)
(* the program in place, and the job at work finds what its step needs.    *)
(***************************************************************************)
DiskInv ==
    /\ Files(exe, backup)
    /\ \A p \in Procs : Up(p) /\ ~quiet[p] => Is(exe, ver[p])
    /\ \A j \in Jobs : pc[j] \in Working =>
           Phase(pc[j], j, Old(j), New(j), exe, backup, staged)

LEMMA DiskNextIs ==
    DiskInv' <=>
      /\ Files(exe', backup')
      /\ \A p \in Procs : proc'[p] = "up" /\ ~quiet'[p] => Is(exe', ver'[p])
      /\ \A j \in Jobs : pc'[j] \in Working =>
           Phase(pc'[j], j, ver'[own'[j]], man'[j].ver, exe', backup', staged')
  BY DEF DiskInv, Up, Old, New, Files, Phase, Is, Kept, Newest

\* The rank of a version is the order of CompareVersions.
LEMMA RankIs ==
    ASSUME NEW a \in Versions, NEW b \in Versions
    PROVE  /\ Rank(a) \in Nat
           /\ IsNewerVersion(a, b) => Rank(a) > Rank(b)
  <1>1. /\ a.core \in Nat /\ a.pre \in 0..8
        /\ b.core \in Nat /\ b.pre \in 0..8
    BY UpdateAssumption
  <1> QED  BY <1>1 DEF Rank, IsNewerVersion

LEMMA NewestUp ==
    ASSUME NEW n \in Versions, NEW o \in Versions, NEW b,
           IsNewerVersion(n, o), Newest(o, b)
    PROVE  Newest(n, b)
  <1> SUFFICES ASSUME NEW w \in Versions, Whole(b[w])
               PROVE  Rank(n) >= Rank(w)
    BY DEF Newest
  <1>1. Rank(o) >= Rank(w)
    BY DEF Newest
  <1>2. Rank(n) > Rank(o) /\ Rank(n) \in Nat /\ Rank(o) \in Nat
        /\ Rank(w) \in Nat
    BY RankIs
  <1> HIDE DEF Rank
  <1> QED  BY <1>1, <1>2

LEMMA NilIsNotWhole == ~Whole(Nil)
  BY DEF Whole

\* The job at work goes on.
LEMMA DiskMoves ==
    ASSUME UpdateBase, Alone, DiskInv, NEW j \in Jobs, NEW l \in Working,
           pc[j] \in Working, Goto(j, l), UNCHANGED <<own, man, proc, ver>>,
           \A p \in Procs : quiet[p] => quiet'[p],
           Files(exe', backup'),
           exe' = exe \/ pc[j] \in Late \ Handing,
           Phase(l, j, Old(j), New(j), exe', backup', staged')
    PROVE  DiskInv'
  <1>1. \A k \in Jobs : pc'[k] = IF k = j THEN l ELSE pc[k]
    BY DEF Goto, UpdateBase, TypeOK
  <1>2. \A k \in Jobs : pc'[k] \in Working => k = j
    BY <1>1 DEF Alone, OneJob
  <1>3. \A k \in Jobs : pc'[k] \in Working =>
          Phase(pc'[k], k, ver'[own'[k]], man'[k].ver, exe', backup', staged')
    BY <1>1, <1>2 DEF Old, New
  <1>4. \A p \in Procs : proc'[p] = "up" /\ ~quiet'[p] => Is(exe', ver'[p])
    <2>1. CASE exe' = exe
      BY <2>1 DEF DiskInv, Up
    <2>2. CASE pc[j] \in Late \ Handing
      <3>1. \A p \in Procs : Up(p) => quiet[p]
        BY <2>2, OnlyProcess DEF Late, Alone, QuietInv, Me
      <3> QED  BY <3>1 DEF Up
    <2> QED  BY <2>1, <2>2
  <1> QED  BY <1>3, <1>4, DiskNextIs

\* The job at work is over.
LEMMA DiskOver ==
    ASSUME UpdateBase, Alone, DiskInv, NEW j \in Jobs, pc[j] \in Working,
           Fail(j), Files(exe', backup'),
           exe' = exe \/ pc[j] \in Late \ Handing
    PROVE  DiskInv'
  <1>1. /\ pc'[j] = "done"
        /\ \A k \in Jobs : k # j => pc'[k] = pc[k]
    BY EndJobsIs DEF Fail, UpdateBase
  <1>2. \A k \in Jobs : pc'[k] \notin Working
    BY <1>1, Labels DEF Alone, OneJob
  <1>3. \A p \in Procs : proc'[p] = "up" /\ ~quiet'[p] => Is(exe', ver'[p])
    <2>1. UNCHANGED <<proc, quiet, ver>>
      BY DEF Fail
    <2>2. CASE exe' = exe
      BY <2>1, <2>2 DEF DiskInv, Up
    <2>3. CASE pc[j] \in Late \ Handing
      <3>1. \A p \in Procs : Up(p) => quiet[p]
        BY <2>3, OnlyProcess DEF Late, Alone, QuietInv, Me
      <3> QED  BY <2>1, <3>1 DEF Up
    <2> QED  BY <2>2, <2>3
  <1> QED  BY <1>2, <1>3, DiskNextIs

\* Processes come and go; the job at work, if one is left, is still there.
LEMMA DiskTurnover ==
    ASSUME UpdateBase, DiskInv, NEW gone \in SUBSET Procs,
           NEW q \in Procs \cup {Nil}, Turnover(gone, q),
           UNCHANGED <<exe, backup>>,
           staged' = staged \/ \A k \in Jobs : pc'[k] \notin Working,
           \A k \in Jobs : pc'[k] \in Working =>
               /\ pc[k] \in Working /\ own[k] \notin gone
               /\ own'[k] = own[k] /\ man'[k] = man[k]
               /\ \/ pc'[k] = pc[k]
                  \/ pc[k] = "spawn" /\ pc'[k] = "handover"
    PROVE  DiskInv'
  <1>1. \A p \in Procs :
          /\ proc'[p] = "up" <=> p = q \/ (Up(p) /\ p \notin gone)
          /\ p = q => ver'[p] = exe.ver
          /\ p # q /\ p \notin gone => ver'[p] = ver[p]
    BY TurnoverIs DEF UpdateBase
  <1>2. \A p \in Procs : p \notin gone => quiet'[p] = quiet[p]
    BY AliveIs
  <1>3. q \in Procs => ~Up(q) /\ Whole(exe)
    BY UpdateAssumption DEF Turnover, Free
  <1>4. \A p \in Procs : proc'[p] = "up" /\ ~quiet'[p] => Is(exe', ver'[p])
    BY <1>1, <1>2, <1>3 DEF DiskInv, Is
  <1>5. \A k \in Jobs : pc'[k] \in Working =>
          Phase(pc'[k], k, ver'[own'[k]], man'[k].ver, exe', backup', staged')
    <2> SUFFICES ASSUME NEW k \in Jobs, pc'[k] \in Working
                 PROVE  Phase(pc'[k], k, ver'[own'[k]], man'[k].ver, exe',
                              backup', staged')
      OBVIOUS
    <2>1. own[k] \in Procs /\ Up(own[k])
      BY DEF UpdateBase, JobInv
    <2>2. ver'[own'[k]] = Old(k) /\ man'[k].ver = New(k)
      BY <1>1, <1>3, <2>1 DEF Old, New
    <2>3. Phase(pc[k], k, Old(k), New(k), exe, backup, staged)
      BY DEF DiskInv
    <2>4. Phase(pc'[k], k, Old(k), New(k), exe, backup, staged)
      BY <2>3 DEF Phase, Moved, Late, Working
    <2> QED  BY <2>2, <2>4
  <1> QED  BY <1>4, <1>5, DiskNextIs DEF DiskInv

\* An Apply does not touch the disk, and the job it starts expects nothing.
LEMMA DiskApply ==
    ASSUME UpdateBase, Alone, DiskInv, NEW j \in Jobs, Applies(j), ~overlap'
    PROVE  DiskInv'
  <1>1. UNCHANGED <<exe, backup, staged, proc, ver, quiet>>
    BY DEF Applies, Ask, FetchFails, Fetch, Answer, Take, disk, daemon
  <1>2. \A k \in Jobs : pc'[k] \in Working =>
           \/ pc'[k] = "wait"
           \/ pc[k] = pc'[k] /\ own'[k] = own[k] /\ man'[k] = man[k]
    <2>1. ASSUME NEW J, EndJobs(J)
          PROVE  \A k \in Jobs : pc'[k] \in Working =>
                   pc[k] = pc'[k] /\ own'[k] = own[k] /\ man'[k] = man[k]
      BY <2>1, EndJobsIs, Labels DEF UpdateBase
    <2>2. /\ "done" \notin Working /\ "fetch" \notin Working
          /\ "take" \notin Working
      BY Labels DEF Working
    <2>3. pc \in [Jobs -> {"idle", "done"} \cup Asking \cup Working]
          /\ own \in [Jobs -> Procs \cup {Nil}]
          /\ man \in [Jobs -> Tokens \cup {Nil}]
      BY DEF UpdateBase, TypeOK
    <2>4. CASE \E p \in Procs : Ask(j, p)
      BY <2>2, <2>3, <2>4 DEF Ask, Goto
    <2>5. CASE Take(j)
      BY <2>3, <2>5 DEF Take, Goto
    <2>6. CASE \E s : Answer(j, s)
      BY <2>1, <2>6 DEF Answer
    <2>7. CASE \E t : Goto(j, "take") /\ man' = [man EXCEPT ![j] = t]
                      /\ own' = own
      BY <2>2, <2>3, <2>7 DEF Goto
    <2> QED  BY <2>4, <2>5, <2>6, <2>7 DEF Applies, FetchFails, Fetch
  <1>3. \A k \in Jobs : pc'[k] \in Working =>
          Phase(pc'[k], k, ver'[own'[k]], man'[k].ver, exe', backup', staged')
    BY <1>1, <1>2 DEF DiskInv, Old, New, Phase, Moved, Late, Working
  <1> QED  BY <1>1, <1>3, DiskNextIs DEF DiskInv, Up

LEMMA DiskPrepare ==
    ASSUME UpdateBase, Alone, DiskInv, NEW j \in Jobs,
           Prepares(j) \/ KeepWaiting(j)
    PROVE  DiskInv'
  <1>0. pc[j] \in Working \ (Late \cup Handing)
    BY DEF Prepares, KeepWaiting, Wait, GiveUpWaiting, StepFails, Download,
       Store, SmokeTest, Quiesce, Working, Late, Handing
  <1>1. /\ own[j] \in Procs /\ Up(own[j]) /\ ~quiet[own[j]]
        /\ New(j) \in Versions /\ (got[j] \in Codes \/ pc[j] \notin Fetched)
        /\ DiskType
    BY <1>0, AtWork, BaseFiles DEF Me, Alone, QuietInv
  <1>2. /\ UNCHANGED <<exe, backup>> /\ Files(exe', backup')
        /\ \A p \in Procs : quiet[p] => quiet'[p]
    <2>1. UNCHANGED <<exe, backup>>
      BY DEF Prepares, KeepWaiting, Wait, GiveUpWaiting, StepFails, Download,
         Store, SmokeTest, Quiesce, disk
    <2>2. \A p \in Procs : quiet[p] => quiet'[p]
      BY DEF Prepares, KeepWaiting, Wait, GiveUpWaiting, StepFails, Download,
         Store, SmokeTest, Quiesce, Fail, Quietly, daemon, UpdateBase, TypeOK
    <2> QED  BY <2>1, <2>2 DEF DiskInv
  <1>3. ASSUME Fail(j)  PROVE DiskInv'
    BY <1>0, <1>2, <1>3, DiskOver
  <1>4. ASSUME NEW l \in Working, Goto(j, l), UNCHANGED <<own, man, proc, ver>>,
               Phase(l, j, Old(j), New(j), exe', backup', staged')
        PROVE  DiskInv'
    BY <1>0, <1>2, <1>4, DiskMoves
  <1>5. CASE Wait(j)
    <2>1. Phase("download", j, Old(j), New(j), exe', backup', staged')
      BY DEF Phase, Moved, Late
    <2> QED  BY <1>4, <1>5, <2>1 DEF Wait, Moves, daemon, Working
  <1>6. CASE \E c \in Codes : Download(j, c)
    <2>1. Phase("store", j, Old(j), New(j), exe', backup', staged')
      BY DEF Phase, Moved, Late
    <2> QED  BY <1>3, <1>4, <1>6, <2>1 DEF Download, Working
  <1>7. CASE Store(j)
    <2>1. pc[j] \in Fetched
      BY <1>7 DEF Store, Fetched, Working
    <2>2. Whole(Program(New(j), got[j])) /\ New(j) \in Versions
      BY <1>0, <2>1, BaseFiles, ProgramIs
    <2>3. Whole(staged'[New(j)])
      BY <1>1, <1>7, <2>2 DEF Store, DiskType
    <2>4. Phase("smoke", j, Old(j), New(j), exe', backup', staged')
      BY <2>3 DEF Phase, Moved, Late
    <2> QED  BY <1>4, <1>7, <2>4 DEF Store, Moves, Working
  <1>8. CASE SmokeTest(j)
    <2>1. Speaks(j) => Phase("quiesce", j, Old(j), New(j), exe', backup', staged')
      BY <1>8 DEF SmokeTest, Speaks, disk, Phase, Moved, Late
    <2> QED
      BY <1>3, <1>4, <1>8, <2>1 DEF SmokeTest, Moves, Quietly, daemon, Working
  <1>9. CASE Quiesce(j)
    <2>1. Is(exe, Old(j))
      BY <1>1 DEF DiskInv, Old
    <2>2. Whole(staged[New(j)])
      BY <1>0, <1>9 DEF Quiesce, DiskInv, Phase
    <2>3. Phase("unlink", j, Old(j), New(j), exe', backup', staged')
      BY <1>9, <2>1, <2>2 DEF Quiesce, disk, Phase, Moved, Late
    <2> QED  BY <1>4, <1>9, <2>3 DEF Quiesce, Moves, Working
  <1>10. CASE KeepWaiting(j)
    <2>1. UNCHANGED <<exe, backup, staged, pc, own, man, proc, ver, quiet>>
      BY <1>10 DEF KeepWaiting, disk, job
    <2> QED  BY <2>1, DiskNextIs DEF DiskInv, Up, Old, New
  <1> QED
    BY <1>3, <1>5, <1>6, <1>7, <1>8, <1>9, <1>10 DEF Prepares, GiveUpWaiting,
       StepFails

\* Completing the files job j writes completes the one in place if it is
\* his, and does nothing else to files that are in order.
LEMMA DiskFinish ==
    ASSUME DiskType, NEW j \in Jobs, NEW w \in BOOLEAN, FinishCopy(j, w),
           NEW o \in Versions, NEW v \in Versions,
           Files(exe, backup), Is(backup[o], o), Kept(backup),
           Newest(v, backup), Newest(o, backup), w,
           exe # Nil, exe.by = j, exe.ver = v
    PROVE  /\ Is(exe', v)
           /\ Files(exe', backup')
           /\ Is(backup'[o], o) /\ Kept(backup')
           /\ Newest(v, backup') /\ Newest(o, backup')
  <1>1. /\ \A u \in Versions : backup'[u] = Finish(backup[u], j, w)
        /\ exe' = Finish(exe, j, w)
    BY FinishCopyIs
  <1>2. \A u \in Versions : backup[u] \in File \cup {Nil}
    BY DEF DiskType
  <1>3. \A u \in Versions :
          /\ backup'[u] # Nil => Is(backup'[u], u)
          /\ Is(backup[u], u) => Is(backup'[u], u)
          /\ Whole(backup'[u]) => Whole(backup[u])
    <2> SUFFICES ASSUME NEW u \in Versions
                 PROVE  /\ backup'[u] # Nil => Is(backup'[u], u)
                        /\ Is(backup[u], u) => Is(backup'[u], u)
                        /\ Whole(backup'[u]) => Whole(backup[u])
      OBVIOUS
    <2>0. /\ backup'[u] = Nil <=> backup[u] = Nil
          /\ backup[u] # Nil => backup'[u].ver = backup[u].ver
          /\ Whole(backup[u]) => Whole(backup'[u])
      <3> DEFINE f == backup[u]
      <3>1. f \in File \cup {Nil} /\ backup'[u] = Finish(f, j, w)
        BY <1>1, <1>2
      <3> HIDE DEF f
      <3>2. /\ Finish(f, j, w) = Nil <=> f = Nil
            /\ f # Nil => Finish(f, j, w).ver = f.ver
            /\ Whole(f) => Whole(Finish(f, j, w))
        BY <3>1, FinishIs
      <3> QED  BY <3>1, <3>2 DEF f
    <2>1. CASE backup[u] = Nil
      BY <2>0, <2>1, NilIsNotWhole DEF Is
    <2>2. CASE backup[u] # Nil
      <3>1. Is(backup[u], u)
        BY <2>2 DEF Files
      <3> QED  BY <2>0, <2>2, <3>1 DEF Is
    <2> QED  BY <2>1, <2>2
  <1>4. Is(exe', v)
    <2>1. exe \in File \cup {Nil}
      BY DEF DiskType
    <2> QED  BY <1>1, <2>1, FinishIs DEF Is
  <1>5. Kept(backup')
    <2>1. PICK u \in Versions : Whole(backup[u]) /\ backup[u].ver \notin Duds
      BY DEF Kept
    <2>2. Is(backup[u], u)
      BY <2>1, NilIsNotWhole DEF Files
    <2>3. Whole(backup'[u]) /\ backup'[u].ver = u /\ u \notin Duds
      BY <1>3, <2>1, <2>2 DEF Is
    <2> QED  BY <2>3 DEF Kept
  <1>6. Newest(v, backup') /\ Newest(o, backup')
    BY <1>3 DEF Newest
  <1> QED  BY <1>3, <1>4, <1>5, <1>6 DEF Files, Is

\* The steps of swapIn and copyFile.
LEMMA DiskSwap ==
    ASSUME UpdateBase, Alone, DiskInv, NEW j \in Jobs,
           \/ RemoveBackup(j) \/ Rename(j) \/ RenameFails(j) \/ OpenCopy(j)
           \/ Copy(j) \/ CopyFails(j) \/ PutBack(j)
    PROVE  DiskInv'
  <1> DEFINE o == Old(j)
             n == New(j)
  <1>0. pc[j] \in Late \ Handing /\ pc[j] \in Fetched /\ pc[j] \in Working
    BY DEF RemoveBackup, Rename, RenameFails, OpenCopy, Copy, CopyFails,
       PutBack, Late, Handing, Fetched, Working
  <1>1. /\ o \in Versions /\ n \in Versions /\ got[j] \in Codes /\ DiskType
        /\ IsNewerVersion(n, o)
    BY <1>0, BaseFiles DEF UpdateBase, JobInv
  <1>2. Files(exe, backup) /\ Phase(pc[j], j, o, n, exe, backup, staged)
    BY <1>0 DEF DiskInv
  <1> HIDE DEF o, n
  <1>3. ASSUME NEW l \in Working, Moves(j, l), UNCHANGED <<proc, ver, quiet>>,
               Files(exe', backup'), Phase(l, j, o, n, exe', backup', staged')
        PROVE  DiskInv'
    BY <1>0, <1>3, DiskMoves DEF Moves, o, n
  <1>4. ASSUME Fail(j), Files(exe', backup')  PROVE DiskInv'
    BY <1>0, <1>4, DiskOver
  <1>5. \A v \in Versions : Whole(backup[v]) => backup[v].ver = v
    BY <1>2, NilIsNotWhole DEF Files, Is
  <1>6. CASE RemoveBackup(j)
    <2>1. /\ pc[j] = "unlink" /\ UNCHANGED <<exe, staged>>
          /\ \A v \in Versions : backup'[v] = IF v = o THEN Nil ELSE backup[v]
      BY <1>1, <1>6 DEF RemoveBackup, DiskType, o
    <2>2. Is(exe, o) /\ Whole(staged[n])
      BY <1>2, <2>1 DEF Phase
    <2>3. (Whole(exe) /\ exe.ver \notin Duds) \/ Kept(backup')
      BY <1>2, <1>5, <2>1, <2>2 DEF Files, Kept, Is
    <2>4. Files(exe', backup')
      BY <1>2, <2>1, <2>3, NilIsNotWhole DEF Files, Newest
    <2>5. Phase("rename", j, o, n, exe', backup', staged')
      BY <2>1, <2>2 DEF Phase, Moved
    <2> QED
      BY <1>3, <1>6, <2>4, <2>5 DEF RemoveBackup, Quietly, daemon, Working
  <1>7. CASE Rename(j)
    <2>1. /\ pc[j] = "rename" /\ exe' = Nil /\ staged' = staged
          /\ \A v \in Versions : backup'[v] = IF v = o THEN exe ELSE backup[v]
      BY <1>1, <1>7 DEF Rename, KeepBackup, DiskType, o
    <2>2. Is(exe, o) /\ Whole(staged[n])
      BY <1>2, <2>1 DEF Phase
    <2>3. Kept(backup')
      BY <1>1, <1>2, <1>5, <2>1, <2>2 DEF Files, Kept, Is
    <2>4. Newest(o, backup')
      <3>1. Rank(o) \in Nat
        BY <1>1, RankIs
      <3> HIDE DEF Rank
      <3> QED  BY <1>2, <2>1, <2>2, <3>1 DEF Files, Newest, Is
    <2>5. Files(exe', backup')
      BY <1>2, <2>1, <2>2, <2>3, NilIsNotWhole DEF Files
    <2>6. Phase("open", j, o, n, exe', backup', staged')
      BY <1>1, <2>1, <2>2, <2>3, <2>4 DEF Phase
    <2> QED  BY <1>3, <1>7, <2>5, <2>6 DEF Rename, Quietly, daemon, Working
  <1>8. CASE RenameFails(j)
    BY <1>2, <1>4, <1>8 DEF RenameFails, disk
  <1>9. CASE OpenCopy(j)
    <2>1. /\ pc[j] = "open" /\ UNCHANGED <<backup, staged>>
          /\ exe' = Part(n, got[j], j)
      BY <1>9 DEF OpenCopy, n
    <2>2. exe' # Nil /\ exe'.by = j /\ exe'.ver = n /\ ~Whole(exe')
      BY <1>1, <2>1, PartIs
    <2>3. /\ Is(backup[o], o) /\ Kept(backup) /\ Newest(o, backup)
          /\ Whole(staged[n])
      BY <1>2, <2>1 DEF Phase, Moved, Late, Working
    <2>4. Files(exe', backup')
      BY <1>2, <2>1, <2>2, <2>3 DEF Files
    <2>5. Phase("copy", j, o, n, exe', backup', staged')
      BY <2>1, <2>2, <2>3 DEF Phase
    <2> QED  BY <1>3, <1>9, <2>4, <2>5 DEF OpenCopy, Quietly, daemon, Working
  <1>10. CASE Copy(j)
    <2> DEFINE w == staged[New(j)] = Nil \/ Whole(staged[New(j)])
    <2>1. pc[j] = "copy" /\ FinishCopy(j, w)
      BY <1>10 DEF Copy
    <2>2. /\ Is(backup[o], o) /\ Kept(backup) /\ Newest(o, backup)
          /\ exe # Nil /\ exe.by = j /\ exe.ver = n /\ Whole(staged[n])
      BY <1>2, <2>1 DEF Phase, Moved, Late, Working
    <2>3. Newest(n, backup)
      BY <1>1, <2>2, NewestUp
    <2>4. w \in BOOLEAN /\ w
      BY <2>2 DEF n
    <2> HIDE DEF w
    <2>5. /\ Is(exe', n) /\ Files(exe', backup')
          /\ Is(backup'[o], o) /\ Kept(backup') /\ Newest(o, backup')
      BY <1>1, <1>2, <2>1, <2>2, <2>3, <2>4, DiskFinish
    <2>6. Phase("spawn", j, o, n, exe', backup', staged')
      BY <2>5 DEF Phase
    <2> QED  BY <1>3, <1>10, <2>5, <2>6 DEF Copy, Working
  <1>11. CASE CopyFails(j)
    <2>1. Phase("putback", j, o, n, exe, backup, staged)
      BY <1>2, <1>11 DEF CopyFails, Phase, Moved, Late, Working
    <2> QED
      BY <1>2, <1>3, <1>11, <2>1 DEF CopyFails, disk, Quietly, daemon, Working
  <1>12. CASE PutBack(j)
    <2>1. Is(backup[o], o) /\ Kept(backup) /\ Newest(o, backup)
      BY <1>2, <1>12 DEF PutBack, Phase, Moved, Late, Working
    <2>2. backup[o] # Nil
      BY <2>1, NilIsNotWhole DEF Is
    <2>3. /\ exe' = backup[o]
          /\ \A v \in Versions : backup'[v] = IF v = o THEN Nil ELSE backup[v]
      BY <1>1, <1>12, <2>2 DEF PutBack, DiskType, o
    <2>4. (Whole(exe') /\ exe'.ver \notin Duds) \/ Kept(backup')
      <3>1. PICK u \in Versions : Whole(backup[u]) /\ backup[u].ver \notin Duds
        BY <2>1 DEF Kept
      <3>2. CASE u = o
        BY <2>3, <3>1, <3>2
      <3>3. CASE u # o
        BY <2>3, <3>1, <3>3 DEF Kept
      <3> QED  BY <3>2, <3>3
    <2>5. Newest(o, backup')
      BY <2>1, <2>3, NilIsNotWhole DEF Newest
    <2>6. Files(exe', backup')
      BY <1>2, <2>1, <2>3, <2>4, <2>5 DEF Files, Is
    <2> QED  BY <1>4, <1>12, <2>6 DEF PutBack
  <1> QED
    BY <1>6, <1>7, <1>8, <1>9, <1>10, <1>11, <1>12

\* The steps of handover and rollback.
LEMMA DiskHandover ==
    ASSUME UpdateBase, Alone, DiskInv, NEW j \in Jobs,
           \/ \E q \in Procs : Spawn(j, q)
           \/ SpawnFails(j) \/ TookOver(j) \/ ChildDied(j)
           \/ RecordInstalled(j) \/ Leave(j) \/ RollsBack(j)
    PROVE  DiskInv'
  <1> DEFINE o == Old(j)
             n == New(j)
  <1>0. pc[j] \in Late /\ pc[j] \in Fetched /\ pc[j] \in Working
    BY DEF Spawn, SpawnFails, TookOver, ChildDied, RecordInstalled, Leave,
       RollsBack, Undo, OpenBackup, CopyBack, UndoFails, RecordRolledBack,
       RespawnFails, Respawn, Late, Fetched, Working
  <1>1. /\ o \in Versions /\ n \in Versions /\ DiskType /\ own[j] \in Procs
    BY <1>0, BaseFiles, AtWork DEF Me
  <1>2. Files(exe, backup) /\ Phase(pc[j], j, o, n, exe, backup, staged)
    BY <1>0 DEF DiskInv
  <1>20. Is(backup[o], o) /\ Kept(backup) /\ Newest(o, backup)
    BY <1>2 DEF Phase, Moved, Late, Working, Spawn, SpawnFails, TookOver,
       ChildDied, RecordInstalled, Leave, RollsBack, Undo, OpenBackup,
       CopyBack, UndoFails, RecordRolledBack, RespawnFails, Respawn
  <1> HIDE DEF o, n
  <1>3. ASSUME NEW l \in Working, Goto(j, l),
               UNCHANGED <<own, man, proc, ver, quiet>>,
               exe' = exe \/ pc[j] \notin Handing,
               Files(exe', backup'), Phase(l, j, o, n, exe', backup', staged')
        PROVE  DiskInv'
    BY <1>0, <1>3, DiskMoves DEF o, n
  <1>4. ASSUME Fail(j), UNCHANGED <<exe, backup>>  PROVE DiskInv'
    BY <1>0, <1>2, <1>4, DiskOver
  <1>5. ASSUME NEW q \in Procs, Spawn(j, q)  PROVE DiskInv'
    <2> DEFINE gone == {}
    <2>1. gone \in SUBSET Procs /\ Turnover(gone, q)
          /\ \A p \in Procs : p \notin gone
      BY <1>5 DEF Spawn
    <2>2. /\ pc[j] = "spawn"
          /\ \A k \in Jobs : pc'[k] = IF k = j THEN "handover" ELSE pc[k]
          /\ UNCHANGED <<own, man, exe, backup, staged>>
      BY <1>5 DEF Spawn, Goto, disk, UpdateBase, TypeOK
    <2>3. \A k \in Jobs : pc[k] \in Working => own[k] \notin gone
      OBVIOUS
    <2> HIDE DEF gone
    <2>4. \A k \in Jobs : pc'[k] \in Working =>
             /\ pc[k] \in Working /\ own[k] \notin gone
             /\ own'[k] = own[k] /\ man'[k] = man[k]
             /\ \/ pc'[k] = pc[k]
                \/ pc[k] = "spawn" /\ pc'[k] = "handover"
      BY <1>0, <2>2, <2>3
    <2> QED  BY <2>1, <2>2, <2>4, DiskTurnover
  <1>6. CASE SpawnFails(j)
    <2>1. Phase("undo", j, o, n, exe, backup, staged)
      BY <1>20 DEF Phase
    <2> QED
      BY <1>2, <1>3, <1>6, <2>1
      DEF SpawnFails, Moves, disk, Quietly, daemon, Working
  <1>7. CASE TookOver(j)
    <2>1. Phase("record", j, o, n, exe, backup, staged)
      BY <1>2, <1>20, <1>7 DEF TookOver, Phase
    <2> QED
      BY <1>2, <1>3, <1>7, <2>1
      DEF TookOver, Moves, disk, Quietly, daemon, Working
  <1>8. CASE ChildDied(j)
    <2>1. Phase("undo", j, o, n, exe, backup, staged)
      BY <1>20 DEF Phase
    <2> QED
      BY <1>2, <1>3, <1>8, <2>1 DEF ChildDied, disk, daemon, Working
  <1>9. CASE RecordInstalled(j)
    <2>1. Phase("leave", j, o, n, exe, backup, staged)
      BY <1>2, <1>20, <1>9 DEF RecordInstalled, Phase
    <2> QED
      BY <1>2, <1>3, <1>9, <2>1
      DEF RecordInstalled, Moves, Quietly, daemon, Working
  <1>10. ASSUME NEW q \in Procs \cup {Nil}, Turnover({own[j]}, q),
                EndJobs(JobsOf(own[j])), UNCHANGED <<exe, backup>>
         PROVE  DiskInv'
    <2>1. j \in JobsOf(own[j])
      BY DEF JobsOf
    <2>2. \A k \in Jobs : pc'[k] \notin Working
      <3>1. /\ \A k \in Jobs \cap JobsOf(own[j]) : pc'[k] = "done"
            /\ \A k \in Jobs \ JobsOf(own[j]) : pc'[k] = pc[k]
        BY <1>10, EndJobsIs DEF UpdateBase
      <3> QED  BY <1>0, <2>1, <3>1, Labels DEF Alone, OneJob
    <2> QED  BY <1>1, <1>10, <2>2, DiskTurnover
  <1>11. CASE Leave(j)
    BY <1>10, <1>11 DEF Leave, Me
  <1>12. ASSUME NEW q \in Procs, Respawn(j, q)  PROVE DiskInv'
    BY <1>10, <1>12 DEF Respawn, Me, disk
  <1>13. CASE Undo(j)
    <2>1. pc[j] = "undo" /\ exe' = Nil /\ UNCHANGED <<backup, staged>>
      BY <1>13 DEF Undo
    <2>2. Files(exe', backup')
      BY <1>2, <1>20, <2>1, NilIsNotWhole DEF Files
    <2>3. Phase("reopen", j, o, n, exe', backup', staged')
      BY <1>20, <2>1 DEF Phase
    <2> QED
      BY <1>3, <1>13, <2>1, <2>2, <2>3
      DEF Undo, ThenCopy, Moves, Quietly, daemon, Working, Handing
  <1>14. CASE OpenBackup(j)
    <2>1. /\ pc[j] = "reopen" /\ UNCHANGED <<backup, staged>>
          /\ backup[o] \in File
          /\ exe' = Part(backup[o].ver, backup[o].code, j)
      BY <1>1, <1>14 DEF OpenBackup, DiskType, o
    <2>2. backup[o].ver = o /\ backup[o].code \in Codes
      BY <1>20, <2>1 DEF Is, File
    <2>3. exe' # Nil /\ exe'.by = j /\ exe'.ver = o /\ ~Whole(exe')
      BY <1>1, <2>1, <2>2, PartIs
    <2>4. Files(exe', backup')
      BY <1>2, <1>20, <2>1, <2>3 DEF Files
    <2>5. Phase("recopy", j, o, n, exe', backup', staged')
      BY <1>20, <2>1, <2>3 DEF Phase
    <2> QED
      BY <1>3, <1>14, <2>1, <2>4, <2>5
      DEF OpenBackup, Moves, Quietly, daemon, Working, Handing
  <1>15. CASE CopyBack(j)
    <2> DEFINE w == backup[Old(j)] = Nil \/ Whole(backup[Old(j)])
    <2>1. pc[j] = "recopy" /\ FinishCopy(j, w)
      BY <1>15 DEF CopyBack
    <2>2. exe # Nil /\ exe.by = j /\ exe.ver = o
      BY <1>2, <2>1 DEF Phase
    <2>3. w \in BOOLEAN /\ w
      BY <1>20 DEF o, Is
    <2> HIDE DEF w
    <2>4. /\ Is(exe', o) /\ Files(exe', backup')
          /\ Is(backup'[o], o) /\ Kept(backup') /\ Newest(o, backup')
      BY <1>1, <1>2, <1>20, <2>1, <2>2, <2>3, DiskFinish
    <2>5. Phase("rerecord", j, o, n, exe', backup', staged')
      BY <2>4 DEF Phase
    <2> QED
      BY <1>3, <1>15, <2>1, <2>4, <2>5
      DEF CopyBack, Moves, Quietly, daemon, Working, Handing
  <1>16. CASE UndoFails(j)
    BY <1>4, <1>16 DEF UndoFails
  <1>17. CASE RecordRolledBack(j)
    <2>1. Phase("respawn", j, o, n, exe, backup, staged)
      BY <1>2, <1>20, <1>17 DEF RecordRolledBack, Phase
    <2> QED
      BY <1>2, <1>3, <1>17, <2>1 DEF RecordRolledBack, Moves, Working
  <1>18. CASE RespawnFails(j)
    BY <1>4, <1>18 DEF RespawnFails, disk
  <1> QED
    BY <1>5, <1>6, <1>7, <1>8, <1>9, <1>11, <1>12, <1>13, <1>14, <1>15, <1>16,
       <1>17, <1>18 DEF RollsBack

\* Without a process there is no job.
LEMMA NobodyWorks ==
    ASSUME UpdateBase, \A p \in Procs : ~Up(p)
    PROVE  \A k \in Jobs : pc[k] \notin Working
  BY DEF UpdateBase, JobInv

LEMMA DiskAround ==
    ASSUME UpdateBase, DiskInv,
           \/ \E p \in Procs : \/ MainReturns(p) \/ Crash(p) \/ Work(p)
                               \/ UserStarts(p)
           \/ UserRepairs
    PROVE  DiskInv'
  <1>1. ASSUME NEW p \in Procs, MainReturns(p) \/ Crash(p)  PROVE DiskInv'
    <2>1. /\ Turnover({p}, Nil) /\ EndJobs(JobsOf(p))
          /\ UNCHANGED <<exe, backup, staged>>
      BY <1>1 DEF MainReturns, Crash, Ends, disk
    <2>2. /\ \A k \in Jobs \cap JobsOf(p) : pc'[k] = "done"
          /\ \A k \in Jobs \ JobsOf(p) : /\ pc'[k] = pc[k] /\ own'[k] = own[k]
                                         /\ man'[k] = man[k]
      BY <2>1, EndJobsIs DEF UpdateBase
    <2>3. \A k \in Jobs : pc'[k] \in Working =>
             /\ pc[k] \in Working /\ own[k] \notin {p}
             /\ own'[k] = own[k] /\ man'[k] = man[k] /\ pc'[k] = pc[k]
      BY <2>2, Labels DEF JobsOf
    <2> QED  BY <2>1, <2>3, DiskTurnover
  <1>2. ASSUME NEW p \in Procs, Work(p)  PROVE DiskInv'
    <2>1. UNCHANGED <<exe, backup, staged, pc, own, man, proc, ver, quiet>>
      BY <1>2 DEF Work, disk, job
    <2> QED  BY <2>1, DiskNextIs DEF DiskInv, Up, Old, New
  <1>3. ASSUME NEW q \in Procs, UserStarts(q)  PROVE DiskInv'
    <2> DEFINE gone == {}
    <2>1. /\ gone \in SUBSET Procs /\ Turnover(gone, q)
          /\ \A p \in Procs : ~Up(p)
          /\ UNCHANGED <<exe, backup, staged, pc>>
      BY <1>3 DEF UserStarts, disk, job
    <2> HIDE DEF gone
    <2> QED  BY <2>1, NobodyWorks, DiskTurnover
  <1>4. CASE UserRepairs
    <2>1. /\ \A p \in Procs : ~Up(p)
          /\ ~Whole(exe) /\ UNCHANGED <<pc, proc>>
      BY <1>4 DEF UserRepairs, daemon, job
    <2>2. \A k \in Jobs : pc'[k] \notin Working
      BY <2>1, NobodyWorks
    <2>3. Files(exe, backup) /\ Kept(backup)
      BY <2>1 DEF DiskInv, Files
    <2>4. PICK u \in Versions : Whole(backup[u]) /\ backup[u].ver \notin Duds
      BY <2>3 DEF Kept
    <2>5. PICK v \in Versions :
             /\ Whole(backup[v])
             /\ \A w \in Versions : Whole(backup[w]) => Rank(w) <= Rank(v)
             /\ exe' = backup[v]
             /\ backup' = [backup EXCEPT ![v] = Nil]
      BY <1>4, <2>4 DEF UserRepairs
    <2>6. \A w \in Versions : backup'[w] = IF w = v THEN Nil ELSE backup[w]
      BY <2>5 DEF UpdateBase, TypeOK
    <2>7. Is(exe', v)
      BY <2>3, <2>5, NilIsNotWhole DEF Files, Is
    <2>8. (Whole(exe') /\ exe'.ver \notin Duds) \/ Kept(backup')
      <3>1. CASE u = v
        BY <2>4, <2>5, <3>1
      <3>2. CASE u # v
        BY <2>4, <2>6, <3>2 DEF Kept
      <3> QED  BY <3>1, <3>2
    <2>9. Newest(v, backup')
      <3>1. \A w \in Versions : Rank(w) \in Nat
        BY RankIs
      <3> HIDE DEF Rank
      <3> QED  BY <2>5, <2>6, <3>1, NilIsNotWhole DEF Newest
    <2>10. Files(exe', backup')
      BY <2>3, <2>6, <2>7, <2>8, <2>9 DEF Files, Is
    <2> QED  BY <2>1, <2>2, <2>10, DiskNextIs DEF Up
  <1> QED  BY <1>1, <1>2, <1>3, <1>4

LEMMA DiskNext ==
    /\ UpdateBase /\ (overlap \/ Alone) /\ (overlap \/ DiskInv)
    /\ [Next]_vars
    => overlap' \/ DiskInv'
  <1> SUFFICES ASSUME UpdateBase, overlap \/ Alone, overlap \/ DiskInv,
                      [Next]_vars, ~overlap'
               PROVE  DiskInv'
    OBVIOUS
  <1>1. ~overlap
    BY OverlapGrows
  <1>2. CASE UNCHANGED vars
    BY <1>1, <1>2, DiskNextIs
    DEF vars, disk, daemon, job, DiskInv, Up, Old, New
  <1>3. CASE Next
    <2>1. ASSUME NEW j \in Jobs, Swaps(j) \/ RollsBack(j)  PROVE DiskInv'
      BY <1>1, <2>1, DiskSwap, DiskHandover DEF Swaps
    <2> QED
      BY <1>1, <1>3, <2>1, DiskApply, DiskPrepare, DiskAround DEF Next
  <1> QED  BY <1>2, <1>3

LEMMA DiskAlways == Spec => [](overlap \/ DiskInv)
  <1>1. Init => DiskInv
    <2> SUFFICES ASSUME Init  PROVE DiskInv
      OBVIOUS
    <2>1. Is(exe, Base) /\ \A p \in Procs : ver[p] = Base
      BY ProgramIs, UpdateAssumption DEF Init, Is, Codes
    <2>2. \A v \in Versions : backup[v] = Nil
      BY DEF Init
    <2>3. Files(exe, backup)
      BY <2>1, <2>2, UpdateAssumption, NilIsNotWhole DEF Files, Is, Newest
    <2>4. \A j \in Jobs : pc[j] \notin Working
      BY Labels DEF Init
    <2> QED  BY <2>1, <2>3, <2>4 DEF DiskInv
  <1>2. /\ UpdateBase /\ (overlap \/ Alone) /\ (overlap \/ DiskInv)
        /\ [Next]_vars
        => (overlap \/ DiskInv)'
    BY DiskNext
  <1> QED  BY <1>1, <1>2, BaseAlways, AloneAlways, PTL DEF Spec

(***************************************************************************)
(* While no two updates overlap, at every step of every update, rollback,  *)
(* crash, restart and repair a complete program that does not die is on    *)
(* the disk, in its place or under a backup's name (swapIn, copyFile,      *)
(* rollback).                                                              *)
(***************************************************************************)
THEOREM AProgramIsLeft == Spec => []ProgramKept
  <1>1. overlap \/ DiskInv => ProgramKept
    <2> SUFFICES ASSUME DiskInv
                 PROVE  \E f \in {exe} \cup {backup[v] : v \in Versions} :
                          Whole(f) /\ f.ver \notin Duds
      BY DEF ProgramKept
    <2>1. CASE Whole(exe) /\ exe.ver \notin Duds
      BY <2>1
    <2>2. CASE Kept(backup)
      BY <2>2 DEF Kept
    <2> QED  BY <2>1, <2>2 DEF DiskInv, Files
  <1> QED  BY <1>1, DiskAlways, PTL

(***************************************************************************)
(* While no two updates overlap, the complete program in place is at least *)
(* as new as every one kept beside it, also after rollbacks and repairs:   *)
(* a signed old release is not a way back (Apply, CompareVersions).        *)
(***************************************************************************)
THEOREM NoWayBack == Spec => []NoDowngrade
  <1>1. UpdateBase /\ (overlap \/ DiskInv) => NoDowngrade
    <2> SUFFICES ASSUME DiskInv, Whole(exe), NEW v \in Versions,
                        Whole(backup[v])
                 PROVE  Rank(exe.ver) >= Rank(v)
      BY DEF NoDowngrade
    <2> QED  BY DEF DiskInv, Files, Newest
  <1> QED  BY <1>1, BaseAlways, DiskAlways, PTL

(***************************************************************************)
(* While no two updates overlap, what update-state.json is given is what   *)
(* is on the disk at that moment: the new program after "installed", the   *)
(* old one after "rolled_back", a complete old one under the backup's name *)
(* after "failed" (recordOutcome).                                         *)
(***************************************************************************)
THEOREM OutcomeIsTrue == Spec => OutcomeTruthful
  <1> DEFINE A == \/ overlap' \/ outcome' = outcome
                  \/ CASE outcome'.result = "installed" ->
                            Whole(exe) /\ exe.ver = outcome'.to
                       [] outcome'.result = "rolled_back" ->
                            Whole(exe) /\ exe.ver = outcome'.from
                       [] outcome'.result = "failed" ->
                            Whole(backup[outcome'.from])
  <1>1. UpdateBase /\ (overlap \/ DiskInv) /\ [Next]_vars => [A]_vars
    <2> SUFFICES ASSUME UpdateBase, overlap \/ DiskInv, Next, ~overlap'
                 PROVE  A
      BY DEF vars
    <2>1. DiskInv
      BY OverlapGrows
    <2>2. ASSUME NEW j \in Jobs, pc[j] \in Working
          PROVE  Phase(pc[j], j, Old(j), New(j), exe, backup, staged)
      BY <2>1, <2>2 DEF DiskInv
    <2>3. ASSUME NEW j \in Jobs, RecordInstalled(j)  PROVE A
      <3>1. pc[j] = "record" /\ pc[j] \in Working
            /\ outcome' = Result(j, "installed")
        BY <2>3 DEF RecordInstalled, Working
      <3>2. Is(exe, New(j))
        BY <2>2, <3>1 DEF Phase
      <3>3. outcome'.result = "installed" /\ outcome'.to = New(j)
        BY <3>1 DEF Result
      <3> QED  BY <3>2, <3>3 DEF Is
    <2>4. ASSUME NEW j \in Jobs, RecordRolledBack(j)  PROVE A
      <3>1. pc[j] = "rerecord" /\ pc[j] \in Working
            /\ outcome' = Result(j, "rolled_back")
        BY <2>4 DEF RecordRolledBack, Working
      <3>2. Is(exe, Old(j))
        BY <2>2, <3>1 DEF Phase
      <3>3. outcome'.result = "rolled_back" /\ outcome'.from = Old(j)
        BY <3>1 DEF Result
      <3> QED  BY <3>2, <3>3 DEF Is
    <2>5. ASSUME NEW j \in Jobs, UndoFails(j)  PROVE A
      <3>1. pc[j] \in {"reopen", "recopy"} /\ pc[j] \in Working
            /\ pc[j] \in Moved /\ outcome' = Result(j, "failed")
        BY <2>5 DEF UndoFails, Working, Moved, Late
      <3>2. Is(backup[Old(j)], Old(j))
        BY <2>2, <3>1 DEF Phase
      <3>3. outcome'.result = "failed" /\ outcome'.from = Old(j)
        BY <3>1 DEF Result
      <3> QED  BY <3>2, <3>3 DEF Is
    <2>6. CASE outcome' = outcome
      BY <2>6
    <2> HIDE DEF A
    <2>7. ASSUME NEW j \in Jobs, Swaps(j)  PROVE A
      BY <2>3, <2>6, <2>7 DEF Swaps, RemoveBackup, Rename, RenameFails,
         OpenCopy, Copy, CopyFails, PutBack, Spawn, SpawnFails, TookOver,
         ChildDied, Leave, disk
    <2>8. ASSUME NEW j \in Jobs, RollsBack(j)  PROVE A
      BY <2>4, <2>5, <2>6, <2>8 DEF RollsBack, Undo, OpenBackup, CopyBack,
         RespawnFails, Respawn, disk
    <2>9. ASSUME NEW j \in Jobs, Applies(j) \/ Prepares(j) \/ KeepWaiting(j)
          PROVE  A
      BY <2>6, <2>9 DEF Applies, Ask, FetchFails, Fetch, Answer, Take,
         Prepares, KeepWaiting, Wait, GiveUpWaiting, StepFails, Download,
         Store, SmokeTest, Quiesce, disk
    <2>10. CASE \/ \E p \in Procs : \/ MainReturns(p) \/ Crash(p) \/ Work(p)
                                    \/ UserStarts(p)
                \/ UserRepairs
      BY <2>6, <2>10 DEF MainReturns, Crash, Ends, Work, UserStarts,
         UserRepairs, disk
    <2> QED  BY <2>7, <2>8, <2>9, <2>10 DEF Next
  <1> QED
    BY <1>1, BaseAlways, DiskAlways, PTL DEF Spec, OutcomeTruthful

=============================================================================
