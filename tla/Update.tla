------------------------------- MODULE Update -------------------------------
(***************************************************************************)
(* Self-update (internal/update): the daemon replaces its own program file *)
(* and hands over to a new process, or goes back to the old one.           *)
(*                                                                         *)
(* A job is one updateApply.  Apply answers at once; PerformUpdate runs in *)
(* a goroutine of its own.  Jobs of one process share Updater.running and  *)
(* the status; all jobs share the disk: the program, one backup for each   *)
(* version that was replaced, one staged download for each version.        *)
(*                                                                         *)
(* main wires Quiesce to the stop function of the context client.Run runs  *)
(* under, so a process that is quiet may end at any of the later steps.    *)
(* It wires no HandoverOK: the first poll of the child decides.            *)
(***************************************************************************)
EXTENDS Integers

CONSTANTS
    Jobs,      \* the updateApply invokes
    Procs,     \* slots for daemon processes
    Versions,  \* versions that exist
    Base,      \* the version that is installed at first
    Tokens,    \* release tokens the server may answer
    Duds,      \* versions that die after they started
    Mutes,     \* versions that cannot say which version they are
    Nil

Gates == {"format", "encoding", "signature", "fields"}

ASSUME UpdateAssumption ==
    /\ Versions \subseteq [core : Nat, pre : 0..8]
    /\ Base \in Versions \ Duds
    /\ Duds \subseteq Versions
    /\ Mutes \subseteq Versions
    /\ Tokens \subseteq [flaws : SUBSET Gates, ver : Versions,
                         min : Versions \cup {Nil}, fits : BOOLEAN,
                         code : {"ours", "theirs"}]
    /\ \A t \in Tokens : "signature" \in t.flaws \/ t.code = "ours"
    /\ Nil \notin Procs \cup Versions

VARIABLES
    exe,       \* the file at ExecPath
    backup,    \* the files at ExecPath.old-<version>
    staged,    \* the files under updates/<version>/
    outcome,   \* update-state.json
    proc,      \* the process in each slot: "up" or "down"
    ver,       \* the version it runs (CurrentVersion)
    busy,      \* Host.Busy
    quiet,     \* Quiesce was called
    running,   \* Updater.running
    state,     \* Status.State
    pc,        \* where each job is
    own,       \* the process of the job
    man,       \* the manifest it installs
    got,       \* the code it downloaded
    child,     \* the process it handed over to
    overlap,   \* history: two jobs passed Apply's look at running, or two
               \* processes updated, at once
    killed,    \* history: a process ended that had not been asked to
    mismatch   \* history: processes whose last Apply named another version

disk   == <<exe, backup, staged, outcome>>
daemon == <<proc, ver, busy, quiet, running, state>>
job    == <<pc, own, man, got, child>>
vars   == <<disk, daemon, job, overlap, killed, mismatch>>

Codes   == {"ours", "theirs"}
File    == [ver : Versions, code : Codes, whole : BOOLEAN,
            by : Jobs \cup {Nil}]
ASSUME FileAssumption == Nil \notin File
Results == {"installed", "rolled_back", "failed"}
Settled == {"idle", "failed", "up_to_date"}
States  == Settled \cup {"checking", "waiting_for_idle", "downloading",
                         "verifying", "installing", "restarting"}
Asking  == {"fetch", "take"}
Working == {"wait", "download", "store", "smoke", "quiesce", "unlink",
            "rename", "open", "copy", "putback", "spawn", "handover",
            "record", "leave", "undo", "reopen", "recopy", "rerecord",
            "respawn"}

\* A finished copy of a version, and one job j is still writing.
Program(v, c)  == [ver |-> v, code |-> c, whole |-> TRUE, by |-> Nil]
Part(v, c, j)  == [ver |-> v, code |-> c, whole |-> FALSE, by |-> j]
Whole(f)       == f # Nil /\ f.whole

Up(p)  == proc[p] = "up"
Me(j)  == own[j]
Old(j) == ver[own[j]]
New(j) == man[j].ver

\* Jobs in PerformUpdate.
Active == {j \in Jobs : pc[j] \in Working}

\* A slot for a new process that no job still looks at.
Free(p) == /\ ~Up(p)
           /\ \A j \in Jobs : pc[j] \in Working => p \notin {own[j], child[j]}

Init ==
    /\ exe = Program(Base, "ours")
    /\ backup = [v \in Versions |-> Nil]
    /\ staged = [v \in Versions |-> Nil]
    /\ outcome = Nil
    /\ \E p \in Procs : proc = [q \in Procs |-> IF q = p THEN "up" ELSE "down"]
    /\ ver = [p \in Procs |-> Base]
    /\ busy = [p \in Procs |-> FALSE]
    /\ quiet = [p \in Procs |-> FALSE]
    /\ running = [p \in Procs |-> FALSE]
    /\ state = [p \in Procs |-> "idle"]
    /\ pc = [j \in Jobs |-> "idle"]
    /\ own = [j \in Jobs |-> Nil]
    /\ man = [j \in Jobs |-> Nil]
    /\ got = [j \in Jobs |-> Nil]
    /\ child = [j \in Jobs |-> Nil]
    /\ overlap = FALSE
    /\ killed = FALSE
    /\ mismatch = {}

-----------------------------------------------------------------------------
\* What a release token and a download must pass.

\* VerifyManifest: the first gate a token fails, in the order of the code.
UnsignedGateOf(t) ==  \* mutant: the signature is not looked at
    CASE "format" \in t.flaws   -> "format"
      [] "encoding" \in t.flaws -> "encoding"
      [] "fields" \in t.flaws   -> "fields"
      [] OTHER                  -> "none"
GateOf(t) ==
    IF "format" \in t.flaws THEN "format"
    ELSE IF "encoding" \in t.flaws THEN "encoding"
    ELSE IF "signature" \in t.flaws THEN "signature"
    ELSE IF "fields" \in t.flaws THEN "fields"
    ELSE "none"

\* VerifyBytes: the download is what the manifest's sha256 says.
VerifyBytes(c, t) == c = t.code

\* CompareVersions > 0; a pre-release (pre # 0, in string order) comes before
\* the release with its number.
NotOlder(a, b) == a.core >= b.core  \* mutant: only the numbers count
IsNewerVersion(a, b) ==
    \/ a.core > b.core
    \/ /\ a.core = b.core
       /\ b.pre # 0
       /\ a.pre = 0 \/ a.pre > b.pre

-----------------------------------------------------------------------------
\* Steps several actions share.

Goto(j, label) == pc' = [pc EXCEPT ![j] = label]
SetState(j, s) == state' = [state EXCEPT ![Me(j)] = s]

With(f, S, x) == [e \in DOMAIN f |-> IF e \in S THEN x ELSE f[e]]

EndJobs(J) ==
    /\ pc' = With(pc, J, "done")
    /\ own' = With(own, J, Nil)
    /\ man' = With(man, J, Nil)
    /\ got' = With(got, J, Nil)
    /\ child' = With(child, J, Nil)

JobsOf(p) == {j \in Jobs : own[j] = p}

\* Every return of PerformUpdate clears running (defer).
StaysRunning(j) == UNCHANGED running  \* mutant: without the defer
ClearRunning(j) == running' = [running EXCEPT ![Me(j)] = FALSE]

\* u.fail, and the return from PerformUpdate.
Fail(j) ==
    /\ EndJobs({j})
    /\ SetState(j, "failed")
    /\ ClearRunning(j)
    /\ UNCHANGED <<proc, ver, busy, quiet, overlap, killed, mismatch>>

\* The processes of set gone end, with all they kept in memory; if q is not
\* Nil, a new one starts in slot q from the file at ExecPath.
Turnover(gone, q) ==
    /\ q # Nil => Free(q) /\ Whole(exe)
    /\ proc' = [p \in Procs |-> IF p = q THEN "up"
                                ELSE IF p \in gone THEN "down" ELSE proc[p]]
    /\ ver' = [p \in Procs |-> IF p = q THEN exe.ver
                               ELSE IF p \in gone THEN Base ELSE ver[p]]
    /\ busy' = With(busy, gone, FALSE)
    /\ quiet' = With(quiet, gone, FALSE)
    /\ running' = With(running, gone, FALSE)
    /\ state' = With(state, gone, "idle")
    /\ mismatch' = mismatch \ gone

\* A step of the job that only moves it on.
Moves(j, label) ==
    /\ Goto(j, label)
    /\ UNCHANGED <<own, man, got, child, overlap, killed, mismatch>>
Quietly == UNCHANGED daemon

-----------------------------------------------------------------------------
\* Apply.

\* The invoke arrives; a process that is quiet reads no messages any more.
Ask(j, p) ==
    /\ pc[j] = "idle"
    /\ Up(p)
    /\ ~quiet[p]
    /\ IF running[p]
       THEN /\ Goto(j, "done")  \* alreadyRunning
            /\ UNCHANGED <<own, state, mismatch>>
       ELSE /\ Goto(j, "fetch")
            /\ own' = [own EXCEPT ![j] = p]
            /\ state' = [state EXCEPT ![p] = "checking"]
            /\ mismatch' = mismatch \ {p}
    /\ UNCHANGED <<disk, proc, ver, busy, quiet, running, man, got, child,
                   overlap, killed>>

\* Apply ends with an answer and leaves the status in state s.
Answer(j, s) ==
    /\ EndJobs({j})
    /\ SetState(j, s)
    /\ UNCHANGED <<disk, proc, ver, busy, quiet, running, overlap, killed>>

FetchFails(j) ==
    /\ pc[j] = "fetch"
    /\ Answer(j, "failed")
    /\ UNCHANGED mismatch

\* FetchManifest, and what Apply decides from the manifest; the caller may
\* have asked for version want.
Fetch(j, t, want) ==
    /\ pc[j] = "fetch"
    /\ IF GateOf(t) # "none"
       THEN Answer(j, "failed") /\ UNCHANGED mismatch
       ELSE IF ~IsNewerVersion(t.ver, Old(j))
       THEN Answer(j, "up_to_date") /\ UNCHANGED mismatch
       ELSE IF want \notin {Nil, t.ver}
       THEN /\ Answer(j, state[Me(j)])  \* version_mismatch
            /\ mismatch' = mismatch \cup {Me(j)}
       ELSE IF \/ t.min # Nil /\ IsNewerVersion(t.min, Old(j))
               \/ ~t.fits
       THEN Answer(j, "failed") /\ UNCHANGED mismatch
       ELSE /\ Goto(j, "take")
            /\ man' = [man EXCEPT ![j] = t]
            /\ UNCHANGED <<disk, daemon, own, got, child, overlap, killed, mismatch>>

\* running is set here, long after Ask looked at it.
Take(j) ==
    /\ pc[j] = "take"
    /\ Goto(j, "wait")
    /\ running' = [running EXCEPT ![Me(j)] = TRUE]
    /\ SetState(j, IF busy[Me(j)] THEN "waiting_for_idle" ELSE "downloading")
    /\ overlap' = (overlap \/ Active # {} \/
                     \E k \in JobsOf(Me(j)) \ {j} : pc[k] \in Asking)
    /\ UNCHANGED <<disk, proc, ver, busy, quiet, own, man, got, child,
                   killed, mismatch>>

-----------------------------------------------------------------------------
\* PerformUpdate up to the swap.

Wait(j) ==
    /\ pc[j] = "wait"
    /\ ~busy[Me(j)]
    /\ Moves(j, "download")
    /\ UNCHANGED <<disk, daemon>>

KeepWaiting(j) ==
    /\ pc[j] = "wait"
    /\ busy[Me(j)]
    /\ SetState(j, "waiting_for_idle")
    /\ UNCHANGED <<disk, proc, ver, busy, quiet, running, job, overlap,
                   killed, mismatch>>

\* Still busy after IdleWaitMax.
NoDeadline(j) == FALSE  \* mutant: it waits for ever
PastDeadline(j) == busy[Me(j)]

GiveUpWaiting(j) ==
    /\ pc[j] = "wait"
    /\ PastDeadline(j)
    /\ Fail(j)
    /\ UNCHANGED disk

\* Any of the steps that can fail in the network, the file system or the
\* new program.
StepFails(j) ==
    /\ pc[j] \in {"download", "store", "smoke"}
    /\ Fail(j)
    /\ UNCHANGED disk

\* download: the server answers code c; what passes is written to staged.
Download(j, c) ==
    /\ pc[j] = "download"
    /\ IF VerifyBytes(c, man[j])
       THEN /\ Goto(j, "store")
            /\ SetState(j, "verifying")
            /\ got' = [got EXCEPT ![j] = c]
            /\ staged' = [staged EXCEPT ![New(j)] = Part(New(j), c, j)]
            /\ UNCHANGED <<proc, ver, busy, quiet, running, own, man, child,
                           overlap, killed, mismatch>>
       ELSE Fail(j) /\ UNCHANGED staged
    /\ UNCHANGED <<exe, backup, outcome>>

Store(j) ==
    /\ pc[j] = "store"
    /\ staged' = [staged EXCEPT ![New(j)] = Program(New(j), got[j])]
    /\ Moves(j, "smoke")
    /\ SetState(j, "installing")
    /\ UNCHANGED <<exe, backup, outcome, proc, ver, busy, quiet, running>>

\* smokeTest: the staged program runs and says the version of the manifest.
Speaks(j) == Whole(staged[New(j)]) /\ New(j) \notin Mutes

SmokeTest(j) ==
    /\ pc[j] = "smoke"
    /\ IF Speaks(j) THEN Moves(j, "quiesce") /\ Quietly ELSE Fail(j)
    /\ UNCHANGED disk

Quiesce(j) ==
    /\ pc[j] = "quiesce"
    /\ quiet' = [quiet EXCEPT ![Me(j)] = TRUE]
    /\ Moves(j, "unlink")
    /\ UNCHANGED <<disk, proc, ver, busy, running, state>>

-----------------------------------------------------------------------------
\* swapIn and copyFile.

RemoveBackup(j) ==
    /\ pc[j] = "unlink"
    /\ backup' = [backup EXCEPT ![Old(j)] = Nil]
    /\ Moves(j, "rename")
    /\ UNCHANGED <<exe, staged, outcome>> /\ Quietly

\* The old program moves to the backup's name.
KeepNoBackup(j) == backup' = backup  \* mutant: the old file is not kept
KeepBackup(j) == backup' = [backup EXCEPT ![Old(j)] = exe]

Rename(j) ==
    /\ pc[j] = "rename"
    /\ exe # Nil
    /\ KeepBackup(j)
    /\ exe' = Nil
    /\ Moves(j, "open")
    /\ UNCHANGED <<staged, outcome>> /\ Quietly

RenameFails(j) ==
    /\ pc[j] = "rename"
    /\ Fail(j)
    /\ UNCHANGED disk

\* copyFile opens (and truncates) ExecPath.
OpenCopy(j) ==
    /\ pc[j] = "open"
    /\ staged[New(j)] # Nil
    /\ exe' = Part(New(j), got[j], j)
    /\ Moves(j, "copy")
    /\ UNCHANGED <<backup, staged, outcome>> /\ Quietly

\* The file job j writes, wherever another job has moved it meanwhile, is
\* complete; it is whole if the file it was read from was.
Finish(f, j, whole) ==
    IF f # Nil /\ f.by = j /\ whole THEN Program(f.ver, f.code) ELSE f
FinishCopy(j, whole) ==
    /\ exe' = Finish(exe, j, whole)
    /\ backup' = [v \in Versions |-> Finish(backup[v], j, whole)]

\* The copy is complete; handover sets the status before it starts anything.
Copy(j) ==
    /\ pc[j] = "copy"
    /\ FinishCopy(j, staged[New(j)] = Nil \/ Whole(staged[New(j)]))
    /\ Moves(j, "spawn")
    /\ SetState(j, "restarting")
    /\ UNCHANGED <<staged, outcome, proc, ver, busy, quiet, running>>

CopyFails(j) ==
    /\ pc[j] \in {"open", "copy"}
    /\ Moves(j, "putback")
    /\ UNCHANGED disk /\ Quietly

\* A failed copy: the old file goes back to its place.
PutBack(j) ==
    /\ pc[j] = "putback"
    /\ IF backup[Old(j)] = Nil
       THEN UNCHANGED <<exe, backup>>
       ELSE /\ exe' = backup[Old(j)]
            /\ backup' = [backup EXCEPT ![Old(j)] = Nil]
    /\ Fail(j)
    /\ UNCHANGED <<staged, outcome>>

-----------------------------------------------------------------------------
\* handover, and the end of an update that worked.

Spawn(j, q) ==
    /\ pc[j] = "spawn"
    /\ Turnover({}, q)
    /\ Goto(j, "handover")
    /\ child' = [child EXCEPT ![j] = q]
    /\ UNCHANGED <<disk, own, man, got, overlap, killed>>

SpawnFails(j) ==
    /\ pc[j] = "spawn"
    /\ Moves(j, "undo")
    /\ UNCHANGED disk /\ Quietly

\* The first poll finds the child alive.
Alive(j) == Up(child[j])

TookOver(j) ==
    /\ pc[j] = "handover"
    /\ Alive(j)
    /\ Moves(j, "record")
    /\ UNCHANGED disk /\ Quietly

ChildDied(j) ==
    /\ pc[j] = "handover"
    /\ ~Up(child[j])
    /\ Goto(j, "undo")
    /\ child' = [child EXCEPT ![j] = Nil]
    /\ UNCHANGED <<disk, daemon, own, man, got, overlap, killed, mismatch>>

NoTo(j, r)   == [from |-> Old(j), to |-> Nil, result |-> r]  \* mutant
Result(j, r) == [from |-> Old(j), to |-> New(j), result |-> r]

RecordInstalled(j) ==
    /\ pc[j] = "record"
    /\ outcome' = Result(j, "installed")
    /\ Moves(j, "leave")
    /\ UNCHANGED <<exe, backup, staged>> /\ Quietly

\* RemoveAll of the staged file, and Exit(0).
Leave(j) ==
    /\ pc[j] = "leave"
    /\ staged' = [staged EXCEPT ![New(j)] = Nil]
    /\ Turnover({Me(j)}, Nil)
    /\ EndJobs(JobsOf(Me(j)))
    /\ UNCHANGED <<exe, backup, outcome, overlap, killed>>

-----------------------------------------------------------------------------
\* rollback.

SkipCopy(j) == Moves(j, "rerecord")  \* mutant: the old file is not copied back
ThenCopy(j) == Moves(j, "reopen")

Undo(j) ==
    /\ pc[j] = "undo"
    /\ exe' = Nil
    /\ ThenCopy(j)
    /\ UNCHANGED <<backup, staged, outcome>> /\ Quietly

OpenBackup(j) ==
    /\ pc[j] = "reopen"
    /\ backup[Old(j)] # Nil
    /\ exe' = Part(backup[Old(j)].ver, backup[Old(j)].code, j)
    /\ Moves(j, "recopy")
    /\ UNCHANGED <<backup, staged, outcome>> /\ Quietly

CopyBack(j) ==
    /\ pc[j] = "recopy"
    /\ FinishCopy(j, backup[Old(j)] = Nil \/ Whole(backup[Old(j)]))
    /\ Moves(j, "rerecord")
    /\ UNCHANGED <<staged, outcome>> /\ Quietly

\* The old program could not be put back: it stays where the backup is.
UndoFails(j) ==
    /\ pc[j] \in {"reopen", "recopy"}
    /\ outcome' = Result(j, "failed")
    /\ Fail(j)
    /\ UNCHANGED <<exe, backup, staged>>

RecordRolledBack(j) ==
    /\ pc[j] = "rerecord"
    /\ outcome' = Result(j, "rolled_back")
    /\ Moves(j, "respawn")
    /\ SetState(j, "failed")
    /\ UNCHANGED <<exe, backup, staged, proc, ver, busy, quiet, running>>

\* The old program is started again, and this process calls Exit(1).
Respawn(j, q) ==
    /\ pc[j] = "respawn"
    /\ Turnover({Me(j)}, q)
    /\ EndJobs(JobsOf(Me(j)))
    /\ UNCHANGED <<disk, overlap, killed>>

RespawnFails(j) ==
    /\ pc[j] = "respawn"
    /\ Fail(j)
    /\ UNCHANGED disk

-----------------------------------------------------------------------------
\* What happens around the jobs.

Ends(p) ==
    /\ Up(p)
    /\ Turnover({p}, Nil)
    /\ EndJobs(JobsOf(p))
    /\ UNCHANGED <<disk, overlap>>

\* client.Run has returned: main closes the host and returns.
MainReturns(p) == quiet[p] /\ Ends(p) /\ UNCHANGED killed

\* Power, a kill, the user's Pause; a program that dies by itself.
Crash(p) == Ends(p) /\ killed' = TRUE

\* A command or a terminal starts or ends.
Work(p) ==
    /\ Up(p)
    /\ quiet[p] => busy[p]
    /\ busy' = [busy EXCEPT ![p] = ~@]
    /\ UNCHANGED <<disk, proc, ver, quiet, running, state, job, overlap,
                   killed, mismatch>>

\* The user starts the program; he does so when no daemon runs.
UserStarts(q) ==
    /\ \A p \in Procs : ~Up(p)
    /\ Turnover({}, q)
    /\ UNCHANGED <<disk, job, overlap, killed>>

\* The order of versions, release after its pre-releases.
Rank(v) == 10 * v.core + IF v.pre = 0 THEN 9 ELSE v.pre

\* What the messages of a failed update ask of the user: he moves the newest
\* old program back; without one he installs again.
UserRepairs ==
    /\ \A p \in Procs : ~Up(p)
    /\ ~Whole(exe)
    /\ LET olds == {v \in Versions : Whole(backup[v])} IN
       IF olds = {}
       THEN exe' = Program(Base, "ours") /\ UNCHANGED backup
       ELSE \E v \in olds :
            /\ \A w \in olds : Rank(w) <= Rank(v)
            /\ exe' = backup[v]
            /\ backup' = [backup EXCEPT ![v] = Nil]
    /\ UNCHANGED <<staged, outcome, daemon, job, overlap, killed, mismatch>>

-----------------------------------------------------------------------------

Applies(j) ==
    \/ \E p \in Procs : Ask(j, p)
    \/ FetchFails(j)
    \/ \E t \in Tokens, want \in Versions \cup {Nil} : Fetch(j, t, want)
    \/ Take(j)

Prepares(j) ==
    \/ Wait(j) \/ GiveUpWaiting(j) \/ StepFails(j)
    \/ \E c \in Codes : Download(j, c)
    \/ Store(j) \/ SmokeTest(j) \/ Quiesce(j)

Swaps(j) ==
    \/ RemoveBackup(j) \/ Rename(j) \/ RenameFails(j)
    \/ OpenCopy(j) \/ Copy(j) \/ CopyFails(j) \/ PutBack(j)
    \/ \E q \in Procs : Spawn(j, q)
    \/ SpawnFails(j) \/ TookOver(j) \/ ChildDied(j)
    \/ RecordInstalled(j) \/ Leave(j)

RollsBack(j) ==
    \/ Undo(j) \/ OpenBackup(j) \/ CopyBack(j) \/ UndoFails(j)
    \/ RecordRolledBack(j) \/ RespawnFails(j)
    \/ \E q \in Procs : Respawn(j, q)

Next ==
    \/ \E j \in Jobs :
         Applies(j) \/ Prepares(j) \/ KeepWaiting(j) \/ Swaps(j) \/ RollsBack(j)
    \/ \E p \in Procs :
         MainReturns(p) \/ Crash(p) \/ Work(p) \/ UserStarts(p)
    \/ UserRepairs

Spec == Init /\ [][Next]_vars

\* The goroutine of PerformUpdate is scheduled, its calls return (the HTTP
\* client and the smoke test have timeouts), and the idle deadline passes.
FairSpec == Spec /\ \A j \in Jobs :
                      WF_vars(Prepares(j) \/ Swaps(j) \/ RollsBack(j))

-----------------------------------------------------------------------------
\* Properties.

\* The value of every variable is one the code can give it.
TypeOK ==
    /\ exe \in File \cup {Nil}
    /\ backup \in [Versions -> File \cup {Nil}]
    /\ staged \in [Versions -> File \cup {Nil}]
    /\ outcome \in {Nil} \cup [from : Versions, to : Versions,
                               result : Results]
    /\ proc \in [Procs -> {"up", "down"}]
    /\ ver \in [Procs -> Versions]
    /\ busy \in [Procs -> BOOLEAN]
    /\ quiet \in [Procs -> BOOLEAN]
    /\ running \in [Procs -> BOOLEAN]
    /\ state \in [Procs -> States]
    /\ pc \in [Jobs -> {"idle", "done"} \cup Asking \cup Working]
    /\ own \in [Jobs -> Procs \cup {Nil}]
    /\ man \in [Jobs -> Tokens \cup {Nil}]
    /\ got \in [Jobs -> Codes \cup {Nil}]
    /\ child \in [Jobs -> Procs \cup {Nil}]
    /\ overlap \in BOOLEAN
    /\ killed \in BOOLEAN
    /\ mismatch \subseteq Procs

\* At every moment of an update, and after the process or the machine stopped
\* at any of them, a complete program that does not die is still on the disk,
\* in its place or under the backup's name (swapIn, rollback) - unless two
\* updates overlapped.
ProgramKept ==
    overlap \/ \E f \in {exe} \cup {backup[v] : v \in Versions} :
                   Whole(f) /\ f.ver \notin Duds

\* Nothing but code we signed is ever run or put in place: the signature
\* covers the sha256, and the sha256 covers the bytes (VerifyManifest,
\* VerifyBytes), whatever the server answers to either request.
OnlyOurs ==
    \A f \in {exe} \cup {backup[v] : v \in Versions}
                   \cup {staged[v] : v \in Versions} :
        f # Nil => f.code = "ours"

\* The program in place is never older than one it replaced: a signed but old
\* release is not a way back (Apply) - unless two updates overlapped.
NoDowngrade ==
    \/ overlap
    \/ Whole(exe) => \A v \in Versions :
                         Whole(backup[v]) => Rank(exe.ver) >= Rank(v)

\* What update-state.json says happened is what is on the disk when it is
\* written: the new program after "installed", the old one after "rolled_back"
\* (recordOutcome) - unless two updates overlapped.
OutcomeTruthful ==
    [][ overlap' \/ outcome' = outcome \/
        CASE outcome'.result = "installed" ->
                 Whole(exe) /\ exe.ver = outcome'.to
          [] outcome'.result = "rolled_back" ->
                 Whole(exe) /\ exe.ver = outcome'.from
          [] outcome'.result = "failed" ->
                 Whole(backup[outcome'.from]) ]_vars

\* A process believes it is updating exactly while one of its jobs is, and
\* its status says so: no step is left showing when the job is over (Apply,
\* fail, the defer of PerformUpdate) - unless two updates overlapped, or the
\* last Apply named a version that is not the latest, which leaves "checking".
StatusIsHonest ==
    overlap \/ \A p \in Procs :
        /\ running[p] = (JobsOf(p) \cap Active # {})
        /\ Up(p) /\ p \notin mismatch /\ JobsOf(p) = {} =>
               state[p] \in Settled

\* An update that was accepted ends, with a result or with its process, even
\* on a machine that is never idle (waitForIdle, handover).
AcceptedSettles == \A j \in Jobs : pc[j] = "wait" ~> pc[j] = "done"

\* The machine is never left without a daemon by an update alone: "the old one
\* is started again" when the new one does not live (header, steps 7 and 8).
DaemonComesBack == killed \/ \E p \in Procs : Up(p)

=============================================================================
