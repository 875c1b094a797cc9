------------------------------ MODULE Machine ------------------------------
(***************************************************************************)
(* The processes of the program on one machine, and the two files they     *)
(* share: config.json (internal/config, and what main does with it) and    *)
(* the audit log (internal/audit).                                         *)
(*                                                                         *)
(* main has three ways: a deep link pairs the machine, --allow grants a    *)
(* folder, and anything else starts the daemon, with another server or     *)
(* not.  Each reads the whole config, changes its copy and writes it back. *)
(* Nothing keeps two processes apart.                                      *)
(***************************************************************************)
EXTENDS Integers, SequencesExt

CONSTANTS
    Procs,     \* slots for processes
    Servers,   \* the servers a link or a flag may name
    Default,   \* DefaultServer
    Folders,   \* the folders the user may grant
    MaxIds,    \* bound: machine ids that are made
    MaxLines,  \* bound: entries of the audit log
    Nil

ASSUME MachineAssumption ==
    /\ Default \in Servers
    /\ {MaxIds, MaxLines} \subseteq Nat
    /\ Nil \notin Servers \cup Procs

VARIABLES
    config,    \* config.json, or Nil: the config in it, whether all of it is
               \* there, and no process
    tmp,       \* config.json.tmp, and the process that opened it last
    ids,       \* how many machine ids were made
    granted,   \* history: folders a finished --allow has granted
    overlap,   \* history: two processes were between Load and the end of
               \* Save at once
    way,       \* what each process was started for
    pc,        \* where it is: "none", "load", "pair", "create", "write",
               \* "rename", "serve"
    cfg,       \* its copy of the config: server, machine id, token, folders
    audit,     \* the lines of the audit log
    open,      \* its last line has no newline
    last,      \* Log.last of each daemon
    entries,   \* history: how many entries were made; the next one's hash
    tampered,  \* history: somebody changed a sound log, not only its end
    hidden,    \* history: the scanner stops before what he changed, or at it
    broken     \* history: a write was torn, the end was cut off, or two
               \* daemons had the log open

files == <<config, tmp, ids, granted, overlap>>
log   == <<audit, open, last, entries, tampered, hidden, broken>>
procs == <<way, pc, cfg>>
vars  == <<files, log, procs>>

Ids    == 1 .. MaxIds
Ways   == [kind : {"pair", "serve"}, server : Servers]
          \cup [kind : {"allow"}, root : Folders]
          \cup [kind : {"allow"}, root : Folders, server : Servers]
          \cup {[kind |-> "serve"]}

\* What a config holds (a token: who gave it, and for which machine), and
\* what its file and the temporary one hold.
Tokens  == [server : Servers \cup {Nil}, id : Ids \cup {Nil}]
Configs == [server : Servers \cup {Nil}, id : Ids \cup {Nil},
            token : Tokens \cup {Nil}, roots : SUBSET Folders]
Saves   == [cfg : Configs, whole : BOOLEAN, by : Procs \cup {Nil}]
ASSUME SaveAssumption == Nil \notin Saves \cup Nat

Empty == [server |-> Nil, id |-> Nil, token |-> Nil, roots |-> {}]

Init ==
    /\ config = Nil
    /\ tmp = Nil
    /\ ids = 0
    /\ granted = {}
    /\ overlap = FALSE
    /\ way = [p \in Procs |-> Nil]
    /\ pc = [p \in Procs |-> "none"]
    /\ cfg = [p \in Procs |-> Empty]
    /\ audit = <<>>
    /\ open = FALSE
    /\ last = [p \in Procs |-> 0]
    /\ entries = 0
    /\ tampered = FALSE
    /\ hidden = FALSE
    /\ broken = FALSE

\* Processes that hold a copy they have not saved.
Changing == {p \in Procs : pc[p] \in {"pair", "create", "write", "rename"}}

Goto(p, label) == pc' = [pc EXCEPT ![p] = label]

\* The process ends, well or not.
Ends(p) ==
    /\ Goto(p, "none")
    /\ way' = [way EXCEPT ![p] = Nil]
    /\ cfg' = [cfg EXCEPT ![p] = Empty]
    /\ last' = [last EXCEPT ![p] = 0]
    /\ UNCHANGED <<audit, open, entries, tampered, hidden, broken>>

-----------------------------------------------------------------------------
\* Load, and what each way changes in the copy.

\* SetServer: another server is another machine.
TokenStays(c, s) ==  \* mutant: machine and token stay
    [c EXCEPT !.server = s]
SetServer(c, s) ==
    IF s = c.server THEN c
    ELSE [c EXCEPT !.server = s, !.id = Nil, !.token = Nil]

EnsureMachineID(c) == IF c.id = Nil THEN [c EXCEPT !.id = ids + 1] ELSE c

OrDefault(c) == IF c.server = Nil THEN [c EXCEPT !.server = Default] ELSE c

\* --server, if it is there.
Flagged(c, w) ==
    OrDefault(IF "server" \in DOMAIN w THEN SetServer(c, w.server) ELSE c)

\* The copy as main changes it before it saves it, or before it pairs.
Changed(c, w) ==
    CASE w.kind = "pair"  -> EnsureMachineID(SetServer(c, w.server))
      [] w.kind = "allow" -> [Flagged(c, w) EXCEPT !.roots = @ \cup {w.root}]
      [] w.kind = "serve" -> Flagged(c, w)

Starts(p, w) ==
    /\ pc[p] = "none"
    /\ Goto(p, "load")
    /\ way' = [way EXCEPT ![p] = w]
    /\ UNCHANGED <<cfg, files, log>>

\* A file that is not there is an empty config; one that cannot be read ends
\* the process.
Load(p) ==
    /\ pc[p] = "load"
    /\ IF config # Nil /\ ~config.whole
       THEN Ends(p) /\ UNCHANGED <<config, tmp, ids, granted, overlap>>
       ELSE LET c == Changed(IF config = Nil THEN Empty ELSE config.cfg, way[p])
            IN /\ c.id # Nil => c.id \in Ids  \* bound
               /\ ids' = IF c.id # Nil /\ c.id > ids THEN c.id ELSE ids
               /\ cfg' = [cfg EXCEPT ![p] = c]
               /\ overlap' = (overlap \/ Changing \ {p} # {})
               /\ Goto(p, IF way[p].kind = "pair" THEN "pair" ELSE "create")
               /\ UNCHANGED <<config, tmp, granted, way, log>>

\* completePairing: the code buys a token for this machine at this server; a
\* refusal ends the process, and nothing is saved.
Pair(p) ==
    /\ pc[p] = "pair"
    /\ \/ /\ cfg' = [cfg EXCEPT ![p].token =
                        [server |-> cfg[p].server, id |-> cfg[p].id]]
          /\ Goto(p, "create")
          /\ UNCHANGED <<way, files, log>>
       \/ Ends(p) /\ UNCHANGED <<config, tmp, ids, granted, overlap>>

-----------------------------------------------------------------------------
\* Save: a temporary file, and rename.

Create(p) ==
    /\ pc[p] = "create"
    /\ tmp' = [cfg |-> cfg[p], whole |-> FALSE, by |-> p]
    /\ Goto(p, "write")
    /\ UNCHANGED <<config, ids, granted, overlap, way, cfg, log>>

\* If another process has opened the file meanwhile, or renamed it, the two
\* have written into one file.
Write(p) ==
    /\ pc[p] = "write"
    /\ Goto(p, "rename")
    /\ \E whole \in BOOLEAN :
         LET new == [cfg |-> cfg[p], whole |-> whole, by |-> p]
             mine == tmp # Nil /\ tmp.by = p
         IN /\ mine => whole
            /\ IF tmp # Nil
               THEN tmp' = new /\ UNCHANGED config
               ELSE /\ config' = [new EXCEPT !.by = Nil]
                    /\ UNCHANGED tmp
    /\ UNCHANGED <<ids, granted, overlap, way, cfg, log>>

\* What a process does that has saved.
Saved(p) ==
    IF way[p].kind = "serve" /\ cfg[p].token # Nil
    THEN Goto(p, "serve")
    ELSE Goto(p, "none")

\* The scanner has room for lines of 8 MiB: it stops at a longer one, and
\* nobody looks at its error.
Seen(a, n) == \A m \in 1 .. n : ~a[m].long
LastSeen(a) ==
    {n \in DOMAIN a : Seen(a, n) /\ (n # Len(a) => a[n + 1].long)}

\* audit.Open: the log goes on behind the last line the scanner gets to; one
\* that cannot be read is no beginning.
TailOf(a) ==
    IF LastSeen(a) = {} THEN 0 ELSE a[CHOOSE n \in LastSeen(a) : TRUE].hash
Anew(a)   == 0  \* mutant: the daemon starts a chain of its own
TailHash(a) == TailOf(a)

Serving == {p \in Procs : pc[p] = "serve"}

Rename(p) ==
    /\ pc[p] = "rename"
    /\ tmp # Nil
    /\ config' = [tmp EXCEPT !.by = Nil]
    /\ tmp' = Nil
    /\ granted' = IF way[p].kind = "allow" THEN granted \cup {way[p].root}
                  ELSE granted
    /\ Saved(p)
    /\ way' = [way EXCEPT ![p] = Nil]
    /\ cfg' = [cfg EXCEPT ![p] = Empty]
    /\ IF pc'[p] = "serve"
       THEN /\ last' = [last EXCEPT ![p] = TailHash(audit)]
            /\ broken' = (broken \/ Serving # {})
       ELSE UNCHANGED <<last, broken>>
    /\ UNCHANGED <<ids, overlap, audit, open, entries, tampered, hidden>>

RenameFails(p) ==
    /\ pc[p] = "rename"
    /\ tmp = Nil
    /\ Ends(p)
    /\ UNCHANGED <<config, tmp, ids, granted, overlap>>

-----------------------------------------------------------------------------
\* The audit log.

\* The detail may be a command as long as a message of the relay, and longer
\* in the log, which escapes it.
Entry(p, long) ==
    [prev |-> last[p], hash |-> entries + 1, ok |-> TRUE, long |-> long]

\* A line that is only there in part, or with another behind it, is no JSON.
Spoilt(l) == [l EXCEPT !.hash = 0, !.ok = FALSE]

\* What a write that starts behind an open line makes of it.
Joined(l) ==
    IF open
    THEN Append(Front(audit),
                [Spoilt(Last(audit)) EXCEPT !.long = @ \/ l.long])
    ELSE Append(audit, l)

LongOnce(long) == long => \A n \in DOMAIN audit : ~audit[n].long

AppendEntry(p) ==
    /\ pc[p] = "serve"
    /\ entries < MaxLines  \* bound
    /\ entries' = entries + 1
    /\ \E long \in BOOLEAN :
         /\ LongOnce(long)  \* bound
         /\ audit' = Joined(Entry(p, long))
    /\ open' = FALSE
    /\ last' = [last EXCEPT ![p] = entries + 1]
    /\ UNCHANGED <<tampered, hidden, broken, files, procs>>

\* The disk is full, or the machine stops: part of a line is there.
TornAppend(p) ==
    /\ pc[p] = "serve"
    /\ entries < MaxLines  \* bound
    /\ entries' = entries + 1
    /\ \E long \in BOOLEAN :
         /\ LongOnce(long)  \* bound
         /\ audit' = Joined(Spoilt(Entry(p, long)))
    /\ open' = TRUE
    /\ broken' = TRUE
    /\ UNCHANGED <<last, tampered, hidden, files, procs>>

\* Somebody takes out a line, or changes it (which may make it longer or
\* shorter), and lines follow it.
Tamper ==
    /\ ~tampered /\ ~broken
    /\ \E n \in 1 .. Len(audit) - 1 :
         \/ /\ audit' = RemoveAt(audit, n)
            /\ hidden' = ~Seen(audit, n + 1)
         \/ \E long \in BOOLEAN :
              /\ audit' = [audit EXCEPT ![n] =
                              [@ EXCEPT !.ok = FALSE, !.long = long]]
              /\ hidden' = ~Seen(audit', n)
    /\ tampered' = TRUE
    /\ UNCHANGED <<open, last, entries, broken, files, procs>>

\* Or he cuts off its end, which a chain of hashes alone does not show.
CutOff ==
    /\ ~broken /\ ~tampered
    /\ audit # <<>>
    /\ \E n \in 0 .. Len(audit) - 1 : audit' = SubSeq(audit, 1, n)
    /\ broken' = TRUE
    /\ open' = FALSE
    /\ UNCHANGED <<last, entries, tampered, hidden, files, procs>>

-----------------------------------------------------------------------------

\* A signal, a kill, the machine stops: at any step.
Crash(p) ==
    /\ pc[p] # "none"
    /\ Ends(p)
    /\ UNCHANGED <<config, tmp, ids, granted, overlap>>

Next ==
    \/ \E p \in Procs :
         \/ \E w \in Ways : Starts(p, w)
         \/ Load(p) \/ Pair(p) \/ Create(p) \/ Write(p)
         \/ Rename(p) \/ RenameFails(p)
         \/ AppendEntry(p) \/ TornAppend(p) \/ Crash(p)
    \/ Tamper \/ CutOff

Spec == Init /\ [][Next]_vars

-----------------------------------------------------------------------------
\* Properties.

Lines == [prev : 0 .. MaxLines, hash : 0 .. MaxLines, ok : BOOLEAN,
          long : BOOLEAN]

\* The value of every variable is one the code can give it.
TypeOK ==
    /\ config \in Saves \cup {Nil}
    /\ tmp \in Saves \cup {Nil}
    /\ ids \in Ids \cup {0}
    /\ granted \subseteq Folders
    /\ overlap \in BOOLEAN
    /\ way \in [Procs -> Ways \cup {Nil}]
    /\ pc \in [Procs -> {"none", "load", "pair", "create", "write", "rename",
                         "serve"}]
    /\ cfg \in [Procs -> Configs]
    /\ audit \in Seq(Lines)
    /\ open \in BOOLEAN
    /\ last \in [Procs -> 0 .. MaxLines]
    /\ entries \in 0 .. MaxLines
    /\ tampered \in BOOLEAN
    /\ hidden \in BOOLEAN
    /\ broken \in BOOLEAN

\* At every moment, a crash in the middle of a save included, config.json can
\* be read; its token was given for its machine and by its server; and a
\* folder the user granted is still granted, whatever was paired or changed
\* since (Save, SetServer, AddRoot, handleDeepLink) - unless two processes
\* changed the config at the same time.
ConfigHolds ==
    overlap \/ config = Nil \/
        LET c == config.cfg IN
        /\ config.whole
        /\ c.token # Nil => c.token.server = c.server /\ c.token.id = c.id
        /\ granted \subseteq c.roots

\* Verify: it reads as far as the scanner.
Chained(a, n) ==
    a[n].ok /\ a[n].prev = IF n = 1 THEN 0 ELSE a[n - 1].hash

Verifies(a) == \A n \in DOMAIN a : Seen(a, n) => Chained(a, n)

\* Verify tells: a log somebody changed in the middle is never taken for
\* whole again, whatever daemons append to it later - unless a line too long
\* for the scanner, his own or one that was there, keeps Verify from looking
\* at the change or at the line behind one he took out.  And it raises no
\* alarm over a log nobody touched, restarts and pairings included (Open,
\* Append, Verify) - unless a write was torn or two daemons appended to it.
ChainTells ==
    /\ tampered /\ ~hidden => ~Verifies(audit)
    /\ ~tampered /\ ~broken => Verifies(audit)
=============================================================================
