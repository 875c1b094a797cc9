-------------------------------- MODULE Mcp --------------------------------
(***************************************************************************)
(* Local MCP servers (internal/mcp): the host that decides about a call,   *)
(* the service that knows what the user granted, and the connection to one *)
(* server, a child process that speaks JSON-RPC over its stdin and stdout. *)
(*                                                                         *)
(* A connection outlives its process: each spawn starts a generation, with *)
(* a process, a pair of pipes and a read loop of its own, while c.cmd,     *)
(* c.stdin, c.waiting, c.nextID and c.dead are shared by all of them.      *)
(* Calls run in goroutines of their own; so do the read loops, the idle    *)
(* timer and the kill timers.                                              *)
(*                                                                         *)
(* One server may be granted, ServerID.  Servers share only the map conns. *)
(***************************************************************************)
EXTENDS Integers, SequencesExt

CONSTANTS
    NCalls,    \* the mcpList and mcpCall invokes, in the order they arrive
    AtOnce,    \* bound: calls that are handled at the same time
    Requests,  \* what they may ask for
    ServerID,  \* the server
    Files,     \* what the grants file may be when the daemon starts
    MaxGen,    \* bound: processes the connection may spawn
    MaxOut,    \* bound: lines in a stdout pipe
    Nil

ASSUME McpAssumption ==
    /\ Requests \subseteq [op : {"list", "call"}, server : STRING,
                           tool : STRING, ticket : BOOLEAN]
    /\ \A f \in Files :
         /\ f.writable \in BOOLEAN
         /\ f.entries \in Seq([id : STRING, valid : BOOLEAN,
                               enabled : BOOLEAN, readOnly : SUBSET STRING])
    /\ {NCalls, AtOnce, MaxGen, MaxOut} \subseteq Nat

Gens    == 1 .. MaxGen
Calls   == 1 .. NCalls
Ids     == 1 .. NCalls + 1  \* one initialize, and a request for each call
Labels  == {"idle", "lock", "request", "write", "await", "close", "done"}

\* What the channel of a request may hold.
Boxes == [kind : {"result", "error"}, from : Calls]
ASSUME NilAssumption == Nil \notin Nat \cup Boxes

VARIABLES
    file,     \* the grants file as it was read at the start
    pc,       \* where each call is
    req,      \* what it asks for
    startMu,  \* who holds startMu: the call that spawns and greets
    sent,     \* the id of the call's request and the generation it went to
    box,      \* the channel of the call's request
    gen,      \* the last generation
    cmd,      \* the generation c.cmd belongs to (0: nil)
    stdin,    \* the generation c.stdin belongs to (0: nil)
    dead,     \* c.dead
    nextID,   \* c.nextID
    waiting,  \* c.waiting: the call behind each id
    armed,    \* the idle timer runs
    closing,  \* the generation the timer's Close took, before its failAll
    srv,      \* the process of each generation
    shut,     \* generations whose stdin was closed
    kill,     \* generations whose kill timer runs
    inbox,    \* requests each process received
    out,      \* its stdout
    reader,   \* its read loop
    ensured,  \* history: the generation ensure returned to the call
    greeted,  \* history: generations that answered initialize
    crossed,  \* history: generations that got a line of an earlier one
    struck    \* history: generations another one's failAll declared dead

callVars == <<pc, req, startMu, sent, box, ensured>>
connVars == <<gen, cmd, stdin, dead, nextID, waiting, armed>>
procVars == <<srv, shut, kill, inbox, out, reader>>
history  == <<greeted, crossed, struck>>
vars     == <<file, callVars, connVars, closing, procVars, history>>

-----------------------------------------------------------------------------
\* What the user granted.

FirstOfId(f) ==
    {n \in DOMAIN f.entries :
        /\ f.entries[n].valid
        /\ \A m \in 1 .. n - 1 :
             f.entries[m].valid => f.entries[m].id # f.entries[n].id}

\* LoadGrants: a file others may write counts for nothing; of two entries with
\* one id the first stays.
TrustedGrants(f) == {f.entries[n] : n \in FirstOfId(f)}  \* mutant: any file
LoadGrants(f) ==
    IF f.writable THEN {} ELSE {f.entries[n] : n \in FirstOfId(f)}

\* New and GrantFor: the enabled ones, by id.
Granted(id) == {e \in LoadGrants(file) : e.enabled /\ e.id = id}

\* IsReadOnlyTool: the user named the tool; a wildcard names none.
ReadOnly(r) == \E e \in Granted(r.server) : r.tool \in e.readOnly \ {"*"}

-----------------------------------------------------------------------------

Init ==
    /\ file \in Files
    /\ pc = [c \in Calls |-> "idle"]
    /\ req = [c \in Calls |-> Nil]
    /\ startMu = Nil
    /\ sent = [c \in Calls |-> <<0, 0>>]
    /\ box = [c \in Calls |-> Nil]
    /\ gen = 0
    /\ cmd = 0
    /\ stdin = 0
    /\ dead = TRUE
    /\ nextID = 1
    /\ waiting = [i \in Ids |-> Nil]
    /\ armed = FALSE
    /\ closing = Nil
    /\ srv = [g \in Gens |-> "none"]
    /\ shut = {}
    /\ kill = {}
    /\ inbox = [g \in Gens |-> {}]
    /\ out = [g \in Gens |-> <<>>]
    /\ reader = [g \in Gens |-> "none"]
    /\ ensured = [c \in Calls |-> 0]
    /\ greeted = {}
    /\ crossed = {}
    /\ struck = {}

Goto(c, label) == pc' = [pc EXCEPT ![c] = label]

\* The call returns to its caller.
End(c) ==
    /\ Goto(c, "done")
    /\ req' = [req EXCEPT ![c] = Nil]
    /\ sent' = [sent EXCEPT ![c] = <<0, 0>>]
    /\ box' = [box EXCEPT ![c] = Nil]
    /\ ensured' = [ensured EXCEPT ![c] = 0]

\* The call that holds startMu asks for initialize, any other for its tool.
Greets(c) == startMu = c

\* ensure fails through Close, which keeps startMu; a tool request just fails.
Fails(c) ==
    IF Greets(c)
    THEN /\ Goto(c, "close")
         /\ sent' = [sent EXCEPT ![c] = <<0, 0>>]
         /\ box' = [box EXCEPT ![c] = Nil]
         /\ UNCHANGED <<req, ensured>>
    ELSE End(c)

Forget(c) == [waiting EXCEPT ![sent[c][1]] = Nil]

-----------------------------------------------------------------------------
\* HandleList, HandleCall: the grant, then the ticket, then the connection.

Permitted(r) == r.op = "list" \/ ReadOnly(r) \/ r.ticket

Running == {c \in Calls : pc[c] \notin {"idle", "done"}}

Begin(c, r) ==
    /\ pc[c] = "idle"
    /\ \A d \in 1 .. c - 1 : pc[d] # "idle"
    /\ Cardinality(Running) < AtOnce  \* bound
    /\ IF Granted(r.server) # {} /\ r.server = ServerID /\ Permitted(r)
       THEN /\ Goto(c, "lock")
            /\ req' = [req EXCEPT ![c] = r]
       ELSE Goto(c, "done") /\ UNCHANGED req
    /\ UNCHANGED <<file, startMu, sent, box, ensured, connVars, closing,
                   procVars, history>>

\* ensure takes startMu; a connection that is alive is used as it is.
Ensure(c) ==
    /\ pc[c] = "lock"
    /\ startMu = Nil
    /\ ~dead
    /\ Goto(c, "request")
    /\ ensured' = [ensured EXCEPT ![c] = gen]
    /\ armed' = TRUE
    /\ UNCHANGED <<file, req, startMu, sent, box, gen, cmd, stdin, dead,
                   nextID, waiting, closing, procVars, history>>

SpawnFails(c) ==
    /\ pc[c] = "lock"
    /\ startMu = Nil
    /\ dead
    /\ End(c)
    /\ UNCHANGED <<file, startMu, connVars, closing, procVars, history>>

\* The connection is dead: a new process, to be greeted under startMu.
Spawn(c) ==
    /\ pc[c] = "lock"
    /\ startMu = Nil
    /\ dead
    /\ gen < MaxGen
    /\ startMu' = c
    /\ gen' = gen + 1
    /\ cmd' = gen'
    /\ stdin' = gen'
    /\ dead' = FALSE
    /\ nextID' = 1
    /\ waiting' = [i \in Ids |-> Nil]
    /\ armed' = TRUE
    /\ srv' = [srv EXCEPT ![gen'] = "up"]
    /\ reader' = [reader EXCEPT ![gen'] = "reads"]
    /\ Goto(c, "request")
    /\ UNCHANGED <<file, req, sent, box, ensured, closing, shut,
                   kill, inbox, out, history>>

-----------------------------------------------------------------------------
\* request.

SameID == nextID  \* mutant: the counter is not moved
NextID == nextID + 1

\* Under c.mu the request takes the id and the pipe that are current now.
Request(c) ==
    /\ pc[c] = "request"
    /\ IF dead
       THEN Fails(c) /\ UNCHANGED <<nextID, waiting>>
       ELSE /\ nextID' = NextID
            /\ waiting' = [waiting EXCEPT ![nextID] = c]
            /\ sent' = [sent EXCEPT ![c] = <<nextID, stdin>>]
            /\ Goto(c, "write")
            /\ UNCHANGED <<req, box, ensured>>
    /\ UNCHANGED <<file, startMu, gen, cmd, stdin, dead, armed, closing,
                   procVars, history>>

\* What the server gets.
Message(c) ==
    [id |-> sent[c][1], from |-> c,
     kind |-> IF Greets(c) THEN "hello" ELSE "tool",
     moved |-> ~Greets(c) /\ ensured[c] # sent[c][2],
     asks |-> req[c]]

\* The pipe the request took still has both its ends.
Open(c) == srv[sent[c][2]] = "up" /\ sent[c][2] \notin shut

\* stdin.Write, in which no timer runs yet: it lasts until the pipe has room
\* for the line, and the server need not read.
Written(c) ==
    /\ pc[c] = "write"
    /\ Open(c)
    /\ inbox' = [inbox EXCEPT ![sent[c][2]] = @ \cup {Message(c)}]
    /\ ensured' = [ensured EXCEPT ![c] = 0]
    /\ Goto(c, "await")
    /\ UNCHANGED <<file, req, startMu, sent, box, connVars, closing, srv, shut,
                   kill, out, reader, history>>

\* One end of the pipe is gone, which also ends a Write that waits for room:
\* the request is forgotten again.
WriteFails(c) ==
    /\ pc[c] = "write"
    /\ ~Open(c)
    /\ waiting' = Forget(c)
    /\ Fails(c)
    /\ UNCHANGED <<file, startMu, gen, cmd, stdin, dead, nextID, armed,
                   closing, procVars, history>>

\* The channel has something: a result ends ensure (and lets the tool request
\* follow) or the call; an error fails it.
Receive(c) ==
    /\ pc[c] = "await"
    /\ box[c] # Nil
    /\ IF Greets(c) /\ box[c].kind = "result"
       THEN /\ Goto(c, "request")
            /\ startMu' = Nil
            /\ box' = [box EXCEPT ![c] = Nil]
            /\ ensured' = [ensured EXCEPT ![c] = gen]
            /\ armed' = TRUE
            /\ UNCHANGED <<req, sent>>
       ELSE Fails(c) /\ UNCHANGED <<startMu, armed>>
    /\ UNCHANGED <<file, gen, cmd, stdin, dead, nextID, waiting, closing,
                   procVars, history>>

\* The timeout of the request, or the deadline of the invoke.
NoTimer(c) == FALSE  \* mutant: it waits as long as the server likes
TimesOut(c) == pc[c] = "await"

GiveUp(c) ==
    /\ TimesOut(c)
    /\ waiting' = Forget(c)
    /\ Fails(c)
    /\ UNCHANGED <<file, startMu, gen, cmd, stdin, dead, nextID, armed,
                   closing, procVars, history>>

-----------------------------------------------------------------------------
\* failAll and Close.

\* Generation g's read loop, or a Close that took generation g, fails whatever
\* waits now and declares the connection dead.
FailAll(g) ==
    LET hit == {waiting[i] : i \in Ids} \ {Nil} IN
    /\ dead' = TRUE
    /\ stdin' = 0
    /\ waiting' = [i \in Ids |-> Nil]
    /\ box' = [c \in Calls |->
                  IF c \in hit THEN [kind |-> "error", from |-> c] ELSE box[c]]
    /\ struck' = struck \cup (IF ~dead /\ g # gen THEN {gen} ELSE {})

\* Close takes c.cmd, closes stdin and starts the kill timer; then failAll.
NoKill  == UNCHANGED kill  \* mutant: stdin is closed, nothing more
KillNil == kill' = kill \cup {cmd}  \* mutant: without the look at nil
SetKill == kill' = kill \cup ({cmd} \ {0})

CloseTakes ==
    /\ cmd' = 0
    /\ armed' = FALSE
    /\ shut' = shut \cup ({stdin} \ {0})
    /\ SetKill

Taken == IF cmd # 0 THEN cmd ELSE stdin

\* ensure failed; startMu is held, so nothing can be spawned meanwhile.
EnsureFails(c) ==
    /\ pc[c] = "close"
    /\ CloseTakes
    /\ FailAll(Taken)
    /\ startMu' = Nil
    /\ Goto(c, "done")
    /\ req' = [req EXCEPT ![c] = Nil]
    /\ UNCHANGED <<file, sent, ensured, gen, nextID, closing, srv, inbox, out,
                   reader, greeted, crossed>>

\* Ten minutes without a request; a callback that has started is not stopped
\* by touch any more.
IdleFires ==
    /\ armed
    /\ closing = Nil
    /\ CloseTakes
    /\ closing' = Taken
    /\ UNCHANGED <<file, callVars, gen, stdin, dead, nextID, waiting, srv,
                   inbox, out, reader, history>>

IdleCloses ==
    /\ closing # Nil
    /\ FailAll(closing)
    /\ closing' = Nil
    /\ UNCHANGED <<file, pc, req, startMu, sent, ensured, gen, cmd, nextID,
                   armed, procVars, greeted, crossed>>

-----------------------------------------------------------------------------
\* The processes (external), and the loops that read them.

\* A server answers what it received, in any order, or never; it may refuse
\* initialize.
Answers(g) ==
    /\ srv[g] = "up"
    /\ Len(out[g]) < MaxOut
    /\ \E m \in inbox[g], kind \in {"result", "error"} :
         /\ kind = "error" => m.kind = "hello"
         /\ out' = [out EXCEPT ![g] =
                       Append(@, [id |-> m.id, from |-> m.from, kind |-> kind])]
         /\ inbox' = [inbox EXCEPT ![g] = @ \ {m}]
    /\ UNCHANGED <<file, callVars, connVars, closing, srv, shut, kill, reader,
                   history>>

\* It ends: by itself, because stdin was closed, or because it was killed.
Exits(g) ==
    /\ srv[g] = "up"
    /\ srv' = [srv EXCEPT ![g] = "gone"]
    /\ kill' = kill \ {g}
    /\ shut' = shut \ {g}
    /\ inbox' = [inbox EXCEPT ![g] = {}]
    /\ UNCHANGED <<file, callVars, connVars, closing, out, reader, history>>

KillFires(g) == g \in kill /\ Exits(g)

\* onLine: whoever waits for the id in the map of now gets the line.
OnLine(g) ==
    /\ reader[g] = "reads"
    /\ out[g] # <<>>
    /\ LET m == Head(out[g])
           c == waiting[m.id]
       IN /\ IF c = Nil
             THEN UNCHANGED <<waiting, box, greeted, crossed>>
             ELSE /\ waiting' = [waiting EXCEPT ![m.id] = Nil]
                  /\ box' = [box EXCEPT ![c] =
                                [kind |-> m.kind, from |-> m.from]]
                  /\ greeted' = IF Greets(c) /\ g = gen /\ m.kind = "result"
                                THEN greeted \cup {g} ELSE greeted
                  /\ crossed' = IF g # gen THEN crossed \cup {gen} ELSE crossed
    /\ out' = [out EXCEPT ![g] = Tail(@)]
    /\ UNCHANGED <<file, pc, req, startMu, sent, ensured, gen, cmd, stdin,
                   dead, nextID, armed, closing, srv, shut, kill, inbox,
                   reader, struck>>

\* End of file: the read loop waits for the process, then failAll.
ReadEnds(g) ==
    /\ reader[g] = "reads"
    /\ srv[g] = "gone"
    /\ out[g] = <<>>
    /\ reader' = [reader EXCEPT ![g] = "done"]
    /\ FailAll(g)
    /\ UNCHANGED <<file, pc, req, startMu, sent, ensured, gen, cmd, nextID,
                   armed, closing, srv, shut, kill, inbox, out, greeted,
                   crossed>>

-----------------------------------------------------------------------------

Starts(c) == Ensure(c) \/ Spawn(c) \/ SpawnFails(c)

\* initialize is the first line of its pipe and fits, if no request that came
\* from an earlier generation is blocked in front of it.
GreetingFits(c) ==
    /\ Greets(c)
    /\ \A d \in Calls \ {c} : pc[d] = "write" => sent[d][2] # sent[c][2]

Step(c) ==
    \/ Starts(c)
    \/ Request(c) \/ WriteFails(c) \/ Receive(c) \/ GiveUp(c) \/ EnsureFails(c)
    \/ GreetingFits(c) /\ Written(c)

Next ==
    \/ \E c \in Calls :
         Step(c) \/ Written(c) \/ \E r \in Requests : Begin(c, r)
    \/ IdleFires \/ IdleCloses
    \/ \E g \in Gens :
         Answers(g) \/ Exits(g) \/ KillFires(g) \/ OnLine(g) \/ ReadEnds(g)

Spec == Init /\ [][Next]_vars

\* The goroutines of the calls run on, their timers fire, and sync.Mutex
\* starves nobody who waits for startMu.  Of the servers nothing is assumed,
\* not even that they read; nor of the idle timer, which every call sets back.
FairSpec == Spec /\ \A c \in Calls : WF_vars(Step(c)) /\ SF_vars(Starts(c))

-----------------------------------------------------------------------------
\* Properties.

\* The value of every variable is one the code can give it.
TypeOK ==
    /\ file \in Files
    /\ pc \in [Calls -> Labels]
    /\ req \in [Calls -> Requests \cup {Nil}]
    /\ startMu \in Calls \cup {Nil}
    /\ sent \in [Calls -> (Ids \cup {0}) \X (Gens \cup {0})]
    /\ box \in [Calls -> Boxes \cup {Nil}]
    /\ {gen, cmd, stdin} \subseteq Gens \cup {0}
    /\ dead \in BOOLEAN
    /\ nextID \in 1 .. NCalls + 2
    /\ waiting \in [Ids -> Calls \cup {Nil}]
    /\ armed \in BOOLEAN
    /\ closing \in Gens \cup {0, Nil}
    /\ srv \in [Gens -> {"none", "up", "gone"}]
    /\ shut \subseteq Gens
    /\ kill \subseteq Gens
    /\ \A g \in Gens : \A m \in inbox[g] : m.id \in Ids /\ m.from \in Calls
    /\ \A g \in Gens : Len(out[g]) <= MaxOut
    /\ reader \in [Gens -> {"none", "reads", "done"}]
    /\ ensured \in [Calls -> Gens \cup {0}]
    /\ greeted \cup crossed \cup struck \subseteq Gens

\* Whatever the server answers, in any order, again or late, the result a call
\* finds in its channel is the answer to its own request (request, onLine) -
\* unless an earlier process of the connection spoke to this generation: every
\* generation numbers its requests from 1.
AnswerIsOwn ==
    \A c \in Calls :
        box[c] # Nil => box[c].from = c \/ sent[c][2] \in crossed

\* A server process that lives is the one c.cmd names, or a kill timer runs
\* for it: none is left that nobody can end (spawn, Close) - unless failAll of
\* another generation struck it, so that it was replaced without a Close.
NoOrphan ==
    \A g \in Gens :
        srv[g] = "up" => g = cmd \/ g \in kill \/ g \in struck

\* The same without the exception: "the processes must be ended for sure, or a
\* row of programs nobody can reach stays on the user's computer" (header).
EveryServerIsOurs == \A g \in Gens : srv[g] = "up" => g = cmd \/ g \in kill

\* The user listed the tool as read-only, or approved this call.
Agreed(r) ==
    \/ r.op = "list"
    \/ r.ticket
    \/ \E n \in DOMAIN file.entries :
         /\ file.entries[n].id = r.server
         /\ r.tool \in file.entries[n].readOnly

\* What reaches a server is due: the user enabled the server in a file only he
\* can write, he agreed to the call, and the process has answered initialize
\* (LoadGrants, HandleCall, ensure) - unless the connection was replaced
\* between ensure and the request, or an earlier process answered for it.
ToolCallsAreDue ==
    \A g \in Gens : \A m \in inbox[g] :
        /\ ~file.writable
        /\ \E n \in DOMAIN file.entries :
             file.entries[n].id = ServerID /\ file.entries[n].enabled
        /\ Agreed(m.asks)
        /\ m.kind = "tool" => m.moved \/ g \in greeted \/ g \in crossed

\* The call writes a line, or waits for startMu while its holder writes one.
Blocked(c) ==
    \/ pc[c] = "write"
    \/ pc[c] = "lock" /\ startMu # Nil /\ pc[startMu] = "write"

\* A call that waits for the connection is answered, whatever the server does
\* and however the connection is closed under it (request, ensure, failAll) -
\* unless it is blocked for ever by a pipe that the server does not read.
EveryCallEnds ==
    \A c \in Calls : pc[c] = "lock" ~> pc[c] = "done" \/ []Blocked(c)
=============================================================================
