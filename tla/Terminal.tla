------------------------------ MODULE Terminal ------------------------------
(***************************************************************************)
(* The registry of interactive terminals (internal/terminal), driven by    *)
(* the relay's terminal* invokes.                                          *)
(*                                                                         *)
(* Each terminalOpen invoke runs in a goroutine of its own and blocks      *)
(* until the exit event reaches ITS handler.  A terminal that was opened   *)
(* has three more goroutines (pump, keepAlive, reap), a fourth per Close   *)
(* (the grace timer), and CloseAll runs when the daemon stops.  One action *)
(* is one critical section, or one call out of the process.                *)
(*                                                                         *)
(* A call and the session object it may create have the same name: the     *)
(* element c of Calls is the invoke, and the session that invoke made.     *)
(***************************************************************************)
EXTENDS Integers, Sequences, FiniteSets

CONSTANTS
    Calls,         \* terminalOpen invokes (and the sessions they create)
    Ids,           \* terminal ids (args.terminalId)
    Cwds,          \* resolved folders a terminal may start in
    MaxTerminals,  \* Options.MaxTerminals
    MaxScroll,     \* Options.ScrollbackMaxBytes, counted in chunks
    PumpPrompt,    \* TRUE: a closed handle ends the pump within 2 seconds
    MaxChunks,     \* bound: chunks of output one shell writes
    MaxTicks,      \* bound: alive events of one terminal
    MaxAsked,      \* bound: terminalClose and terminalSignal invokes
    Stops,         \* FALSE: only behaviours in which the daemon keeps running
    Nil            \* no call, no session

ASSUME TerminalAssumption ==
    /\ IsFiniteSet(Calls)
    /\ MaxTerminals \in Nat \ {0}
    /\ MaxScroll \in Nat \ {0}
    /\ MaxChunks \in Nat
    /\ MaxTicks \in Nat
    /\ MaxAsked \in Nat
    /\ PumpPrompt \in BOOLEAN
    /\ Stops \in BOOLEAN
    /\ Nil \notin Calls

VARIABLES
    req,        \* the arguments of each call: id and resolved cwd
    pc,         \* where the goroutine of each call is
    seen,       \* the session object the call found (its own if it creates)
    target,     \* the session whose emit the call replaced
    openTo,     \* receiver captured for the opened event
    result,     \* the channel "exited" of the call holds a result
    terminals,  \* Service.terminals: id -> session or placeholder
    shell,      \* the process behind the session
    live,       \* session.view.Live
    emit,       \* session.emit: the call whose handler gets the events
    byClient,   \* session.closedByClient
    grace,      \* a Close is sleeping DisposeGrace before its SIGKILL
    killed,     \* SIGKILL was sent to the process group
    closed,     \* the PTY master is closed
    stopped,    \* session.stopKeepAlive is closed
    scroll,     \* session.scroll, by chunk number
    pushed,     \* chunks read from the PTY so far
    ticks,      \* alive events sent so far
    pump, pumpTo,    \* goroutine pump and the receiver it captured
    tick, tickTo,    \* goroutine keepAlive and the receiver it captured
    reap, reapTo,    \* goroutine reap and the receiver it captured
    heard,      \* the events each handler received
    asked,      \* terminalClose and terminalSignal invokes so far
    shut,       \* progress of CloseAll and of the process
    toClose,    \* ids CloseAll still has to Close
    rest,       \* sessions CloseAll still has to kill
    overlap,    \* history: two opens held a placeholder at the same time
    late,       \* history: sessions stored after CloseAll emptied the map
    since       \* history: chunks already pushed when the call took emit

callVars == <<req, pc, seen, target, openTo, result>>
procVars == <<shell, killed, closed>>
viewVars == <<live, emit, byClient, grace, stopped>>
outVars  == <<scroll, pushed>>
sessVars == <<procVars, viewVars, outVars>>
pumpVars == <<pump, pumpTo>>
tickVars == <<tick, tickTo, ticks>>
reapVars == <<reap, reapTo>>
thrVars  == <<pumpVars, tickVars, reapVars>>
shutVars == <<shut, toClose, rest>>
auxVars  == <<asked, overlap, late, since>>
vars     == <<callVars, terminals, sessVars, thrVars, heard, shutVars, auxVars>>

(***************************************************************************)
(* An event as a handler receives it: its kind, its session and, for data, *)
(* the number of the chunk (for alive, of the tick).                       *)
(***************************************************************************)
\* Mutant of Event: the number is one too low.
EventOffByOne(kind, s, n) == [kind |-> kind, of |-> s, n |-> n - 1]

Event(kind, s, n) == [kind |-> kind, of |-> s, n |-> n]
Kinds  == {"opened", "data", "alive", "exit"}
Events == [kind : Kinds, of : Calls, n : Nat]

\* Open stores a bare session first: no handle, Live false, Cwd empty.
Placeholder(c) == pc[c] \in {"reserved", "spawned"}

\* The ids Service.get finds: in the map, and with a handle.
Known(id) == terminals[id] # Nil /\ ~Placeholder(terminals[id])

\* The sessions Open counts against MaxTerminals.
Counted == {c \in Calls : live[c] /\ \E id \in Ids : terminals[id] = c}

\* No more terminals may be opened.
FullLate == Cardinality(Counted) > MaxTerminals  \* mutant: one too many
Full == Cardinality(Counted) >= MaxTerminals

\* Open finds nothing under the id, not even a placeholder.
FreeByGet(id) == ~Known(id)  \* mutant: looks the id up the way get does
Free(id) == terminals[id] = Nil

\* The handler send uses, read under session.mu.
FirstReceiver(s) == s  \* mutant: the handler the session was created with
Receiver(s) == emit[s]

\* CloseAll has not emptied the map yet.
Serving == shut \in {"up", "closing"}

Init ==
    /\ req \in [Calls -> [id : Ids, cwd : Cwds]]
    /\ pc = [c \in Calls |-> "idle"]
    /\ seen = [c \in Calls |-> c]
    /\ target = [c \in Calls |-> c]
    /\ openTo = [c \in Calls |-> Nil]
    /\ result = [c \in Calls |-> FALSE]
    /\ terminals = [id \in Ids |-> Nil]
    /\ shell = [c \in Calls |-> "none"]
    /\ live = [c \in Calls |-> FALSE]
    /\ emit = [c \in Calls |-> c]
    /\ byClient = [c \in Calls |-> FALSE]
    /\ grace = [c \in Calls |-> FALSE]
    /\ killed = [c \in Calls |-> FALSE]
    /\ closed = [c \in Calls |-> FALSE]
    /\ stopped = [c \in Calls |-> FALSE]
    /\ scroll = [c \in Calls |-> <<>>]
    /\ pushed = [c \in Calls |-> 0]
    /\ ticks = [c \in Calls |-> 0]
    /\ pump = [c \in Calls |-> "off"]
    /\ pumpTo = [c \in Calls |-> Nil]
    /\ tick = [c \in Calls |-> "off"]
    /\ tickTo = [c \in Calls |-> Nil]
    /\ reap = [c \in Calls |-> "off"]
    /\ reapTo = [c \in Calls |-> Nil]
    /\ heard = [c \in Calls |-> {}]
    /\ asked = 0
    /\ shut = "up"
    /\ toClose = {}
    /\ rest = {}
    /\ overlap = FALSE
    /\ late = {}
    /\ since = [c \in Calls |-> 0]

-----------------------------------------------------------------------------
(* Open, in the goroutine of the invoke c.                                 *)

Goto(c, label) == pc' = [pc EXCEPT ![c] = label]

\* The folder is outside the grants, or no valid approval: nothing changed.
Refuse(c) ==
    /\ pc[c] = "idle"
    /\ Goto(c, "failed")
    /\ UNCHANGED <<req, seen, target, openTo, result, terminals, sessVars,
                   thrVars, heard, shutVars, auxVars>>

\* The id is free and fewer than MaxTerminals are live: take the place.
Reserve(c) ==
    /\ pc[c] = "idle"
    /\ Free(req[c].id) /\ ~Full
    /\ Goto(c, "reserved")
    /\ terminals' = [terminals EXCEPT ![req[c].id] = c]
    /\ overlap' = (overlap \/ \E d \in Calls : Placeholder(d))
    /\ UNCHANGED <<req, seen, target, openTo, result, sessVars, thrVars, heard,
                   shutVars, asked, late, since>>

\* too_many: the limit is reached.
TooMany(c) ==
    /\ pc[c] = "idle"
    /\ Free(req[c].id) /\ Full
    /\ Goto(c, "failed")
    /\ UNCHANGED <<req, seen, target, openTo, result, terminals, sessVars,
                   thrVars, heard, shutVars, auxVars>>

\* terminal_exists: the id is taken by a placeholder or by another folder.
Exists(c) ==
    LET old == terminals[req[c].id] IN
    /\ pc[c] = "idle"
    /\ old # Nil
    /\ Placeholder(old) \/ req[old].cwd # req[c].cwd
    /\ Goto(c, "failed")
    /\ UNCHANGED <<req, seen, target, openTo, result, terminals, sessVars,
                   thrVars, heard, shutVars, auxVars>>

\* The same id and the same folder: this open is a reconnect.
FindExisting(c) ==
    /\ pc[c] = "idle"
    /\ Known(req[c].id)
    /\ req[terminals[req[c].id]].cwd = req[c].cwd
    /\ Goto(c, "found")
    /\ seen' = [seen EXCEPT ![c] = terminals[req[c].id]]
    /\ UNCHANGED <<req, target, openTo, result, terminals, sessVars, thrVars,
                   heard, shutVars, auxVars>>

\* No backend, no shell or no PTY: drop() deletes the placeholder if it is
\* still this one.
SpawnFail(c) ==
    /\ pc[c] = "reserved"
    /\ Goto(c, "failed")
    /\ terminals' = [id \in Ids |-> IF terminals[id] = c THEN Nil
                                                         ELSE terminals[id]]
    /\ UNCHANGED <<req, seen, target, openTo, result, sessVars, thrVars,
                   heard, shutVars, auxVars>>

\* backend.Open started the shell; only this goroutine holds the handle.
Spawn(c) ==
    /\ pc[c] = "reserved"
    /\ Goto(c, "spawned")
    /\ shell' = [shell EXCEPT ![c] = "running"]
    /\ UNCHANGED <<req, seen, target, openTo, result, terminals, killed,
                   closed, viewVars, outVars, thrVars, heard, shutVars,
                   auxVars>>

\* The real session replaces whatever the map has under the id.
Store(c) ==
    /\ pc[c] = "spawned"
    /\ Goto(c, "stored")
    /\ terminals' = [terminals EXCEPT ![req[c].id] = c]
    /\ live' = [live EXCEPT ![c] = TRUE]
    /\ late' = IF Serving THEN late ELSE late \cup {c}
    /\ UNCHANGED <<req, seen, target, openTo, result, procVars, emit,
                   byClient, grace, stopped, outVars, thrVars, heard,
                   shutVars, asked, overlap, since>>

\* Attach looks the id up AGAIN: the session may be gone, or another one.
AttachGet(c) ==
    /\ pc[c] = "found"
    /\ IF Known(req[c].id)
         THEN /\ Goto(c, "attaching")
              /\ target' = [target EXCEPT ![c] = terminals[req[c].id]]
         ELSE /\ Goto(c, "failed")
              /\ UNCHANGED target
    /\ UNCHANGED <<req, seen, openTo, result, terminals, sessVars, thrVars,
                   heard, shutVars, auxVars>>

\* Attach makes this call the receiver.
AttachSwap(c) ==
    /\ pc[c] = "attaching"
    /\ Goto(c, "swapped")
    /\ emit' = [emit EXCEPT ![target[c]] = c]
    /\ since' = [since EXCEPT ![c] = pushed[target[c]]]
    /\ UNCHANGED <<req, seen, target, openTo, result, terminals, procVars,
                   live, byClient, grace, stopped, outVars, thrVars, heard,
                   shutVars, asked, overlap, late>>

\* send(opened): first the receiver is read under session.mu ...
CaptureOpened(c) ==
    /\ pc[c] \in {"stored", "swapped"}
    /\ Goto(c, "telling")
    /\ openTo' = [openTo EXCEPT ![c] = Receiver(seen[c])]
    /\ UNCHANGED <<req, seen, target, result, terminals, sessVars, thrVars,
                   heard, shutVars, auxVars>>

\* ... then it is called; a creator starts the three goroutines after that.
EmitOpened(c) ==
    /\ pc[c] = "telling"
    /\ Goto(c, "waiting")
    /\ heard' = [heard EXCEPT ![openTo[c]] =
                    @ \cup {Event("opened", seen[c], 0)}]
    /\ openTo' = [openTo EXCEPT ![c] = Nil]
    /\ IF seen[c] = c
         THEN /\ pump' = [pump EXCEPT ![c] = "read"]
              /\ tick' = [tick EXCEPT ![c] = "run"]
              /\ reap' = [reap EXCEPT ![c] = "wait"]
         ELSE UNCHANGED <<pump, tick, reap>>
    /\ UNCHANGED <<req, seen, target, result, terminals, sessVars, pumpTo,
                   tickTo, ticks, reapTo, shutVars, auxVars>>

\* dispatchOpen: <-exited, and the invoke gets its final result.
Return(c) ==
    /\ pc[c] = "waiting"
    /\ result[c]
    /\ Goto(c, "returned")
    /\ UNCHANGED <<req, seen, target, openTo, result, terminals, sessVars,
                   thrVars, heard, shutVars, auxVars>>

-----------------------------------------------------------------------------
(* The goroutines of the session s.                                        *)

\* A read returns output; none is returned after the master is closed.
PumpRead(s) ==
    /\ pump[s] = "read"
    /\ ~closed[s]
    /\ pushed[s] < MaxChunks
    /\ pump' = [pump EXCEPT ![s] = "got"]
    /\ UNCHANGED <<callVars, terminals, sessVars, pumpTo, tickVars, reapVars,
                   heard, shutVars, auxVars>>

\* scrollback.push: drop whole chunks from the front, never the last one.
Trimmed(q) == IF Len(q) > MaxScroll /\ Len(q) > 1 THEN Tail(q) ELSE q

PumpPush(s) ==
    /\ pump[s] = "got"
    /\ pump' = [pump EXCEPT ![s] = "pushed"]
    /\ pushed' = [pushed EXCEPT ![s] = @ + 1]
    /\ scroll' = [scroll EXCEPT ![s] = Trimmed(Append(@, pushed[s] + 1))]
    /\ UNCHANGED <<callVars, terminals, procVars, viewVars, pumpTo, tickVars,
                   reapVars, heard, shutVars, auxVars>>

PumpCapture(s) ==
    /\ pump[s] = "pushed"
    /\ pump' = [pump EXCEPT ![s] = "sending"]
    /\ pumpTo' = [pumpTo EXCEPT ![s] = Receiver(s)]
    /\ UNCHANGED <<callVars, terminals, sessVars, tickVars, reapVars, heard,
                   shutVars, auxVars>>

PumpEmit(s) ==
    /\ pump[s] = "sending"
    /\ pump' = [pump EXCEPT ![s] = "read"]
    /\ pumpTo' = [pumpTo EXCEPT ![s] = Nil]
    /\ heard' = [heard EXCEPT ![pumpTo[s]] =
                    @ \cup {Event("data", s, pushed[s])}]
    /\ UNCHANGED <<callVars, terminals, sessVars, tickVars, reapVars,
                   shutVars, auxVars>>

\* EOF: the last holder of the slave is gone, or the master was closed.
PumpEnd(s) ==
    /\ pump[s] = "read"
    /\ shell[s] = "exited" \/ closed[s]
    /\ pump' = [pump EXCEPT ![s] = "done"]
    /\ UNCHANGED <<callVars, terminals, sessVars, pumpTo, tickVars, reapVars,
                   heard, shutVars, auxVars>>

\* The ticker fires: give up if the terminal is no longer live.
TickFire(s) ==
    /\ tick[s] = "run"
    /\ ticks[s] < MaxTicks
    /\ tick' = [tick EXCEPT ![s] = IF live[s] THEN "due" ELSE "done"]
    /\ UNCHANGED <<callVars, terminals, sessVars, pumpVars, tickTo, ticks,
                   reapVars, heard, shutVars, auxVars>>

TickStop(s) ==
    /\ tick[s] = "run"
    /\ stopped[s]
    /\ tick' = [tick EXCEPT ![s] = "done"]
    /\ UNCHANGED <<callVars, terminals, sessVars, pumpVars, tickTo, ticks,
                   reapVars, heard, shutVars, auxVars>>

TickCapture(s) ==
    /\ tick[s] = "due"
    /\ tick' = [tick EXCEPT ![s] = "sending"]
    /\ tickTo' = [tickTo EXCEPT ![s] = Receiver(s)]
    /\ UNCHANGED <<callVars, terminals, sessVars, pumpVars, ticks, reapVars,
                   heard, shutVars, auxVars>>

TickEmit(s) ==
    /\ tick[s] = "sending"
    /\ tick' = [tick EXCEPT ![s] = "run"]
    /\ tickTo' = [tickTo EXCEPT ![s] = Nil]
    /\ ticks' = [ticks EXCEPT ![s] = @ + 1]
    /\ heard' = [heard EXCEPT ![tickTo[s]] = @ \cup {Event("alive", s, ticks[s])}]
    /\ UNCHANGED <<callVars, terminals, sessVars, pumpVars, reapVars,
                   shutVars, auxVars>>

\* Mutant of ReapWait: does not wait for the process.
ReapAtOnce(s) ==
    /\ reap[s] = "wait"
    /\ reap' = [reap EXCEPT ![s] = "drain"]
    /\ UNCHANGED <<callVars, terminals, sessVars, pumpVars, tickVars, reapTo,
                   heard, shutVars, auxVars>>

\* handle.Wait returned.
ReapWait(s) ==
    /\ reap[s] = "wait"
    /\ shell[s] = "exited"
    /\ reap' = [reap EXCEPT ![s] = "drain"]
    /\ UNCHANGED <<callVars, terminals, sessVars, pumpVars, tickVars, reapTo,
                   heard, shutVars, auxVars>>

\* Mutant of ReapClose: no 50 ms, it waits for the pump.
ReapCloseAfterPump(s) ==
    /\ reap[s] = "drain" /\ pump[s] = "done"
    /\ reap' = [reap EXCEPT ![s] = "closed"]
    /\ closed' = [closed EXCEPT ![s] = TRUE]
    /\ UNCHANGED <<callVars, terminals, shell, killed, viewVars, outVars,
                   pumpVars, tickVars, reapTo, heard, shutVars, auxVars>>

\* The pump ended, or 50 ms went by: close the master.
ReapClose(s) ==
    /\ reap[s] = "drain"
    /\ reap' = [reap EXCEPT ![s] = "closed"]
    /\ closed' = [closed EXCEPT ![s] = TRUE]
    /\ UNCHANGED <<callVars, terminals, shell, killed, viewVars, outVars,
                   pumpVars, tickVars, reapTo, heard, shutVars, auxVars>>

\* The pump ended, or 2 s went by.
NotDrained(s) == TRUE  \* mutant: waits for nothing
Drained(s) == pump[s] = "done" \/ ~PumpPrompt

\* settle marks the end, stops the ticker.
ReapSettle(s) ==
    /\ reap[s] = "closed"
    /\ Drained(s)
    /\ reap' = [reap EXCEPT ![s] = "settled"]
    /\ live' = [live EXCEPT ![s] = FALSE]
    /\ stopped' = [stopped EXCEPT ![s] = TRUE]
    /\ UNCHANGED <<callVars, terminals, procVars, emit, byClient, grace,
                   outVars, pumpVars, tickVars, reapTo, heard, shutVars,
                   auxVars>>

ReapCapture(s) ==
    /\ reap[s] = "settled"
    /\ reap' = [reap EXCEPT ![s] = "sending"]
    /\ reapTo' = [reapTo EXCEPT ![s] = Receiver(s)]
    /\ UNCHANGED <<callVars, terminals, sessVars, pumpVars, tickVars, heard,
                   shutVars, auxVars>>

(***************************************************************************)
(* The exit event.  The handler forgets the ID (whatever session has it)   *)
(* and answers the invoke.  Forget on a placeholder dereferences its nil   *)
(* scrollback: nothing recovers on this goroutine and the process dies.    *)
(***************************************************************************)
ReapEmit(s) ==
    LET id  == req[s].id
        old == terminals[id] IN
    /\ reap[s] = "sending"
    /\ reap' = [reap EXCEPT ![s] = "done"]
    /\ reapTo' = [reapTo EXCEPT ![s] = Nil]
    /\ heard' = [heard EXCEPT ![reapTo[s]] = @ \cup {Event("exit", s, 0)}]
    /\ terminals' = [terminals EXCEPT ![id] = Nil]
    /\ IF old # Nil /\ Placeholder(old)
         THEN /\ shut' = "crashed"
              /\ UNCHANGED <<result, stopped, scroll>>
         ELSE /\ scroll' = [c \in Calls |-> IF c = old THEN <<>> ELSE scroll[c]]
              /\ stopped' = [c \in Calls |-> stopped[c] \/ c = old]
              /\ result' = [result EXCEPT ![reapTo[s]] = TRUE]
              /\ UNCHANGED shut
    /\ UNCHANGED <<req, pc, seen, target, openTo, procVars, live, emit,
                   byClient, grace, pushed, pumpVars, tickVars, toClose, rest,
                   auxVars>>

-----------------------------------------------------------------------------
(* Close, Signal, and CloseAll.                                            *)

\* Mutant of CloseSession: SIGHUP only.
HangUp(s) ==
    /\ byClient' = [byClient EXCEPT ![s] = TRUE]
    /\ UNCHANGED grace

\* Close marks the record before it signals; SIGHUP may end the shell or
\* not, so only the SIGKILL that follows the grace period is kept.
CloseSession(s) ==
    /\ byClient' = [byClient EXCEPT ![s] = TRUE]
    /\ grace' = [grace EXCEPT ![s] = @ \/ live[s]]

UserClose(id) ==
    /\ asked < MaxAsked
    /\ asked' = asked + 1
    /\ Known(id)
    /\ CloseSession(terminals[id])
    /\ UNCHANGED <<callVars, terminals, procVars, live, emit, stopped,
                   outVars, thrVars, heard, shutVars, overlap, late, since>>

\* Mutant of Kill: not for a session that was told to close already.
KillUnasked(s) ==
    killed' = [killed EXCEPT ![s] =
        @ \/ (shell[s] = "running" /\ ~byClient[s])]

Kill(s) == killed' = [killed EXCEPT ![s] = @ \/ shell[s] = "running"]

\* DisposeGrace is over.
GraceKill(s) ==
    /\ grace[s]
    /\ grace' = [grace EXCEPT ![s] = FALSE]
    /\ IF live[s] THEN Kill(s) ELSE UNCHANGED killed
    /\ UNCHANGED <<callVars, terminals, shell, closed, live, emit, byClient,
                   stopped, outVars, thrVars, heard, shutVars, auxVars>>

\* terminalSignal with SIGKILL.
UserKill(id) ==
    /\ asked < MaxAsked
    /\ asked' = asked + 1
    /\ Known(id)
    /\ live[terminals[id]]
    /\ Kill(terminals[id])
    /\ UNCHANGED <<callVars, terminals, shell, closed, viewVars, outVars,
                   thrVars, heard, shutVars, overlap, late, since>>

ShutBegin ==
    /\ Stops
    /\ shut = "up"
    /\ shut' = "closing"
    /\ toClose' = {id \in Ids : terminals[id] # Nil}
    /\ UNCHANGED <<callVars, terminals, sessVars, thrVars, heard, rest,
                   auxVars>>

ShutClose(id) ==
    /\ shut = "closing"
    /\ id \in toClose
    /\ toClose' = toClose \ {id}
    /\ IF Known(id) THEN CloseSession(terminals[id])
                    ELSE UNCHANGED <<byClient, grace>>
    /\ UNCHANGED <<callVars, terminals, procVars, live, emit, stopped,
                   outVars, thrVars, heard, shut, rest, auxVars>>

\* 200 ms later: take what is left and empty the map.
ShutSweep ==
    /\ shut = "closing"
    /\ toClose = {}
    /\ shut' = "swept"
    /\ rest' = {c \in Calls : \E id \in Ids : Known(id) /\ terminals[id] = c}
    /\ terminals' = [id \in Ids |-> Nil]
    /\ UNCHANGED <<callVars, sessVars, thrVars, heard, toClose, auxVars>>

ShutKill(s) ==
    /\ shut = "swept"
    /\ s \in rest
    /\ rest' = rest \ {s}
    /\ IF live[s] THEN Kill(s) ELSE UNCHANGED killed
    /\ stopped' = [stopped EXCEPT ![s] = TRUE]
    /\ UNCHANGED <<callVars, terminals, shell, closed, live, emit, byClient,
                   grace, outVars, thrVars, heard, shut, toClose, auxVars>>

\* CloseAll returned and the process exits: every goroutine is gone.
ShutExit ==
    /\ shut = "swept"
    /\ rest = {}
    /\ shut' = "gone"
    /\ UNCHANGED <<callVars, terminals, sessVars, thrVars, heard, toClose,
                   rest, auxVars>>

\* A shell may end at any time, on its own or by a signal.
ShellExit(s) ==
    /\ shell[s] = "running"
    /\ shell' = [shell EXCEPT ![s] = "exited"]
    /\ UNCHANGED <<callVars, terminals, killed, closed, viewVars, outVars,
                   thrVars, heard, shutVars, auxVars>>

-----------------------------------------------------------------------------

Up == shut \notin {"gone", "crashed"}

Arrive(c) ==
    \/ Refuse(c) \/ Reserve(c) \/ TooMany(c) \/ Exists(c) \/ FindExisting(c)

CallStep(c) ==
    \/ SpawnFail(c) \/ Spawn(c) \/ Store(c) \/ AttachGet(c) \/ AttachSwap(c)
    \/ CaptureOpened(c) \/ EmitOpened(c) \/ Return(c)

PumpStep(s) == PumpRead(s) \/ PumpPush(s) \/ PumpCapture(s) \/ PumpEmit(s)

TickStep(s) == TickFire(s) \/ TickStop(s) \/ TickCapture(s) \/ TickEmit(s)

ReapStep(s) ==
    \/ ReapWait(s) \/ ReapClose(s) \/ ReapSettle(s)
    \/ ReapCapture(s) \/ ReapEmit(s)

ShutStep ==
    \/ (\E id \in Ids : ShutClose(id))
    \/ ShutSweep
    \/ (\E s \in Calls : ShutKill(s))
    \/ ShutExit

Next ==
    \/ /\ Up
       /\ \/ \E c \in Calls : Arrive(c) \/ CallStep(c)
          \/ \E s \in Calls : \/ PumpStep(s) \/ PumpEnd(s) \/ TickStep(s)
                              \/ ReapStep(s) \/ GraceKill(s)
          \/ \E id \in Ids : UserClose(id) \/ UserKill(id)
          \/ ShutBegin
          \/ ShutStep
    \/ \E s \in Calls : ShellExit(s)

(***************************************************************************)
(* Goroutines that can run do run, timers fire, and a shell that got       *)
(* SIGKILL dies.  The cloud owes us nothing (Arrive, UserClose, UserKill), *)
(* a shell need not end on its own, and a pump need not see EOF before the *)
(* master is closed, because a descendant may hold the slave open.         *)
(***************************************************************************)
Fairness ==
    /\ \A c \in Calls :
         /\ WF_vars(Up /\ CallStep(c))
         /\ WF_vars(Up /\ PumpStep(c))
         /\ WF_vars(Up /\ closed[c] /\ PumpEnd(c))
         /\ WF_vars(Up /\ TickStep(c))
         /\ WF_vars(Up /\ ReapStep(c))
         /\ WF_vars(Up /\ GraceKill(c))
         /\ WF_vars(killed[c] /\ ShellExit(c))
    /\ WF_vars(Up /\ ShutStep)

Spec == Init /\ [][Next]_vars
FairSpec == Spec /\ Fairness
-----------------------------------------------------------------------------
(* Properties.                                                             *)

CallLabels == {"idle", "failed", "reserved", "spawned", "stored", "found",
               "attaching", "swapped", "telling", "waiting", "returned"}
OrNil(S) == S \cup {Nil}

\* Every variable keeps its type (the shape of Service and session).
TypeOK ==
    /\ req \in [Calls -> [id : Ids, cwd : Cwds]]
    /\ pc \in [Calls -> CallLabels]
    /\ seen \in [Calls -> Calls]
    /\ target \in [Calls -> Calls]
    /\ openTo \in [Calls -> OrNil(Calls)]
    /\ result \in [Calls -> BOOLEAN]
    /\ terminals \in [Ids -> OrNil(Calls)]
    /\ shell \in [Calls -> {"none", "running", "exited"}]
    /\ live \in [Calls -> BOOLEAN]
    /\ emit \in [Calls -> Calls]
    /\ byClient \in [Calls -> BOOLEAN]
    /\ grace \in [Calls -> BOOLEAN]
    /\ killed \in [Calls -> BOOLEAN]
    /\ closed \in [Calls -> BOOLEAN]
    /\ stopped \in [Calls -> BOOLEAN]
    /\ scroll \in [Calls -> Seq(Nat)]
    /\ pushed \in [Calls -> Nat]
    /\ ticks \in [Calls -> Nat]
    /\ pump \in [Calls -> {"off", "read", "got", "pushed", "sending", "done"}]
    /\ pumpTo \in [Calls -> OrNil(Calls)]
    /\ tick \in [Calls -> {"off", "run", "due", "sending", "done"}]
    /\ tickTo \in [Calls -> OrNil(Calls)]
    /\ reap \in [Calls -> {"off", "wait", "drain", "closed", "settled",
                           "sending", "done"}]
    /\ reapTo \in [Calls -> OrNil(Calls)]
    /\ heard \in [Calls -> SUBSET Events]
    /\ asked \in Nat
    /\ shut \in {"up", "closing", "swept", "gone", "crashed"}
    /\ toClose \in SUBSET Ids
    /\ rest \in SUBSET Calls
    /\ overlap \in BOOLEAN
    /\ late \in SUBSET Calls
    /\ since \in [Calls -> Nat]

Heard(r, kind, s) == \E e \in heard[r] : e.kind = kind /\ e.of = s

LiveSessions == {c \in Calls : live[c]}

(***************************************************************************)
(* A live terminal can be reached by its id until CloseAll empties the     *)
(* map: no reopened id, failed open or forgotten predecessor evicts it.    *)
(* An evicted shell could be neither typed at nor closed.                  *)
(***************************************************************************)
LiveIsReachable ==
    Serving => \A c \in Calls : live[c] => terminals[req[c].id] = c

(***************************************************************************)
(* MaxTerminals holds as long as no two opens were between their           *)
(* reservation and their Store at the same time.                           *)
(***************************************************************************)
LimitUnlessOverlap ==
    Serving /\ ~overlap => Cardinality(LiveSessions) <= MaxTerminals

(***************************************************************************)
(* When the daemon is gone, no shell that was registered before CloseAll   *)
(* emptied the map is left running without having been sent SIGKILL.       *)
(***************************************************************************)
StoredShellsAreKilled ==
    shut = "gone" =>
        \A c \in LiveSessions \ late : shell[c] = "running" => killed[c]

\* The receiver got the chunk k as an event, or pump is about to send it.
Sent(s, k) ==
    \/ Event("data", s, k) \in heard[emit[s]]
    \/ k = pushed[s] /\ pump[s] = "pushed"
    \/ k = pushed[s] /\ pumpTo[s] = emit[s]

\* A replay has the chunk k, or dropped it: MaxScroll later ones needed the
\* room, or the terminal is over (and perhaps forgotten).
Replayed(s, k) ==
    \/ \E i \in DOMAIN scroll[s] : scroll[s][i] = k
    \/ k <= pushed[s] - MaxScroll
    \/ stopped[s]

(***************************************************************************)
(* Reconnecting leaves no hole: a chunk pushed after the new receiver took *)
(* over is sent to it, and one pushed before can be replayed for as long   *)
(* as the terminal lasts and MaxScroll later chunks have not taken its     *)
(* place (Attach, pump, push and Forget).                                  *)
(***************************************************************************)
ReattachMissesNothing ==
    \A s \in Calls : \A k \in 1 .. pushed[s] :
        IF k > since[emit[s]] THEN Sent(s, k) ELSE Replayed(s, k)

(***************************************************************************)
(* An answered terminalOpen had a shell that is dead, and its record is    *)
(* no longer in the registry.                                              *)
(***************************************************************************)
AnsweredIsOver ==
    \A c \in Calls : pc[c] = "returned" =>
        \E s \in Calls : /\ Heard(c, "exit", s)
                         /\ shell[s] = "exited"
                         /\ terminals[req[s].id] # s

(***************************************************************************)
(* If closing the master ends the pump in time, nobody hears output of a   *)
(* terminal after anybody heard its exit.                                  *)
(***************************************************************************)
NoDataAfterExit ==
    [][\A r, s \in Calls :
          (\E q \in Calls : Heard(q, "exit", s)) =>
              \A e \in heard'[r] \ heard[r] : ~(e.of = s /\ e.kind = "data")]_heard

(***************************************************************************)
(* A terminal that was asked to close ends, whether or not its shell       *)
(* ignores SIGHUP, unless the daemon ends first.                           *)
(***************************************************************************)
ClosedEnds ==
    \A s \in Calls : byClient[s] /\ live[s] ~> reap[s] = "done" \/ ~Up

(***************************************************************************)
(* A shell that ended is reported, even when a descendant keeps the other  *)
(* side of the PTY open.                                                   *)
(***************************************************************************)
ExitIsReported ==
    \A s \in Calls :
        shell[s] = "exited" /\ live[s] ~> reap[s] = "done" \/ ~Up

\* terminalOpen is pending until the shell ends, and no longer.
EveryOpenReturns ==
    \A c \in Calls :
        pc[c] = "waiting" /\ (\A s \in Calls : shell[s] # "running")
            ~> pc[c] = "returned" \/ ~Up
=============================================================================
