# Rabi Local in TLA+

Rabi Local is the daemon a user installs on his own computer so that an agent
in the cloud can work there: run commands, open terminals, call local MCP
servers, read and write files. It holds one connection to the cloud (the
relay); everything that changes something needs the user's approval.

This directory holds TLA+ modules for the parts of it that are concurrent or
keep state across failures, TLC configurations for small instances of them,
and proofs checked by TLAPS. `PROJECT.json` lists the runs, the mutants that
show what each property rests on, the theorems, the hazards the properties aim
at, and for every definition the lines of `src/` it models.

## 1. The system

| Component | State it keeps | Operations | Hard parts |
|---|---|---|---|
| `relay` | the credential, the queue of results, `draining` | `Run`, `connectOnce`, `Send`, `drain` | reconnects, results dropped while offline, every message in a goroutine of its own |
| `host` (dispatch) | `inflight`, `execs` | `Dispatch`, `Busy`, `Close` | final result last, Busy, stop while invokes are pending |
| `host/exec`, `runner` | `execs`, `running`, a redactor per stream | `exec`, `cancel`, `Start`, `Cancel`, `CancelAll` | pumps, finisher, deadline, cancel and stop race |
| `terminal` | `terminals`, per session `emit`, `Live`, scrollback | `Open`, `Attach`, `Close`, `Signal`, `Forget`, `CloseAll`, `pump`, `keepAlive`, `reap` | re-attach, limit, exit order, stop |
| `devicekeys` store | the trusted keys, `devices.json`, `unsafe` | `Open`, `Apply`, `Keys`, `DeviceOnly`, `Unsafe` | crash between file and memory, late or repeated requests |
| approval gate (`devicekeys.Gate`, `MemoryNonces`, `hmacapproval`, `host.DeviceGate`) | the book of used tickets | `Require`, `Seen`, `Remember`, `Verify` | the list changes while a ticket is checked, replays, restarts |
| `update` | status, `running`; on the disk the program, its backups, staged downloads, `update-state.json` | `Check`, `Apply`, `PerformUpdate`, `swapIn`, `handover`, `rollback` | crash at any step, two updates, handover to the new process, old or forged releases |
| `mcp` | the child process, pending calls, grants | `LoadGrants`, `ensure`, `request`, `onLine`, `failAll`, `touch`, `Close` | generations of the process, answers of an old one, idle timer, timeouts |
| `audit` | the last hash, `audit.jsonl` | `Open`, `Append`, `Verify` | two daemons, torn tail, changes by hand |
| `redact` | the pending tail of a stream | `Redact`, `Push`, `Flush` | secrets and characters cut in two |
| `config`, `main` | `config.json` | `Load`, `Save`, `SetServer`, `EnsureMachineID`, `AddRoot`; pair, `--allow`, serve | crash while saving, two processes at once, change of server |
| takeover | the old daemon's pid file | `Takeover`, `AdoptLegacy` | called by nobody in the program |
| `confine`, `envguard`, `canonical` | none | pure functions | none |
| `menubar` | a view of pid file and config | start, stop, quit | stale view |

How they interact. `relay` hands each invoke to `Host.Dispatch` in a goroutine
of its own. `Dispatch` counts it in `inflight`, asks the approval gate, and
calls the terminal registry, the runner, MCP, the updater or the device store.
Results travel back through one `emit` per invoke: partials, then the final
result. The gate reads the device store under the store's mutex, one read at a
time. The updater waits until `Busy` is false, then stops the program. When
`main` returns, `Host.Close` closes MCP, calls `Service.CloseAll` for the
terminals and `Runner.CancelAll` for the commands, and the process ends with
all its goroutines.

What makes each part correct:

- *terminal*: a live shell can be reached by its id; no more than
  `MaxTerminals` live; no hole is left by a re-attach and no output follows the
  exit; each open is answered when its shell is over, not before; no shell
  outlives the daemon.
- *exec*: all output leaves before the result; every command is answered;
  Busy is false only if every command has ended; a cancelled command gets the
  signal.
- *device store*: memory and file agree; a machine that once had a key never
  falls back to the weaker ticket because of a failure; a key nobody signed is
  the first one only.
- *gate*: one ticket, one act; a revoked key allows nothing; the app's ticket
  allows nothing on an enrolled machine, and works on one that is not.
- *update*: after any crash a program that works is in place, or its backup
  is; nothing unsigned is ever put there, nothing older replaces something
  newer, and the record and the status say what happened; an accepted update
  ends.
- *mcp*: a call gets its own answer or an error, and it gets one; no server
  process is left behind; nothing runs that the user did not grant or approve.
- *outbound* (`relay`, `Dispatch`, `redact`): results leave in order, once, and
  none waits for ever; when the final result arrives, all the output did, whole,
  and with every secret hidden that the carry covers.
- *machine* (`config`, `audit`, `main`): the config can be read at any moment,
  its token belongs to its server, a granted folder stays granted; the log shows
  that somebody changed it, and raises no false alarm.

## 2. Modules

| Module | What it models |
|---|---|
| `Terminal` | `internal/terminal`: the registry and its sessions, and the exit handler of `dispatchOpen` |
| `Exec` | `internal/host/exec.go` over `internal/runner/exec.go` |
| `DeviceStore` | `internal/devicekeys/store.go` and `enrollment.go`: the list, its file, crashes and restarts |
| `Approval` | extends `DeviceStore` with the gate: `gate.go`, `approval.go`, `hmac.go`, `host/approval.go` |
| `Update` | `internal/update`: `update.go`, `verify.go`, and how `main` wires them |
| `Mcp` | `internal/mcp`: `grants.go`, `host.go`, `service.go`, and the connection of `client.go` to one server |
| `Delivery` | abstract: a lossy queue of results |
| `Redact` | `internal/redact`: `Redact` and the stream's cut, as operators |
| `Outbound` | `relay/client.go` and `Host.Dispatch` with the output of a command through `Redact`; implements `Delivery` |
| `Machine` | processes of the program over `config.json` and the audit log: `main.go`, `internal/config`, `internal/audit` |
| `TerminalProofs`, `ExecProofs`, `DeviceStoreProofs`, `ApprovalProofs`, `UpdateProofs`, `McpProofs`, `OutboundProofs`, `MachineProofs` | theorems about these modules, and their proofs |
| `MCTerminal`, `MCExec`, `MCDeviceStore`, `MCApproval`, `MCUpdate`, `MCMcp`, `MCOutbound`, `MCMachine` | symmetry sets, and the tickets, releases, grants and texts of the instances |

Conventions. One action is one critical section, or one call that leaves the
process (spawn, signal, read, write, emit). A field of a Go struct is a
function from sessions (calls, execs) to its value, and a goroutine has a
variable that says where it is. Variables and actions whose comment begins
with *history* exist for the properties only. In front of some definitions
stands a *mutant*: the same operator with a plausible bug. No module uses it;
`PROJECT.json` pairs it with the property that must fail if it were used.

**Terminal.** The element `c` of `Calls` is a `terminalOpen` invoke and, if it
creates one, the session it creates. `pc[c]` is the goroutine of the invoke:
`Reserve` (placeholder), `Spawn`, `Store`, `CaptureOpened`, `EmitOpened`,
`Return`; for a re-attach `FindExisting`, `AttachGet` (the second lookup),
`AttachSwap`. `send` is two steps everywhere: read the receiver under
`session.mu`, call it later. `pump`, `tick` and `reap` are the three goroutines
of a session. `ReapEmit` is the exit handler: `Forget` and the answer; `Forget`
of a placeholder dereferences nil, and the process is gone (`shut =
"crashed"`). `ShutBegin` to `ShutExit` are `CloseAll` and the end of the process.

**Exec.** `Register`, `Spawn`, `List`, `Feed`, `StartPumps`, `Arm`, `Answer`
are the goroutine of the invoke, through `Host.exec` and `Runner.Start`. The
two pumps, the finisher (`Reap`, `Unlist`, `ExecExit`), the deadline
(`TimerFire`, `TimerCancel`), `cancel` invokes and the two seconds between
SIGTERM and SIGKILL are processes of their own. Output is counted in chunks:
`wrote`, `read` and `sent` per stream; the redactor may keep any part of what
was read until its flush. A command is up to three processes: its *leader*,
which `cmd.Wait` waits for, a *child* in its group, and an *heir* that left the
group (`Fork`, `Detach`). `pipes` has those of them that hold its stdin, stdout
and stderr; a process lets go of all three at once (`Redirect`). A pump ends when
nobody holds them (`PumpEnd`), and the finisher goes on when the leader has
ended (`Reap`), whoever else is left. A "big" stdin does not fit into a pipe, and
its write (`Feed`) waits for a reader.

**DeviceStore.** A request is what one signed blob says: op, key, signer. Its op
may be neither add nor remove, and its credential id may be missing (`NoName`):
`VerifyEnrollment` refuses neither. `Begin`, `Save` or `SaveFail`, and `Commit`
are one `Apply`, under the mutex; a `Crash` may come between them. `Open` reads
the file: a bad mode or syntax makes the store unsafe, an entry without a
credential id or with a field of a wrong type is skipped (`Entries`), and a
missing file has no keys. Requests may be taken late, again, or never.

**Approval.** `pc[c]` is where the gate is with invoke `c`. Each read of the
store (`CheckSafe`, `ReadKeys`, `CheckDeviceOnly`) and each access to the book
(`CheckUnused`, `Remember`) is a step, because each takes its mutex alone. A
ticket is a record: who signed it, the act it approves, from when to when. The
constants `HmacKey` and `OneBook` say how `DeviceGate` is wired: `main` sets
neither the HMAC key nor the shared book, so on a machine without a device key
every act is refused today; the runs check the wiring the comments describe.

**Update.** A job is one `updateApply`; `pc[j]` goes through `Apply` (`Ask`,
`Fetch`, `Take`) and then through `PerformUpdate`, one step for each change on
the disk: `Download`, `Store` (the staged file is whole), `SmokeTest`,
`Quiesce`, `RemoveBackup`, `Rename`, `OpenCopy`, `Copy`, `Spawn`,
`TookOver`, `RecordInstalled`, `Leave`, or `Undo`, `OpenBackup`, `CopyBack`,
`RecordRolledBack`, `Respawn`. A file is a version, whose code it is, and
whether all of it is there; while a job copies, the file carries the job's
name, because another update may rename it meanwhile. A release token is a
record of what is wrong with it. A *dud* starts and dies, a *mute* cannot say
its version. `MainReturns` is the end that `Quiesce` makes possible: `main`
wires it to the context `client.Run` lives under. `HandoverOK` is not wired, so
the first poll of the new process decides.

**Mcp.** `gen` numbers the processes `spawn` has started; `cmd`, `stdin`,
`dead`, `nextID` and `waiting` are the connection's fields, which belong to the
newest generation only by accident. `startMu` is the call that holds it. `Begin`
is everything `HandleCall` does before `Service.Call`; `Ensure`, `Spawn`,
`Request`, `Written`, `WriteFails`, `Receive`, `GiveUp`, `EnsureFails` are the
goroutine of a call. `Request` is what happens under `c.mu`; the line is written
after it and before the timer is armed, into a pipe that may be full or have
lost its other end (`Written`, `WriteFails`).
`OnLine` and `ReadEnds` the read loop of a generation; `IdleFires` and
`IdleCloses` the two critical sections of a `Close` from the timer. The server
itself (`Answers`, `Exits`) answers in any order, or never.

**Redact, Outbound, Delivery.** A text is a sequence of bytes, some of which
(`Conts`) start no character; the rules find one fixed `Secret`. `Outbound` has
the loop of `client.Run`, the messages that may be lost or overtaken, one
`Dispatch` for each, `Send`, and the one goroutine that drains the queue.
`Delivery` promises a queue from which results leave in order, at most once,
and in which none stays for ever; a result may be lost, and one whose POST was
given up may land late. `Outbound` implements it with `pending` as the result
being posted followed by the queue.

**Machine.** A process is started to pair, to grant a folder or to serve; it
loads the whole config, changes its copy (`Changed`), and saves it in the three
steps of `Save` (`Create`, `Write`, `Rename`). `config.json.tmp` has one name
for everybody, so a second process may truncate it, or find it gone. A daemon
appends to the log with the hash of the line it knows. A line of the log has its
`prev` and `hash`, and says whether the hash is that of its content (`ok`) and
whether the scanner of `Verify` and `tailHash` can take it (`long`); `Seen` are
the lines the scanner gets to. The token is the pair of server and machine id it
was given for.

## 3. Runs

| Run | Checks | Instance |
|---|---|---|
| `terminal_registry` | `TypeOK`, `LiveIsReachable`, `LimitUnlessOverlap`, `StoredShellsAreKilled`, `AnsweredIsOver` | 2 opens, 2 ids, 2 folders, limit 1, 2 closes or kills, stop; 1.3 M states |
| `terminal_stream` | `ReattachMissesNothing`, `NoDataAfterExit`, `ClosedEnds`, `ExitIsReported` | 2 opens of 1 id, 3 chunks, a scrollback of 2, 1 tick, 1 folder, fair; 0.42 M states |
| `exec` | `TypeOK`, `OutputBeforeResult`, `IdleMeansEnded`, `ListedAreAsked`, `EveryExecAnswered` | 1 command of 3 processes, 2 streams of 2 chunks, pipe of 1, 1 cancel, stop, fair; 1.4 M states |
| `device_file` | `StoreTypeOK`, `FileIsMemory`, `EnrolledStays`, `LocalConfirmOnce` | 2 keys and the nameless one, 3 requests, room for 2, 1 crash, 1 touch; 5.5 M states |
| `approval` | `TypeOK`, `OnceUnlessExcused`, `AppTicketWorks`, `AppTicketOnlyUnenrolled`, `RevokedKeyRefused` | 2 invokes, 2 acts, a device and an app ticket, 2 keys and the nameless one, 1 request, 1 crash, 1 touch, 2 ticks; 6.9 M states |
| `update` | `TypeOK`, `ProgramKept`, `OnlyOurs`, `NoDowngrade`, `OutcomeTruthful`, `StatusIsHonest`, `AcceptedSettles` | 2 jobs, 2 process slots, releases that are sound, forged, older, too new or duds, fair; 0.16 M states |
| `mcp` | `TypeOK`, `AnswerIsOwn`, `NoOrphan`, `ToolCallsAreDue`, `EveryCallEnds` | 2 calls at once, 2 generations, several grant files, fair; 0.6 M states |
| `outbound` | `TypeOK`, `OutputArrives`, `Delivered` | 2 invokes, a command of 2 chunks out of 4, 1 late result, carry 2, fair; 1.4 M states |
| `machine` | `ConfigHolds`, `ChainTells` | 2 processes, 2 servers, 2 machine ids, 1 folder, 3 entries; 5.6 M states |

What the bounds leave out. Two opens are enough for every race of the registry
between two actors: create and create, create and re-attach, re-attach and
exit, open and CloseAll; `TerminalProofs` covers any number. One exec is enough
because execs share only the maps, keyed by their own id. Three requests are
one more than it takes to add, revoke and replay. A pipe of one chunk makes
writers block. `MaxScroll` of two chunks makes the scrollback overflow with the
third chunk. Two updates are what it takes for one to meet the
backup, the staged file or the process of another. Two generations of a server
are enough for an old one to disturb a new one; the violation run uses a third.
The chunks of `outbound` cut a character of two bytes and a secret of two in
every way, with a carry of two: the shortest lengths at which each case of the
cut occurs. `machine` looks at two processes that change the config at once,
and at grants and a second machine id, with an empty log only (`OneAtATime`),
because the steps on the two files touch nothing in common; one line of the log
may be too long, since nobody reads what is behind it. `approval` looks at a
file the user touched until both tickets have expired (`TouchedEarly`). Deadlock
is not checked, except in `update` and `machine`: a daemon may stop, all invokes
may be answered, and the bounds run out.

What the runs show, beside the invariants: the guarantees have *excuses*, and
the excuses are where the code leaves a gap. `LimitUnlessOverlap` excuses opens
that overlap; `StoredShellsAreKilled` excuses sessions stored after CloseAll
emptied the map; `OnceUnlessExcused` excuses checks of one ticket that overlap,
a ticket that expires between its check and the book, and a restart (the book
is in memory); `ListedAreAsked` excuses commands listed after CancelAll looked,
and says SIGTERM only, because nobody waits for the SIGKILL;
`EnrolledStays` and `LocalConfirmOnce` excuse a file the user edited, a key
without a name, and a request with an unknown op, and `AppTicketOnlyUnenrolled`
the last of these;
`EveryExecAnswered` excuses an heir that holds the pipes for ever, and a stdin
that nobody reads for ever while nobody cancels the command; `EveryCallEnds`
a write that blocks for ever; `NoOrphan` excuses
a process that an older one's read loop declared dead; the properties of
`Update` excuse two updates that overlap (`Apply` looks at `running` and sets it
later), and `StatusIsHonest` an `updateApply` for another version than the
latest, which leaves the status at "checking"; `OutputArrives` excuses a command
of which a POST failed; `ConfigHolds` two processes between `Load` and the end
of `Save`; `ChainTells` a torn write, a log cut off at its end, two daemons that
append, and a change that a line too long for the scanner hides. These runs,
each with a counterexample, show the gaps that cost the user most:

| Run | Claim | What happens |
|---|---|---|
| `terminal_pending_open` | `EveryOpenReturns` | a re-attach redirects the exit event; the first open waits for ever, and Busy with it: the machine never updates again |
| `update_quiesce_ends` | `DaemonComesBack` | the process ends between the swap and the handover, with nothing in its place or a half copied program, and no daemon |
| `mcp_orphan` | `EveryServerIsOurs` | an old read loop declares the new server dead; a third is spawned over it and nobody can close it |

The other gaps are in the models too, and the excuses of the properties name
most of them: without its excuse such a property is violated. They are described
here only:

- `VerifyEnrollment` reads a missing `credentialId` as `""` and refuses nothing
  (`enrollment.go:90`), `Apply` saves and trusts the key (`store.go:290`), and
  the loader skips it (`store.go:163`): it counts in memory and is gone after a
  restart, which the comment at `store.go:302` forbids. A machine that had only
  this key takes the app's tickets and an unsigned first key again.
- `Apply` takes the credential off the list for every op and puts it back for
  `add` only (`store.go:276`), while the last key is guarded for `remove` only
  (`enrollment.go:122`): a signed request with an unknown op takes the last key
  off, against the comment at `store.go:42`.
- `Start` writes stdin before `Host.exec` arms the deadline (`runner/exec.go:183`,
  `host/exec.go:221`): a command that does not read a stdin larger than the pipe
  runs for ever, although `host/exec.go:35` says two minutes at most.
- The deadline kills the group. A process that went into a session of its own
  holds the pipes, the pumps never see EOF (`runner/exec.go:211`), and the
  runner does not report what `host/exec.go:222` waits for.
- A background child of the group with redirected output outlives the result,
  the list and Busy (`runner/exec.go:216`), and `CancelAll`, which looks at the
  list, does not signal it, against the comment at `runner/exec.go:260`.
- `request` writes its line before it arms its timer (`mcp/client.go:283`): a
  line that does not fit the pipe of a server that does not read stops the call,
  and neither the timeout, which `client.go:11` asks for, nor a cancel ends it.
- `Verify` and `tailHash` do not look at the error of their scanner
  (`audit.go:154`): at a line of more than 8 MiB they stop as at the end, and a
  change there or behind it does not show, against `audit.go:10`; after a restart
  the chain goes on from the last line before it.
- Opens that overlap both pass `MaxTerminals`: the placeholder `Open` stores is
  not live (`terminal.go:285`, against the comment at 295).
- A keep-alive that was due before the exit is emitted after the final result
  (`terminal.go:641`, against `host.go:381`).
- Two invokes with one ticket that are checked at the same moment are both
  allowed: `Seen` and `Remember` are two critical sections (`approval.go:143`).
- A cancel between the registration of the call and that of its process answers
  true and signals nobody (`host/exec.go:245`).
- A secret no longer than the carry leaks if it straddles the cut of a line
  longer than the carry, although the comment says that only longer ones do
  (`redact.go:241`); `OutputArrives` therefore speaks of lines.
- A POST that timed out may still land, after results that were sent later, the
  final one included (`relay/client.go:246`); results queued when the process
  ends are lost; the credential of the POSTs is renewed by a reconnect only.
- `copyFile` writes in place, so a machine that stops while it runs has half a
  program under the daemon's name; the comment at `update.go:476` says that it
  never does. What is kept is the backup (`ProgramKept`).
- `waitForIdle` looks before the download; a machine that gets busy during it is
  updated all the same. `Busy` is also false while results are still queued.
- Two processes that save at once share `config.json.tmp`, and each writes back
  all it read: a pairing and an `--allow` can undo each other.
- During the handover of an update two daemons append to one audit log, and the
  chain forks (`audit.go:73`): a true log is then taken for a changed one.
- `Close` of an MCP server kills it after 500 ms; when the daemon ends at once,
  as after `CloseAll`, the timer never fires.

## 4. Fairness

`terminal_stream` and `exec` assume weak fairness of every goroutine that can
run (Go's scheduler is preemptive and fair to runnable goroutines), of timers,
and of the death of a process that was sent SIGKILL. Nothing is assumed about
the cloud, the user, a command or a shell that was not killed: it need not
end, read, write or obey SIGTERM or SIGHUP. In `Terminal` the pump sees EOF for
certain only after the master is closed, and then in time (`PumpPrompt`): a
descendant may hold the slave open. With `PumpPrompt = FALSE` the two-second
timeout of `reap` applies and output may follow the exit, as its comment says.

`update` assumes that the goroutine of `PerformUpdate` runs on: its requests
and its smoke test have timeouts, and `IdleWaitMax` passes. It assumes nothing
about `Apply` (the server may be slow) or about the machine ever being idle.
`mcp` assumes the same of the goroutine of each call, whose timer fires, and
strong fairness of taking `startMu`: Go's mutex hands the lock over to a waiter
that starves. Of the server it assumes nothing, not even that it reads: only
`initialize`, the first line of its pipe, is written for certain. Nor is the idle
timer fair, which would close the pipe after ten minutes: every call sets it
back. `outbound` assumes that the
drain goroutine runs on and that a POST ends, as its 30 s timeout makes it;
`Delivery` assumes only that something happens to what is pending.

## 5. Proofs

Eight modules hold theorems, one for each module that has a state machine.
Every one of them is for any value of the constants that meets the assumptions
named below: any number of opens, commands, keys, tickets, jobs, releases,
processes, invokes, calls and generations, and any bound. Each rests on an
invariant that is inductive; TLC checked it on the instance of the run before it
was proved. The proofs have one step per action, and lemmas for what several
actions share.

Type correctness comes first everywhere, and with it what the model takes for
granted about its labels. Where that alone is not inductive, it is proved
together with a *base* (`GateBase`, `UpdateBase`, `Base`) that says how the parts
of a component hang together.

`TerminalProofs` (`TerminalAssumption`: `Calls` is finite, the bounds are
naturals, `Nil` is no call):

- `TypeCorrect`: `Spec => []TypeOK`, one lemma per group of actions.
- `LiveTerminalIsReachable`: `Spec => []LiveIsReachable`. Not inductive as it
  stands: an exit's `Forget` deletes by id, so one must know that while the
  exit of `s` is under way the id maps to `s` or to nothing. `RegistryInv` adds
  this (`Ending`), and that a call between `Reserve` and `Store` owns the entry
  of its id (`Creating`): a placeholder is never taken by another open, and an
  id is free only when its last session is no longer live.
- `LimitKeptWithoutOverlap`: `Spec => []LimitUnlessOverlap`. `LimitInv` bounds
  the live sessions together with the pending placeholders (`Holding`) as long
  as no overlap happened: only `Reserve` makes that set larger, and its guard
  and the absence of other placeholders leave room for one more.
- `StoredShellsGetKilled`: `Spec => []StoredShellsAreKilled`. `ShutInv` follows
  a live session through the phases of `CloseAll`: in the map, in `rest`, or
  killed. It needs `RegistryInv`: the sweep takes what the map holds, and the
  map holds every live session.
- `AnswerMeansOver`: `Spec => []AnsweredIsOver`. `EndInv` goes back from the
  answer to its cause: a returned invoke has a result, a result was set because
  its handler heard an exit, an exit is heard only after `reap` is done, and
  `reap` went on because the shell was dead. `ReceiverInv` says that a
  goroutine about to call a handler has read which one.
- `ExitIsLast`: `PumpPrompt` implies `Spec => NoDataAfterExit`, an action
  property, from `EndInv`: when somebody has heard the exit, the pump is through.
  Without `PumpPrompt` it is false, as the comment of `reap` says.
- `ReconnectLosesNothing`: `Spec => []ReattachMissesNothing`. `StreamInv` adds
  that only an invoke past its `AttachSwap` has another session's `emit`, and
  that nothing is pushed before the pump runs; it gives every chunk pushed after
  the take-over as an event. `ScrollInv` says that the scrollback of a terminal
  that is not over is exactly its last `MaxScroll` chunks, in order; it gives
  the earlier chunks. What was pushed before and has been trimmed, or was
  forgotten with the terminal, is lost to a new receiver, and the property
  says so.

`DeviceStoreProofs` (`DeviceAssumption`: `Creds` is finite, the bounds are
naturals, `NoName` is no key, `Nil` is neither a key nor a request):

- `StoreTypeCorrect`: `Spec => []StoreTypeOK`.
- `MemoryIsTheFile`: `Spec => []FileIsMemory`. The property says nothing while
  `Apply` holds the mutex, so `StoreInv` says what holds then: the file has the
  new list once it was renamed into place and the old one before, and the
  request being applied was issued, so its list cannot change under it. It also
  says that a nameless key came with a request that is on record (`strange`).
- `EnrolledForGood`: `Spec => []EnrolledStays`. `EnrolledInv` adds that the request
  being applied leaves a key behind, unless its op is another one; this is where
  `would_leave_none` is used (`AdmittedLeavesOne`).
- `LocalOnlyFirst`: `Spec => LocalConfirmOnce`. An unsigned request is admitted on
  an empty list; by `StoreInv` the loader finds nothing in the file then, and by
  `EnrolledInv` the machine was never enrolled, or one of the excuses holds.

`ApprovalProofs` extends `DeviceStoreProofs` (`ApprovalAssumption`: what the
tickets, acts and bounds are):

- `GateTypeCorrect`: `ApprovalSpec => []TypeOK`, with `TicketInv`: what the gate
  works on is a ticket, of the kind its step is for.
- `GateKeepsStore`: `ApprovalSpec => Spec`, the specification of `DeviceStore`.
  Every step of the gate leaves the store alone, so what is proved of the store
  holds with the gate running beside it, and is used below.
- `RevokedKeyIsRefused`: `ApprovalSpec => []RevokedKeyRefused`. `SignerInv`: the
  list as it is now, and the copy a call took, are among the keys that were
  trusted since the call arrived (`met`), and a device ticket gets past
  `CheckDevice` only with its key on the copy.
- `AppTicketNeedsNoKey`: `ApprovalSpec => []AppTicketOnlyUnenrolled`. The gate reads the list more than once, so
  `FirstKeyInv` must exclude that it became empty in between: that is
  `EnrolledInv` of the store, for a request in flight, and a crash takes the
  call with it; a request with another op is on record.
- `AppTicketGetsThrough`: `ApprovalSpec => []AppTicketWorks`. `ReasonInv`: what
  is in the book allowed somebody, the store is unreadable only after a crash,
  and each reason of a refusal stays (`ReasonStays`).
- `OneTicketOneInvoke`: `ApprovalSpec => []OnceUnlessExcused`. `OnceInv` has four
  parts: the clocks the gate read are not ahead (`ClockInv`), what was allowed
  is in the book, expired or lost with it (`BookInv`), what passed the expiry
  check is in time or excused (`CheckedInv`), and two checks of one ticket past
  `CheckUnused` are excused (`PairInv`).

`ExecProofs` (`ExecAssumption`):

- `ExecTypeCorrect`: `Spec => []TypeOK`.
- `OutputComesFirst`: `Spec => []OutputBeforeResult`. `LifeInv` follows one
  command from its registration to its result: the finisher goes on only when
  both pumps saw EOF, a pump sees EOF only when it has read all that will ever
  be written and nobody holds the pipe (`AtEnd`), and the result implies that
  all of it was sent (`Over`).
- `IdleIsIdle`: `Spec => []IdleMeansEnded`, from `LifeInv` too: an invoke is
  answered, or was never started, only when the leader of its command has ended
  and nobody holds its pipes; without the leader nobody gets hold of them again.
  It does not say that nobody is left: a child with redirected output may be.
- `ListedGetAsked`: `Spec => []ListedAreAsked`. `AskedInv`: from the moment
  CancelAll copied the ids, what was listed then is on the copy or was asked.

`UpdateProofs` (`UpdateAssumption`, and `FileAssumption`: `Nil` is no file):

- `UpdateTypeCorrect`: `Spec => []TypeOK`, with `JobInv`: a job at work has a
  process that is up, a manifest that passed the signature and is newer, and the
  code it names once it was downloaded.
- `OnlyOurCode`: `Spec => []OnlyOurs`. No excuse: also when updates overlap and
  copy into each other's files, a file has the code of one of them, and each
  passed the gate.
- `StatusTellsTheTruth`: `Spec => []StatusIsHonest`. `Alone`, which holds until
  two updates overlap: one job at work, a process says it is running exactly
  while it has that job, is quiet exactly from the swap on, and two processes
  are up only during a handover. The last is what makes a crash harmless.
- `AProgramIsLeft`, `NoWayBack`, `OutcomeIsTrue`: `ProgramKept`, `NoDowngrade` and
  the action property `OutcomeTruthful`, from one invariant of the disk,
  `DiskInv`. `Files` says that backups are whole and under their own names, that
  a program that lives is in place or kept, and that none kept is newer than the
  one in place; `Phase` says what the job at work finds at each label. Both are
  needed at once: that `RemoveBackup` may remove something follows from what is
  in place, and that `Rename` may move that follows from what was removed.

`MachineProofs` (`MachineAssumption`, and `SaveAssumption`: `Nil` is no save):

- `MachineTypeCorrect`: `Spec => []TypeOK`.
- `ConfigIsSound`: `Spec => []ConfigHolds`. `FilesInv`, which holds until two
  processes overlap: the process that changes the config is the only one, the
  file is whole and sound and has all that was granted, and the copy that is
  about to be saved `Carries` it on, with the temporary file its own.
- `ChainIsTold`: `Spec => []ChainTells`. `ChainInv`: while nobody touched the log,
  its hashes grow and the one daemon knows the last of them, if the scanner gets
  there - without the growth a line could be taken out and the rest still fit;
  and a log that was changed once has a line that is seen and does not fit, and
  that no later write touches: it is not the open line at the end, which the next
  write spoils.

`OutboundProofs` (`OutboundAssumption`; `RedactAssumption`: the secret is a
sequence and not empty, the carry is positive, the mark is no part of the secret,
and a newline is not a byte inside a character):

- `OutboundTypeCorrect`: `Spec => []TypeOK`. Its hard conjuncts are
  `OneDrain` (there is one drain goroutine while `draining`, and none, with an
  empty queue, otherwise), `CountInv` (inflight is the number of invokes that
  work) and `ReportInv` (a result has a number its invoke reported). The lemmas
  `LastNewlineAt` and `CutAt` say what the two CHOOSEs of the redaction choose,
  which takes the greatest element of a bounded set.
- `DeliveredInOrder`: `Spec => D!Init /\ [][D!Next]_(D!vars)`, the refinement of
  `Delivery` but for its fairness: a `Send` is `Report`, the drain moving a result
  from the queue to the POST is a stutter, and by `OneDrain` at most one result
  is in a POST, so that what leaves is the head.
- `OutputIsWhole`: `Spec => []OutputArrives`, in three layers.
  - *One text, cut.* A place of a text is `Clean` when it is the beginning, lies
    behind a newline, or is the start of a character that is a newline or stands
    in a line longer than the carry. A clean place stays clean when the text goes
    on (`CleanGrows`), the cut of a `Push` behind a clean place is clean
    (`CleanPush`), and no secret in a line that fits in the carry has a clean
    place inside it (`CleanSpares`). So the pieces between clean places, each
    redacted alone, hide together what `OutputArrives` asks to be hidden
    (`ShowsPiece`, `ShowsAll`); conversely a piece hides nothing but parts of a
    secret of the text (`PieceIs`).
  - *What the cloud has.* `FlattenSeq` is a recursive function; what it does with
    one more sequence (`FlattenAppend`) takes an induction up to a length, which
    is done over a set of numbers (`Upward`), so no induction theorem with an
    operator as its parameter is needed. `Arrived` says that the first `k`
    results of a command landed in their order, and that what was heard up to
    each of them is what the pieces up to it show.
  - *The machine.* `OutInv`: for each command there are places `c[0] .. c[n]`, as
    many as it reported results, that are clean or the end of its output, such
    that the stream keeps what is behind the last one (`Sound`), result `j` is
    the piece from `c[j-1]` to `c[j]` and a final one comes when nothing is left
    (`Told`), and, if none of its results was lost, some first `k` arrived and
    the others are queued behind each other (`Way`; of those in a POST when the
    process ended, only the next may still land). `Calm` says that nothing is
    left of a process that has ended. The places themselves are not a variable of
    the model: each step keeps those of the step before and adds one
    (`OutSends`), or none (`OutPrints`, `OutMoves`, `OutQuiet`).

`McpProofs` (`McpAssumption`, and `NilAssumption`: `Nil` is neither a number nor
what a channel holds):

- `McpTypeCorrect`: `Spec => []TypeOK`. That the ids of a generation suffice is
  `CountInv`: each is taken by another call; `SentInv` says that what is being
  written has such an id and goes to a generation that was spawned. `GenInv` says
  that `cmd` and `stdin` are those of the last generation or nil, `WaitInv` that
  who is in the map of waiting calls writes or waits, for that id of that
  generation, and has no answer yet.
- `NobodyIsLeft`: `Spec => []NoOrphan`. `DeadInv` adds what holds before a spawn:
  when the connection is dead, the process `c.cmd` names has ended, or has its
  kill timer, or was struck.
- `WhatReachesAServerIsDue`: `Spec => []ToolCallsAreDue`. `DueInv` carries the grant
  and the approval from `HandleCall` to the request; `GreetInv` says that whoever
  may use the connection uses a generation that was greeted, or spoken to by an
  earlier one: outside `startMu` when it is alive, when the result of
  `initialize` is in the channel, and when `ensure` returned it.
- `AnswersAreOwn`: `Spec => []AnswerIsOwn`. `PipeInv`: what is being written to the
  last generation, or under way with it, has an id below `nextID`, and if somebody still waits for it,
  it is the call that asked. A line of an earlier generation proves nothing,
  because the ids start again: hence the excuse.

Each of these proofs was tried against models with a bug in them (the mutants,
and a few more): the step that rests on the changed line then fails.

`PumpPrompt` is a hypothesis of the theorem that names it, and not an assumption
of the module: nothing in the daemon makes it true. The run `terminal_stream`
gives the constant this value.

Every safety property that a passing run checks is stated by a theorem. Left to
TLC is liveness under fairness (`ClosedEnds`, `ExitIsReported`,
`EveryExecAnswered`, `AcceptedSettles`, `EveryCallEnds`, and of `Delivered` that
nothing stays for ever), because it needs ENABLED. No module uses a RECURSIVE
operator.

## 6. Not modelled

- Contents: bytes of output, names, paths, environment, window sizes, labels,
  signatures, hashes, the text of errors. A signature either is one, or the
  request is refused with nothing changed.
- `fsync`: `Save` does not call it, so a machine that loses power may come back
  with a config that was renamed and is not on the disk. The model has a file
  that was written whole after `Write`.
- The write of the record of an update that fails (`recordOutcome` logs it).
- The children of an MCP server: `Close` kills the process it started, no group.
- Process ids and their reuse between the end of a process and a signal to it.
- `Input`, `Resize`, `Replay`, `List` and the key signals of a terminal; two
  execs with one invoke id; file operations; the sandbox; the tray.
- `Takeover`, `AdoptLegacy`, `ReadLegacy`, `RemoveRoot` and `audit.Verify` as
  commands: nobody in the program calls them (`host/doc.go:57` says so of the
  last; `Verifies` is what it would say).
- Several MCP servers at a time (each has a connection of its own), `CloseAll`
  (the process ends with it), and the contents of what tools return.
- The rules of `redact` one by one, and a mark of another length than the secret.
- Time: the back-off of the reconnect, which doubles and is never reset, the
  lengths of timeouts, the expiry of the credential.
- `hello`, `sayHello` and the SSE framing.

## 7. Plan

What is left: `Input`, `Resize` and the key signals of a terminal; `hello` and
the file operations of `Host`.
