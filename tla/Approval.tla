------------------------------ MODULE Approval ------------------------------
(***************************************************************************)
(* The approval gate (internal/host: DeviceGate, internal/devicekeys: Gate *)
(* and MemoryNonces, internal/hmacapproval) over the list of trusted keys. *)
(*                                                                         *)
(* Every invoke that changes something asks the gate in a goroutine of its *)
(* own.  The gate takes Store.mu and the nonces' mutex for each read on    *)
(* its own, so the list, the clock and the nonces may change between two   *)
(* of its steps.  A ticket may arrive any number of times.                 *)
(*                                                                         *)
(* What a ticket signs (machine, tool, hash of the arguments) is one value *)
(* here: the act.                                                          *)
(***************************************************************************)
EXTENDS DeviceStore

CONSTANTS
    Calls,    \* invokes that need an approval
    Acts,     \* what a ticket approves, and what an invoke wants to do
    Tickets,  \* the tickets that exist
    HmacKey,  \* DeviceGate.HmacKey is set
    OneBook,  \* DeviceGate.Nonces is the gate's own book (else it is nil)
    Skew,     \* clock skew allowed for iat
    MaxTime   \* bound: the clock

ASSUME ApprovalAssumption ==
    /\ Tickets \subseteq [id : STRING, key : Creds \cup {Nil}, act : Acts,
                          iat : Int, exp : Nat]
    /\ \A t, u \in Tickets : t.id = u.id => t = u
    /\ HmacKey \in BOOLEAN
    /\ OneBook \in BOOLEAN
    /\ Skew \in Nat
    /\ MaxTime \in Nat

VARIABLES
    now,     \* the clock
    pc,      \* where the gate is with each call
    ticket,  \* the ticket that came with the call (Nil: none)
    want,    \* what the call is about to do
    keys,    \* the copy of the trusted keys the gate took
    at,      \* the time the gate read
    book,    \* MemoryNonces.seen
    known,   \* history: the keys trusted when the call arrived
    met,     \* history: the keys trusted at some moment since then
    excuse   \* history: ticket ids, and why they may pass twice

gateVars == <<pc, ticket, want, keys, at, known>>
vars     == <<storeVars, now, gateVars, book, met, excuse>>

\* A ticket with a key is one the user's device signed, else the app's HMAC.
ByDevice(t) == t.key # Nil

Allowed == {c \in Calls : pc[c] = "allowed"}
Ended   == {"idle", "allowed", "refused", "lost"}

ApprovalInit ==
    /\ Init
    /\ now = 0
    /\ pc = [c \in Calls |-> "idle"]
    /\ ticket = [c \in Calls |-> Nil]
    /\ want = [c \in Calls |-> Nil]
    /\ keys = [c \in Calls |-> {}]
    /\ at = [c \in Calls |-> 0]
    /\ book = {}
    /\ known = [c \in Calls |-> {}]
    /\ met = [c \in Calls |-> {}]
    /\ excuse = {}

-----------------------------------------------------------------------------

Goto(c, label) == pc' = [pc EXCEPT ![c] = label]

\* The step takes the mutex of the store.
ReadsStore == up /\ ~Locked

\* An invoke reaches requireApproval; without a ticket it ends there.
Present(c, t, a) ==
    /\ up
    /\ pc[c] = "idle"
    /\ Goto(c, IF t = Nil THEN "refused" ELSE "asked")
    /\ ticket' = [ticket EXCEPT ![c] = t]
    /\ want' = [want EXCEPT ![c] = a]
    /\ known' = [known EXCEPT ![c] = devices]
    /\ met' = [met EXCEPT ![c] = devices]
    /\ UNCHANGED <<storeVars, now, keys, at, book, excuse>>

\* Require: a list that cannot be read stalls every approval.
CheckSafe(c) ==
    /\ ReadsStore
    /\ pc[c] = "asked"
    /\ Goto(c, CASE unsafe               -> "refused"
                 [] ByDevice(ticket[c])  -> "device"
                 [] ~ByDevice(ticket[c]) -> "app")
    /\ UNCHANGED <<storeVars, now, ticket, want, keys, at, book, known, met,
                   excuse>>

\* Store.Keys() copies the list.
KeysWithEmpty == devices \cup {Nil}  \* mutant: with an empty entry
Keys == devices

ReadKeys(c) ==
    /\ ReadsStore
    /\ pc[c] = "device"
    /\ Goto(c, "keyed")
    /\ keys' = [keys EXCEPT ![c] = Keys]
    /\ UNCHANGED <<storeVars, now, ticket, want, at, book, known, met, excuse>>

\* The ticket has not expired; its last moment counts.
FreshBefore(t) == now < t.exp  \* mutant: its last moment does not
Fresh(t) == now <= t.exp

\* The signer is on the copied list.
AnySigner(c) == ticket[c].key \in Creds  \* mutant: any key will do
Trusted(c) == ticket[c].key \in keys[c]

\* VerifyDeviceApproval up to the signature, with the copy of the list.
CheckDevice(c) ==
    LET t == ticket[c] IN
    /\ up
    /\ pc[c] = "keyed"
    /\ Goto(c, IF /\ Fresh(t)
                  /\ t.iat - Skew <= now
                  /\ t.act = want[c]
                  /\ Trusted(c)
                 THEN "checked" ELSE "refused")
    /\ at' = [at EXCEPT ![c] = now]
    /\ UNCHANGED <<storeVars, now, ticket, want, keys, book, known, met,
                   excuse>>

\* Store.DeviceOnly().
TwoOrMore == Cardinality(devices) > 1  \* mutant: one key is not enough
DeviceOnly == devices # {}

\* device_approval_required: one trusted key closes the HMAC path.
CheckDeviceOnly(c) ==
    /\ ReadsStore
    /\ pc[c] = "app"
    /\ Goto(c, IF DeviceOnly THEN "refused" ELSE "delegated")
    /\ UNCHANGED <<storeVars, now, ticket, want, keys, at, book, known, met,
                   excuse>>

\* hmacapproval.Verify up to the payload; without a key nothing verifies,
\* and without a book a ticket is not asked whether it was used.
CheckHmac(c) ==
    LET t == ticket[c] IN
    /\ up
    /\ pc[c] = "delegated"
    /\ Goto(c, IF ~(HmacKey /\ Fresh(t) /\ t.act = want[c]) THEN "refused"
               ELSE IF OneBook THEN "checked" ELSE "allowed")
    /\ at' = [at EXCEPT ![c] = now]
    /\ UNCHANGED <<storeVars, now, ticket, want, keys, book, known, met,
                   excuse>>

\* The book forgets the tickets that have expired.  It reads the clock
\* again, while Verify hands its own time on.
ClockOf(c) == IF ByDevice(ticket[c]) THEN now ELSE at[c]
PrunedEarly(c) == {t \in book : t.exp > ClockOf(c)}  \* mutant: off by one
Pruned(c)  == {t \in book : t.exp >= ClockOf(c)}

\* Seen, one critical section ...
CheckUnused(c) ==
    LET t == ticket[c] IN
    /\ up
    /\ pc[c] = "checked"
    /\ book' = Pruned(c)
    /\ Goto(c, IF t \in Pruned(c) THEN "refused" ELSE "unused")
    /\ excuse' = IF \E d \in Calls : pc[d] = "unused" /\ ticket[d] = t
                   THEN excuse \cup {<<t, "overlap">>} ELSE excuse
    /\ UNCHANGED <<storeVars, now, ticket, want, keys, at, known, met>>

\* ... and Remember, another one.
Remember(c) ==
    /\ up
    /\ pc[c] = "unused"
    /\ book' = Pruned(c) \cup {ticket[c]}
    /\ Goto(c, "allowed")
    /\ UNCHANGED <<storeVars, now, ticket, want, keys, at, known, met, excuse>>

-----------------------------------------------------------------------------

\* The clock goes on, possibly past the exp of a ticket being checked.
Tick ==
    /\ now < MaxTime
    /\ now' = now + 1
    /\ excuse' = excuse \cup
         {<<t, "expiry">> : t \in {u \in Tickets :
             /\ u.exp <= now
             /\ \E c \in Calls : pc[c] = "checked" /\ ticket[c] = u}}
    /\ UNCHANGED <<storeVars, gateVars, book, met>>

\* The book and the invokes in flight are lost with the process.
GateCrash ==
    /\ Crash
    /\ pc' = [c \in Calls |-> IF pc[c] \in Ended THEN pc[c] ELSE "lost"]
    /\ book' = {}
    /\ excuse' = excuse \cup {<<ticket[c], "restart">> : c \in Allowed}
    /\ UNCHANGED <<now, ticket, want, keys, at, known, met>>

\* Everything else that happens to the list and its file.
ListStep ==
    /\ StoreStep
    /\ met' = [c \in Calls |-> IF pc[c] \in Ended THEN met[c]
                                                  ELSE met[c] \cup devices']
    /\ UNCHANGED <<now, gateVars, book, excuse>>

GateStep(c) ==
    \/ CheckSafe(c) \/ ReadKeys(c) \/ CheckDevice(c) \/ CheckDeviceOnly(c)
    \/ CheckHmac(c) \/ CheckUnused(c) \/ Remember(c)

Next ==
    \/ \E c \in Calls :
         \/ \E t \in Tickets \cup {Nil}, a \in Acts : Present(c, t, a)
         \/ GateStep(c)
    \/ Tick
    \/ GateCrash
    \/ ListStep

ApprovalSpec == ApprovalInit /\ [][Next]_vars
-----------------------------------------------------------------------------

Steps == {"asked", "device", "keyed", "app", "delegated", "checked", "unused"}

\* Every variable keeps its type (Gate, Decision and MemoryNonces).
TypeOK ==
    /\ StoreTypeOK
    /\ now \in Nat
    /\ pc \in [Calls -> Steps \cup Ended]
    /\ ticket \in [Calls -> Tickets \cup {Nil}]
    /\ want \in [Calls -> Acts \cup {Nil}]
    /\ keys \in [Calls -> SUBSET Ids]
    /\ at \in [Calls -> Nat]
    /\ book \in SUBSET Tickets
    /\ known \in [Calls -> SUBSET Ids]
    /\ met \in [Calls -> SUBSET Ids]
    /\ excuse \in SUBSET (Tickets \X {"overlap", "expiry", "restart"})

\* Two invokes were allowed by one ticket, and none of the reasons applies.
TwiceUnless(reasons) ==
    \E c, d \in Allowed : /\ c # d
                          /\ ticket[c] = ticket[d]
                          /\ \A w \in reasons : <<ticket[c], w>> \notin excuse

(***************************************************************************)
(* A ticket that is looked up in the book allows one invoke, whatever is   *)
(* delivered again, unless two checks of it overlapped, one of them was    *)
(* under way when it expired, or the daemon restarted.                     *)
(***************************************************************************)
OnceUnlessExcused == OneBook => ~TwiceUnless({"overlap", "expiry", "restart"})

(***************************************************************************)
(* The app's own ticket allows nothing on a machine that trusted a device  *)
(* key when the invoke arrived, even if keys come and go, and the daemon   *)
(* restarts, while it is being checked - but for a request with another op *)
(* than add and remove, which may take the last key away.                  *)
(***************************************************************************)
AppTicketOnlyUnenrolled ==
    \A c \in Allowed :
        ~ByDevice(ticket[c]) => known[c] = {} \/ "op" \in strange

(***************************************************************************)
(* A device ticket that allows an invoke is signed by a key that was       *)
(* trusted at some moment while it was being checked: one revoked before   *)
(* the invoke arrived, or added after it ended, does not count.            *)
(***************************************************************************)
RevokedKeyRefused ==
    \A c \in Allowed : ByDevice(ticket[c]) => ticket[c].key \in met[c]

(***************************************************************************)
(* A machine without a device key, but with the app's key, lets the app's  *)
(* ticket allow the act it names: else nobody could enroll the first key.  *)
(***************************************************************************)
AppTicketWorks ==
    HmacKey => \A c \in Calls :
        pc[c] = "refused" /\ ticket[c] # Nil /\ ~ByDevice(ticket[c]) =>
            \/ met[c] # {} \/ unsafe \/ crashes > 0
            \/ ticket[c].act # want[c]
            \/ ticket[c].exp < now
            \/ \E d \in Allowed : ticket[d] = ticket[c]
=============================================================================
