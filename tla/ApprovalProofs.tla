--------------------------- MODULE ApprovalProofs ---------------------------
(***************************************************************************)
(* Theorems about Approval, for any number of invokes, tickets, keys,      *)
(* requests, crashes and changes by hand.  They use what is proved of the  *)
(* list of keys in DeviceStoreProofs.                                      *)
(***************************************************************************)
EXTENDS Approval, DeviceStoreProofs

\* A call the gate works on.
Active(c) == pc[c] \in Steps

\* The ticket of a call the gate works on, or has allowed, is one that exists.
TicketInv ==
    \A c \in Calls :
        /\ Active(c) \/ pc[c] = "allowed" => ticket[c] \in Tickets
        /\ pc[c] \in {"device", "keyed"} => ByDevice(ticket[c])
        /\ pc[c] \in {"app", "delegated"} => ~ByDevice(ticket[c])

\* What the proofs below start from.
GateBase == TypeOK /\ StoreInv /\ TicketInv

-----------------------------------------------------------------------------
(* Type correctness.                                                       *)

LEMMA TicketType ==
    ASSUME NEW t \in Tickets
    PROVE  /\ t.key \in Creds \cup {Nil}
           /\ t.act \in Acts
           /\ t.iat \in Int
           /\ t.exp \in Nat
  BY ApprovalAssumption

LEMMA BaseInit == ApprovalInit => GateBase
  <1> SUFFICES ASSUME ApprovalInit  PROVE GateBase
    OBVIOUS
  <1>1. StoreTypeOK /\ StoreInv
    BY StoreTypeInit, StoreInvInit DEF ApprovalInit
  <1>2. TypeOK
    BY <1>1 DEF ApprovalInit, TypeOK, Ended
  <1>3. TicketInv
    BY DEF ApprovalInit, TicketInv, Active, Steps
  <1> QED  BY <1>1, <1>2, <1>3 DEF GateBase

\* A step that leaves the store alone keeps what is known of it.
LEMMA StoreStill ==
    ASSUME StoreTypeOK, StoreInv, UNCHANGED storeVars
    PROVE  StoreTypeOK' /\ StoreInv'
  <1>1. [StoreNext]_storeVars  OBVIOUS
  <1> QED  BY <1>1, StoreTypeNext, StoreInvNext DEF StoreInv

LEMMA BasePresent ==
    ASSUME GateBase, NEW c \in Calls, NEW t \in Tickets \cup {Nil},
           NEW a \in Acts, Present(c, t, a)
    PROVE  GateBase'
  <1> USE DEF GateBase, Present, Goto
  <1>1. StoreTypeOK' /\ StoreInv'
    BY StoreStill DEF TypeOK
  <1>2. TypeOK'
    BY <1>1 DEF TypeOK, StoreTypeOK, Steps, Ended
  <1>3. TicketInv'
    BY DEF TypeOK, TicketInv, Active, Steps
  <1> QED  BY <1>1, <1>2, <1>3

LEMMA BaseGate ==
    ASSUME GateBase, NEW c \in Calls, GateStep(c)
    PROVE  GateBase'
  <1> USE DEF GateBase
  <1>1. UNCHANGED storeVars
    BY DEF GateStep, CheckSafe, ReadKeys, CheckDevice, CheckDeviceOnly,
       CheckHmac, CheckUnused, Remember
  <1>2. StoreTypeOK' /\ StoreInv'
    BY <1>1, StoreStill DEF TypeOK
  <1>3. TypeOK'
    <2> USE <1>2 DEF TypeOK, Goto, Steps, Ended
    <2>1. CASE CheckSafe(c)  BY <2>1 DEF CheckSafe
    <2>2. CASE ReadKeys(c)
      BY <2>2 DEF ReadKeys, Keys, StoreTypeOK
    <2>3. CASE CheckDevice(c)      BY <2>3 DEF CheckDevice
    <2>4. CASE CheckDeviceOnly(c)  BY <2>4 DEF CheckDeviceOnly
    <2>5. CASE CheckHmac(c)        BY <2>5 DEF CheckHmac
    <2>6. CASE CheckUnused(c)
      <3>1. ticket[c] \in Tickets
        BY <2>6 DEF CheckUnused, TicketInv, Active
      <3> QED  BY <2>6, <3>1 DEF CheckUnused, Pruned
    <2>7. CASE Remember(c)
      <3>1. ticket[c] \in Tickets
        BY <2>7 DEF Remember, TicketInv, Active
      <3> QED  BY <2>7, <3>1 DEF Remember, Pruned
    <2> QED  BY <2>1, <2>2, <2>3, <2>4, <2>5, <2>6, <2>7 DEF GateStep
  <1>4. TicketInv'
    <2> USE DEF TypeOK, TicketInv, Active, Steps, Goto
    <2>1. CASE CheckSafe(c)  BY <2>1 DEF CheckSafe
    <2>2. CASE ReadKeys(c)         BY <2>2 DEF ReadKeys
    <2>3. CASE CheckDevice(c)      BY <2>3 DEF CheckDevice
    <2>4. CASE CheckDeviceOnly(c)  BY <2>4 DEF CheckDeviceOnly
    <2>5. CASE CheckHmac(c)        BY <2>5 DEF CheckHmac
    <2>6. CASE CheckUnused(c)      BY <2>6 DEF CheckUnused
    <2>7. CASE Remember(c)         BY <2>7 DEF Remember
    <2> QED  BY <2>1, <2>2, <2>3, <2>4, <2>5, <2>6, <2>7 DEF GateStep
  <1> QED  BY <1>2, <1>3, <1>4
LEMMA BaseTick == ASSUME GateBase, Tick  PROVE GateBase'
  <1> USE DEF GateBase, Tick, gateVars
  <1>1. StoreTypeOK' /\ StoreInv'
    BY StoreStill DEF TypeOK
  <1>2. TypeOK'
    BY <1>1 DEF TypeOK
  <1>3. TicketInv'
    BY DEF TicketInv, Active
  <1> QED  BY <1>1, <1>2, <1>3

LEMMA BaseCrash == ASSUME GateBase, GateCrash  PROVE GateBase'
  <1> USE DEF GateBase, GateCrash
  <1>1. StoreTypeOK' /\ StoreInv'
    BY StoreTypeNext, StoreInvNext DEF TypeOK, StoreInv, StoreNext
  <1>2. TypeOK'
    <2>1. \A c \in Allowed : ticket[c] \in Tickets
      BY DEF TicketInv, Allowed
    <2>2. excuse' \in SUBSET (Tickets \X {"overlap", "expiry", "restart"})
      BY <2>1 DEF TypeOK
    <2>3. pc' \in [Calls -> Steps \cup Ended]
      BY DEF TypeOK, Ended
    <2> QED  BY <1>1, <2>2, <2>3 DEF TypeOK
  <1>3. TicketInv'
    BY DEF TypeOK, TicketInv, Active, Steps, Ended
  <1> QED  BY <1>1, <1>2, <1>3

LEMMA BaseList == ASSUME GateBase, ListStep  PROVE GateBase'
  <1> USE DEF GateBase, ListStep, gateVars
  <1>1. StoreTypeOK' /\ StoreInv'
    BY StoreTypeNext, StoreInvNext DEF TypeOK, StoreInv, StoreNext
  <1>2. TypeOK'
    BY <1>1 DEF TypeOK, StoreTypeOK
  <1>3. TicketInv'
    BY DEF TicketInv, Active
  <1> QED  BY <1>1, <1>2, <1>3

LEMMA BaseNext == GateBase /\ [Next]_vars => GateBase'
  <1> SUFFICES ASSUME GateBase, [Next]_vars  PROVE GateBase'
    OBVIOUS
  <1>1. CASE UNCHANGED vars
    <2>1. StoreTypeOK' /\ StoreInv'
      BY <1>1, StoreStill DEF GateBase, TypeOK, vars
    <2> QED
      BY <1>1, <2>1 DEF GateBase, TypeOK, TicketInv, Active, vars, gateVars
  <1>2. CASE Next
    BY <1>2, BasePresent, BaseGate, BaseTick, BaseCrash, BaseList DEF Next
  <1> QED  BY <1>1, <1>2

LEMMA BaseAlways == ApprovalSpec => []GateBase
  <1>1. ApprovalInit => GateBase  BY BaseInit
  <1>2. GateBase /\ [Next]_vars => GateBase'  BY BaseNext
  <1> QED  BY <1>1, <1>2, PTL DEF ApprovalSpec

(***************************************************************************)
(* Every variable of the gate, of the book of used tickets and of the list *)
(* of keys keeps its type.                                                 *)
(***************************************************************************)
THEOREM GateTypeCorrect == ApprovalSpec => []TypeOK
  <1>1. GateBase => TypeOK  BY DEF GateBase
  <1> QED  BY <1>1, BaseAlways, PTL

-----------------------------------------------------------------------------
(***************************************************************************)
(* Device tickets.  The copy of the list a call took was the list at some  *)
(* moment since it arrived, and a device ticket goes on only if its key is *)
(* on the copy.                                                            *)
(***************************************************************************)
SignerInv ==
    \A c \in Calls :
        /\ Active(c) => devices \subseteq met[c]
        /\ pc[c] = "keyed" => keys[c] \subseteq met[c]
        /\ pc[c] \in {"checked", "unused", "allowed"} /\ ByDevice(ticket[c])
             => ticket[c].key \in met[c]

LEMMA SignerInit == ApprovalInit => SignerInv
  BY DEF ApprovalInit, SignerInv, Active, Steps

LEMMA SignerGate ==
    ASSUME GateBase, SignerInv, NEW c \in Calls,
           \/ GateStep(c)
           \/ \E t \in Tickets \cup {Nil}, a \in Acts : Present(c, t, a)
    PROVE  SignerInv'
  <1> USE DEF GateBase, TypeOK, SignerInv, Active, Steps, Goto, storeVars,
          loadVars
  <1>1. ASSUME NEW t \in Tickets \cup {Nil}, NEW a \in Acts, Present(c, t, a)
        PROVE  SignerInv'
    BY <1>1 DEF Present
  <1>2. CASE CheckSafe(c)        BY <1>2 DEF CheckSafe
  <1>3. CASE ReadKeys(c)         BY <1>3 DEF ReadKeys, Keys
  <1>4. CASE CheckDevice(c)      BY <1>4 DEF CheckDevice, Trusted
  <1>5. CASE CheckDeviceOnly(c)  BY <1>5 DEF CheckDeviceOnly
  <1>6. CASE CheckHmac(c)        BY <1>6 DEF CheckHmac, TicketInv
  <1>7. CASE CheckUnused(c)      BY <1>7 DEF CheckUnused
  <1>8. CASE Remember(c)         BY <1>8 DEF Remember
  <1> QED
    BY <1>1, <1>2, <1>3, <1>4, <1>5, <1>6, <1>7, <1>8 DEF GateStep

LEMMA SignerNext == GateBase /\ SignerInv /\ [Next]_vars => SignerInv'
  <1> SUFFICES ASSUME GateBase, SignerInv, [Next]_vars  PROVE SignerInv'
    OBVIOUS
  <1> USE DEF GateBase, TypeOK, SignerInv, Active, Steps, storeVars, loadVars,
          gateVars
  <1>1. CASE Tick
    BY <1>1 DEF Tick
  <1>2. CASE GateCrash
    BY <1>2 DEF GateCrash, Ended
  <1>3. CASE ListStep
    BY <1>3 DEF ListStep, Ended
  <1>4. CASE UNCHANGED vars
    BY <1>4 DEF vars
  <1> QED  BY <1>1, <1>2, <1>3, <1>4, SignerGate DEF Next

(***************************************************************************)
(* A device ticket that allows an invoke is signed by a key that was       *)
(* trusted at some moment while the gate worked on that invoke, however    *)
(* keys come and go meanwhile (Store.Keys, VerifyDeviceApproval).          *)
(***************************************************************************)
THEOREM RevokedKeyIsRefused == ApprovalSpec => []RevokedKeyRefused
  <1>1. ApprovalInit => SignerInv  BY SignerInit
  <1>2. GateBase /\ SignerInv /\ [Next]_vars => SignerInv'  BY SignerNext
  <1>3. SignerInv => RevokedKeyRefused
    BY DEF SignerInv, RevokedKeyRefused, Allowed
  <1> QED  BY <1>1, <1>2, <1>3, BaseAlways, PTL DEF ApprovalSpec
-----------------------------------------------------------------------------
(***************************************************************************)
(* The app's tickets.  While the gate works on a call, the list cannot get *)
(* empty: a request that is being applied leaves a key behind, unless its  *)
(* op is another one, and a crash takes the call with it.                  *)
(***************************************************************************)
FirstKeyInv ==
    \A c \in Calls :
        /\ Active(c) => up
        /\ Active(c) /\ known[c] # {} => devices # {} \/ "op" \in strange
        /\ ~ByDevice(ticket[c])
           /\ pc[c] \in {"delegated", "checked", "unused", "allowed"}
             => known[c] = {} \/ "op" \in strange

LEMMA FirstKeyInit == ApprovalInit => FirstKeyInv
  BY DEF ApprovalInit, FirstKeyInv, Active, Steps

LEMMA FirstKeyGate ==
    ASSUME GateBase, FirstKeyInv, NEW c \in Calls,
           \/ GateStep(c)
           \/ \E t \in Tickets \cup {Nil}, a \in Acts : Present(c, t, a)
    PROVE  FirstKeyInv'
  <1> USE DEF GateBase, TypeOK, FirstKeyInv, Active, Steps, Goto, storeVars,
          loadVars, pastVars
  <1>1. ASSUME NEW t \in Tickets \cup {Nil}, NEW a \in Acts, Present(c, t, a)
        PROVE  FirstKeyInv'
    BY <1>1 DEF Present
  <1>2. CASE CheckSafe(c)        BY <1>2 DEF CheckSafe
  <1>3. CASE ReadKeys(c)         BY <1>3 DEF ReadKeys
  <1>4. CASE CheckDevice(c)      BY <1>4 DEF CheckDevice, TicketInv
  <1>5. CASE CheckDeviceOnly(c)  BY <1>5 DEF CheckDeviceOnly, DeviceOnly
  <1>6. CASE CheckHmac(c)        BY <1>6 DEF CheckHmac
  <1>7. CASE CheckUnused(c)      BY <1>7 DEF CheckUnused
  <1>8. CASE Remember(c)         BY <1>8 DEF Remember
  <1> QED
    BY <1>1, <1>2, <1>3, <1>4, <1>5, <1>6, <1>7, <1>8 DEF GateStep

\* What was wrong with requests stays on record.
LEMMA StrangeStays ==
    ASSUME GateBase, StoreStep  PROVE strange \subseteq strange'
  <1>1. CASE UserStep
    <2>1. PICK file \in Files : Touch(file)
      BY <1>1, UserTouches DEF GateBase, TypeOK
    <2> QED  BY <2>1 DEF Touch
  <1> QED
    BY <1>1 DEF StoreStep, ApplyStep, Issue, Lapse, Begin, Save, SaveFail,
       Commit, Open, pastVars

\* What happens to the list while a daemon runs leaves a key on it, unless a
\* request with another op reached the file.
LEMMA ListKeepsOne ==
    ASSUME GateBase, EnrolledInv, StoreStep, up
    PROVE  /\ up'
           /\ devices # {} => devices' # {} \/ "op" \in strange'
  <1>1. CASE UserStep
    <2>1. PICK file \in Files : Touch(file)
      BY <1>1, UserTouches DEF GateBase, TypeOK
    <2> QED  BY <2>1 DEF Touch, loadVars
  <1>2. CASE Commit
    <2>1. Updated(applying) # {} \/ "op" \in strange
      BY <1>2 DEF Commit, GateBase, StoreInv, EnrolledInv, Oddities
    <2> QED  BY <1>2, <2>1 DEF Commit, pastVars
  <1>3. CASE Save
    BY <1>3 DEF Save, loadVars
  <1> QED
    BY <1>1, <1>2, <1>3 DEF StoreStep, ApplyStep, Issue, Lapse, Begin,
       SaveFail, Open, loadVars, pastVars

LEMMA FirstKeyNext ==
    ASSUME GateBase, EnrolledInv, FirstKeyInv, [Next]_vars
    PROVE  FirstKeyInv'
  <1> USE DEF GateBase, TypeOK, FirstKeyInv, Active, Steps, storeVars, loadVars,
          pastVars, gateVars
  <1>1. CASE Tick
    BY <1>1 DEF Tick
  <1>2. CASE GateCrash
    BY <1>2 DEF GateCrash, Crash, Ended
  <1>3. CASE ListStep
    <2>1. StoreStep /\ UNCHANGED <<pc, ticket, known>>
      BY <1>3 DEF ListStep
    <2>2. \A c \in Calls :
             Active(c) => /\ up'
                          /\ devices # {} => devices' # {} \/ "op" \in strange'
      BY <2>1, ListKeepsOne
    <2>3. strange \subseteq strange'
      BY <1>3, StrangeStays DEF ListStep
    <2> QED  BY <2>1, <2>2, <2>3
  <1>4. CASE UNCHANGED vars
    BY <1>4 DEF vars
  <1> QED  BY <1>1, <1>2, <1>3, <1>4, FirstKeyGate DEF Next

\* To the list, every step of the gate is a stutter.
LEMMA GateIsStutter == [Next]_vars => [StoreNext]_storeVars
  BY DEF Next, Present, GateStep, CheckSafe, ReadKeys, CheckDevice,
     CheckDeviceOnly, CheckHmac, CheckUnused, Remember, Tick, GateCrash,
     ListStep, StoreNext, vars

\* The gate does nothing to the list: it implements DeviceStore.
THEOREM GateKeepsStore == ApprovalSpec => Spec
  <1>1. ApprovalInit => Init  BY DEF ApprovalInit
  <1>2. [Next]_vars => [StoreNext]_storeVars  BY GateIsStutter
  <1> QED  BY <1>1, <1>2, PTL DEF ApprovalSpec, Spec

(***************************************************************************)
(* The app's own ticket allows nothing on a machine that trusted a device  *)
(* key when the invoke arrived (device_approval_required), however keys    *)
(* come and go and the daemon restarts, unless a request with another op   *)
(* than add and remove was applied.                                        *)
(***************************************************************************)
THEOREM AppTicketNeedsNoKey == ApprovalSpec => []AppTicketOnlyUnenrolled
  <1>1. ApprovalInit => FirstKeyInv  BY FirstKeyInit
  <1>2. GateBase /\ EnrolledInv /\ FirstKeyInv /\ [Next]_vars => FirstKeyInv'
    BY FirstKeyNext
  <1>3. ApprovalSpec => []EnrolledInv
    BY GateKeepsStore, EnrolledAlways, PTL
  <1>4. FirstKeyInv => AppTicketOnlyUnenrolled
    BY DEF FirstKeyInv, AppTicketOnlyUnenrolled, Allowed
  <1> QED  BY <1>1, <1>2, <1>3, <1>4, BaseAlways, PTL DEF ApprovalSpec

-----------------------------------------------------------------------------
(***************************************************************************)
(* That the app's ticket works.  A refusal has a reason that stays, and a  *)
(* ticket is in the book only because it has allowed a call.               *)
(***************************************************************************)
ReasonInv ==
    /\ ~up \/ unsafe => crashes > 0
    /\ \A t \in book : \E d \in Allowed : ticket[d] = t
    /\ AppTicketWorks

\* What makes a refusal stay justified: nothing that justified it goes.
LEMMA ReasonStays ==
    ASSUME GateBase, AppTicketWorks, now' \in Nat, now <= now',
           crashes' \in Nat, crashes <= crashes', unsafe => crashes > 0,
           \A c \in Calls :
              /\ pc'[c] = "refused" => /\ pc[c] = "refused"
                                       /\ ticket'[c] = ticket[c]
                                       /\ want'[c] = want[c]
                                       /\ met'[c] = met[c]
              /\ pc[c] = "allowed" => /\ pc'[c] = "allowed"
                                      /\ ticket'[c] = ticket[c]
    PROVE  AppTicketWorks'
  <1> SUFFICES ASSUME HmacKey, NEW c \in Calls, pc'[c] = "refused",
                      ticket'[c] # Nil, ~ByDevice(ticket[c])
               PROVE  \/ met[c] # {} \/ crashes' > 0
                      \/ ticket[c].act # want[c]
                      \/ ticket[c].exp < now'
                      \/ \E d \in Allowed : ticket[d] = ticket[c]
    BY DEF AppTicketWorks, Allowed, ByDevice
  <1>1. ticket[c] \in Tickets
    BY DEF GateBase, TypeOK
  <1>2. /\ ticket[c].exp \in Nat
        /\ now \in Nat
        /\ crashes \in Nat
    BY <1>1, TicketType DEF GateBase, TypeOK, StoreTypeOK
  <1>3. \/ met[c] # {} \/ unsafe \/ crashes > 0
        \/ ticket[c].act # want[c]
        \/ ticket[c].exp < now
        \/ \E d \in Allowed : ticket[d] = ticket[c]
    BY DEF AppTicketWorks
  <1> QED  BY <1>2, <1>3

LEMMA ReasonInit == ApprovalInit => ReasonInv
  BY DEF ApprovalInit, Init, ReasonInv, AppTicketWorks

LEMMA ReasonGate ==
    ASSUME GateBase, SignerInv, ReasonInv, NEW c \in Calls,
           \/ GateStep(c)
           \/ \E t \in Tickets \cup {Nil}, a \in Acts : Present(c, t, a)
    PROVE  ReasonInv'
  <1> USE DEF GateBase, TypeOK, StoreTypeOK, ReasonInv, AppTicketWorks, Allowed,
          ByDevice, Steps, Ended, Goto, storeVars, loadVars
  <1>1. ASSUME NEW t \in Tickets \cup {Nil}, NEW a \in Acts, Present(c, t, a)
        PROVE  ReasonInv'
    BY <1>1 DEF Present
  <1>2. CASE CheckSafe(c)        BY <1>2 DEF CheckSafe
  <1>3. CASE ReadKeys(c)         BY <1>3 DEF ReadKeys
  <1>4. CASE CheckDevice(c)      BY <1>4 DEF CheckDevice, TicketInv
  <1>5. CASE CheckDeviceOnly(c)
    BY <1>5 DEF CheckDeviceOnly, DeviceOnly, SignerInv, Active
  <1>6. CASE CheckHmac(c)
    <2>1. ticket[c].exp \in Nat
      BY <1>6, TicketType DEF CheckHmac, TicketInv, Active
    <2> QED  BY <1>6, <2>1 DEF CheckHmac, Fresh
  <1>7. CASE CheckUnused(c)      BY <1>7 DEF CheckUnused, Pruned
  <1>8. CASE Remember(c)         BY <1>8 DEF Remember, Pruned
  <1> QED
    BY <1>1, <1>2, <1>3, <1>4, <1>5, <1>6, <1>7, <1>8 DEF GateStep

LEMMA ReasonNext ==
    GateBase /\ SignerInv /\ ReasonInv /\ [Next]_vars => ReasonInv'
  <1> SUFFICES ASSUME GateBase, SignerInv, ReasonInv, [Next]_vars
               PROVE  ReasonInv'
    OBVIOUS
  <1> USE DEF GateBase, TypeOK, StoreTypeOK, Steps, Ended, Allowed, storeVars,
          loadVars, gateVars
  <1>1. CASE Tick
    <2>1. AppTicketWorks'
      BY <1>1, ReasonStays DEF Tick, ReasonInv
    <2> QED  BY <1>1, <2>1 DEF Tick, ReasonInv
  <1>2. CASE GateCrash
    <2>1. AppTicketWorks'
      BY <1>2, ReasonStays DEF GateCrash, Crash, ReasonInv
    <2> QED  BY <1>2, <2>1 DEF GateCrash, Crash, ReasonInv
  <1>3. CASE ListStep
    <2>1. UNCHANGED crashes /\ (~up' \/ unsafe' => crashes > 0)
      <3>1. CASE UserStep
        <4>1. PICK file \in Files : Touch(file)
          BY <3>1, UserTouches
        <4> QED  BY <4>1 DEF Touch, ReasonInv
      <3> QED
        BY <1>3, <3>1 DEF ListStep, StoreStep, ApplyStep, Issue, Lapse, Begin,
           Save, SaveFail, Commit, Open, ReasonInv
    <2>2. AppTicketWorks'
      BY <1>3, <2>1, ReasonStays DEF ListStep, ReasonInv
    <2> QED  BY <1>3, <2>1, <2>2 DEF ListStep, ReasonInv
  <1>4. CASE UNCHANGED vars
    BY <1>4 DEF vars, ReasonInv, AppTicketWorks
  <1> QED  BY <1>1, <1>2, <1>3, <1>4, ReasonGate DEF Next

(***************************************************************************)
(* On a machine without a device key, but with the app's key, a refusal of *)
(* the app's ticket has a reason of its own: the ticket names another act, *)
(* has expired or was used, or the list changed or could not be read       *)
(* (requireApproval, DeviceGate.Require, hmacapproval.Verify).             *)
(***************************************************************************)
THEOREM AppTicketGetsThrough == ApprovalSpec => []AppTicketWorks
  <1>1. ApprovalInit => SignerInv /\ ReasonInv  BY SignerInit, ReasonInit
  <1>2. GateBase /\ SignerInv /\ ReasonInv /\ [Next]_vars
          => SignerInv' /\ ReasonInv'
    BY SignerNext, ReasonNext
  <1>3. ReasonInv => AppTicketWorks  BY DEF ReasonInv
  <1> QED  BY <1>1, <1>2, <1>3, BaseAlways, PTL DEF ApprovalSpec

-----------------------------------------------------------------------------
(***************************************************************************)
(* That a ticket allows one invoke.  Once it has, the book holds it until  *)
(* it has expired, and what is checked has not expired yet, so the second  *)
(* invoke finds it: unless its check was under way at the exp, the book    *)
(* was lost, or both invokes looked before either was remembered.          *)
(***************************************************************************)
Excused(t) == \E w \in {"overlap", "expiry", "restart"} : <<t, w>> \in excuse

Past(t) == t.exp < now

\* The parts: the clocks the gate read, the book, the checks, the pairs.
ClockInv == \A c \in Calls : at[c] <= now

BookInv ==
    \A c \in Allowed : \/ ticket[c] \in book \/ Past(ticket[c])
                       \/ <<ticket[c], "restart">> \in excuse

CheckedInv ==
    \A c \in Calls : pc[c] = "checked" =>
        ~Past(ticket[c]) \/ <<ticket[c], "expiry">> \in excuse

PairInv ==
    \A c, d \in Calls :
        /\ c # d /\ ticket[c] = ticket[d]
        /\ pc[c] \in {"unused", "allowed"} /\ pc[d] \in {"unused", "allowed"}
        => Excused(ticket[c])

OnceInv == ClockInv /\ CheckedInv /\ (OneBook => BookInv /\ PairInv)

LEMMA OnceInit == ApprovalInit => OnceInv
  BY DEF ApprovalInit, OnceInv, ClockInv, CheckedInv, BookInv, PairInv, Allowed

\* A ticket leaves the book only when it has expired.
LEMMA OnlyPastPruned ==
    ASSUME GateBase, ClockInv, NEW c \in Calls, NEW t \in book, ~Past(t)
    PROVE  t \in Pruned(c)
  <1>1. t.exp \in Nat
    BY TicketType DEF GateBase, TypeOK
  <1>2. ClockOf(c) \in Nat /\ ClockOf(c) <= now
    BY DEF GateBase, TypeOK, ClockInv, ClockOf
  <1> QED  BY <1>1, <1>2 DEF Pruned, Past, GateBase, TypeOK

LEMMA OncePresent ==
    ASSUME GateBase, OnceInv, NEW c \in Calls, NEW t \in Tickets \cup {Nil},
           NEW a \in Acts, Present(c, t, a)
    PROVE  OnceInv'
  <1> USE DEF GateBase, TypeOK, OnceInv, Present, Goto
  <1>1. ClockInv'  BY DEF ClockInv
  <1>2. CheckedInv'  BY DEF CheckedInv, Past
  <1>3. OneBook => BookInv'  BY DEF BookInv, Allowed, Past
  <1>4. OneBook => PairInv'  BY DEF PairInv, Excused
  <1> QED  BY <1>1, <1>2, <1>3, <1>4

\* The steps before the book is asked.
LEMMA OnceCheck ==
    ASSUME GateBase, OnceInv, NEW c \in Calls,
           \/ CheckSafe(c) \/ ReadKeys(c) \/ CheckDevice(c)
           \/ CheckDeviceOnly(c) \/ CheckHmac(c)
    PROVE  OnceInv'
  <1> USE DEF GateBase, TypeOK, OnceInv, Goto, CheckSafe, ReadKeys, CheckDevice,
          CheckDeviceOnly, CheckHmac
  <1>1. ClockInv'  BY DEF ClockInv
  <1>2. CheckedInv'
    <2>1. CASE CheckDevice(c) \/ CheckHmac(c)
      <3>1. ticket[c].exp \in Nat
        BY <2>1, TicketType DEF TicketInv, Active, Steps
      <3> QED  BY <2>1, <3>1 DEF CheckedInv, Past, Fresh
    <2>2. CASE ~(CheckDevice(c) \/ CheckHmac(c))
      BY <2>2 DEF CheckedInv, Past
    <2> QED  BY <2>1, <2>2
  <1>3. OneBook => BookInv'  BY DEF BookInv, Allowed, Past
  <1>4. OneBook => PairInv'  BY DEF PairInv, Excused
  <1> QED  BY <1>1, <1>2, <1>3, <1>4

LEMMA OnceUnused ==
    ASSUME GateBase, OnceInv, NEW c \in Calls, CheckUnused(c)
    PROVE  OnceInv'
  <1> USE DEF GateBase, TypeOK, OnceInv, Goto, CheckUnused
  <1> DEFINE t == ticket[c]
  <1>0. excuse \subseteq excuse'  OBVIOUS
  <1>1. ClockInv'  BY DEF ClockInv
  <1>2. CheckedInv'  BY <1>0 DEF CheckedInv, Past
  <1>3. ASSUME OneBook  PROVE BookInv'
    BY <1>0, <1>3, OnlyPastPruned DEF BookInv, Allowed, Past
  <1>4. ASSUME OneBook  PROVE PairInv'
    <2>1. ASSUME pc'[c] = "unused", NEW d \in Calls, d # c, ticket[d] = t,
                 pc[d] \in {"unused", "allowed"}
          PROVE  Excused(t)'
      <3>1. CASE pc[d] = "unused"
        <4>1. <<t, "overlap">> \in excuse'
          BY <2>1, <3>1
        <4> QED  BY <4>1 DEF Excused
      <3>2. CASE pc[d] = "allowed"
        <4>1. t \notin Pruned(c)
          BY <2>1
        <4>2. CASE t \in book
          <5>1. Past(t)
            BY <4>1, <4>2, OnlyPastPruned
          <5>2. <<t, "expiry">> \in excuse
            BY <5>1 DEF CheckedInv
          <5> QED  BY <5>2, <1>0 DEF Excused
        <4>3. CASE Past(t)
          <5>2. <<t, "expiry">> \in excuse
            BY <4>3 DEF CheckedInv
          <5> QED  BY <5>2, <1>0 DEF Excused
        <4>4. CASE <<t, "restart">> \in excuse
          BY <4>4, <1>0 DEF Excused
        <4> QED  BY <1>4, <2>1, <3>2, <4>2, <4>3, <4>4 DEF BookInv, Allowed
      <3> QED  BY <2>1, <3>1, <3>2
    <2>2. \A u : Excused(u) => Excused(u)'
      BY <1>0 DEF Excused
    <2> QED  BY <1>4, <2>1, <2>2 DEF PairInv
  <1> QED  BY <1>1, <1>2, <1>3, <1>4

LEMMA OnceRemember ==
    ASSUME GateBase, OnceInv, NEW c \in Calls, Remember(c)
    PROVE  OnceInv'
  <1> USE DEF GateBase, TypeOK, OnceInv, Goto, Remember
  <1>1. ClockInv'  BY DEF ClockInv
  <1>2. CheckedInv'  BY DEF CheckedInv, Past
  <1>3. ASSUME OneBook  PROVE BookInv'
    BY <1>3, OnlyPastPruned DEF BookInv, Allowed, Past
  <1>4. OneBook => PairInv'  BY DEF PairInv, Excused
  <1> QED  BY <1>1, <1>2, <1>3, <1>4

LEMMA OnceTick == ASSUME GateBase, OnceInv, Tick  PROVE OnceInv'
  <1> USE DEF GateBase, TypeOK, OnceInv, Tick, gateVars
  <1>0. excuse \subseteq excuse' /\ now' > now  OBVIOUS
  <1>1. ClockInv'  BY DEF ClockInv
  <1>2. CheckedInv'
    <2> SUFFICES ASSUME NEW c \in Calls, pc[c] = "checked", Past(ticket[c])'
                 PROVE  <<ticket[c], "expiry">> \in excuse'
      BY DEF CheckedInv, Past
    <2>1. ticket[c] \in Tickets
      BY DEF TicketInv, Active, Steps
    <2>2. ticket[c].exp <= now
      BY <2>1, TicketType DEF Past
    <2> QED  BY <2>1, <2>2
  <1>3. ASSUME OneBook  PROVE BookInv'
    <2>1. \A c \in Allowed : ticket[c].exp \in Nat
      BY TicketType DEF TicketInv, Allowed
    <2> QED  BY <1>0, <1>3, <2>1 DEF BookInv, Allowed, Past
  <1>4. OneBook => PairInv'  BY <1>0 DEF PairInv, Excused
  <1> QED  BY <1>1, <1>2, <1>3, <1>4

LEMMA OnceCrash == ASSUME GateBase, OnceInv, GateCrash  PROVE OnceInv'
  <1> USE DEF GateBase, TypeOK, OnceInv, GateCrash, Ended, Allowed
  <1>0. excuse \subseteq excuse'  OBVIOUS
  <1>1. ClockInv'  BY DEF ClockInv
  <1>2. CheckedInv'  BY DEF CheckedInv, Past
  <1>3. BookInv'  BY DEF BookInv
  <1>4. OneBook => PairInv'  BY <1>0 DEF PairInv, Excused
  <1> QED  BY <1>1, <1>2, <1>3, <1>4

LEMMA OnceNext == GateBase /\ OnceInv /\ [Next]_vars => OnceInv'
  <1> SUFFICES ASSUME GateBase, OnceInv, [Next]_vars  PROVE OnceInv'
    OBVIOUS
  <1>1. CASE ListStep \/ UNCHANGED vars
    BY <1>1 DEF ListStep, vars, gateVars, OnceInv, ClockInv, CheckedInv,
       BookInv, PairInv, Allowed, Past, Excused
  <1> QED
    BY <1>1, OncePresent, OnceCheck, OnceUnused, OnceRemember, OnceTick,
       OnceCrash DEF Next, GateStep

(***************************************************************************)
(* A ticket that is looked up in the book allows one invoke, however often *)
(* it is delivered, unless two checks of it overlapped, one of them was    *)
(* under way when it expired, or the daemon restarted (MemoryNonces: Seen  *)
(* and Remember are two critical sections, and the book is in memory).     *)
(***************************************************************************)
THEOREM OneTicketOneInvoke == ApprovalSpec => []OnceUnlessExcused
  <1>1. ApprovalInit => OnceInv  BY OnceInit
  <1>2. GateBase /\ OnceInv /\ [Next]_vars => OnceInv'  BY OnceNext
  <1>3. OnceInv => OnceUnlessExcused
    BY DEF OnceInv, PairInv, Excused, OnceUnlessExcused, TwiceUnless, Allowed
  <1> QED  BY <1>1, <1>2, <1>3, BaseAlways, PTL DEF ApprovalSpec
=============================================================================
