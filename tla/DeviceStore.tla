---------------------------- MODULE DeviceStore ----------------------------
(***************************************************************************)
(* The list of device keys this computer trusts (internal/devicekeys:      *)
(* Store and VerifyEnrollment), its file, and the daemon's crashes and     *)
(* restarts.                                                               *)
(*                                                                         *)
(* The app is a courier: it may deliver a request that was once issued     *)
(* late, twice, in another order or never.  A request that does not parse, *)
(* names another machine, brings no usable key or carries a bad signature  *)
(* is refused before anything changes, and is left out.  One whose op is   *)
(* neither add nor remove, or that names no credential, is not refused.    *)
(***************************************************************************)
EXTENDS Integers, FiniteSets

CONSTANTS
    Creds,       \* credential ids
    NoName,      \* the empty credential id of a request that names none
    Reqs,        \* enrollment requests, one per signed blob
    MaxDevices,  \* maxDevices
    MaxCrashes,  \* bound: crashes of the daemon
    MaxTouches,  \* bound: times the user harms the file by hand
    Nil          \* no signature, no request

ASSUME DeviceAssumption ==
    /\ IsFiniteSet(Creds)
    /\ MaxDevices \in Nat \ {0}
    /\ MaxCrashes \in Nat
    /\ MaxTouches \in Nat
    /\ NoName \notin Creds
    /\ Nil \notin Creds \cup {NoName}
    /\ Nil \notin Reqs

VARIABLES
    form,      \* the content of each request, once it was issued
    lapsed,    \* requests whose exp has passed
    up,        \* the daemon runs
    devices,   \* Store.devices
    unsafe,    \* Store.unsafe is not empty
    applying,  \* the request Apply handles, under Store.mu
    saved,     \* saveDeviceFile renamed the new file into place
    disk,      \* devices.json
    crashes,   \* crashes so far
    touches,   \* harm done by hand so far
    enrolled,  \* history: the file held a key at some time
    edited,    \* history: the user deleted the file, or spoilt an entry of it
    strange,   \* history: what was wrong with requests that reached the file
    locals     \* history: requests without a signature that reached the file

loadVars  == <<up, devices, unsafe>>
applyVars == <<applying, saved>>
pastVars  == <<enrolled, edited, strange, locals>>
storeVars == <<form, lapsed, loadVars, applyVars, disk, crashes, touches,
               pastVars>>

Ids   == Creds \cup {NoName}
Ops   == {"add", "remove", "other"}
Forms == [op : Ops, cred : Ids, by : Ids \cup {Nil}]
Files == [state : {"good", "bad"}, keys : SUBSET Ids]

NoForm == [op |-> Nil, cred |-> Nil, by |-> Nil]
Issued == {r \in Reqs : form[r] # NoForm}

\* An Apply that has passed its checks and holds the mutex.
Locked == applying # Nil

\* A file that can be read, with the mode saveDeviceFile gives it.
Good(keys) == [state |-> "good", keys |-> keys]

\* No file is, to loadDeviceFile, a good one without entries.
Missing == Good({})

\* The entries loadDeviceFile does not skip: those with a credential id.  One
\* with a field of a wrong type is skipped as well, and is not in keys.
Entries(file) == file.keys \ {NoName}

\* A file others may write, or that cannot be read or parsed, makes the store
\* unsafe instead.
Loaded(file) == IF file.state = "good" THEN Entries(file) ELSE {}

\* The daemon has just opened the file of a machine that was enrolled
\* earlier, or of one that never was.
Init ==
    /\ form = [r \in Reqs |-> NoForm]
    /\ lapsed = {}
    /\ up = TRUE
    /\ devices \in {S \in SUBSET Creds : Cardinality(S) <= MaxDevices}
    /\ unsafe = FALSE
    /\ applying = Nil
    /\ saved = FALSE
    /\ disk = Good(devices)
    /\ enrolled = (devices # {})
    /\ crashes = 0
    /\ touches = 0
    /\ edited = FALSE
    /\ strange = {}
    /\ locals = {}

-----------------------------------------------------------------------------
(* Requests.                                                               *)

\* Somebody signs a request with a device, or leaves it unsigned.
Issue(r, f) ==
    /\ form[r] = NoForm
    /\ form' = [form EXCEPT ![r] = f]
    /\ UNCHANGED <<lapsed, loadVars, applyVars, disk, crashes, touches,
                   pastVars>>

\* The clock goes past its exp.
Lapse(r) ==
    /\ r \in Issued \ lapsed
    /\ lapsed' = lapsed \cup {r}
    /\ UNCHANGED <<form, loadVars, applyVars, disk, crashes, touches, pastVars>>

\* Without a signature: the first key, confirmed at the computer.
AnyLocal(f) == f.op = "add"  \* mutant: any key, confirmed at the computer
LocalFirst(f) == f.op = "add" /\ devices = {}

\* would_leave_none.
LeavesNoneLate(f) == f.op = "remove" /\ devices = {}  \* mutant: off by one
LeavesNone(f) == f.op = "remove" /\ Cardinality(devices) <= 1

\* VerifyEnrollment, and the limit Apply adds: a trusted key signs for
\* another key than its own, and the last key is not removed.
Admits(r) ==
    LET f == form[r] IN
    /\ r \in Issued \ lapsed
    /\ f.by = Nil => LocalFirst(f)
    /\ f.by # Nil => /\ f.by \in devices
                     /\ ~(f.op = "add" /\ f.by = f.cred)
                     /\ ~LeavesNone(f)
    /\ f.op = "add" => Cardinality(devices \ {f.cred}) < MaxDevices

\* Mutant of Updated: adds the signer.
UpdatedBySigner(r) == IF form[r].op = "add" THEN devices \cup {form[r].by}
                                            ELSE devices \ {form[r].cred}

\* The list Apply writes.  Any op but "add" takes the key off it, and a key
\* without a name is a key like any other.
Updated(r) == IF form[r].op = "add" THEN devices \cup {form[r].cred}
                                    ELSE devices \ {form[r].cred}

-----------------------------------------------------------------------------
(* Apply.  One mutex covers it, so List, Keys and DeviceOnly see nothing   *)
(* in between; a crash does.                                               *)

\* What no check of VerifyEnrollment looks at.
Oddities(f) ==
    (IF f.op = "other" THEN {"op"} ELSE {})
    \cup (IF f.op = "add" /\ f.cred = NoName THEN {"name"} ELSE {})

Begin(r) ==
    /\ up /\ ~unsafe /\ ~Locked
    /\ Admits(r)
    /\ applying' = r
    /\ saved' = FALSE
    /\ UNCHANGED <<form, lapsed, loadVars, disk, crashes, touches, pastVars>>

\* The temporary file is renamed over the old one, with mode 0600.
Save ==
    /\ Locked /\ ~saved
    /\ saved' = TRUE
    /\ disk' = Good(Updated(applying))
    /\ enrolled' = (enrolled \/ Updated(applying) # {})
    /\ locals' = IF form[applying].by = Nil THEN locals \cup {applying}
                                            ELSE locals
    /\ strange' = strange \cup Oddities(form[applying])
    /\ UNCHANGED <<form, lapsed, loadVars, applying, crashes, touches, edited>>

\* Mutant of SaveFail: the list changes although the file does not.
SaveFailCommits ==
    /\ Locked /\ ~saved
    /\ devices' = Updated(applying)
    /\ applying' = Nil
    /\ UNCHANGED <<form, lapsed, up, unsafe, saved, disk, crashes, touches,
                   pastVars>>

\* store_write_failed: the file and the list stay as they were.
SaveFail ==
    /\ Locked /\ ~saved
    /\ applying' = Nil
    /\ UNCHANGED <<form, lapsed, loadVars, saved, disk, crashes, touches,
                   pastVars>>

Commit ==
    /\ Locked /\ saved
    /\ devices' = Updated(applying)
    /\ applying' = Nil
    /\ saved' = FALSE
    /\ UNCHANGED <<form, lapsed, up, unsafe, disk, crashes, touches, pastVars>>

-----------------------------------------------------------------------------
(* Crashes, restarts, and the user's own hands on the file.                *)

Crash ==
    /\ up
    /\ crashes < MaxCrashes
    /\ crashes' = crashes + 1
    /\ up' = FALSE
    /\ devices' = {}
    /\ unsafe' = FALSE
    /\ applying' = Nil
    /\ saved' = FALSE
    /\ UNCHANGED <<form, lapsed, disk, touches, pastVars>>

\* loadDeviceFile.
Open ==
    /\ ~up
    /\ up' = TRUE
    /\ unsafe' = (disk.state = "bad")
    /\ devices' = Loaded(disk)
    /\ UNCHANGED <<form, lapsed, applyVars, disk, crashes, touches, pastVars>>

\* The user changes the file; a running daemon does not notice.
Touch(file) ==
    /\ disk' = file
    /\ edited' = (edited \/ file.keys # disk.keys)
    /\ UNCHANGED <<form, lapsed, loadVars, applyVars, crashes, enrolled, strange,
                   locals>>

Harm(file) ==
    /\ touches < MaxTouches
    /\ touches' = touches + 1
    /\ Touch(file)

\* He deletes it, breaks its syntax or its mode, gives fields of some entries
\* a wrong type (of all, if devices is no list), or mends syntax and mode.
UserDelete == Harm(Missing)
UserSpoil  == disk.state = "good" /\ Harm([disk EXCEPT !.state = "bad"])
UserRetype ==
    \E S \in SUBSET disk.keys :
        disk.state = "good" /\ S # disk.keys /\ Harm(Good(S))
UserRepair ==
    /\ disk.state = "bad"
    /\ Touch(Good(disk.keys))
    /\ UNCHANGED touches

ApplyStep == (\E r \in Reqs : Begin(r)) \/ Save \/ SaveFail \/ Commit

UserStep == UserDelete \/ UserSpoil \/ UserRetype \/ UserRepair

\* Everything but a crash of the daemon.
StoreStep ==
    \/ \E r \in Reqs : (\E f \in Forms : Issue(r, f)) \/ Lapse(r)
    \/ ApplyStep
    \/ Open
    \/ UserStep

StoreNext == StoreStep \/ Crash

Spec == Init /\ [][StoreNext]_storeVars
-----------------------------------------------------------------------------

\* Every variable keeps its type (Store, deviceFile and EnrollRequest).
StoreTypeOK ==
    /\ form \in [Reqs -> Forms \cup {NoForm}]
    /\ lapsed \in SUBSET Reqs
    /\ up \in BOOLEAN
    /\ devices \in SUBSET Ids
    /\ unsafe \in BOOLEAN
    /\ applying \in Reqs \cup {Nil}
    /\ saved \in BOOLEAN
    /\ disk \in Files
    /\ crashes \in Nat
    /\ touches \in Nat
    /\ enrolled \in BOOLEAN
    /\ edited \in BOOLEAN
    /\ strange \in SUBSET {"op", "name"}
    /\ locals \in SUBSET Reqs

(***************************************************************************)
(* What a restart would load is what a running daemon trusts, over failed  *)
(* saves and crashes at any point of a save, unless the user edited the    *)
(* file - but for a key without a name, which only memory knows.           *)
(***************************************************************************)
FileIsMemory ==
    up /\ ~Locked /\ ~unsafe /\ ~edited =>
        Entries(disk) = devices \ {NoName}

(***************************************************************************)
(* A machine that once had a device key in its file stays device-only, or  *)
(* stalls, whatever is delivered, whatever fails, over restarts, and if    *)
(* the file is spoilt - as long as the user does not delete it or spoil an *)
(* entry, and no request with another op than add and remove, and none     *)
(* that adds a key without a name, ever reached it.                        *)
(***************************************************************************)
EnrolledStays ==
    enrolled /\ ~edited /\ strange = {} =>
        /\ Entries(disk) # {}
        /\ up /\ ~Locked => unsafe \/ devices # {}

(***************************************************************************)
(* A key confirmed at the computer is the first one only: a request that   *)
(* nobody signed never reaches the file of a machine that had a key, over  *)
(* crashes and restarts, with the same exceptions.                         *)
(***************************************************************************)
LocalConfirmOnce ==
    [][\A r \in Reqs : r \in locals' \ locals =>
           ~enrolled \/ edited \/ strange # {}]_storeVars
=============================================================================
