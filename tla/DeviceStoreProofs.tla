------------------------- MODULE DeviceStoreProofs -------------------------
(***************************************************************************)
(* Theorems about DeviceStore, for any number of keys, requests, crashes   *)
(* and changes by hand.                                                    *)
(***************************************************************************)
EXTENDS DeviceStore, FiniteSetTheorems, TLAPS

LEMMA FormsAreForms == ASSUME NEW f \in Forms  PROVE f # NoForm
  <1>1. f.cred # Nil
    BY DeviceAssumption DEF Forms, Ids
  <1>2. NoForm.cred = Nil
    BY DEF NoForm
  <1> QED  BY <1>1, <1>2

LEMMA UpdatedType == ASSUME StoreTypeOK, NEW r \in Issued
                     PROVE  Updated(r) \in SUBSET Ids
  BY DEF StoreTypeOK, Issued, Updated, Forms

LEMMA OdditiesType == ASSUME NEW f
                      PROVE  Oddities(f) \in SUBSET {"op", "name"}
  BY DEF Oddities

-----------------------------------------------------------------------------
(* Type correctness.                                                       *)

LEMMA StoreTypeInit == Init => StoreTypeOK
  <1> SUFFICES ASSUME Init  PROVE StoreTypeOK
    OBVIOUS
  <1>1. disk \in Files
    BY DEF Init, Files, Good, Ids
  <1>2. enrolled \in BOOLEAN
    BY Zenon DEF Init
  <1> QED  BY <1>1, <1>2 DEF Init, StoreTypeOK, Ids

\* Whatever the user does leaves a file that has no key it had not before,
\* and if it has fewer, that is noted.
LEMMA UserTouches ==
    ASSUME StoreTypeOK, UserStep
    PROVE  \E file \in Files : /\ Touch(file)
                               /\ file.keys \subseteq disk.keys
  <1> USE DEF StoreTypeOK, Files
  <1>1. CASE UserDelete
    BY <1>1 DEF UserDelete, Harm, Missing, Good
  <1>2. CASE UserSpoil
    <2> DEFINE file == [disk EXCEPT !.state = "bad"]
    <2>1. file \in Files /\ file.keys = disk.keys
      OBVIOUS
    <2> QED  BY <1>2, <2>1 DEF UserSpoil, Harm
  <1>3. CASE UserRetype
    <2>1. PICK S \in SUBSET disk.keys : Touch(Good(S))
      BY <1>3 DEF UserRetype, Harm
    <2>2. Good(S) \in Files /\ Good(S).keys = S
      BY DEF Good
    <2> QED  BY <2>1, <2>2
  <1>4. CASE UserRepair
    BY <1>4 DEF UserRepair, Good
  <1> QED  BY <1>1, <1>2, <1>3, <1>4 DEF UserStep

\* The request being applied was issued.
LEMMA StoreTypeNext ==
    ASSUME StoreTypeOK, Locked => applying \in Issued, [StoreNext]_storeVars
    PROVE  StoreTypeOK'
  <1> USE DeviceAssumption DEF StoreTypeOK, Files, loadVars, applyVars, pastVars,
                               storeVars
  <1>1. ASSUME NEW r \in Reqs, NEW f \in Forms, Issue(r, f)
        PROVE  StoreTypeOK'
    BY <1>1 DEF Issue
  <1>2. ASSUME NEW r \in Reqs, Lapse(r)  PROVE StoreTypeOK'
    BY <1>2 DEF Lapse
  <1>3. ASSUME NEW r \in Reqs, Begin(r)  PROVE StoreTypeOK'
    BY <1>3 DEF Begin
  <1>4. CASE Save
    <2>1. applying \in Reqs /\ Updated(applying) \in SUBSET Ids
      BY <1>4, UpdatedType DEF Save, Locked, Issued
    <2>2. strange' \in SUBSET {"op", "name"}
      BY <1>4, OdditiesType DEF Save
    <2> QED  BY <1>4, <2>1, <2>2 DEF Save, Good
  <1>5. CASE SaveFail
    BY <1>5 DEF SaveFail
  <1>6. CASE Commit
    <2>1. Updated(applying) \in SUBSET Ids
      BY <1>6, UpdatedType DEF Commit, Locked
    <2> QED  BY <1>6, <2>1 DEF Commit
  <1>7. CASE Open
    BY <1>7 DEF Open, Loaded, Entries
  <1>8. ASSUME NEW file \in Files, Touch(file), touches' \in Nat
        PROVE  StoreTypeOK'
    <2>1. edited' \in BOOLEAN
      BY <1>8, Zenon DEF Touch
    <2> QED  BY <1>8, <2>1 DEF Touch
  <1>9. CASE UserStep
    <2>1. PICK file \in Files : Touch(file)
      BY <1>9, UserTouches
    <2>2. touches' \in Nat
      BY <1>9 DEF UserStep, UserDelete, UserSpoil, UserRetype, UserRepair, Harm
    <2> QED  BY <1>8, <2>1, <2>2
  <1>10. CASE Crash
    <2>1. up' = FALSE /\ unsafe' = FALSE /\ saved' = FALSE
      BY <1>10 DEF Crash
    <2>2. devices' = {} /\ applying' = Nil /\ crashes' = crashes + 1
      BY <1>10 DEF Crash
    <2>3. UNCHANGED <<form, lapsed, disk, touches, pastVars>>
      BY <1>10 DEF Crash
    <2>4. /\ form' \in [Reqs -> Forms \cup {NoForm}]
          /\ lapsed' \in SUBSET Reqs
          /\ disk' \in Files
          /\ touches' \in Nat
          /\ locals' \in SUBSET Reqs
          /\ strange' \in SUBSET {"op", "name"}
      BY <2>3
    <2>5. enrolled' \in BOOLEAN /\ edited' \in BOOLEAN
      BY <2>3
    <2>6. devices' \in SUBSET Ids /\ applying' \in Reqs \cup {Nil}
      BY <2>2
    <2>7. crashes' \in Nat
      BY <2>2
    <2> QED  BY <2>1, <2>4, <2>5, <2>6, <2>7, Zenon
  <1>11. CASE UNCHANGED storeVars
    BY <1>11
  <1> QED
    BY <1>1, <1>2, <1>3, <1>4, <1>5, <1>6, <1>7, <1>9, <1>10, <1>11
       DEF StoreNext, StoreStep, ApplyStep

-----------------------------------------------------------------------------
(***************************************************************************)
(* What links the list in memory, the file and the request being applied:  *)
(* the file holds the new list once it was renamed into place and the old  *)
(* one before; a request being applied is unsigned only if there was no    *)
(* key; and a key without a name came with a request that is on record.    *)
(***************************************************************************)
StoreInv ==
    /\ Locked => /\ up /\ ~unsafe
                 /\ applying \in Issued
                 /\ form[applying].by = Nil => devices = {}
    /\ saved => Locked /\ Oddities(form[applying]) \subseteq strange
    /\ "name" \notin strange => NoName \notin devices \cup disk.keys
    /\ up /\ ~unsafe /\ ~edited =>
         Entries(disk) =
             (IF saved THEN Updated(applying) ELSE devices) \ {NoName}

LEMMA StoreInvInit == Init => StoreInv
  BY DeviceAssumption DEF Init, StoreInv, Locked, Good, Entries

LEMMA StoreInvNext ==
    ASSUME StoreTypeOK, StoreInv, [StoreNext]_storeVars
    PROVE  StoreInv'
  <1> USE DeviceAssumption DEF StoreInv, StoreTypeOK, Locked, loadVars,
                               applyVars, pastVars, storeVars
  <1>1. ASSUME NEW r \in Reqs, NEW f \in Forms, Issue(r, f)
        PROVE  StoreInv'
    BY <1>1, FormsAreForms DEF Issue, Issued, Updated
  <1>2. ASSUME NEW r \in Reqs, Lapse(r)  PROVE StoreInv'
    BY <1>2 DEF Lapse, Issued, Updated
  <1>3. ASSUME NEW r \in Reqs, Begin(r)  PROVE StoreInv'
    BY <1>3 DEF Begin, Admits, LocalFirst, Issued, Updated
  <1>4. CASE Save
    <2>1. disk' = Good(Updated(applying)) /\ disk'.keys = Updated(applying)
      BY <1>4 DEF Save, Good
    <2>2. Updated(applying)' = Updated(applying) /\ Issued' = Issued
      BY <1>4 DEF Save, Updated, Issued
    <2>3. strange' = strange \cup Oddities(form[applying])
      BY <1>4 DEF Save
    <2>4. "name" \notin strange' => NoName \notin devices \cup Updated(applying)
      BY <2>3 DEF Oddities, Updated
    <2>5. Oddities(form[applying])' = Oddities(form[applying])
      BY <1>4 DEF Save, Oddities
    <2> QED  BY <1>4, <2>1, <2>2, <2>3, <2>4, <2>5 DEF Save, Entries
  <1>5. CASE SaveFail
    BY <1>5 DEF SaveFail, Issued
  <1>6. CASE Commit
    <2>1. "name" \notin strange => NoName \notin Updated(applying)
      BY <1>6 DEF Commit, Oddities, Updated
    <2> QED  BY <1>6, <2>1 DEF Commit, Issued, Entries
  <1>7. CASE Open
    BY <1>7 DEF Open, Files, Issued, Loaded, Entries
  <1>9. CASE UserStep
    <2>1. PICK file \in Files : Touch(file) /\ file.keys \subseteq disk.keys
      BY <1>9, UserTouches
    <2>2. ~edited' => ~edited /\ Entries(disk)' = Entries(disk)
      BY <2>1 DEF Touch, Entries
    <2>3. UNCHANGED <<form, devices, up, unsafe, applying, saved, strange>>
      BY <2>1 DEF Touch
    <2>4. Updated(applying)' = Updated(applying) /\ Issued' = Issued
      BY <2>3 DEF Updated, Issued
    <2>5. Oddities(form[applying])' = Oddities(form[applying])
      BY <2>3 DEF Oddities
    <2>6. disk'.keys \subseteq disk.keys
      BY <2>1 DEF Touch
    <2> QED  BY <2>2, <2>3, <2>4, <2>5, <2>6
  <1>10. CASE Crash
    BY <1>10 DEF Crash
  <1>11. CASE UNCHANGED storeVars
    BY <1>11 DEF Issued, Updated
  <1> QED
    BY <1>1, <1>2, <1>3, <1>4, <1>5, <1>6, <1>7, <1>9, <1>10, <1>11
       DEF StoreNext, StoreStep, ApplyStep

LEMMA StoreAlways == Spec => [](StoreTypeOK /\ StoreInv)
  <1>1. Init => StoreTypeOK /\ StoreInv  BY StoreTypeInit, StoreInvInit
  <1>2. StoreTypeOK /\ StoreInv /\ [StoreNext]_storeVars
          => (StoreTypeOK /\ StoreInv)'
    BY StoreTypeNext, StoreInvNext DEF StoreInv
  <1> QED  BY <1>1, <1>2, PTL DEF Spec

\* Every variable of the store keeps its type (Store, deviceFile).
THEOREM StoreTypeCorrect == Spec => []StoreTypeOK
  BY StoreAlways, PTL

(***************************************************************************)
(* Unless the user edited the file, a restart would load what a running    *)
(* daemon trusts, but for a key without a name, whatever fails or crashes  *)
(* in Apply and saveDeviceFile.                                            *)
(***************************************************************************)
THEOREM MemoryIsTheFile == Spec => []FileIsMemory
  <1>1. StoreInv => FileIsMemory  BY DEF StoreInv, FileIsMemory
  <1> QED  BY <1>1, StoreAlways, PTL

-----------------------------------------------------------------------------
(***************************************************************************)
(* A machine that was enrolled has a key in its file, because a request    *)
(* being applied leaves one behind, unless its op is another one.          *)
(***************************************************************************)
EnrolledInv ==
    /\ Locked /\ form[applying].op # "other" => Updated(applying) # {}
    /\ enrolled /\ ~edited /\ strange = {} => Entries(disk) # {}

\* What VerifyEnrollment admits leaves a key behind (would_leave_none).
LEMMA AdmittedLeavesOne ==
    ASSUME StoreTypeOK, NEW r \in Reqs, Admits(r), form[r].op # "other"
    PROVE  Updated(r) # {}
  <1>1. form[r].op \in {"add", "remove"} /\ form[r].cred \in Ids
    <2>1. form[r] \in Forms
      BY DEF Admits, Issued, StoreTypeOK
    <2> QED  BY <2>1 DEF Forms, Ops
  <1>2. CASE form[r].op = "add"
    BY <1>2 DEF Updated
  <1>3. CASE form[r].op = "remove"
    <2>1. ~(Cardinality(devices) <= 1)
      BY <1>3 DEF Admits, LocalFirst, LeavesNone
    <2>2. devices \in SUBSET {form[r].cred} => Cardinality(devices) <= 1
      <3> SUFFICES ASSUME devices \in SUBSET {form[r].cred}
                   PROVE  Cardinality(devices) <= 1
        OBVIOUS
      <3>1. devices = {} \/ devices = {form[r].cred}
        OBVIOUS
      <3>2. Cardinality(devices) = 0 \/ Cardinality(devices) = 1
        BY <3>1, FS_EmptySet, FS_Singleton, Zenon
      <3> QED  BY <3>2
    <2>3. devices \ {form[r].cred} # {}
      BY <2>1, <2>2
    <2> QED  BY <1>3, <2>3 DEF Updated
  <1> QED  BY <1>1, <1>2, <1>3

LEMMA EnrolledInvInit == Init => EnrolledInv
  <1> SUFFICES ASSUME Init  PROVE EnrolledInv
    OBVIOUS
  <1>1. ~Locked
    BY DEF Init, Locked
  <1>2. enrolled => devices # {}
    BY Zenon DEF Init
  <1>3. Entries(disk) = devices
    BY DeviceAssumption DEF Init, Good, Entries
  <1> QED  BY <1>1, <1>2, <1>3 DEF EnrolledInv

LEMMA EnrolledInvNext ==
    ASSUME StoreTypeOK, StoreInv, EnrolledInv, [StoreNext]_storeVars
    PROVE  EnrolledInv'
  <1> USE DeviceAssumption DEF EnrolledInv, StoreTypeOK, Locked, loadVars,
                               applyVars, pastVars, storeVars
  <1>1. ASSUME NEW r \in Reqs, NEW f \in Forms, Issue(r, f)
        PROVE  EnrolledInv'
    BY <1>1, FormsAreForms DEF Issue, Issued, Updated, StoreInv
  <1>2. ASSUME NEW r \in Reqs, Lapse(r)  PROVE EnrolledInv'
    BY <1>2 DEF Lapse, Updated
  <1>3. ASSUME NEW r \in Reqs, Begin(r)  PROVE EnrolledInv'
    <2>1. form[r].op # "other" => Updated(r) # {}
      BY <1>3, AdmittedLeavesOne DEF Begin
    <2> QED  BY <1>3, <2>1 DEF Begin, Updated
  <1>4. CASE Save
    <2>1. disk'.keys = Updated(applying)
      BY <1>4 DEF Save, Good
    <2>2. strange' = {} => strange = {} /\ Oddities(form[applying]) = {}
      BY <1>4 DEF Save
    <2>3. strange' = {} => form[applying].op # "other"
      BY <2>2 DEF Oddities
    <2>4. strange' = {} => NoName \notin Updated(applying)
      BY <2>2 DEF Oddities, Updated, StoreInv
    <2>5. Updated(applying)' = Updated(applying)
      BY <1>4 DEF Save, Updated
    <2> QED  BY <1>4, <2>1, <2>2, <2>3, <2>4, <2>5 DEF Save, Entries
  <1>5. CASE SaveFail
    BY <1>5 DEF SaveFail
  <1>6. CASE Commit
    BY <1>6 DEF Commit
  <1>7. CASE Open
    BY <1>7 DEF Open, StoreInv
  <1>9. CASE UserStep
    <2>1. PICK file \in Files : Touch(file)
      BY <1>9, UserTouches
    <2> QED  BY <2>1 DEF Touch, Entries, Updated
  <1>10. CASE Crash
    BY <1>10 DEF Crash
  <1>11. CASE UNCHANGED storeVars
    BY <1>11 DEF Updated
  <1> QED
    BY <1>1, <1>2, <1>3, <1>4, <1>5, <1>6, <1>7, <1>9, <1>10, <1>11
       DEF StoreNext, StoreStep, ApplyStep

LEMMA EnrolledAlways == Spec => [](StoreTypeOK /\ StoreInv /\ EnrolledInv)
  <1>1. Init => StoreTypeOK /\ StoreInv /\ EnrolledInv
    BY StoreTypeInit, StoreInvInit, EnrolledInvInit
  <1>2. StoreTypeOK /\ StoreInv /\ EnrolledInv /\ [StoreNext]_storeVars
          => (StoreTypeOK /\ StoreInv /\ EnrolledInv)'
    <2> SUFFICES ASSUME StoreTypeOK, StoreInv, EnrolledInv,
                        [StoreNext]_storeVars
                 PROVE  (StoreTypeOK /\ StoreInv /\ EnrolledInv)'
      OBVIOUS
    <2>1. StoreTypeOK'  BY StoreTypeNext DEF StoreInv
    <2>2. StoreInv'     BY StoreInvNext
    <2>3. EnrolledInv'  BY EnrolledInvNext
    <2> QED  BY <2>1, <2>2, <2>3
  <1> QED  BY <1>1, <1>2, PTL DEF Spec

(***************************************************************************)
(* A machine that once had a device key in its file stays device-only, or  *)
(* stalls, for any number of keys, requests, failures and crashes, until   *)
(* the user edits the file, or a request with another op than add and      *)
(* remove, or one that adds a key without a name, reaches it.              *)
(***************************************************************************)
THEOREM EnrolledForGood == Spec => []EnrolledStays
  <1>1. StoreInv /\ EnrolledInv => EnrolledStays
    BY DEF StoreInv, EnrolledInv, EnrolledStays
  <1> QED  BY <1>1, EnrolledAlways, PTL

(***************************************************************************)
(* A request that nobody signed reaches the file of a machine without a    *)
(* key only, over any failures and crashes of Apply, with the same         *)
(* exceptions.                                                             *)
(***************************************************************************)
THEOREM LocalOnlyFirst == Spec => LocalConfirmOnce
  <1>1. ASSUME StoreTypeOK, StoreInv, EnrolledInv, [StoreNext]_storeVars,
               NEW r \in Reqs, r \in locals' \ locals
        PROVE  ~enrolled \/ edited \/ strange # {}
    <2>1. ~UserStep
      BY <1>1, UserTouches DEF Touch
    <2>2. Save /\ form[applying].by = Nil
      BY <1>1, <2>1 DEF StoreNext, StoreStep, ApplyStep, Issue, Lapse, Begin,
                  Save, SaveFail, Commit, Open, Crash, storeVars, pastVars
    <2>3. devices = {} /\ up /\ ~unsafe /\ ~saved
      BY <1>1, <2>2 DEF StoreInv, Save
    <2>4. ~edited => Entries(disk) = {}
      BY <1>1, <2>3 DEF StoreInv
    <2> QED  BY <1>1, <2>4 DEF EnrolledInv
  <1>2. StoreTypeOK /\ StoreInv /\ EnrolledInv /\ [StoreNext]_storeVars
          => [\A r \in Reqs : r \in locals' \ locals
                 => ~enrolled \/ edited \/ strange # {}]_storeVars
    BY <1>1
  <1> QED  BY <1>2, EnrolledAlways, PTL DEF Spec, LocalConfirmOnce
=============================================================================
