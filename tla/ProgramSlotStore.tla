-------------------------- MODULE ProgramSlotStore --------------------------
(***************************************************************************)
(* Programs in flash (program/program_slot_store.cpp over                  *)
(* drivers/littlefs_program_storage.cpp).  Each slot has two files; a save *)
(* writes the next revision over the file that is not the newest valid one *)
(* and reads it back.  The call is synchronous, so between its steps only  *)
(* the power can go.  A file being written may be left as it was, torn or  *)
(* complete; a read may fail once and succeed the next time; a write may   *)
(* report success and have written something else.                         *)
(***************************************************************************)
EXTENDS ProgramCodec

CONSTANTS
  Slots,          \* PROGRAM_SLOT_COUNT slots, the last one of them
  CurrentSlot,    \* PROGRAM_CURRENT_SLOT, the program of the last power-off
  MaxRevision,    \* the largest revision an image can carry
  InitialFiles,   \* what this or another firmware may have left in flash
  MaxFaults,      \* bound of the model: failing reads and writes, power cuts
  Missing,        \* a file that does not exist
  None

Copies == {"A", "B"}

Other(copy) == IF copy = "A" THEN "B" ELSE "A"

IsValid(image) == image # Missing /\ Decodable(image)

(* Two valid copies are one revision apart: nothing else is ever written.  *)
Apart(pair) ==
  IsValid(pair["A"]) /\ IsValid(pair["B"]) => pair["A"].revision - pair["B"].revision \in {-1, 1}

Calls ==
  [phase : {"write", "verify"}, slot : Slots, program : Programs, target : Copies,
   revision : 1 .. MaxRevision]

ASSUME StoreAssumption ==
  /\ CurrentSlot \in Slots
  /\ MaxRevision \in Nat \ {0}
  /\ MaxFaults \in Nat
  /\ None \notin Programs \cup Calls \cup [slot : Slots, program : Programs, done : BOOLEAN]
  /\ Missing \notin {Encode(program, revision) : program \in Programs, revision \in 1 .. MaxRevision}
  /\ \A found \in InitialFiles :
       /\ found = [slot \in Slots |-> [copy \in Copies |-> found[slot][copy]]]
       /\ \A slot \in Slots :
            /\ Apart(found[slot])
            /\ \A copy \in Copies :
                 found[slot][copy] # Missing => found[slot][copy].revision \in 0 .. MaxRevision

VARIABLES
  files,     \* what flash holds of each copy of each slot: an image or Missing
  erased,    \* every byte of the partition is 0xFF
  mounted,   \* _mounted, of the store and of the driver under it
  call,      \* the locals of the save() under way, or None
  reply,     \* the last status returned, with the program of a load
  faults     \* how many faults happened

storeVars == <<files, erased, mounted, call, reply, faults>>

Answer(status) == reply' = [status |-> status, program |-> None]

(* The caller has the answer; the model forgets it.                        *)
Answered ==
  /\ Answer("none")
  /\ UNCHANGED <<files, erased, mounted, call, faults>>

Fault(happens) ==
  /\ happens => faults < MaxFaults
  /\ faults' = IF happens THEN faults + 1 ELSE faults

-----------------------------------------------------------------------------
(***************************************************************************)
(* readCopy and selectCopy: the newest copy that can be read and decoded,  *)
(* or why there is none.  "failed" are the copies whose read fails.        *)
(***************************************************************************)
Readable(slot, failed) == {copy \in Copies \ failed : files[slot][copy] # Missing}

ValidCopies(slot, failed) == {copy \in Readable(slot, failed) : IsValid(files[slot][copy])}

Revision(slot, copy) == files[slot][copy].revision

(* The newest of them.                                                     *)
Newest(slot, valid) ==
  {copy \in valid : \A other \in valid : Revision(slot, other) <= Revision(slot, copy)}

Selection(slot, failed) ==
  LET newest == Newest(slot, ValidCopies(slot, failed))
      status == IF newest = Copies /\ files[slot]["A"] # files[slot]["B"] THEN "Conflict"
                ELSE IF newest # {} THEN "Ok"
                ELSE IF failed # {} THEN "ReadFailed"
                ELSE IF Readable(slot, failed) = {} THEN "Empty"
                ELSE "Corrupt"
  IN  [status |-> status, copy |-> IF newest = {"B"} THEN "B" ELSE "A"]

Content(slot, copy) == Decoded(files[slot][copy])

-----------------------------------------------------------------------------
(* mount(): LittleFS cannot mount an erased partition; it is formatted     *)
(* then, and only then.                                                    *)
Mount(begins, formats) ==
  /\ begins => ~erased
  /\ mounted' = (begins \/ (erased /\ formats))
  /\ erased' = (erased /\ ~formats)
  /\ UNCHANGED files

(* A conflict is reported as Corrupt (toStoreStatus).                      *)
Load(slot, failed) ==
  LET selection == Selection(slot, failed)
  IN  IF ~mounted THEN Answer("NotMounted")
      ELSE IF selection.status = "Ok"
        THEN reply' = [status |-> "Ok", program |-> Content(slot, selection.copy)]
      ELSE Answer(IF selection.status = "Conflict" THEN "Corrupt" ELSE selection.status)

(* save() up to the write: no save while a copy cannot be read, the next   *)
(* revision into the other copy, the first one into copy A.                *)
SaveStatusUnread(slot, failed) ==    \* mutant: a copy that cannot be read is no copy
  IF Selection(slot, failed).status = "Conflict" THEN "Corrupt" ELSE "Ok"

SaveStatusOccupied(slot, failed) ==    \* mutant: only what is there can be replaced
  Selection(slot, failed).status

SaveStatusEndless(slot, failed) ==    \* mutant: the largest revision is not looked for
  IF ~mounted THEN "NotMounted"
  ELSE IF failed # {} THEN "ReadFailed"
  ELSE IF Selection(slot, failed).status = "Conflict" THEN "Corrupt"
  ELSE "Ok"

SaveStatus(slot, failed) ==
  LET selection == Selection(slot, failed)
  IN  IF ~mounted THEN "NotMounted"
      ELSE IF failed # {} THEN "ReadFailed"
      ELSE IF selection.status = "Conflict" THEN "Corrupt"
      ELSE IF selection.status = "Ok" /\ Revision(slot, selection.copy) = MaxRevision
        THEN "RevisionExhausted"
      ELSE "Ok"

TargetNewest(selection) == selection.copy    \* mutant: in place

Target(selection) == IF selection.status = "Ok" THEN Other(selection.copy) ELSE "A"

Save(slot, program, failed) ==
  LET selection == Selection(slot, failed)
      status == SaveStatus(slot, failed)
  IN  IF status # "Ok"
        THEN call' = None /\ Answer(status)
        ELSE /\ call' = [phase |-> "write", slot |-> slot, program |-> program,
                         target |-> Target(selection),
                         revision |-> IF selection.status = "Ok"
                                        THEN Revision(slot, selection.copy) + 1 ELSE 1]
             /\ reply' = reply

Written == Encode(call.program, call.revision)

Put(image) == files' = [files EXCEPT ![call.slot][call.target] = image]

(* The driver's write() answers true, right or wrong ...                   *)
WriteReturns ==
  /\ call # None
  /\ call.phase = "write"
  /\ call' = [call EXCEPT !.phase = "verify"]
  /\ \/ Put(Written) /\ Fault(FALSE)
     \/ Put(Torn) /\ Fault(TRUE)
  /\ UNCHANGED <<erased, mounted, reply>>

(* ... or false, and may have emptied the file first.                      *)
WriteFails ==
  /\ call # None
  /\ call.phase = "write"
  /\ call' = None
  /\ Answer("WriteFailed")
  /\ Fault(TRUE)
  /\ \/ UNCHANGED files
     \/ Put(Torn)
  /\ UNCHANGED <<erased, mounted>>

VerifiedUnread == TRUE    \* mutant: the copy is not read back

Verified == files[call.slot][call.target] = Written

Verify ==
  /\ call # None
  /\ call.phase = "verify"
  /\ call' = None
  /\ \E unread \in BOOLEAN :
       /\ Fault(unread)
       /\ Answer(IF ~unread /\ Verified THEN "Ok" ELSE "VerificationFailed")
  /\ UNCHANGED <<files, erased, mounted>>

SaveStep == WriteReturns \/ WriteFails \/ Verify

(* The power goes, in the middle of the write or elsewhere.                *)
PowerCut ==
  /\ Fault(TRUE)
  /\ mounted' = FALSE
  /\ call' = None
  /\ Answer("NotMounted")
  /\ \/ UNCHANGED files
     \/ /\ call # None
        /\ call.phase = "write"
        /\ \E image \in {Torn, Written} : Put(image)
  /\ UNCHANGED erased

-----------------------------------------------------------------------------
Init ==
  /\ files \in InitialFiles
  /\ erased = (\A slot \in Slots, copy \in Copies : files[slot][copy] = Missing)
  /\ mounted = FALSE
  /\ call = None
  /\ reply = [status |-> "NotMounted", program |-> None]
  /\ faults = 0

(* The calls on the store, one at a time.                                  *)
CallMount ==
  /\ call = None
  /\ \E begins, formats \in BOOLEAN :
       Mount(begins, formats) /\ Fault(~begins /\ ~(erased /\ formats))
  /\ UNCHANGED <<call, reply>>

CallLoad(slot) ==
  /\ call = None
  /\ \E failed \in SUBSET Copies : Load(slot, failed) /\ Fault(failed # {})
  /\ UNCHANGED <<files, erased, mounted, call>>

CallSave(slot, program) ==
  /\ call = None
  /\ \E failed \in SUBSET Copies : Save(slot, program, failed) /\ Fault(failed # {})
  /\ UNCHANGED <<files, erased, mounted>>

Next ==
  \/ CallMount
  \/ \E slot \in Slots : CallLoad(slot) \/ \E program \in Programs : CallSave(slot, program)
  \/ SaveStep
  \/ PowerCut

Spec == Init /\ [][Next]_storeVars

-----------------------------------------------------------------------------
(* What a slot holds, faults aside: its valid image with the higher        *)
(* revision, and the program of the other one.                             *)
Holds(slot, copy) == IsValid(files[slot][copy])

Newer(slot, copy) ==
  /\ Holds(slot, copy)
  /\ Holds(slot, Other(copy)) => Revision(slot, copy) > Revision(slot, Other(copy))

Stored(slot) ==
  IF Newer(slot, "A") THEN Content(slot, "A")
  ELSE IF Holds(slot, "B") THEN Content(slot, "B")
  ELSE None

StoredBefore(slot) ==
  IF ~(Holds(slot, "A") /\ Holds(slot, "B")) THEN None
  ELSE Content(slot, IF Newer(slot, "A") THEN "B" ELSE "A")

(* Two valid copies of a slot are one revision apart, so the newer one is  *)
(* known and no save meets a conflict (selectCopy, save).                  *)
RevisionsStayApart == \A slot \in Slots : Apart(files[slot])

(* The store promises what DurableSlots says.                              *)
Durable ==
  INSTANCE DurableSlots WITH
    value <- [slot \in Slots |-> Stored(slot)],
    previous <- [slot \in Slots |-> StoredBefore(slot)],
    saving <- IF call = None THEN None
              ELSE [slot |-> call.slot, program |-> call.program,
                    done |-> call.phase = "verify" /\ Verified]

ImplementsDurableSlots == Durable!SlotsSpec
=============================================================================
