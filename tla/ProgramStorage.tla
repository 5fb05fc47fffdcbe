--------------------------- MODULE ProgramStorage ---------------------------
(***************************************************************************)
(* Who uses the slots: the restore at power-on, the autosave of the main   *)
(* loop, and the Save, Load and Reset of the storage dialog                *)
(* (program/program_storage_controller.cpp), with the program in RAM that  *)
(* they capture and apply, the bank and the draft (which program was last  *)
(* selected is kept too, and nothing reads it).  Every operation runs      *)
(* to its end on core 0; the steps between its flash accesses are kept     *)
(* apart because the power may go there.  ProgramId::fromSlot is empty     *)
(* only for the current slot, which the dialog does not offer.             *)
(***************************************************************************)
EXTENDS ProgramSlotStore

CONSTANT Edits    \* the programs the user turns the knobs to

Users == Slots \ {CurrentSlot}

Tasks ==
  [kind : {"save", "load", "reset", "sync"}, stage : {"slot", "current"}, slot : Users \cup {None}]

ASSUME StorageAssumption == Edits \subseteq Programs /\ None \notin Users \cup Tasks

VARIABLES
  power,        \* "off", "booting" up to the restore, "on"
  program,      \* what captureProgram() sees: counters, steps, clock mode
  running,      \* Session::isRunning()
  dialog,       \* "none", "storage", or "other": step settings, clock dialog
  task,         \* the operation under way: its kind, its slot, its stage
  remembered,   \* the program whose CRC is _currentProgramCrc
  bank,         \* the entries of ProgramBank
  draft,        \* ProgramDraft
  doubted       \* history: the current slot was last met with a fault

ramVars == <<program, running, dialog, task, remembered, bank, draft>>
vars == <<storeVars, power, ramVars, doubted>>

Draft(content, source) == draft' = [program |-> content, source |-> source]

Idle == power = "on" /\ task = None /\ call = None

StoreTypes ==
  /\ \A slot \in Slots, copy \in Copies :
        files[slot][copy] # Missing => files[slot][copy].revision \in 0 .. MaxRevision
  /\ erased \in BOOLEAN
  /\ mounted \in BOOLEAN
  /\ call \in Calls \cup {None}
  /\ faults \in 0 .. MaxFaults

RamTypes ==
  /\ power \in {"off", "booting", "on"}
  /\ program \in Programs
  /\ running \in BOOLEAN
  /\ dialog \in {"none", "storage", "other"}
  /\ task \in Tasks \cup {None}
  /\ remembered \in Programs \cup {None}
  /\ \A slot \in Users : bank[slot] # None => bank[slot].revision \in 1 .. MaxRevision
  /\ draft \in [program : Programs, source : Users \cup {None}]
  /\ doubted \in BOOLEAN

TypeOK == StoreTypes /\ RamTypes

StorageInit ==
  /\ Init
  /\ power = "off"
  /\ program = Default
  /\ running = FALSE
  /\ dialog = "none"
  /\ task = None
  /\ remembered = None
  /\ bank = [slot \in Users |-> None]
  /\ draft = [program |-> Default, source |-> None]
  /\ doubted = FALSE

-----------------------------------------------------------------------------
(* Session::applyProgram: a running session keeps its program.             *)
Applied(content) == IF running THEN program ELSE content

(* setup(): mount, then restoreCurrentProgram().  What cannot be loaded is *)
(* replaced by the defaults, which are remembered and not written.         *)
PowerOn ==
  /\ power = "off"
  /\ power' = "booting"
  /\ CallMount
  /\ UNCHANGED <<ramVars, doubted>>

Restore ==
  /\ power = "booting"
  /\ call = None
  /\ power' = "on"
  /\ \E failed \in SUBSET Copies :
       /\ Load(CurrentSlot, failed)
       /\ Fault(failed # {})
       /\ doubted' = (reply'.status # "Ok" \/ failed # {})
  /\ program' = Applied(IF reply'.status = "Ok" THEN reply'.program ELSE Default)
  /\ remembered' = program'
  /\ IF reply'.status = "Ok" THEN Draft(program', None) ELSE draft' = draft
  /\ UNCHANGED <<files, erased, mounted, call, running, dialog, task, bank>>

PowerOff ==
  /\ power = "on"
  /\ PowerCut
  /\ power' = "off"
  /\ program' = Default
  /\ running' = FALSE
  /\ dialog' = "none"
  /\ task' = None
  /\ remembered' = None
  /\ bank' = [slot \in Users |-> None]
  /\ Draft(Default, None)
  /\ UNCHANGED doubted

-----------------------------------------------------------------------------
(* The user and the transport, between two passes of the loop.             *)
Edit ==
  /\ Idle
  /\ dialog # "storage"
  /\ program' \in Edits \ {program}
  /\ UNCHANGED <<storeVars, power, running, dialog, task, remembered, bank, draft,
                 doubted>>

ToggleTransport ==
  /\ Idle
  /\ dialog = "storage" => running
  /\ running' = ~running
  /\ UNCHANGED <<storeVars, power, program, dialog, task, remembered, bank, draft,
                 doubted>>

(* The serial line asks no dialog: a RUN command sets tempo and swing and  *)
(* starts the transport.                                                   *)
SerialRun ==
  /\ Idle
  /\ ~running
  /\ running' = TRUE
  /\ program' \in Edits
  /\ UNCHANGED <<storeVars, power, dialog, task, remembered, bank, draft, doubted>>

(* openStorage() stops the transport.                                      *)
OpenDialog(kind) ==
  /\ Idle
  /\ dialog = "none"
  /\ dialog' = kind
  /\ running' = (running /\ kind # "storage")
  /\ UNCHANGED <<storeVars, power, program, task, remembered, bank, draft, doubted>>

CloseDialog ==
  /\ Idle
  /\ dialog # "none"
  /\ dialog' = "none"
  /\ UNCHANGED <<storeVars, power, program, running, task, remembered, bank, draft,
                 doubted>>

-----------------------------------------------------------------------------
(* ProgramSlotStore::save() of a slot as part of a task, which ends at     *)
(* once when the store refuses.                                            *)
SaveAs(kind, stage, slot, target, content) ==
  \E failed \in SUBSET Copies :
    /\ Save(target, content, failed)
    /\ Fault(failed # {})
    /\ task' = IF call' = None THEN None ELSE [kind |-> kind, stage |-> stage, slot |-> slot]
    /\ UNCHANGED <<files, erased, mounted>>

SaveCurrentToSlot(kind, slot, content) ==    \* mutant: the task's own slot
  SaveAs(kind, "current", slot, IF slot = None THEN CurrentSlot ELSE slot, content)

SaveCurrent(kind, slot, content) == SaveAs(kind, "current", slot, CurrentSlot, content)

(* perform(Save), perform(Load), resetCurrentProgram().  While the session *)
(* runs they answer TransportRunning and change nothing.                   *)
RequestSave(slot) ==
  /\ Idle
  /\ dialog = "storage"
  /\ ~running
  /\ SaveAs("save", "slot", slot, slot, program)
  /\ UNCHANGED <<power, program, running, dialog, remembered, bank, draft, doubted>>

RequestLoad(slot) ==
  /\ Idle
  /\ dialog = "storage"
  /\ ~running
  /\ \E failed \in SUBSET Copies : Load(slot, failed) /\ Fault(failed # {})
  /\ task' = IF reply'.status = "Ok" THEN [kind |-> "load", stage |-> "slot", slot |-> slot]
             ELSE None
  /\ UNCHANGED <<files, erased, mounted, call, power, program, running, dialog, remembered,
                 bank, draft, doubted>>

RequestReset ==
  /\ Idle
  /\ dialog = "storage"
  /\ ~running
  /\ program' = Applied(Default)
  /\ SaveCurrent("reset", None, Default)
  /\ UNCHANGED <<power, running, dialog, remembered, bank, draft, doubted>>

(* syncCurrentProgramIfChanged(), called by loop() while no dialog is open.*)
Sync ==
  /\ Idle
  /\ dialog = "none"
  /\ ~running
  /\ program # remembered
  /\ SaveCurrent("sync", None, program)
  /\ UNCHANGED <<power, program, running, dialog, remembered, bank, draft, doubted>>

AtStage(stage) == power = "on" /\ task # None /\ call = None /\ task.stage = stage

(* perform() after the user's slot was saved or loaded.                    *)
SlotDone ==
  /\ AtStage("slot")
  /\ IF reply.status # "Ok"
       THEN /\ task' = None
            /\ Answered
            /\ UNCHANGED program
       ELSE /\ program' = IF task.kind = "load" THEN Applied(reply.program) ELSE program
            /\ SaveCurrent(task.kind, task.slot, program')
  /\ UNCHANGED <<power, running, dialog, remembered, bank, draft, doubted>>

ReplaceWithoutDraft(slot) ==    \* mutant
  /\ bank' = [bank EXCEPT ![slot] =
                [program |-> program,
                 revision |-> IF bank[slot] = None THEN 1 ELSE bank[slot].revision + 1]]
  /\ UNCHANGED draft

(* ProgramBank::replace.                                                   *)
Replace(slot) ==
  IF bank[slot] # None /\ bank[slot].revision = MaxRevision
    THEN UNCHANGED <<bank, draft>>
    ELSE /\ bank' = [bank EXCEPT ![slot] =
                       [program |-> program,
                        revision |-> IF bank[slot] = None THEN 1 ELSE bank[slot].revision + 1]]
         /\ Draft(program, slot)

(* saveCurrentProgram() after the store's save, and the end of its caller. *)
CurrentDone ==
  /\ AtStage("current")
  /\ task' = None
  /\ Answered
  /\ IF reply.status # "Ok"
       THEN /\ doubted' = TRUE
            /\ UNCHANGED <<remembered, bank, draft>>
       ELSE /\ doubted' = FALSE
            /\ remembered' = program
            /\ IF task.kind = "save" THEN Replace(task.slot)
               ELSE /\ Draft(program, IF task.kind = "sync" THEN draft.source ELSE task.slot)
                    /\ UNCHANGED bank
  /\ UNCHANGED <<power, program, running, dialog>>

FlashStep ==
  /\ SaveStep
  /\ UNCHANGED <<power, ramVars, doubted>>

Continue == FlashStep \/ SlotDone \/ CurrentDone

StorageNext ==
  \/ PowerOn
  \/ Restore
  \/ PowerOff
  \/ Edit
  \/ ToggleTransport
  \/ SerialRun
  \/ \E kind \in {"storage", "other"} : OpenDialog(kind)
  \/ CloseDialog
  \/ \E slot \in Users : RequestSave(slot) \/ RequestLoad(slot)
  \/ RequestReset
  \/ Sync
  \/ Continue

(* An operation runs to its end, and the loop comes round again.           *)
StorageSpec ==
  /\ StorageInit
  /\ [][StorageNext]_vars
  /\ WF_vars(Continue \/ Sync)

-----------------------------------------------------------------------------
(* What the controller takes to be saved is what the next power-on finds,  *)
(* unless the last access to the current slot failed.                      *)
RememberedIsStored ==
  Idle /\ ~doubted /\ mounted => Stored(CurrentSlot) = remembered

(* Autosave, Load and Reset never write a user's slot: only a Save of that *)
(* very slot changes its files, and it writes the program that is played.  *)
UserSlotsAreTheUsers ==
  [][\A slot \in Users :
       Stored(slot)' # Stored(slot) =>
         /\ task # None
         /\ task.kind = "save"
         /\ task.slot = slot
         /\ Stored(slot)' = program]_vars

(* What is kept in RAM follows flash: an entry of the bank is never newer  *)
(* than the file it was saved to, so the bank's own revision cannot run    *)
(* out first, and the draft is what was last saved or restored.            *)
RamFollowsFlash ==
  /\ \A slot \in Users :
       bank[slot] # None =>
         \E copy \in Copies : Newer(slot, copy) /\ bank[slot].revision <= Revision(slot, copy)
  /\ Idle => draft.program = remembered

Unsaved == Idle /\ mounted /\ ~running /\ dialog = "none" /\ program # remembered

Exhausted ==
  \E copy \in Copies : Newer(CurrentSlot, copy) /\ Revision(CurrentSlot, copy) = MaxRevision

(* A change is saved, once the transport stands and no dialog is open, as  *)
(* long as the power stays on and the revisions last.                      *)
AutosaveSettles ==
  Unsaved ~> (remembered = program \/ running \/ dialog # "none" \/ power # "on" \/ Exhausted)
=============================================================================
