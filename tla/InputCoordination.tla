------------------------- MODULE InputCoordination -------------------------
(***************************************************************************)
(* From knob and button gestures to what they do                           *)
(* (input/app_input_coordinator.h, app_input_router.h, app_contexts.h):    *)
(* a stack of contexts of which the topmost that knows an input handles    *)
(* it, the step settings, the MIDI clock dialog, the program storage       *)
(* dialog with its request, and the transport they start and stop.         *)
(* One bit stands for everything the encoders and step buttons edit.       *)
(***************************************************************************)
EXTENDS Integers, Sequences, FiniteSets

CONSTANTS
  Steps,       \* the step buttons
  LastSlot,    \* PROGRAM_USER_SLOT_COUNT - 1
  Capacity,    \* INPUT_CONTEXT_CAPACITY
  MaxHeld,     \* bound: buttons held at a time
  None

Buttons == {"tempoSwitch", "volumeEncoder"} \cup Steps
Encoders == {"tempoEncoder", "swingEncoder", "volumeEncoder"}
Modes == {"Off", "Internal", "External"}
Phases == {"Pressed", "LongPressed", "Clicked", "Released"}

ClockMenu == <<"Off", "Internal", "External", "Cancel">>
StorageMenu == <<"Save", "Load", "Cancel", "ResetProgram">>

(* Two pages, a step or a dialog and the shift: INPUT_CONTEXT_CAPACITY, 8, *)
(* is more than are ever on the stack.                                     *)
ASSUME InputAssumption ==
  /\ Capacity \in Nat /\ Capacity > 4
  /\ Steps \cap {"tempoSwitch", "volumeEncoder", "tempoEncoder", "swingEncoder"} = {}
  /\ None \notin Steps \cup {"Save", "Load", "ResetProgram"}

VARIABLES
  buttons,        \* of each adapter: "up", "down", or "long" once LongPressed went out
  batch,          \* events of the last gesture that are not dispatched yet
  stack,          \* Router::_contexts
  selectedStep,   \* _selectedStep, of the router and of the step context
  captured,       \* _capturedButtons
  restoreShift,   \* _restoreShiftAfterMidiClockModal
  contextState,   \* ProgramStorageContext::_state
  clockOpen,      \* MidiClockModal::_open
  clockItem,      \* its _selection, as an index into ClockMenu
  storage,        \* ProgramStorageModalSnapshot::state
  storageItem,    \* its selection, as an index into StorageMenu
  slot,           \* its slot; -1 is PROGRAM_STORAGE_CANCEL_SLOT
  resetYes,       \* its resetChoice
  request,        \* ProgramStorageRequest::_pendingCommand
  program,        \* one bit for all that can be edited
  mode,           \* MidiClockSettings::mode()
  running,        \* Session::isRunning()
  storageOpen,    \* TransportController::_storageOpen
  serial,         \* an internal run commanded over the serial line is active
  shown           \* history: the buttons whose gesture under way has changed the screen

gestureVars == <<buttons, batch, shown>>
routerVars == <<stack, selectedStep, captured, restoreShift, contextState>>
clockVars == <<clockOpen, clockItem>>
storageVars == <<storage, storageItem, slot, resetYes, request>>
sessionVars == <<mode, running, storageOpen, serial>>
vars == <<gestureVars, routerVars, clockVars, storageVars, program, sessionVars>>

Init ==
  /\ buttons = [button \in Buttons |-> "up"]
  /\ batch = <<>>
  /\ stack = <<"global", "main">>
  /\ selectedStep = None
  /\ captured = {}
  /\ restoreShift = FALSE
  /\ contextState = "Closed"
  /\ clockOpen = FALSE
  /\ clockItem = 1
  /\ storage = "Closed"
  /\ storageItem = 1
  /\ slot = 0
  /\ resetYes = FALSE
  /\ request = None
  /\ program = 0
  /\ mode \in Modes
  /\ running = FALSE
  /\ storageOpen = FALSE
  /\ serial = FALSE
  /\ shown = {}

-----------------------------------------------------------------------------
(***************************************************************************)
(* What each context makes of an input: an event with its argument, or     *)
(* nothing to do, or Pass to the context below.                            *)
(***************************************************************************)
Emit(name, argument) == <<name, argument>>
Consume == Emit("Consume", None)
Pass == Emit("Pass", None)

Turned(input, encoder) == input.phase = "Turned" /\ input.source = encoder

GlobalContext(input) ==
  IF input.source = "tempoSwitch"
    THEN CASE input.phase = "LongPressed" -> Emit("OpenMidiClockSettings", None)
           [] input.phase = "Clicked" -> Emit("ToggleTransport", None)
           [] OTHER -> Consume
  ELSE IF input.source = "volumeEncoder" /\ input.phase \in Phases
    THEN CASE input.phase = "LongPressed" -> Emit("OpenProgramStorage", None)
           [] input.phase = "Pressed" -> Emit("ActivateShift", None)
           [] OTHER -> Emit("DeactivateShift", None)
  ELSE Pass

MainContext(input) ==
  CASE Turned(input, "tempoEncoder") -> Emit("AdjustTempo", input.delta)
    [] input.phase = "Turned" /\ input.source # "tempoEncoder" -> Emit("Adjust", input.delta)
    [] input.source \in Steps /\ input.phase = "Clicked" -> Emit("ToggleStep", input.source)
    [] input.source \in Steps /\ input.phase = "LongPressed" ->
         Emit("OpenStepSettings", input.source)
    [] OTHER -> Pass

StepContext(input) ==
  CASE input.phase = "Turned" -> Emit("AdjustStep", input.delta)
    [] input.source \in Steps /\ input.phase \in {"Pressed", "Clicked", "LongPressed"} ->
         IF input.source # selectedStep THEN Emit("OpenStepSettings", input.source)
         ELSE IF input.phase = "LongPressed" THEN Emit("CloseStepSettings", None)
         ELSE Consume
    [] OTHER -> Pass

ShiftContext(input) ==
  CASE selectedStep # None /\ Turned(input, "tempoEncoder") -> Emit("AdjustStep", input.delta)
    [] selectedStep # None /\ input.source = "volumeEncoder" /\ input.phase = "LongPressed" ->
         Consume
    [] OTHER -> Pass

(* Mutant: the dialog lets through what it does not know.                  *)
ClockContextPassing(input) ==
  CASE Turned(input, "tempoEncoder") -> Emit("AdjustMidiClockPreview", input.delta)
    [] input.source = "tempoSwitch" -> Emit("ConfirmMidiClockSettings", None)
    [] OTHER -> Pass

ClockContext(input) ==
  CASE Turned(input, "tempoEncoder") -> Emit("AdjustMidiClockPreview", input.delta)
    [] input.source = "tempoSwitch" /\ input.phase = "Clicked" ->
         Emit("ConfirmMidiClockSettings", None)
    [] OTHER -> Consume

(* Mutant: the dialog lets the other knob's button through.                *)
StorageContextPassing(input) ==
  IF input.source = "tempoSwitch" THEN Pass ELSE Emit("Consume", None)

StorageContext(input) ==
  CASE Turned(input, "volumeEncoder") /\ contextState \in {"Action", "Slot", "ResetConfirmation"} ->
         Emit("Select", input.delta)
    [] input.source = "volumeEncoder" /\ input.phase = "Clicked" /\ contextState # "Busy" ->
         Emit(IF contextState \in {"Success", "Error"} THEN "CloseProgramStorage" ELSE "Confirm",
              None)
    [] OTHER -> Consume

Handle(context, input) ==
  CASE context = "global" -> GlobalContext(input)
    [] context = "main" -> MainContext(input)
    [] context = "step" -> StepContext(input)
    [] context = "shift" -> ShiftContext(input)
    [] context = "clock" -> ClockContext(input)
    [] context = "storage" -> StorageContext(input)

(* Router::dispatch: from the top of the stack down.                       *)
Routed(input) ==
  LET knows == {i \in DOMAIN stack : Handle(stack[i], input) # Pass}
  IN  IF knows = {} THEN Pass
      ELSE Handle(stack[CHOOSE i \in knows : \A j \in knows : j <= i], input)

-----------------------------------------------------------------------------
(* Router::addContext and releaseContext.                                  *)
Holds(context, contexts) == \E i \in DOMAIN contexts : contexts[i] = context

(* Mutant: a context that is on the stack is added again.                  *)
AddAgain(context, contexts) ==
  IF Len(contexts) = Capacity THEN contexts ELSE Append(contexts, context)

Add(context, contexts) ==
  IF Holds(context, contexts) \/ Len(contexts) = Capacity THEN contexts
  ELSE Append(contexts, context)

Released(context, contexts) ==
  IF ~Holds(context, contexts) THEN contexts
  ELSE LET at == CHOOSE i \in DOMAIN contexts : contexts[i] = context
       IN  [i \in 1 .. Len(contexts) - 1 |-> contexts[IF i < at THEN i ELSE i + 1]]

ShiftActive == Holds("shift", stack)

(***************************************************************************)
(* handleAppEvent: what each event changes.  The flag of the screen change *)
(* makes the router swallow what is left of the button's gesture.          *)
(***************************************************************************)
CaptureNothing(input) == UNCHANGED captured    \* mutant

Capture(input) ==
  captured' = IF input.phase \in Phases \ {"Released"} THEN captured \cup {input.source}
              ELSE captured

NoCapture == UNCHANGED captured

Edit ==
  /\ program' = 1 - program
  /\ NoCapture
  /\ UNCHANGED <<stack, selectedStep, restoreShift, contextState, clockVars, storageVars,
                 sessionVars>>

Nothing ==
  /\ NoCapture
  /\ UNCHANGED <<stack, selectedStep, restoreShift, contextState, clockVars, storageVars,
                 program, sessionVars>>

(* The step context goes under the shift context.                          *)
OpenStepSettings(step, input) ==
  LET below == Released("shift", stack)
      opened == Add("step", below)
  IN  IF selectedStep = step \/ (selectedStep = None /\ Len(stack) = Capacity) THEN Nothing
      ELSE /\ selectedStep' = step
           /\ stack' = IF selectedStep # None THEN stack
                       ELSE IF ShiftActive THEN Add("shift", opened) ELSE opened
           /\ Capture(input)
           /\ UNCHANGED <<restoreShift, contextState, clockVars, storageVars, program, sessionVars>>

CloseStepSettings(input) ==
  /\ selectedStep' = None
  /\ stack' = Released("step", stack)
  /\ Capture(input)
  /\ UNCHANGED <<restoreShift, contextState, clockVars, storageVars, program, sessionVars>>

Shift(contexts) ==
  /\ stack' = contexts
  /\ NoCapture
  /\ UNCHANGED <<selectedStep, restoreShift, contextState, clockVars, storageVars, program,
                 sessionVars>>

ToggleTransport ==
  /\ running' = ~running
  /\ NoCapture
  /\ UNCHANGED <<stack, selectedStep, restoreShift, contextState, clockVars, storageVars,
                 program, mode, storageOpen, serial>>

DialogOpen == clockOpen \/ storage # "Closed"

CanOpenModal == ~DialogOpen /\ selectedStep = None

OpenMidiClockSettings(input) ==
  IF ~CanOpenModal \/ (~ShiftActive /\ Len(stack) = Capacity) THEN Nothing
  ELSE /\ stack' = Add("clock", Released("shift", stack))
       /\ restoreShift' = ShiftActive
       /\ clockOpen' = TRUE
       /\ clockItem' = CHOOSE i \in DOMAIN ClockMenu : ClockMenu[i] = mode
       /\ Capture(input)
       /\ UNCHANGED <<selectedStep, contextState, storageVars, program, sessionVars>>

Clamp(low, n, high) == IF n < low THEN low ELSE IF n > high THEN high ELSE n

AdjustMidiClockPreview(delta) ==
  /\ clockItem' = Clamp(1, clockItem + delta, Len(ClockMenu))
  /\ NoCapture
  /\ UNCHANGED <<stack, selectedStep, restoreShift, contextState, clockOpen, storageVars,
                 program, sessionVars>>

(* TransportController::applyMode stops the session; the same mode does not.*)
ApplyMode(newMode) ==
  /\ mode' = newMode
  /\ running' = (running /\ newMode = mode)
  /\ UNCHANGED <<storageOpen, serial>>

ConfirmMidiClockSettings(input) ==
  /\ IF ClockMenu[clockItem] = "Cancel" THEN UNCHANGED sessionVars
     ELSE ApplyMode(ClockMenu[clockItem])
  /\ clockOpen' = FALSE
  /\ clockItem' = 1
  /\ stack' = IF restoreShift THEN Add("shift", Released("clock", stack))
              ELSE Released("clock", stack)
  /\ restoreShift' = FALSE
  /\ Capture(input)
  /\ UNCHANGED <<selectedStep, contextState, storageVars, program>>

(* openProgramStorage, and openStorage() of the transport behind it.       *)
OpenProgramStorage(input) ==
  IF ~CanOpenModal \/ Len(stack) = Capacity THEN Nothing
  ELSE /\ stack' = Add("storage", Released("shift", stack))
       /\ storage' = "Action"
       /\ contextState' = "Action"
       /\ storageItem' = 1
       /\ slot' = 0
       /\ resetYes' = FALSE
       /\ storageOpen' = TRUE
       /\ running' = FALSE
       /\ Capture(input)
       /\ UNCHANGED <<selectedStep, restoreShift, clockVars, request, program, mode, serial>>

Select(delta) ==
  /\ storageItem' = IF storage = "Action"
                      THEN Clamp(1, storageItem + delta, Len(StorageMenu)) ELSE storageItem
  /\ slot' = IF storage = "Slot" THEN Clamp(-1, slot + delta, LastSlot) ELSE slot
  /\ resetYes' = IF storage = "ResetConfirmation" THEN delta > 0 ELSE resetYes
  /\ NoCapture
  /\ UNCHANGED <<stack, selectedStep, restoreShift, contextState, clockVars, storage, request,
                 program, sessionVars>>

(* The dialog goes; only CloseProgramStorage tells the transport.  What a  *)
(* closed dialog keeps is set before it is read again: it is forgotten.    *)
CloseStorage(input) ==
  /\ storage' = "Closed"
  /\ contextState' = "Closed"
  /\ storageItem' = 1
  /\ slot' = 0
  /\ resetYes' = FALSE
  /\ stack' = Released("storage", stack)
  /\ Capture(input)
  /\ UNCHANGED <<selectedStep, restoreShift, clockVars, request, program, mode, running, serial>>

ToState(state) ==
  /\ storage' = state
  /\ contextState' = state
  /\ NoCapture
  /\ UNCHANGED <<stack, selectedStep, restoreShift, clockVars, storageItem, program, sessionVars>>

(* Mutant: the dialog is busy and nobody is asked.                         *)
EnqueueNothing(operation) ==
  /\ ToState("Busy")
  /\ UNCHANGED <<slot, resetYes, request>>

Enqueue(operation) ==
  /\ request' = operation
  /\ ToState("Busy")
  /\ UNCHANGED <<slot, resetYes>>

ConfirmAction(input) ==
  /\ storage = "Action"
  /\ \/ StorageMenu[storageItem] = "Cancel" /\ CloseStorage(input) /\ UNCHANGED storageOpen
     \/ /\ StorageMenu[storageItem] = "ResetProgram"
        /\ resetYes' = FALSE
        /\ ToState("ResetConfirmation")
        /\ UNCHANGED <<slot, request>>
     \/ /\ StorageMenu[storageItem] \in {"Save", "Load"}
        /\ slot' = 0
        /\ ToState("Slot")
        /\ UNCHANGED <<resetYes, request>>

ConfirmSlot(input) ==
  /\ storage = "Slot"
  /\ IF slot = -1 THEN CloseStorage(input) /\ UNCHANGED storageOpen
     ELSE Enqueue(StorageMenu[storageItem])

ConfirmReset ==
  /\ storage = "ResetConfirmation"
  /\ IF resetYes THEN Enqueue("ResetProgram")
     ELSE ToState("Action") /\ UNCHANGED <<slot, resetYes, request>>

CloseProgramStorage(input) == CloseStorage(input) /\ storageOpen' = FALSE

Perform(event, input) ==
  CASE event[1] \in {"Pass", "Consume"} -> Nothing
    [] event[1] \in {"Adjust", "AdjustStep", "ToggleStep"} -> Edit
    [] event[1] = "AdjustTempo" -> IF mode = "External" THEN Nothing ELSE Edit
    [] event[1] = "OpenStepSettings" -> OpenStepSettings(event[2], input)
    [] event[1] = "CloseStepSettings" -> CloseStepSettings(input)
    [] event[1] = "ActivateShift" -> Shift(Add("shift", stack))
    [] event[1] = "DeactivateShift" -> Shift(Released("shift", stack))
    [] event[1] = "ToggleTransport" -> ToggleTransport
    [] event[1] = "OpenMidiClockSettings" -> OpenMidiClockSettings(input)
    [] event[1] = "AdjustMidiClockPreview" -> AdjustMidiClockPreview(event[2])
    [] event[1] = "ConfirmMidiClockSettings" -> ConfirmMidiClockSettings(input)
    [] event[1] = "OpenProgramStorage" -> OpenProgramStorage(input)
    [] event[1] = "Select" -> Select(event[2])
    [] event[1] = "Confirm" -> ConfirmAction(input) \/ ConfirmSlot(input) \/ ConfirmReset
    [] event[1] = "CloseProgramStorage" -> CloseProgramStorage(input)

(* AppInputRouter::dispatch: the rest of a captured gesture goes nowhere.  *)
EndsCaptureOnClick(phase) == phase = "Clicked"    \* mutant

EndsCapture(phase) == phase = "Released"

Dispatch(input) ==
  IF input.phase \in Phases /\ input.source \in captured
    THEN /\ captured' = IF EndsCapture(input.phase) THEN captured \ {input.source} ELSE captured
         /\ UNCHANGED <<stack, selectedStep, restoreShift, contextState, clockVars,
                        storageVars, program, sessionVars>>
    ELSE Perform(Routed(input), input)

-----------------------------------------------------------------------------
(***************************************************************************)
(* The loop.  ButtonInputAdapter makes Pressed, one LongPressed if held    *)
(* long enough, and at the end Released, behind a Clicked if it was short  *)
(* and behind the LongPressed that no poll came in time for.  A batch is   *)
(* dispatched before anything else happens.                                *)
(***************************************************************************)
Waiting == batch = <<>>

Gesture(button, state, phases) ==
  /\ Waiting
  /\ buttons' = [buttons EXCEPT ![button] = state]
  /\ batch' = [i \in DOMAIN phases |-> [source |-> button, phase |-> phases[i], delta |-> 0]]
  /\ UNCHANGED <<routerVars, clockVars, storageVars, program, sessionVars, shown>>

Press(button) ==
  /\ buttons[button] = "up"
  /\ Cardinality({other \in Buttons : buttons[other] # "up"}) < MaxHeld
  /\ Gesture(button, "down", <<"Pressed">>)

HoldLong(button) ==
  /\ buttons[button] = "down"
  /\ Gesture(button, "long", <<"LongPressed">>)

Release(button) ==
  /\ \/ buttons[button] = "long" /\ Gesture(button, "up", <<"Released">>)
     \/ buttons[button] = "down" /\ Gesture(button, "up", <<"Clicked", "Released">>)
     \/ buttons[button] = "down" /\ Gesture(button, "up", <<"LongPressed", "Released">>)

Screen == <<clockOpen, storage, selectedStep>>

DispatchNext ==
  /\ ~Waiting
  /\ Dispatch(Head(batch))
  /\ shown' = IF Head(batch).phase = "Released" THEN shown \ {Head(batch).source}
              ELSE IF Screen' # Screen THEN shown \cup {Head(batch).source}
              ELSE shown
  /\ batch' = Tail(batch)
  /\ UNCHANGED buttons

Turn(encoder, delta) ==
  /\ Waiting
  /\ Dispatch([source |-> encoder, phase |-> "Turned", delta |-> delta])
  /\ UNCHANGED gestureVars

(* processProgramStorage at the end of the loop: the controller loads or   *)
(* resets the program, or saves it, or fails, also because of a session.   *)
ProcessProgramStorage ==
  /\ Waiting
  /\ request # None
  /\ request' = None
  /\ \E state \in IF running THEN {"Error"} ELSE {"Success", "Error"} :
        storage' = state /\ contextState' = state
  /\ \/ (request = "Save" \/ running) /\ UNCHANGED <<program, mode>>
     \/ request = "Load" /\ ~running /\ program' \in {0, 1} /\ mode' \in Modes
     \/ request = "ResetProgram" /\ ~running /\ program' = 0 /\ mode' = "Off"
  /\ UNCHANGED <<gestureVars, stack, selectedStep, captured, restoreShift, clockVars, storageItem,
                 slot, resetYes, running, storageOpen, serial>>

(* The transport by itself: the external clock starts, continues, stops or *)
(* is lost; the outbox is full, a message too old, the host gone.          *)
ServeTransport ==
  /\ Waiting
  /\ ~storageOpen
  /\ running' \in IF mode = "External" THEN BOOLEAN ELSE {FALSE}
  /\ UNCHANGED <<gestureVars, routerVars, clockVars, storageVars, program, mode, storageOpen,
                 serial>>

(* A RUN command over the serial line, taken while nothing plays, and its  *)
(* end: the session was stopped before, or its time is up.                 *)
PollSerialRunCommand ==
  /\ Waiting
  /\ ~serial
  /\ ~running
  /\ serial' = TRUE
  /\ mode' = "Internal"
  /\ running' = TRUE
  /\ program' \in {0, 1}
  /\ UNCHANGED <<gestureVars, routerVars, clockVars, storageVars, storageOpen>>

UpdateSerialRun ==
  /\ Waiting
  /\ serial
  /\ serial' = FALSE
  /\ running' = (running /\ mode = "External")
  /\ UNCHANGED <<gestureVars, routerVars, clockVars, storageVars, program, mode, storageOpen>>

Next ==
  \/ \E button \in Buttons : Press(button) \/ HoldLong(button) \/ Release(button)
  \/ DispatchNext
  \/ \E encoder \in Encoders, delta \in {-1, 1} : Turn(encoder, delta)
  \/ ProcessProgramStorage
  \/ ServeTransport
  \/ PollSerialRunCommand
  \/ UpdateSerialRun

(* loop() comes round: what is in the batch and the request is processed.  *)
Spec == Init /\ [][Next]_vars /\ WF_vars(DispatchNext) /\ SF_vars(ProcessProgramStorage)

-----------------------------------------------------------------------------
(* Of the contexts on the stack, of the dialogs and of what is selected    *)
(* each says the same: one dialog at most, on top, over the main page;     *)
(* only a dialog that is busy has a request.                               *)
ScreensAgree ==
  /\ stack[1] = "global" /\ stack[2] = "main"
  /\ \A i, j \in DOMAIN stack : stack[i] = stack[j] => i = j
  /\ Holds("step", stack) <=> selectedStep # None
  /\ Holds("clock", stack) <=> clockOpen
  /\ Holds("storage", stack) <=> storage # "Closed"
  /\ DialogOpen => Len(stack) = 3 /\ stack[3] \in {"clock", "storage"}
  /\ storage # "Closed" => contextState = storage
  /\ storage = "Busy" <=> request # None
  /\ Len(stack) < Capacity

(* A button is swallowed only while it is held: its Released comes before  *)
(* the next Pressed and frees it.                                          *)
CapturedIsHeld ==
  \A button \in captured :
    \/ buttons[button] # "up"
    \/ \E i \in DOMAIN batch : batch[i].source = button /\ batch[i].phase = "Released"

(* One gesture changes the screen at most once.                            *)
OneScreenPerGesture ==
  [][DispatchNext /\ Screen' # Screen => Head(batch).source \notin shown]_vars

(* Nothing behind an open dialog is touched by the knobs and buttons: no   *)
(* edit, no step, no shift, no start.                                      *)
DialogShields ==
  [][(DialogOpen /\ (DispatchNext \/ \E encoder \in Encoders, delta \in {-1, 1} :
                                        Turn(encoder, delta)))
       => /\ UNCHANGED <<program, selectedStep>>
          /\ running' => running
          /\ ShiftActive' => ShiftActive \/ ~DialogOpen']_vars

(* The session rests under the storage dialog, but for a run commanded     *)
(* over the serial line.                                                   *)
StorageStopsMusic == storage # "Closed" /\ running => serial

(* A request is carried out and its result shown, so the dialog can be     *)
(* closed again.                                                           *)
BusyEnds == (storage = "Busy") ~> (storage \in {"Success", "Error"})

(* Without the dialog the transport is open again.                         *)
StorageFlagFollowsDialog == Waiting /\ storageOpen => storage # "Closed"

(* The shift lasts as long as its button is held.                          *)
ShiftOnlyWhileHeld == Waiting /\ ShiftActive => buttons["volumeEncoder"] # "up"
=============================================================================
