# Swing Metro: TLA+ models and proofs

Swing Metro is the firmware of a swing metronome and 16-step sequencer on an RP2040. Core 0
plays: it turns timer interrupts or the clock of an external MIDI master into ticks, plans the
notes of the steps ahead of time, and sends them over a USB cable that may refuse a message or
disappear. Core 1 draws what core 0 publishes. This directory holds TLA+ modules of that
program, TLC configurations for small instances of them, and proofs for TLAPS.

`src/` below is the source directory of the firmware (`src/engine/...`).

## The system: components, state and operations

| Component | State | Operations | Hard part |
|---|---|---|---|
| Musical time (`engine/transport.h`) | tick, phase, running | compare, add a gate, swing | rounding, a swung On after the gate of its neighbour |
| Event queue (`midi_event_queue.h`) | up to 16 scheduled events | enqueue a launch, front, remove, discard a tick | atomic pairs, per-tick quota |
| Outbox (`midi_pending_delivery_queue.h`) | up to 14+2 due messages | push, pushNormal, front, remove | the terminal reserve |
| Note lifecycle (`note_lifecycle.cpp`) | sounding and projected launch | notified of queued, accepted, expired messages | identity of launches of one pitch |
| Step planner (`step_planner.cpp`) | next sixteenth boundary | reset, scheduleThrough | lookahead against several ticks in one pass |
| MIDI dispatcher (`midi_dispatcher.h`) | sessions, pass budget, retry window | beginPass, start, stopLaunch, continueSession, consumeTick, dispatchDue, servicePending | every send may be accepted, refused or find no cable |
| Transport controller (`transport_controller.h`) | mode, storage, timing flags | toggle, applyMode, openStorage, closeStorage, handleExternal, process | stop paths, order of the steps of a pass |
| External clock (`external_midi_clock.h`) | running, period, last clock | handle, update, reset | early clocks, loss after 250 ms |
| Tick source and alarm (`internal_tick_source.h`, `pico_internal_tick_alarm.cpp`) | period grid, generation, ring of 16 ticks | start, stop, setBpm, onAlarm | interrupt against loop, stale callbacks, failed arming |
| View model (`ui_view_model.h`) | display words and a generation | publish on core 0, read on core 1 | torn reads |
| Program slots (`program_codec.cpp`, `program_slot_store.cpp`, `littlefs_program_storage.cpp`) | two copies of each slot | load, save, mount | power loss in a write, unreadable copies, images of other firmware |
| Storage controller (`program_storage_controller.cpp`, `program_bank.cpp`, `program_draft.cpp`) | bank, draft, CRC of the saved program | restore, save, load, reset, synchronise | one of two saves failing, a CRC that is not what flash holds |
| Storage dialog and request (`program_storage_modal.cpp`, `program_storage_request.cpp`) | screen, choices, one request | open, select, confirm, process | input while a request is pending |
| Application loop (`application.cpp`) | alarm flags | setup, loop, loop1 | the order of the calls of one loop |
| Input (`app_input_coordinator.h`, `app_input_router.h`, `app_contexts.h`) | stack of contexts, captured buttons, two dialogs | one per button and encoder event | dialogs that open and close over held buttons |
| Input devices (`periodic_scheduler.h`, libraries `InputTiming`, `ButtonMatrix`, `Encoder`, `ContextInput`) | debouncers, gestures, knob phase | sample, observe, translate | late polls, bounces, clock wrap |
| Bench runs (`serial_run_controller.cpp`, `diagnostics_capture.h`, `runtime_timing_diagnostics.h`) | a run, a pending export, snapshot words of core 1 | poll, update, export, publish | request and answer between the cores (not modelled) |

How they interact. `Application::loop` polls the MIDI input (`handleExternal`), calls `process`
(ticks of the ring, due events, planning), polls buttons and encoders (whose events call
`toggle`, `applyMode`, `openStorage`, `closeStorage`), synchronises the alarm with the
transport and publishes the display. Everything on core 0 is sequential except the alarm
interrupt, which only writes the tick ring. Core 1 shares two sets of atomic words with it: the
display's and the diagnostics'. What is not deterministic for core 0 is the answer
of the USB stack to each send, the moment of everything that arrives, and power loss.

What makes each part correct: no note is left on; one note at a time; nothing of an old session
in a new one; the host is stopped when we stop; the transport stops when the cable refuses
clocks for too long; the display never mixes two publications; a slot that was saved can be
loaded after a power cut, and autosave never skips a change; a gesture ends on the screen it
began on; a dialog that closed leaves the transport usable.

## Modules

| Module | Models |
|---|---|
| `TransportTime` | positions as absolute phase units, gates, swing |
| `MidiEventQueue` | the event queue as a set with its order as an operator |
| `MidiPendingDelivery` | the outbox as a set of numbered entries, its two capacities |
| `NoteLifecycle` | updates of the sounding and the projected launch |
| `TransportController` | the machine: controller, dispatcher, planner, external clock, cable |
| `MonophonicVoice` | the abstract specification: what an instrument at the cable may observe |
| `TransportProperties` | invariants, action properties, fairness, the refinement |
| `MCTransportController` | constants for TLC |
| `TransportSession_proofs` | types, only the running session is heard, the flags agree, the retry window; proved |
| `TransportNotes_proofs` | no note is stuck or doubled, the reserve suffices, the refinement; proved |
| `TransportGates_proofs` | every launch keeps its Off, Offs find their note, the planner fits; proved |
| `InternalTicks` | tick source, ring, hardware alarm, and the loop that synchronises them |
| `MCInternalTicks` | constants for TLC |
| `InternalTicks_proofs` | its invariants and the exact recovery from a late alarm, proved |
| `UiViewModel` | the display words of two cores, one atomic access a step |
| `DisplayRegister` | the abstract specification: one value, replaced and read in single steps |
| `MCUiViewModel` | constants for TLC |
| `UiViewModel_proofs` | the seqlock invariant and the refinement, proved |
| `ProgramCodec` | what an image carries and what a firmware reads from it |
| `ProgramSlotStore` | two files per slot, every flash access a step, power cuts and faults |
| `DurableSlots` | the abstract specification: one value per slot, saved at one moment |
| `ProgramStorage` | the controller over the store: restore, autosave, Save, Load, Reset |
| `MCProgramStorage` | constants for TLC |
| `ProgramStorage_proofs` | round trip of the codec, revisions, the refinement, alone and under the controller, its memory in RAM, proved |
| `InputCoordination`, `MCInputCoordination` | contexts, capture, dialogs and requests |
| `InputCoordination_proofs` | the stacks that occur, dialogs that shield, one screen a gesture, proved |
| `InputDevices`, `MCInputDevices` | scheduler, debouncer, button gestures, knob |
| `InputDevices_proofs` | the same on a clock of any width, proved |

### TransportController

A public operation is a *pass* that runs to its end on core 0. Each send in it has three
outcomes (`SendResult`), so the pass is a sequence of small steps: `agenda` holds the labels of
what the current pass still has to do, in the order of the code, and an operation may only
begin when it is empty. `servicePending` is the loop of that name: overdue messages leave, the
front is attempted (`SendAccepted`, `SendRetryLater`, `SendDisconnected`), a refusal ends the
sending of the whole pass. `EndSession` is `stopLaunch` with the `clear` and `stop` calls around
it, shared by every stop path. `sendDue` moves one due event at a time from the queue to the
outbox, behind the Off of the launch it replaces.

| Code | Model |
|---|---|
| `toggle`, `applyMode`, `openStorage`, `closeStorage`, `process`, `handleExternal` | `Toggle`, `ApplyMode`, `OpenStorage`, `CloseStorage`, `Process`, `ExternalStart/Continue/Stop/Clock` |
| `beginPass`, `finishPass`, `handleLifecycleOutcome` | `Pass`, `FinishPass`, `RetryWindowStop`, `Disconnect` |
| `start` | `EndPreviousSession`, `DispatcherStart`, `LaunchSession`, then planning |
| `consumeTick` | `ConsumeTick`, `sendDue` and `servicePending`, `AdvanceTick` |
| `scheduleThrough` | `ScheduleStep`, `ScheduleOverflow`, `ScheduleDone` |

Abstractions, all on the side of data:

- A launch number is its boundary plus one and an insertion number starts over whenever the
  outbox is empty: only their order and equality are used by the code.
- Time is the phase a tick record or a pass shows to have passed, any not below the last. An
  alarm record closes its whole tick, because its timestamp is the next deadline; a clock from
  a master may come early. A pass may also find its own time younger than the tick.
- The ring of ticks holds any number of records up to the four a pass takes.
- A step is read by the planner when it plans it, so edits are any step of `StepChoices` at any
  boundary; likewise the swing. Velocity, channel and display are left out.
- Diagnostics, the 64-bit tick's saturation, the wrap of the 32-bit session generation and the
  unused requested-Off mark are left out. `_disconnected` is raised and lowered with the
  outcome `Disconnected` and `_passActive` with the agenda, so neither is a variable.
- `applyMode` stores the new mode behind its stop and the model before it: nothing in between
  reads the mode. What an event of the master does to `ExternalMidiClock` is likewise stored at
  the beginning of its pass.
- With the storage dialog open `process` returns at once: it is a stutter.

`hostNotes` and `hostPlaying` are history variables: what an instrument behind the cable does
after the accepted messages (a pulled cable silences it).
### InternalTicks

One iteration of `Application::loop` is five phases: a serial command, `process`, the button,
the encoders, `syncInternalAlarm`. The alarm interrupt is enabled at every moment and may come
between any two of their steps, and within `pop` between the copy of a record and its release;
the critical section keeps it out of `start`, `stop` and `setBpm`, which are single steps. The
ring is modelled with its indexes and slots. Time is in microseconds, and the grid is computed
with the code's own divisions, its remainder carried from period to period.

| Code | Model |
|---|---|
| `TransportTickStore::publish`, `pop`, `discard` | `Publish`, `PopLoad` and `PopRelease`, `Discarded` |
| `nextPeriodUs`, `duePeriods`, `advancePeriods` | `NextPeriod` and `NextFraction`, `DuePeriods`, `AdvanceBy` and `AdvanceFraction` |
| `alarmCallback` with `onAlarm` and `arm` | `AlarmFires`, `StaleAlarm`, `Arm` |
| `process`, its safety stops | `PopLoad`, `PopRelease`, `EndProcess`, `SafetyStop` |
| `syncInternalAlarm` | `SyncStart`, `SyncStop`, `SyncTempo`, `SyncNothing` |

The SDK may refuse an alarm, and may still fire one that was cancelled. Left out: the wrap of
the 32-bit clock, with it the alarm that is 35 minutes late, and diagnostics. The transport is
reduced to whether it runs on internal ticks; `TransportController` has the rest. `origin`,
`target` and `gridSession` are history variables.

### UiViewModel

`publish` and `read` as sequences of atomic accesses in a total order: a reader may be
anywhere while the writer is anywhere. A settings value is a function from word numbers to
contents; the packing of fields into words is left out, and so is the wrap of the 32-bit
generation. `DisplayRegister` is what both cores expect.

### ProgramCodec, ProgramSlotStore, DurableSlots

A program gives each field a value; an image is whole or torn and carries its revision and values
by tag, so older images lack tags and newer ones have some nobody knows. A save is `SaveStatus`
and `Target` (which copy, which revision), then the write, then the verification, each a step of
its own: `PowerCut` may come between them, and a file being written is left as it was, torn or
complete. A read may fail once; a write may fail, or claim success and have stored something else.
`DurableSlots` keeps the value of each slot and, while its copy is intact, the one before.

| Code | Model |
|---|---|
| `encodeProgram`, `decodeProgram` | `Encode`, `Decodable` with `Decoded` |
| `mount`, `load`, `save` | `CallMount`, `CallLoad`, `CallSave` with `WriteReturns`, `WriteFails`, `Verify` |

### ProgramStorage

Restore at power-on, autosave (`Sync`), and the dialog's requests. An operation is a `task` whose
flash accesses are the store's steps; after each of them the controller goes on (`SlotDone`,
`CurrentDone`) as its code does with the answer: the user's slot first, then the current one.
The program in RAM changes by edits, by a serial run and by Load and Reset. `doubted` is a history
variable: the last access to the current slot met a fault.

### InputCoordination

The stack of contexts and their `Pass` and `Consume` answers, the router with its captured
buttons, both dialogs and the request queue. A gesture yields a batch of events, dispatched one
by one (`DispatchNext`); a storage request is carried out at the end of the loop
(`ProcessProgramStorage`) and may succeed or fail. Values that knobs edit are one bit.

### InputDevices

One button and one knob, sampled by a scheduler on a clock that wraps; between samples a contact
changes any number of times. Each behaviour looks at one of the two devices (`touched`): they
share nothing but the loop.

## What is checked

The bounds of the models cut a run at its end and nothing inside it:
`MaxTick` (no tick is consumed after it) and `MaxGen` (generations of sessions, from 1) of the transport, `MaxTime` and
`MaxSession` (microseconds and starts of `InternalTicks`), `MaxGeneration` (publications of
`UiViewModel`), `MaxFaults` (faults and power cuts of the store), `MaxHeld` (buttons held at a time), `MaxGap`
and `MaxTurn` (the loop's longest pass and the knob's speed, `InputDevices`).

Capacities are small so that they are reached: an outbox of 2 entries plus the reserve of 2, a
queue of 3 or 6 events, a budget of 2 or 3 sends. A sixteenth has 2 ticks of 2 phases; the code has 6
ticks, and the theorems, which are about every resolution, cover it. Four ticks are two
sixteenths: one straight and one swung launch and the launch after it, so gates overlap.
Generations count from 1, so the `MaxGen` of 3 in `sessions` is two sessions: an old one, its end and
the one that its late messages must not reach. `internal` has one, and the theorems cover any
number. `internal` has two pitches.
In `ticks` a minute of 7 microseconds makes periods of 3.5 and 2.33, so remainders carry, and a
ring of 3 overflows. `storage` has one user slot and the current one, three revisions (so that
they run out), two faults or cuts, and a flash that is empty or holds images of older firmware, of
newer firmware and of a write that was cut. `input` has two step buttons, two fingers, all four
entries of each menu and both storage confirmations. `devices` has a clock that wraps at 16 and
gaps between polls longer than a period.

| Run | Question | Distinct states |
|---|---|---|
| `internal` | Internal clock, two pitches: one note at a time, one Off per On, host stopped, retry window; refines a monophonic voice and falls silent | 220 000 |
| `sessions` | Two sessions one after the other in all modes: nothing of an old session in a new one, no stuck note, agreeing flags | 1.8 million |
| `ticks` | The interrupt against the loop: ring, alarm, grid, catch-up | 2.6 million |
| `view_model` | All interleavings of the two cores over three words | 76 000 |
| `storage` | Power cuts, faults and old images: slots are durable, autosave and dialog keep them | 131 000 |
| `input` | Gestures in any order over contexts, dialogs and a transport that starts and stops | 305 000 |
| `devices` | Late polls, bounces and the clock's wrap | 104 000 |
| `external_gate`, `superseded_stop`, `restart_grid`, `storage_cancel`, `stuck_shift` | Expected violations, below | - |

### Properties of the transport

- `NoStuckNote`: a note that sounds at the host has its Off pending or is the sounding launch of
  the running session. `HostIsStopped`: likewise a Start and its Stop.
- `AcceptedOnHasOff`: the Off of an accepted On is scheduled or pending until the session ends.
  `OffIsNotDuplicated`: and it is so once.
- `FlagsAgree`: the three flags that say "playing" agree between operations.
- `RetryWindowEnforced`: a refused clock stops the transport within the window and one pass.
- `OneNoteAtATime`, `OnlyLiveMusic`, `OffBeforeStop`, `OffSilencesItsOwnNote`, `PlannerFits`: what
  a step may never do.
- `StoppedFallsSilent`, `ImplementsVoice`: liveness and the refinement of `MonophonicVoice`.

### Properties of the ticks and the display

- `ReaderProtected`: the record `pop` is copying is never overwritten.
- `ArmedIsCurrent`: the source is active exactly while one alarm is armed for its next target.
- `GridExact`, `NextTargetIsFirst`: no drift; a late alarm goes on with the first target not due.
- `QuietWhenStopped`: an iteration that begins stopped finds no tick and no alarm.
- `OwnTicks`: a session consumes ticks of its own grid only (refuted).
- `SeqlockInvariant`, `ActsAsRegister`, `DisplayCatchesUp`: no torn display, publications in
  order, and the last one is shown in the end.

### Properties of the programs

- `RevisionsStayApart`: two valid copies of a slot are one revision apart, so the newer is known.
- `ImplementsDurableSlots`: a save takes effect at one moment or not at all, what answered Ok
  lasts, a load answers the stored program, the one before it or an error.
- `RememberedIsStored`: what the controller takes for saved is what the next power-on finds.
- `RamFollowsFlash`: the bank is never newer than flash, the draft is what was last saved.
- `UserSlotsAreTheUsers`: only a Save of a user's slot changes it, and to what is played.
- `AutosaveSettles`: a change is saved once the transport stands and no dialog is open.

Not an error of the code, but worth knowing: after a write whose verification could not be read
flash may hold the new program although the controller answered an error and remembers the old
one; `doubted` marks that state, and the next change is saved over it. A Save whose slot was
written and whose current slot failed answers an error and leaves the bank's entry as it was;
a Load that failed there has already been applied.

### Properties of input

- `ScreensAgree`: context stack, dialogs, step editor and pending request say the same.
- `CapturedIsHeld`, `OneScreenPerGesture`: a gesture that changed the screen does nothing more.
- `DialogShields`, `StorageStopsMusic`: nothing behind a dialog is edited or started. A RUN of the serial line
  is the exception: its handler does not look at the dialog. `src/docs/program-storage/README.md:17` words
  the silence without that exception.
- `BusyEnds`: a storage request is carried out and its result shown.
- `ScansKeepTheGrid`, `SteadyBeforeReported`, `ClickOrLongPress`, `KnobReportsTurns`: polling,
  debouncing, gestures and the quadrature decoder against the real times and turns.

### Fairness

Steps of a pass are weakly fair (a pass runs to its end). `process` is strongly fair: `loop`
calls it between any two rounds of input, whatever the user does. `SendAccepted` is strongly
fair: the cable does not refuse for ever, and without it no note could be promised to end.
`SpecStorageCloses` adds that the user closes the storage dialog some time: while it is open
`process` returns at once and nobody retries a refused Off, so without it the promise is not kept.
`UiViewModel`: each core goes on with its loop. `ProgramStorage`: the steps of an operation and the
autosave of an idle loop (`Continue`, `Sync`) are weakly fair while the power is on.
`InputCoordination`: events that were read are dispatched; `ProcessProgramStorage` is strongly
fair, since every loop ends with it, whatever input came before.

### Where the code and its documents disagree

Five runs are expected to find a violation of a sentence of the documents under `docs/`:

- `external_gate`: a master's clock that comes before the phase of a scheduled Off closes the
  tick, and `discardAt` drops the Off with it; the note sounds until the next one.
- `superseded_stop`: a start removes the pending Stop of the session before it even if it sends
  no Start (mode switched to External or Off while the cable refused).
- `restart_grid`: when `process` stops the transport and the user starts it again in the same
  iteration, `syncInternalAlarm` sees no change, and the new session takes the old grid's ticks.
- `storage_cancel`: a confirmed Cancel closes the storage dialog inside the coordinator, without
  the event on which the application calls `closeStorage()`: the transport ignores every external
  Start and discards every tick until the dialog is opened and closed another way.
- `stuck_shift`: the clock dialog restores the shift it released when it opened, also when the
  button was let go inside it.

## What is proved

All theorems hold for every value of the constants that satisfies the `ASSUME` of its module:
positive capacities, budgets, resolutions and tempos, a terminal reserve of at least two (the code
has `TERMINAL_RESERVE` = 2), a context stack of more than four (the code has 8), step buttons that
are no knobs, and `None` different from real values. TLC evaluates these assumptions in every run.
Some theorems on the transport assume more, about `Modes`, the gates of `StepChoices` and the sizes
of planner and queue: they say so, why is told below, and the constants of `internal` satisfy all of
it.

`TransportSession_proofs`. `TypeCorrect`: every reachable state is well typed; the step lemma
has one case per action, and needs that the fronts of the queue and the outbox are members of
them, that gates and swing stay natural numbers, and that a send needs budget.
`MusicCorrect`: a NoteOn, Clock or Start that the USB stack accepts
belongs to the running session (`OnlyLiveMusic`). That is not inductive: a session that begins
while messages of the one before wait would break it, and what prevents it is the order of the
calls in a pass. The invariant `SessionInv` therefore has four parts besides the types:
`MusicIsLive` (music that waits is of the running session), `EndedIsStopped` (a session whose
end is queued does not run, so a second stop has nothing to remove), `RunningIsLaunched` (a
transport that runs without its sequencer is about to launch it, so that the guard of an
external Continue, which asks the sequencer, also says that the transport is stopped) and
`Ordered`, about the rest of the pass: due events move and a tick closes only before anything
that could stop the transport, `dispatcherStart` comes right after the stop and right before
the launch, and `continue` comes first, in a stopped transport. The lemmas say what taking a
step off a pass, putting steps before it and joining two passes do to `Ordered`; then there is
one lemma for each group of actions.

Two more invariants stand on it. `FlagInv` adds what a pass in progress may still disagree on: the
sequencer runs only with the transport, a transport without its sequencer launches it next, and an
outbox that overflowed is looked at before the pass ends; with an empty agenda it is `FlagsAgree`
(`FlagsCorrect`). `WindowInv` counts the ticks the rest of a pass may still close: the window is
looked at before every send, so either that look is to come, or the window was open and only the
ticks of this pass are added (`WindowCorrect`).

`TransportNotes_proofs` is about what the instrument hears, in four invariants, each on the one
before.

- `NoteInv` (all modes) accounts for every launch in the four places it can be: sounding, projected,
  in the outbox, in the queue. It says that a launch is told by its session and number; that a
  scheduled NoteOn has none of its messages out; that what sounds or waits has its Off pending, or
  is the launch the next NoteOn replaces, with room left for that Off; that the Off of a waiting
  NoteOn comes behind it and before the next NoteOn, Start or Stop; and that the host holds at most
  the sounding note. Its preservation is proved once for a send (`Expiring`, then the
  front goes) and once for each way a message gets in. From it follow `NoNoteIsStuck`,
  `OneOffALaunch`, `NotesComeOneByOne` and `StopComesLast`.
- `SoloInv` ("External" not in `Modes`): a Stop waits only while the transport stands. From it,
  `VoiceIsMonophonic`: each step of the controller is a step of `MonophonicVoice` or a stutter. The
  refinement mapping reads the variable `cut` off `outcome = "Disconnected"`: between the loss of the
  cable and the end of the session nothing is heard. With an external mode the statement is false,
  and TLC finds it: an external Continue begins a session without withdrawing the Stop of the
  internal one before it, which then reaches the host while the new session plays.
- `RoomInv` (same assumption): only the Off of a replaced launch may pass the normal capacity, and
  the pass looks at the capacity and stops before it moves another event; so the Off and the Stop of
  an ending session find room (`ReserveSuffices`), which is why the reserve is two.
- `ClockInv` (`Modes` no more than Internal): the transport owes the host a Stop for every Start
  (`HostIsAlwaysStopped`). With the mode Off in between it is false: that is `superseded_stop`. Before
  the first `applyMode` the mode is Off too, and the invariant covers it.

`TransportGates_proofs` is about the Offs a session still owes, for a transport with a clock of its
own ("External" not in `Modes`). An external master may send its clock before the phase of a
scheduled Off, and then the tick takes the Off with it: `external_gate` shows that.

- `GateInv`: an `advance` is never without the pass that played its tick before it (`AdvanceNext`), and
  when a tick closes it was played to its last phase and nothing of it is left in the queue
  (`TickCloses`), unless the outbox was full and the pass stops. So no event is discarded with its tick
  (`NothingDiscarded`), a pair leaves the queue NoteOn first (`PairIsPlanned`), and every launch that
  the host owes an Off has it scheduled or pending (`OwedHasOff`), which gives `AcceptedKeepsItsOff`.
- `OrderInv`: after a full outbox nothing moves any more (`HaltsNext`); a NoteOn lies before its Off
  (`GatesOpen`) and expires with it (`LimitIsGate`); an Off scheduled without its NoteOn is the sounding
  launch's (`OrphanIsActive`); and what sounds has its Off before all others (`SoundingOffFirst`), so an
  Off silences the note it was planned for (`OffsFindTheirNote`). It needs that no gate is empty, or an
  Off would be due before its NoteOn; the shortest gate of the code is one percent (`STEP_MIN_GATE`).
- `PlanInv`: every tick and every launch of a pass has planning behind it (`PlansLast`), so the planner
  looks at most one pass of ticks late (`BoundaryAhead`): boundaries are planned one at a time, and the
  one that is due was not due a sixteenth ago. What lies before the current tick was played (`DueLater`)
  and launches are a sixteenth apart (`Spaced`), so one Off at most is left when the planner adds two
  events (`OneLeft`): three places and four packets a tick are enough, and `PlannerIsNeverRefused`. The
  theorem assumes `PlannerHasRoom`: a horizon and a pass of ticks within a sixteenth (2 and 4 of 6), gates
  of at most 100 percent (`STEP_MAX_GATE`), three places (16) and four packets (8). The bound on the
  pass matters: with passes longer than a sixteenth TLC refutes `BoundaryAhead`, and in External mode
  any number of clocks may come between two calls of `process`.

TLC checked every part of the three on the runs' instances before they were proved.

`InternalTicks_proofs`. The invariant `Inv` joins the checked invariants with two facts that make
it inductive: `PopIsOneCall` (while `pop` holds a copy the loop is in its pass with budget left)
and `LoopAgrees` (an alarm that the loop has not started leaves the ring empty, and an
iteration begins with the loop's flag equal to the transport's). From it follow
`TypeCorrect`, `RingIsSafe`, `OneAlarm`, `StoppedIsQuiet`, and two facts of arithmetic:
`GridNeverDrifts` says denominator * (deadline - origin) + fraction = target * Minute, which
`PeriodExact` and `AdvanceExact` carry through one and through many periods;
`CatchUpIsExact` says that the one division of `duePeriods` finds the first target that is not
due, because `DueExact` bounds it from both sides.

`UiViewModel_proofs`. `SeqlockCorrect`: the generation is odd exactly during a publication, and
what a reader has loaded is current as long as its generation is. `ViewModelRefines`: every
step of the two cores is a step of `DisplayRegister` or a stutter.

`ProgramStorage_proofs`. First the store alone, under any caller. `RevisionsCorrect` and
`StoreIsDurable` rest on `StoreInv`: two valid copies are one revision apart, the call under
way aims at the copy that is not the newest, and before its write the other copy still holds the
stored value. A step of the store is then a step of `DurableSlots`: the write is the moment a
save takes effect exactly when the file is whole afterwards. `LoadsFollowSaves` says it as a caller
sees it, from `StoreInv` and `DoneIsStored`: what answered Ok is what the next load answers, if the
copies can be read, and nothing but a save of the slot changes that answer. The codec is a lemma of
it (`RoundTrip`), and says little alone: bytes, tags and checksum are abstracted, what is left of it
are the fields that older and newer firmware writes.

Then the controller over it. `StorageInv` adds to it the types (`StorageTypes`), that a save under way
belongs to a task, to its slot and to what is played (`TaskInv`), and `MemoryInv`: unless the
current slot is in doubt its stored value is the remembered one, also between the answer of the
store and the line that remembers it. Every step of the controller is one of the store
(`StorageIsDurable`); from `MemoryInv` follows `MemoryCorrect`, from `TaskInv` `UserSlotsCorrect`.
`FollowInv` adds what RAM holds: no entry of the bank is newer than the newer file of its slot, one
that the store has saved and the bank has not heard of is at least one revision ahead, and the
draft is the remembered program; it gives `RamCorrect`.

`InputCoordination_proofs`. `InputInv` says that only six stacks ever occur: the pages with or without
the step settings and the shift, and the page under one dialog. `ScreenInv` ties each of them to the
selected step, the dialogs and the request, `MusicInv` says what may play under the storage dialog, and
`GestureInv` describes the rest of a gesture: at most a Released behind one other event, of a button
that is still held or whose Released is there, and a button that has changed the screen is captured
or about to be released. `Adding` and `Releasing` compute the stack operations on the six stacks,
`RoutedToTop` that the topmost context answers, and `Effect` says what any event may do, so that
`Dispatches` is one proof for all of them. From it follow `ScreensCorrect`, `CapturedCorrect`,
`StorageIsSilent`, `OneScreenCorrect` and `ShieldCorrect`, for any number of step buttons.

`InputDevices_proofs`. `DeviceInv` has a part for the scheduler (`GridInv`: the deadline is `Period -
phase` ahead), the debouncer (`ContactInv`), the gesture (`ButtonInv`) and the decoder (`KnobInv`). The first
three relate a difference of two wrapped times to a real age. They are inductive because a behaviour
follows the loop: since the last sample no more than `phase` has passed, and a loop comes back within
`MaxGap`. `DevicesAssumption` bounds the constants so that debounce or long press, period and gap
together are less than a turn of the clock, and period and gap each less than half a turn, as
the few milliseconds of the code are against 2^32 microseconds: so no age the code measures reaches a whole turn.
`DivisionUnique` and `Wrapped` carry the arithmetic. From it follow `GridKept`, `GestureCorrect`,
`KnobCorrect` and `SteadyCorrect`.

Not proved, and why: liveness and the refinement's fairness are out of reach of the prover and
are checked by TLC (`internal`, `view_model`, `storage`, `input`).
The same holds for `BusyEnds`, `DisplayCatchesUp`, `AutosaveSettles` and `StoppedFallsSilent`.
The expected violations are refuted, so there is nothing to prove.

## Plan

Done, in this order because sounding notes and ticks are what the device is for: the transport,
the view model between the cores, the tick source with its alarm, the programs in flash and
their controller, the input from contacts to dialogs. Proved: every invariant and action property
that the passing runs check, some of them under the assumptions named above, and the three
refinements without their fairness.

Modules that are left: a composition of `InternalTicks` and an abstract transport session, in which
a restart within one iteration is followed to the notes; the wrap of the microsecond clock in the
transport and the alarm.

## What is not modelled

- Drawing (LVGL screens and fonts, `drivers/ui`, `lvgl_ui.cpp`) and LEDs: pure output of the view model.
- Bytes: USB packets, TLV framing and CRC computation, parsing and printing of serial lines. An
  image is whole or not, a send has three answers, a command is its meaning.
- Counters and traces (`transport_diagnostics.h`, `diagnostics_serializer.cpp`), fault injection:
  nothing the instrument does depends on them. So are the handshake and the report of a bench run:
  when the user starts before core 1 has answered an EXTERNAL_RUN, its snapshot is superseded and
  it waits for ever, and a RUN whose transport stops in the iteration that started it is completed
  without rows (`serial_run_controller.cpp:89` and `:98`). Both were read, not model-checked.
- The electrical scan of the matrix, and the shift switch of the library, which no device of the
  application drives.
- `MidiClockTransmitter` and `MidiStepBoundary`, earlier classes the application does not use.
- Weak memory: accesses to shared atomic words are in a total order, although the loads between
  the two looks at a version are relaxed.
- Wraps that take a device's lifetime: session and display generations; and
  of the 32-bit microseconds in the transport and the alarm (`InputDevices` has the wrap).
