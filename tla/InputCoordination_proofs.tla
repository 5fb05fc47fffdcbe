-------------------- MODULE InputCoordination_proofs --------------------
(***************************************************************************)
(* The input contexts: only six stacks ever occur, each tells what is open *)
(* and selected, an open dialog lets nothing through to what is below it,  *)
(* and a gesture that has changed the screen changes nothing more.         *)
(***************************************************************************)
EXTENDS InputCoordination, SequenceTheorems, TLAPS

-----------------------------------------------------------------------------
(***************************************************************************)
(* The invariant                                                           *)
(***************************************************************************)
MainStack == <<"global", "main">>
StepStack == <<"global", "main", "step">>
ShiftStack == <<"global", "main", "shift">>
StepShiftStack == <<"global", "main", "step", "shift">>
ClockStack == <<"global", "main", "clock">>
StorageStack == <<"global", "main", "storage">>

Pages == {MainStack, StepStack, ShiftStack, StepShiftStack}
Stacks == Pages \cup {ClockStack, StorageStack}

(* The stack tells what is open and selected.                              *)
ScreenInv ==
  /\ stack \in Stacks
  /\ selectedStep \in Steps \cup {None}
  /\ selectedStep # None <=> stack \in {StepStack, StepShiftStack}
  /\ clockOpen <=> stack = ClockStack
  /\ storage # "Closed" <=> stack = StorageStack
  /\ storage # "Closed" => contextState = storage
  /\ storage = "Busy" <=> request # None
  /\ storage = "Slot" => StorageMenu[storageItem] \in {"Save", "Load"}

(* Under the storage dialog only a run of the serial line plays, which is  *)
(* internal, and the transport knows of the dialog.                        *)
MusicInv ==
  storage # "Closed" => storageOpen /\ (running => serial /\ mode = "Internal")

Event(button, phase) == [source |-> button, phase |-> phase, delta |-> 0]

(* What is left of a gesture: at most the Released behind another phase.   *)
Last(button, phase) ==
  phase \in {"Pressed", "LongPressed", "Released"} /\ batch = <<Event(button, phase)>>
Two(button, phase) ==
  /\ phase \in {"Clicked", "LongPressed"}
  /\ batch = <<Event(button, phase), Event(button, "Released")>>

BatchInv ==
  \/ batch = <<>>
  \/ \E button \in Buttons, phase \in Phases :
       \/ Last(button, phase) /\ (phase # "Released" => buttons[button] # "up")
       \/ Two(button, phase)

(* The Released of this button is all that is left.                        *)
Leaving(button) == batch = <<Event(button, "Released")>>

(* A button whose gesture has changed the screen is captured, or its       *)
(* Released is next.                                                       *)
GestureInv ==
  /\ buttons = [button \in Buttons |-> buttons[button]]
  /\ captured \subseteq Buttons
  /\ BatchInv
  /\ CapturedIsHeld
  /\ \A button \in shown : button \in captured \/ Leaving(button)

InputInv == ScreenInv /\ MusicInv /\ GestureInv

-----------------------------------------------------------------------------
(***************************************************************************)
(* The stack                                                               *)
(***************************************************************************)
LEMMA Shapes ==
  /\ \A s \in Stacks : s[1] = "global" /\ s[2] = "main"
  /\ \A s \in Stacks : Len(s) \in 2 .. 4 /\ DOMAIN s = 1 .. Len(s)
  /\ Len(MainStack) = 2
  /\ \A s \in {StepStack, ShiftStack, ClockStack, StorageStack} : Len(s) = 3
  /\ Len(StepShiftStack) = 4
  /\ StepStack[3] = "step" /\ ShiftStack[3] = "shift" /\ ClockStack[3] = "clock"
  /\ StorageStack[3] = "storage" /\ StepShiftStack[3] = "step" /\ StepShiftStack[4] = "shift"
BY DEF Stacks, Pages, MainStack, StepStack, ShiftStack, StepShiftStack, ClockStack, StorageStack

(* Which contexts each of them holds.                                      *)
LEMMA Holding ==
  /\ \A s \in Stacks :
       /\ Holds("step", s) <=> s \in {StepStack, StepShiftStack}
       /\ Holds("shift", s) <=> s \in {ShiftStack, StepShiftStack}
       /\ Holds("clock", s) <=> s = ClockStack
       /\ Holds("storage", s) <=> s = StorageStack
  /\ MainStack \notin {StepStack, ShiftStack, StepShiftStack, ClockStack, StorageStack}
  /\ StepStack \notin {ShiftStack, StepShiftStack, ClockStack, StorageStack}
  /\ ShiftStack \notin {StepShiftStack, ClockStack, StorageStack}
  /\ StepShiftStack \notin {ClockStack, StorageStack}
  /\ ClockStack # StorageStack
<1>1. /\ ~Holds("step", MainStack) /\ ~Holds("shift", MainStack)
      /\ ~Holds("clock", MainStack) /\ ~Holds("storage", MainStack)
  BY DEF Holds, MainStack
<1>2. /\ Holds("step", StepStack) /\ ~Holds("shift", StepStack)
      /\ ~Holds("clock", StepStack) /\ ~Holds("storage", StepStack)
  BY DEF Holds, StepStack
<1>3. /\ ~Holds("step", ShiftStack) /\ Holds("shift", ShiftStack)
      /\ ~Holds("clock", ShiftStack) /\ ~Holds("storage", ShiftStack)
  BY DEF Holds, ShiftStack
<1>4. /\ Holds("step", StepShiftStack) /\ Holds("shift", StepShiftStack)
      /\ ~Holds("clock", StepShiftStack) /\ ~Holds("storage", StepShiftStack)
  BY DEF Holds, StepShiftStack
<1>5. /\ ~Holds("step", ClockStack) /\ ~Holds("shift", ClockStack)
      /\ Holds("clock", ClockStack) /\ ~Holds("storage", ClockStack)
  BY DEF Holds, ClockStack
<1>6. /\ ~Holds("step", StorageStack) /\ ~Holds("shift", StorageStack)
      /\ ~Holds("clock", StorageStack) /\ Holds("storage", StorageStack)
  BY DEF Holds, StorageStack
<1>7. /\ MainStack \notin {StepStack, ShiftStack, StepShiftStack, ClockStack, StorageStack}
      /\ StepStack \notin {ShiftStack, StepShiftStack, ClockStack, StorageStack}
      /\ ShiftStack \notin {StepShiftStack, ClockStack, StorageStack}
      /\ StepShiftStack \notin {ClockStack, StorageStack}
      /\ ClockStack # StorageStack
  BY <1>1, <1>2, <1>3, <1>4, <1>5, <1>6, Zenon
<1> QED BY <1>1, <1>2, <1>3, <1>4, <1>5, <1>6, <1>7 DEF Stacks, Pages

Names == {"global", "main", "step", "shift", "clock", "storage"}

LEMMA AppendTo ==
  ASSUME NEW s \in Seq(Names), NEW t \in Seq(Names), NEW e \in Names,
         Len(t) = Len(s) + 1, \A i \in 1 .. Len(s) : t[i] = s[i], t[Len(s) + 1] = e
  PROVE  Append(s, e) = t
<1> DEFINE a == Append(s, e)
<1>1. /\ a \in Seq(Names) /\ Len(a) = Len(s) + 1 /\ Len(s) \in Nat
      /\ \A i \in 1 .. Len(s) : a[i] = s[i]
      /\ a[Len(s) + 1] = e
  BY AppendProperties, LenProperties
<1> HIDE DEF a
<1>2. \A i \in 1 .. Len(a) : a[i] = t[i]
  BY <1>1
<1>3. a = t
  BY <1>1, <1>2, SeqEqual
<1> QED BY <1>3 DEF a

(* What is put on one of them, with room to spare.                         *)
LEMMA Adding ==
  /\ \A s \in Stacks : Len(s) # Capacity /\ Len(s) < Capacity
  /\ Add("step", MainStack) = StepStack
  /\ Add("clock", MainStack) = ClockStack
  /\ Add("storage", MainStack) = StorageStack
  /\ Add("shift", MainStack) = ShiftStack
  /\ Add("shift", StepStack) = StepShiftStack
  /\ Add("shift", ShiftStack) = ShiftStack
  /\ Add("shift", StepShiftStack) = StepShiftStack
<1>1. ASSUME NEW s \in Stacks PROVE Len(s) # Capacity /\ Len(s) < Capacity
  <2> DEFINE n == Len(s)
  <2>1. n \in 2 .. 4
    BY Shapes
  <2>2. Capacity \in Nat /\ Capacity > 4
    BY InputAssumption
  <2> HIDE DEF n
  <2>3. n # Capacity /\ n < Capacity
    BY <2>1, <2>2
  <2> QED BY <2>3 DEF n
<1>2. /\ MainStack \in Stacks /\ StepStack \in Stacks
      /\ ShiftStack \in Stacks /\ StepShiftStack \in Stacks
  BY DEF Stacks, Pages
<1>3. \A s \in Stacks : s \in Seq(Names)
  <2>1. MainStack \in Seq(Names) /\ StepStack \in Seq(Names)
    BY DEF Names, MainStack, StepStack
  <2>2. ShiftStack \in Seq(Names) /\ StepShiftStack \in Seq(Names)
    BY DEF Names, ShiftStack, StepShiftStack
  <2>3. ClockStack \in Seq(Names) /\ StorageStack \in Seq(Names)
    BY DEF Names, ClockStack, StorageStack
  <2> QED BY <2>1, <2>2, <2>3 DEF Stacks, Pages
<1>4. ASSUME NEW t \in {StepStack, ShiftStack, ClockStack, StorageStack}
      PROVE  Append(MainStack, t[3]) = t
  <2>1. /\ t \in Stacks /\ Len(t) = 3 /\ t[1] = "global" /\ t[2] = "main"
        /\ t[3] \in Names
    BY Shapes DEF Stacks, Pages, Names
  <2>2. Len(MainStack) = 2 /\ MainStack[1] = "global" /\ MainStack[2] = "main"
    BY DEF MainStack
  <2>3. MainStack \in Seq(Names) /\ t \in Seq(Names)
    BY <1>2, <1>3, <2>1
  <2> DEFINE s == MainStack
  <2> HIDE DEF s
  <2>4. Len(t) = Len(s) + 1 /\ t[Len(s) + 1] = t[3] /\ \A i \in 1 .. Len(s) : t[i] = s[i]
    BY <2>1, <2>2 DEF s
  <2>5. Append(s, t[3]) = t
    BY <2>1, <2>3, <2>4, AppendTo DEF s
  <2> QED BY <2>5 DEF s
<1>5. Append(StepStack, "shift") = StepShiftStack
  <2>1. /\ Len(StepShiftStack) = 4 /\ Len(StepStack) = 3 /\ StepShiftStack[4] = "shift"
        /\ "shift" \in Names
    BY Shapes DEF Names
  <2>2. \A i \in 1 .. 3 : StepShiftStack[i] = StepStack[i]
    BY DEF StepStack, StepShiftStack
  <2> DEFINE s == StepStack
             t == StepShiftStack
  <2>3. s \in Seq(Names) /\ t \in Seq(Names)
    BY <1>2, <1>3
  <2>4. Len(t) = Len(s) + 1 /\ t[Len(s) + 1] = "shift" /\ \A i \in 1 .. Len(s) : t[i] = s[i]
    BY <2>1, <2>2
  <2> HIDE DEF s, t
  <2>5. Append(s, "shift") = t
    BY <2>1, <2>3, <2>4, AppendTo
  <2> QED BY <2>5 DEF s, t
<1>6. /\ Append(MainStack, "step") = StepStack
      /\ Append(MainStack, "clock") = ClockStack
      /\ Append(MainStack, "storage") = StorageStack
      /\ Append(MainStack, "shift") = ShiftStack
  BY <1>4, Shapes
<1> QED BY <1>1, <1>2, <1>5, <1>6, Holding DEF Add

(* What is taken off leaves the others in their order.                     *)
LEMMA Releasing ==
  /\ Released("shift", MainStack) = MainStack
  /\ Released("shift", StepStack) = StepStack
  /\ Released("shift", ShiftStack) = MainStack
  /\ Released("shift", StepShiftStack) = StepStack
  /\ Released("step", StepStack) = MainStack
  /\ Released("step", StepShiftStack) = ShiftStack
  /\ Released("clock", ClockStack) = MainStack
  /\ Released("storage", StorageStack) = MainStack
<1>1. /\ MainStack \in Stacks /\ StepStack \in Stacks /\ ShiftStack \in Stacks
      /\ StepShiftStack \in Stacks /\ ClockStack \in Stacks /\ StorageStack \in Stacks
  BY DEF Stacks, Pages
<1>2. Released("shift", MainStack) = MainStack /\ Released("shift", StepStack) = StepStack
  BY <1>1, Holding DEF Released
<1>3. ASSUME NEW context, NEW s \in {ShiftStack, StepStack, ClockStack, StorageStack},
             s[3] = context, Holds(context, s), context \notin {"global", "main"}
      PROVE  Released(context, s) = MainStack
  <2>1. s \in Stacks /\ Len(s) = 3 /\ DOMAIN s = 1 .. 3 /\ s[1] = "global" /\ s[2] = "main"
    BY <1>1, Shapes
  <2>2. (CHOOSE i \in DOMAIN s : s[i] = context) = 3
    BY <1>3, <2>1
  <2>3. Released(context, s) = [i \in 1 .. 2 |-> s[IF i < 3 THEN i ELSE i + 1]]
    BY <1>3, <2>1, <2>2 DEF Released
  <2>4. [i \in 1 .. 2 |-> s[IF i < 3 THEN i ELSE i + 1]] = <<"global", "main">>
    BY <2>1
  <2> QED BY <2>3, <2>4 DEF MainStack
<1>4. Released("shift", StepShiftStack) = StepStack
  <2> DEFINE s == StepShiftStack
  <2>1. /\ Len(s) = 4 /\ DOMAIN s = 1 .. 4 /\ s[1] = "global" /\ s[2] = "main"
        /\ s[3] = "step" /\ s[4] = "shift" /\ Holds("shift", s)
    BY <1>1, Shapes, Holding
  <2> HIDE DEF s
  <2>2. (CHOOSE i \in DOMAIN s : s[i] = "shift") = 4
    BY <2>1
  <2>3. Released("shift", s) = [i \in 1 .. 3 |-> s[IF i < 4 THEN i ELSE i + 1]]
    BY <2>1, <2>2 DEF Released
  <2>4. [i \in 1 .. 3 |-> s[IF i < 4 THEN i ELSE i + 1]] = <<"global", "main", "step">>
    BY <2>1
  <2> QED BY <2>3, <2>4 DEF StepStack, s
<1>5. Released("step", StepShiftStack) = ShiftStack
  <2> DEFINE s == StepShiftStack
  <2>1. /\ Len(s) = 4 /\ DOMAIN s = 1 .. 4 /\ s[1] = "global" /\ s[2] = "main"
        /\ s[3] = "step" /\ s[4] = "shift" /\ Holds("step", s)
    BY <1>1, Shapes, Holding
  <2> HIDE DEF s
  <2>2. (CHOOSE i \in DOMAIN s : s[i] = "step") = 3
    BY <2>1
  <2>3. Released("step", s) = [i \in 1 .. 3 |-> s[IF i < 3 THEN i ELSE i + 1]]
    BY <2>1, <2>2 DEF Released
  <2>4. [i \in 1 .. 3 |-> s[IF i < 3 THEN i ELSE i + 1]] = <<"global", "main", "shift">>
    BY <2>1
  <2> QED BY <2>3, <2>4 DEF ShiftStack, s
<1> QED BY <1>1, <1>2, <1>3, <1>4, <1>5, Shapes, Holding

-----------------------------------------------------------------------------
(***************************************************************************)
(* Who handles an input                                                    *)
(***************************************************************************)
LEMMA Handlers ==
  ASSUME NEW input
  PROVE  /\ Handle("global", input) = GlobalContext(input)
         /\ Handle("main", input) = MainContext(input)
         /\ Handle("step", input) = StepContext(input)
         /\ Handle("shift", input) = ShiftContext(input)
         /\ Handle("clock", input) = ClockContext(input)
         /\ Handle("storage", input) = StorageContext(input)
BY DEF Handle

(* The topmost context that knows the input.                               *)
LEMMA RoutedToTop ==
  ASSUME NEW input, stack \in Stacks
  PROVE  /\ Routed(input) = Pass \/ \E i \in DOMAIN stack : Routed(input) = Handle(stack[i], input)
         /\ Len(stack) = 3 /\ Handle(stack[3], input) # Pass
              => Routed(input) = Handle(stack[3], input)
<1> DEFINE knows == {i \in DOMAIN stack : Handle(stack[i], input) # Pass}
           top == CHOOSE i \in knows : \A j \in knows : j <= i
<1>1. Len(stack) \in 2 .. 4 /\ DOMAIN stack = 1 .. Len(stack)
  BY Shapes
<1>2. knows \subseteq {1, 2, 3, 4} /\ knows \subseteq DOMAIN stack
  BY <1>1
<1>3. Routed(input) = IF knows = {} THEN Pass ELSE Handle(stack[top], input)
  BY DEF Routed
<1>4. ASSUME knows # {} PROVE top \in knows /\ \A j \in knows : j <= top
  <2> SUFFICES \E i \in knows : \A j \in knows : j <= i
    BY Zenon
  <2> HIDE DEF knows
  <2>1. \A j \in knows : j \in 1 .. 4
    BY <1>2
  <2>2. CASE 4 \in knows
    <3>1. \A j \in knows : j <= 4
      BY <2>1
    <3> QED BY <2>2, <3>1
  <2>3. CASE 4 \notin knows /\ 3 \in knows
    <3>1. \A j \in knows : j <= 3
      BY <2>1, <2>3
    <3> QED BY <2>3, <3>1
  <2>4. CASE 4 \notin knows /\ 3 \notin knows /\ 2 \in knows
    <3>1. \A j \in knows : j <= 2
      BY <2>1, <2>4
    <3> QED BY <2>4, <3>1
  <2>5. CASE 4 \notin knows /\ 3 \notin knows /\ 2 \notin knows
    <3>1. \A j \in knows : j = 1
      BY <1>2, <2>5
    <3>2. 1 \in knows /\ \A j \in knows : j <= 1
      BY <1>4, <3>1
    <3> QED BY <3>2
  <2> QED BY <2>2, <2>3, <2>4, <2>5
<1>5. ASSUME Len(stack) = 3, Handle(stack[3], input) # Pass
      PROVE  Routed(input) = Handle(stack[3], input)
  <2>1. 3 \in knows
    BY <1>1, <1>5
  <2> HIDE DEF knows, top
  <2>2. top \in knows /\ 3 <= top /\ top \in 1 .. 3
    BY <1>1, <1>2, <1>4, <1>5, <2>1
  <2>3. top = 3 /\ knows # {}
    BY <2>1, <2>2
  <2> QED BY <1>3, <2>3
<1> HIDE DEF knows, top
<1> QED BY <1>2, <1>3, <1>4, <1>5

LEMMA ClockRoute ==
  ASSUME NEW input, stack = ClockStack
  PROVE  Routed(input) = ClockContext(input)
<1>1. stack \in Stacks /\ Len(stack) = 3 /\ stack[3] = "clock"
  BY Shapes DEF Stacks
<1>2. ClockContext(input) # Pass
  BY DEF ClockContext, Pass, Consume, Emit
<1> QED BY <1>1, <1>2, Handlers, RoutedToTop

LEMMA StorageRoute ==
  ASSUME NEW input, stack = StorageStack
  PROVE  Routed(input) = StorageContext(input)
<1>1. stack \in Stacks /\ Len(stack) = 3 /\ stack[3] = "storage"
  BY Shapes DEF Stacks
<1>2. StorageContext(input) # Pass
  BY DEF StorageContext, Pass, Consume, Emit
<1> QED BY <1>1, <1>2, Handlers, RoutedToTop

LEMMA PageRoute ==
  ASSUME NEW input, stack \in Pages
  PROVE  Routed(input) \in {Pass, GlobalContext(input), MainContext(input), StepContext(input),
                            ShiftContext(input)}
<1>1. stack \in Stacks
  BY DEF Stacks
<1>2. ASSUME NEW i \in DOMAIN stack
      PROVE  stack[i] \in {"global", "main", "step", "shift"}
  <2>1. DOMAIN stack = 1 .. Len(stack) /\ stack[1] = "global" /\ stack[2] = "main"
    BY <1>1, Shapes
  <2>2. CASE Len(stack) = 2
    BY <2>1, <2>2
  <2>3. CASE stack \in {StepStack, ShiftStack}
    <3>1. Len(stack) = 3 /\ stack[3] \in {"step", "shift"}
      BY <2>3, Shapes
    <3> QED BY <2>1, <3>1
  <2>4. CASE stack = StepShiftStack
    <3>1. Len(stack) = 4 /\ stack[3] = "step" /\ stack[4] = "shift"
      BY <2>4, Shapes
    <3> QED BY <2>1, <3>1
  <2> QED BY <2>2, <2>3, <2>4, Shapes DEF Pages
<1> QED BY <1>1, <1>2, Handlers, RoutedToTop

(* What the pages and the shift make of an input.                          *)
Opening == {"OpenStepSettings", "CloseStepSettings", "OpenMidiClockSettings", "OpenProgramStorage"}

PageEvents ==
  Opening \cup {"Pass", "Consume", "Adjust", "AdjustStep", "ToggleStep", "AdjustTempo",
                "ActivateShift", "DeactivateShift", "ToggleTransport"}

Pushing == {"Pressed", "LongPressed", "Clicked"}

OfPage(event, input) ==
  /\ event[1] \in PageEvents
  /\ event[1] \in Opening => input.phase \in Pushing
  /\ event[1] = "OpenStepSettings" => event[2] \in Steps
  /\ event[1] = "CloseStepSettings" => selectedStep \in Steps

LEMMA PageRouted ==
  ASSUME NEW input, stack \in Pages
  PROVE  OfPage(Routed(input), input)
<1>1. OfPage(Pass, input)
  BY DEF OfPage, PageEvents, Opening, Pass, Emit
<1>2. OfPage(GlobalContext(input), input)
  BY DEF OfPage, PageEvents, Opening, Pushing, GlobalContext, Pass, Consume, Emit
<1>3. OfPage(MainContext(input), input)
  BY DEF OfPage, PageEvents, Opening, Pushing, MainContext, Pass, Emit
<1>4. OfPage(StepContext(input), input)
  BY DEF OfPage, PageEvents, Opening, Pushing, StepContext, Pass, Consume, Emit
<1>5. OfPage(ShiftContext(input), input)
  BY DEF OfPage, PageEvents, Opening, ShiftContext, Pass, Consume, Emit
<1> QED BY <1>1, <1>2, <1>3, <1>4, <1>5, PageRoute

-----------------------------------------------------------------------------
(***************************************************************************)
(* What dispatching an input does                                          *)
(***************************************************************************)

(* The screens keep agreeing, the music stays off, the gesture is captured *)
(* if it changed the screen (but for a click within the storage dialog),   *)
(* and a dialog shields what is below it.                                  *)
Shielded ==
  /\ UNCHANGED <<program, selectedStep>>
  /\ running' => running
  /\ ShiftActive' => ShiftActive \/ ~DialogOpen'

Effect(input) ==
  /\ ScreenInv'
  /\ MusicInv'
  /\ captured' = captured \/ (input.phase \in Pushing /\ captured' = captured \cup {input.source})
  /\ Screen' # Screen =>
       /\ input.phase \in Pushing
       /\ input.phase = "Clicked" \/ input.source \in captured'
  /\ DialogOpen => Shielded

ScreenVars == <<stack, selectedStep, contextState, clockOpen, storage, storageItem, request>>

(* Nothing of the screens changes.                                         *)
LEMMA ScreensStay ==
  ASSUME ScreenInv, UNCHANGED ScreenVars
  PROVE  ScreenInv' /\ Screen' = Screen /\ (ShiftActive' <=> ShiftActive)
<1>1. /\ stack' = stack /\ selectedStep' = selectedStep /\ contextState' = contextState
      /\ clockOpen' = clockOpen /\ storage' = storage /\ storageItem' = storageItem
      /\ request' = request
  BY DEF ScreenVars
<1>2. ScreenInv'
  BY <1>1, Zenon DEF ScreenInv
<1>3. Screen' = Screen
  BY <1>1 DEF Screen
<1>4. ShiftActive' <=> ShiftActive
  BY <1>1, Zenon DEF ShiftActive
<1> QED BY <1>2, <1>3, <1>4

LEMMA NothingDone ==
  ASSUME ScreenInv, MusicInv, NEW input, Nothing
  PROVE  Effect(input)
<1>1. /\ UNCHANGED ScreenVars /\ captured' = captured
      /\ UNCHANGED <<storageOpen, running, serial, mode, program, selectedStep, storage>>
  BY DEF Nothing, NoCapture, ScreenVars, clockVars, storageVars, sessionVars
<1>2. ScreenInv' /\ Screen' = Screen /\ (ShiftActive' <=> ShiftActive)
  BY <1>1, ScreensStay
<1>3. MusicInv'
  BY <1>1, Zenon DEF MusicInv
<1>4. Shielded
  BY <1>1, <1>2, Zenon DEF Shielded
<1> QED BY <1>1, <1>2, <1>3, <1>4 DEF Effect

(* On a page no dialog is open, and the session is free.                   *)
LEMMA OnPages ==
  ASSUME ScreenInv, stack \in Pages
  PROVE  /\ ~clockOpen /\ storage = "Closed" /\ ~DialogOpen /\ request = None
         /\ stack \in Stacks /\ stack \notin {ClockStack, StorageStack}
         /\ selectedStep = None => stack \in {MainStack, ShiftStack}
         /\ ShiftActive <=> stack \in {ShiftStack, StepShiftStack}
<1>1. stack \in Stacks /\ stack \notin {ClockStack, StorageStack}
  BY Holding DEF Pages, Stacks
<1>2. ~clockOpen /\ storage = "Closed"
  BY <1>1 DEF ScreenInv
<1>3. ~DialogOpen /\ request = None
  BY <1>2 DEF DialogOpen, ScreenInv
<1>4. selectedStep = None => stack \in {MainStack, ShiftStack}
  BY DEF ScreenInv, Pages
<1>5. ShiftActive <=> stack \in {ShiftStack, StepShiftStack}
  BY <1>1, Holding DEF ShiftActive
<1> QED BY <1>1, <1>2, <1>3, <1>4, <1>5

(* A page stays a page.                                                    *)
LEMMA StaysPage ==
  ASSUME ScreenInv, stack \in Pages, NEW input, stack' \in Pages,
         selectedStep' \in Steps \cup {None},
         selectedStep' # None <=> stack' \in {StepStack, StepShiftStack},
         UNCHANGED <<clockOpen, storage, request>>,
         \/ captured' = captured
         \/ input.phase \in Pushing /\ captured' = captured \cup {input.source},
         selectedStep' # selectedStep => input.phase \in Pushing /\ input.source \in captured'
  PROVE  Effect(input)
<1>1. ~clockOpen /\ storage = "Closed" /\ ~DialogOpen /\ request = None
  BY OnPages
<1>2. stack' \in Stacks /\ stack' \notin {ClockStack, StorageStack}
  BY Holding DEF Pages, Stacks
<1>3. ScreenInv'
  BY <1>1, <1>2 DEF ScreenInv
<1>4. MusicInv'
  BY <1>1 DEF MusicInv
<1>5. Screen' # Screen => selectedStep' # selectedStep
  BY DEF Screen
<1> QED BY <1>1, <1>3, <1>4, <1>5 DEF Effect

LEMMA StepOpened ==
  ASSUME ScreenInv, MusicInv, stack \in Pages, NEW input, input.phase \in Pushing,
         NEW step \in Steps, OpenStepSettings(step, input)
  PROVE  Effect(input)
<1>1. CASE Nothing
  BY <1>1, NothingDone
<1>2. CASE ~Nothing
  <2>1. /\ selectedStep' = step
        /\ stack' = IF selectedStep # None THEN stack
                    ELSE IF ShiftActive THEN Add("shift", Add("step", Released("shift", stack)))
                    ELSE Add("step", Released("shift", stack))
        /\ captured' = captured \cup {input.source}
        /\ UNCHANGED <<clockOpen, storage, request>>
    BY <1>2 DEF OpenStepSettings, Capture, Pushing, Phases, clockVars, storageVars
  <2>2. step # None
    BY InputAssumption
  <2>3. stack' \in {StepStack, StepShiftStack}
    <3>1. CASE selectedStep # None
      BY <2>1, <3>1 DEF ScreenInv
    <3>2. CASE selectedStep = None
      <4>1. stack \in {MainStack, ShiftStack}
        BY <3>2, OnPages
      <4>2. Add("step", Released("shift", stack)) = StepStack
        BY <4>1, Adding, Releasing
      <4> QED BY <2>1, <3>2, <4>2, Adding
    <3> QED BY <3>1, <3>2
  <2>4. stack' \in Pages
    BY <2>3 DEF Pages
  <2> QED BY <2>1, <2>2, <2>3, <2>4, StaysPage
<1> QED BY <1>1, <1>2

LEMMA StepClosed ==
  ASSUME ScreenInv, MusicInv, stack \in Pages, NEW input, input.phase \in Pushing,
         selectedStep \in Steps, CloseStepSettings(input)
  PROVE  Effect(input)
<1>1. /\ selectedStep' = None
      /\ stack' = Released("step", stack)
      /\ captured' = captured \cup {input.source}
      /\ UNCHANGED <<clockOpen, storage, request>>
  BY DEF CloseStepSettings, Capture, Pushing, Phases, clockVars, storageVars
<1>2. stack \in {StepStack, StepShiftStack}
  BY InputAssumption DEF ScreenInv
<1>3. stack' \in {MainStack, ShiftStack}
  BY <1>1, <1>2, Releasing
<1>4. stack' \in Pages /\ stack' \notin {StepStack, StepShiftStack}
  BY <1>3, Holding DEF Pages
<1> QED BY <1>1, <1>4, StaysPage

LEMMA Shifted ==
  ASSUME ScreenInv, MusicInv, stack \in Pages, NEW input,
         Shift(Add("shift", stack)) \/ Shift(Released("shift", stack))
  PROVE  Effect(input)
<1>1. /\ stack' = Add("shift", stack) \/ stack' = Released("shift", stack)
      /\ captured' = captured
      /\ UNCHANGED <<selectedStep, clockOpen, storage, request>>
  BY DEF Shift, NoCapture, clockVars, storageVars
<1>2. /\ stack \in {MainStack, ShiftStack} => stack' \in {MainStack, ShiftStack}
      /\ stack \in {StepStack, StepShiftStack} => stack' \in {StepStack, StepShiftStack}
  BY <1>1, Adding, Releasing
<1>3. MainStack \notin {StepStack, StepShiftStack} /\ ShiftStack \notin {StepStack, StepShiftStack}
  BY Holding
<1>4. /\ stack' \in Pages
      /\ stack' \in {StepStack, StepShiftStack} <=> stack \in {StepStack, StepShiftStack}
  BY <1>2, <1>3 DEF Pages
<1>5. /\ selectedStep' \in Steps \cup {None}
      /\ selectedStep' # None <=> stack' \in {StepStack, StepShiftStack}
  BY <1>1, <1>4 DEF ScreenInv
<1> QED BY <1>1, <1>4, <1>5, StaysPage

LEMMA ClockOpened ==
  ASSUME ScreenInv, MusicInv, stack \in Pages, NEW input, input.phase \in Pushing,
         OpenMidiClockSettings(input)
  PROVE  Effect(input)
<1>1. CASE Nothing
  BY <1>1, NothingDone
<1>2. CASE ~Nothing
  <2>1. /\ selectedStep = None
        /\ stack' = Add("clock", Released("shift", stack))
        /\ clockOpen' = TRUE
        /\ captured' = captured \cup {input.source}
        /\ UNCHANGED <<selectedStep, contextState, storage, storageItem, request>>
    BY <1>2 DEF OpenMidiClockSettings, CanOpenModal, Capture, Pushing, Phases, storageVars
  <2>2. stack' = ClockStack
    BY <2>1, OnPages, Adding, Releasing
  <2>3. ClockStack \in Stacks /\ ClockStack \notin {StepStack, StepShiftStack, StorageStack}
    BY Holding DEF Stacks
  <2>4. storage = "Closed" /\ request = None /\ ~DialogOpen
    BY OnPages
  <2>5. ScreenInv'
    BY <2>1, <2>2, <2>3, <2>4 DEF ScreenInv
  <2>6. MusicInv'
    BY <2>1, <2>4 DEF MusicInv
  <2> QED BY <2>1, <2>4, <2>5, <2>6 DEF Effect
<1> QED BY <1>1, <1>2

LEMMA StorageOpened ==
  ASSUME ScreenInv, MusicInv, stack \in Pages, NEW input, input.phase \in Pushing,
         OpenProgramStorage(input)
  PROVE  Effect(input)
<1>1. CASE Nothing
  BY <1>1, NothingDone
<1>2. CASE ~Nothing
  <2>1. /\ selectedStep = None
        /\ stack' = Add("storage", Released("shift", stack))
        /\ storage' = "Action" /\ contextState' = "Action"
        /\ storageOpen' = TRUE /\ running' = FALSE
        /\ captured' = captured \cup {input.source}
        /\ UNCHANGED <<selectedStep, clockOpen, request>>
    BY <1>2 DEF OpenProgramStorage, CanOpenModal, Capture, Pushing, Phases, clockVars
  <2>2. stack' = StorageStack
    BY <2>1, OnPages, Adding, Releasing
  <2>3. StorageStack \in Stacks /\ StorageStack \notin {StepStack, StepShiftStack, ClockStack}
    BY Holding DEF Stacks
  <2>4. ~clockOpen /\ request = None /\ ~DialogOpen
    BY OnPages
  <2>5. ScreenInv'
    BY <2>1, <2>2, <2>3, <2>4 DEF ScreenInv
  <2>6. MusicInv'
    BY <2>1 DEF MusicInv
  <2> QED BY <2>1, <2>4, <2>5, <2>6 DEF Effect
<1> QED BY <1>1, <1>2

(* One of the pages handles the input.                                     *)
LEMMA PageEffect ==
  ASSUME ScreenInv, MusicInv, stack \in Pages, NEW input, Perform(Routed(input), input)
  PROVE  Effect(input)
<1> DEFINE event == Routed(input)
<1>1. OfPage(event, input) /\ Perform(event, input)
  BY PageRouted
<1> HIDE DEF event
<1>2. CASE event[1] \in {"Pass", "Consume"}
  <2>1. Nothing
    BY <1>1, <1>2 DEF Perform
  <2> QED BY <2>1, NothingDone
<1>3. CASE event[1] \in {"Adjust", "AdjustStep", "ToggleStep", "AdjustTempo"}
  <2>1. Edit \/ Nothing
    BY <1>1, <1>3 DEF Perform
  <2>2. CASE Nothing
    BY <2>2, NothingDone
  <2>3. CASE Edit
    <3>1. captured' = captured /\ UNCHANGED <<stack, selectedStep, clockOpen, storage, request>>
      BY <2>3 DEF Edit, NoCapture, clockVars, storageVars
    <3> QED BY <3>1, StaysPage DEF ScreenInv
  <2> QED BY <2>1, <2>2, <2>3
<1>4. CASE event[1] = "OpenStepSettings"
  <2>1. OpenStepSettings(event[2], input) /\ event[2] \in Steps /\ input.phase \in Pushing
    BY <1>1, <1>4 DEF Perform, OfPage, Opening
  <2> QED BY <2>1, StepOpened
<1>5. CASE event[1] = "CloseStepSettings"
  <2>1. CloseStepSettings(input) /\ selectedStep \in Steps /\ input.phase \in Pushing
    BY <1>1, <1>5 DEF Perform, OfPage, Opening
  <2> QED BY <2>1, StepClosed
<1>6. CASE event[1] \in {"ActivateShift", "DeactivateShift"}
  <2>1. Shift(Add("shift", stack)) \/ Shift(Released("shift", stack))
    BY <1>1, <1>6 DEF Perform
  <2> QED BY <2>1, Shifted
<1>7. CASE event[1] = "ToggleTransport"
  <2>1. ToggleTransport
    BY <1>1, <1>7 DEF Perform
  <2>2. captured' = captured /\ UNCHANGED <<stack, selectedStep, clockOpen, storage, request>>
    BY <2>1 DEF ToggleTransport, NoCapture, clockVars, storageVars
  <2> QED BY <2>2, StaysPage DEF ScreenInv
<1>8. CASE event[1] = "OpenMidiClockSettings"
  <2>1. OpenMidiClockSettings(input) /\ input.phase \in Pushing
    BY <1>1, <1>8 DEF Perform, OfPage, Opening
  <2> QED BY <2>1, ClockOpened
<1>9. CASE event[1] = "OpenProgramStorage"
  <2>1. OpenProgramStorage(input) /\ input.phase \in Pushing
    BY <1>1, <1>9 DEF Perform, OfPage, Opening
  <2> QED BY <2>1, StorageOpened
<1> QED BY <1>1, <1>2, <1>3, <1>4, <1>5, <1>6, <1>7, <1>8, <1>9 DEF OfPage, PageEvents, Opening

(* Under the clock dialog there is the main page.                          *)
LEMMA OnClock ==
  ASSUME ScreenInv, stack = ClockStack
  PROVE  /\ clockOpen /\ storage = "Closed" /\ request = None /\ selectedStep = None
         /\ DialogOpen /\ ~ShiftActive
<1>1. stack \in Stacks /\ stack \notin {StepStack, ShiftStack, StepShiftStack, StorageStack}
  BY Holding DEF Stacks
<1>2. clockOpen /\ storage = "Closed" /\ request = None /\ selectedStep = None
  BY <1>1 DEF ScreenInv
<1> QED BY <1>1, <1>2, Holding DEF DialogOpen, ShiftActive

LEMMA ClockConfirmed ==
  ASSUME ScreenInv, MusicInv, stack = ClockStack, NEW input, input.phase = "Clicked",
         ConfirmMidiClockSettings(input)
  PROVE  Effect(input)
<1>1. /\ clockOpen' = FALSE
      /\ stack' = IF restoreShift THEN Add("shift", Released("clock", stack))
                  ELSE Released("clock", stack)
      /\ captured' = captured \cup {input.source}
      /\ UNCHANGED <<selectedStep, contextState, storage, storageItem, request, program>>
  BY DEF ConfirmMidiClockSettings, Capture, Phases, storageVars
<1>2. storage = "Closed" /\ request = None /\ selectedStep = None
  BY OnClock
<1>3. stack' \in {MainStack, ShiftStack}
  BY <1>1, Releasing, Adding
<1>4. /\ stack' \in Stacks
      /\ stack' \notin {StepStack, StepShiftStack, ClockStack, StorageStack}
  BY <1>3, Holding DEF Stacks, Pages
<1>5. ScreenInv'
  BY <1>1, <1>2, <1>4 DEF ScreenInv
<1>6. MusicInv'
  BY <1>1, <1>2 DEF MusicInv
<1>7. running' => running
  BY DEF ConfirmMidiClockSettings, ApplyMode, sessionVars
<1>8. ~DialogOpen'
  BY <1>1, <1>2 DEF DialogOpen
<1> QED BY <1>1, <1>5, <1>6, <1>7, <1>8 DEF Effect, Shielded, Pushing

LEMMA ClockEffect ==
  ASSUME ScreenInv, MusicInv, stack = ClockStack, NEW input, Perform(Routed(input), input)
  PROVE  Effect(input)
<1> DEFINE event == Routed(input)
<1>1. event = ClockContext(input) /\ Perform(event, input)
  BY ClockRoute
<1>2. /\ event[1] \in {"AdjustMidiClockPreview", "ConfirmMidiClockSettings", "Consume"}
      /\ event[1] = "ConfirmMidiClockSettings" => input.phase = "Clicked"
  BY <1>1 DEF ClockContext, Consume, Emit
<1> HIDE DEF event
<1>3. CASE event[1] = "Consume"
  <2>1. Nothing
    BY <1>1, <1>3 DEF Perform
  <2> QED BY <2>1, NothingDone
<1>4. CASE event[1] = "AdjustMidiClockPreview"
  <2>1. AdjustMidiClockPreview(event[2])
    BY <1>1, <1>4 DEF Perform
  <2>2. /\ UNCHANGED ScreenVars /\ captured' = captured
        /\ UNCHANGED <<storageOpen, running, serial, mode, program, selectedStep, storage>>
    BY <2>1 DEF AdjustMidiClockPreview, NoCapture, ScreenVars, storageVars, sessionVars
  <2>3. ScreenInv' /\ Screen' = Screen /\ (ShiftActive' <=> ShiftActive)
    BY <2>2, ScreensStay
  <2>4. MusicInv'
    BY <2>2, Zenon DEF MusicInv
  <2>5. Shielded
    BY <2>2, <2>3, Zenon DEF Shielded
  <2> QED BY <2>2, <2>3, <2>4, <2>5 DEF Effect
<1>5. CASE event[1] = "ConfirmMidiClockSettings"
  <2>1. ConfirmMidiClockSettings(input)
    BY <1>1, <1>5 DEF Perform
  <2> QED BY <1>2, <1>5, <2>1, ClockConfirmed
<1> QED BY <1>2, <1>3, <1>4, <1>5

LEMMA OnStorage ==
  ASSUME ScreenInv, stack = StorageStack
  PROVE  /\ ~clockOpen /\ storage # "Closed" /\ contextState = storage /\ selectedStep = None
         /\ DialogOpen /\ ~ShiftActive
<1>1. stack \in Stacks /\ stack \notin {StepStack, ShiftStack, StepShiftStack, ClockStack}
  BY Holding DEF Stacks
<1>2. ~clockOpen /\ storage # "Closed" /\ contextState = storage /\ selectedStep = None
  BY <1>1 DEF ScreenInv
<1> QED BY <1>1, <1>2, Holding DEF DialogOpen, ShiftActive

(* The storage dialog goes from one of its states to another.              *)
LEMMA StorageMoves ==
  ASSUME ScreenInv, MusicInv, stack = StorageStack, NEW input, input.phase = "Clicked",
         NEW state, ToState(state), state # "Closed", state = "Busy" <=> request' # None,
         state = "Slot" => StorageMenu[storageItem] \in {"Save", "Load"}
  PROVE  Effect(input)
<1>1. /\ storage' = state /\ contextState' = state /\ captured' = captured
      /\ UNCHANGED <<stack, selectedStep, clockOpen, storageItem, program, mode, running,
                     storageOpen, serial>>
  BY DEF ToState, NoCapture, clockVars, sessionVars
<1>2. ScreenInv'
  BY <1>1, OnStorage DEF ScreenInv
<1>3. MusicInv'
  BY <1>1, OnStorage DEF MusicInv
<1>4. ShiftActive' <=> ShiftActive
  BY <1>1, Zenon DEF ShiftActive
<1>5. Shielded
  BY <1>1, <1>4, Zenon DEF Shielded
<1> QED BY <1>1, <1>2, <1>3, <1>5 DEF Effect, Pushing

(* It is closed, by a choice that cancels or when its result was seen.     *)
LEMMA StorageCloses ==
  ASSUME ScreenInv, MusicInv, stack = StorageStack, NEW input, input.phase = "Clicked",
         CloseStorage(input), storage # "Busy"
  PROVE  Effect(input)
<1>1. /\ storage' = "Closed" /\ stack' = MainStack
      /\ captured' = captured \cup {input.source}
      /\ UNCHANGED <<selectedStep, clockOpen, request, program, running>>
  BY Releasing DEF CloseStorage, Capture, Phases, clockVars
<1>2. /\ MainStack \in Stacks
      /\ MainStack \notin {StepStack, ShiftStack, StepShiftStack, ClockStack, StorageStack}
  BY Holding DEF Stacks, Pages
<1>3. request = None
  BY DEF ScreenInv
<1>4. ScreenInv'
  BY <1>1, <1>2, <1>3, OnStorage DEF ScreenInv
<1>5. MusicInv'
  BY <1>1 DEF MusicInv
<1>6. ~DialogOpen'
  BY <1>1, OnStorage DEF DialogOpen
<1>7. Shielded
  BY <1>1, <1>6, Zenon DEF Shielded
<1> QED BY <1>1, <1>4, <1>5, <1>7 DEF Effect, Pushing

LEMMA StorageConfirmed ==
  ASSUME ScreenInv, MusicInv, stack = StorageStack, NEW input, input.phase = "Clicked",
         ConfirmAction(input) \/ ConfirmSlot(input) \/ ConfirmReset
  PROVE  Effect(input)
<1>1. CASE ConfirmAction(input)
  <2>1. storage = "Action" /\ request = None
    BY <1>1 DEF ConfirmAction, ScreenInv
  <2>2. CASE CloseStorage(input)
    BY <2>1, <2>2, StorageCloses
  <2>3. CASE ToState("ResetConfirmation") /\ UNCHANGED request
    BY <2>1, <2>3, StorageMoves
  <2>4. CASE /\ ToState("Slot") /\ UNCHANGED request
             /\ StorageMenu[storageItem] \in {"Save", "Load"}
    BY <2>1, <2>4, StorageMoves
  <2> QED BY <1>1, <2>2, <2>3, <2>4 DEF ConfirmAction
<1>2. CASE ConfirmSlot(input)
  <2>1. storage = "Slot"
    BY <1>2 DEF ConfirmSlot
  <2>2. CASE CloseStorage(input)
    BY <2>1, <2>2, StorageCloses
  <2>3. CASE Enqueue(StorageMenu[storageItem])
    <3>1. StorageMenu[storageItem] \in {"Save", "Load"}
      BY <2>1 DEF ScreenInv
    <3>2. ToState("Busy") /\ request' # None
      BY <2>3, <3>1, InputAssumption DEF Enqueue
    <3> QED BY <3>2, StorageMoves
  <2> QED BY <1>2, <2>2, <2>3 DEF ConfirmSlot
<1>3. CASE ConfirmReset
  <2>1. storage = "ResetConfirmation"
    BY <1>3 DEF ConfirmReset
  <2>2. CASE Enqueue("ResetProgram")
    <3>1. ToState("Busy") /\ request' # None
      BY <2>2, InputAssumption DEF Enqueue
    <3> QED BY <3>1, StorageMoves
  <2>3. CASE ToState("Action") /\ UNCHANGED request
    <3>1. request = None
      BY <2>1 DEF ScreenInv
    <3> QED BY <2>3, <3>1, StorageMoves
  <2> QED BY <1>3, <2>2, <2>3 DEF ConfirmReset
<1> QED BY <1>1, <1>2, <1>3

LEMMA StorageEffect ==
  ASSUME ScreenInv, MusicInv, stack = StorageStack, NEW input, Perform(Routed(input), input)
  PROVE  Effect(input)
<1> DEFINE event == Routed(input)
<1>1. event = StorageContext(input) /\ Perform(event, input)
  BY StorageRoute
<1>2. /\ event[1] \in {"Select", "CloseProgramStorage", "Confirm", "Consume"}
      /\ event[1] \in {"CloseProgramStorage", "Confirm"} =>
           input.phase = "Clicked" /\ contextState # "Busy"
  BY <1>1 DEF StorageContext, Consume, Emit
<1> HIDE DEF event
<1>3. CASE event[1] = "Consume"
  <2>1. Nothing
    BY <1>1, <1>3 DEF Perform
  <2> QED BY <2>1, NothingDone
<1>4. CASE event[1] = "Select"
  <2>1. Select(event[2])
    BY <1>1, <1>4 DEF Perform
  <2>2. /\ UNCHANGED <<stack, selectedStep, contextState, clockOpen, storage, request>>
        /\ captured' = captured
        /\ storageItem' = storageItem \/ storage = "Action"
        /\ UNCHANGED <<storageOpen, running, serial, mode, program>>
    BY <2>1 DEF Select, NoCapture, clockVars, sessionVars
  <2>3. ScreenInv'
    BY <2>2 DEF ScreenInv
  <2>4. Screen' = Screen
    BY <2>2 DEF Screen
  <2>5. MusicInv'
    BY <2>2, Zenon DEF MusicInv
  <2>6. ShiftActive' <=> ShiftActive
    BY <2>2, Zenon DEF ShiftActive
  <2>7. Shielded
    BY <2>2, <2>6, Zenon DEF Shielded
  <2> QED BY <2>2, <2>3, <2>4, <2>5, <2>7 DEF Effect
<1>5. CASE event[1] = "CloseProgramStorage"
  <2>1. CloseStorage(input)
    BY <1>1, <1>5 DEF Perform, CloseProgramStorage
  <2> QED BY <1>2, <1>5, <2>1, OnStorage, StorageCloses
<1>6. CASE event[1] = "Confirm"
  <2>1. ConfirmAction(input) \/ ConfirmSlot(input) \/ ConfirmReset
    BY <1>1, <1>6 DEF Perform
  <2> QED BY <1>2, <1>6, <2>1, StorageConfirmed
<1> QED BY <1>2, <1>3, <1>4, <1>5, <1>6

(* The rest of a captured gesture changes nothing.                         *)
Swallowed(input) == input.phase \in Phases /\ input.source \in captured

LEMMA DispatchEffect ==
  ASSUME ScreenInv, MusicInv, NEW input, Dispatch(input)
  PROVE  IF Swallowed(input)
           THEN /\ ScreenInv' /\ MusicInv' /\ Screen' = Screen /\ Shielded
                /\ captured' = IF input.phase = "Released" THEN captured \ {input.source}
                               ELSE captured
           ELSE Effect(input)
<1>1. CASE Swallowed(input)
  <2>1. /\ captured' = IF input.phase = "Released" THEN captured \ {input.source} ELSE captured
        /\ UNCHANGED ScreenVars
        /\ UNCHANGED <<storageOpen, running, serial, mode, program, selectedStep, storage>>
    BY <1>1 DEF Dispatch, Swallowed, EndsCapture, ScreenVars, clockVars, storageVars, sessionVars
  <2>2. ScreenInv' /\ Screen' = Screen /\ (ShiftActive' <=> ShiftActive)
    BY <2>1, ScreensStay
  <2>3. MusicInv'
    BY <2>1, Zenon DEF MusicInv
  <2>4. Shielded
    BY <2>1, <2>2, Zenon DEF Shielded
  <2> QED BY <1>1, <2>1, <2>2, <2>3, <2>4
<1>2. CASE ~Swallowed(input)
  <2>1. Perform(Routed(input), input)
    BY <1>2 DEF Dispatch, Swallowed
  <2>2. stack \in Pages \/ stack = ClockStack \/ stack = StorageStack
    BY DEF ScreenInv, Stacks
  <2> QED BY <1>2, <2>1, <2>2, PageEffect, ClockEffect, StorageEffect
<1> QED BY <1>1, <1>2

-----------------------------------------------------------------------------
(***************************************************************************)
(* Every step keeps the invariant                                          *)
(***************************************************************************)

(* Steps that touch neither a button nor what it captured.                 *)
LEMMA GestureQuiet ==
  ASSUME GestureInv, UNCHANGED <<gestureVars, captured>>
  PROVE  GestureInv'
<1>1. buttons' = buttons /\ batch' = batch /\ shown' = shown /\ captured' = captured
  BY DEF gestureVars
<1>2. BatchInv'
  BY <1>1, Zenon DEF GestureInv, BatchInv, Last, Two
<1>3. CapturedIsHeld'
  BY <1>1, Zenon DEF GestureInv, CapturedIsHeld
<1>4. (\A button \in shown : button \in captured \/ Leaving(button))'
  BY <1>1, Zenon DEF GestureInv, Leaving
<1>5. (buttons = [button \in Buttons |-> buttons[button]])' /\ (captured \subseteq Buttons)'
  BY <1>1, Zenon DEF GestureInv
<1> QED BY <1>2, <1>3, <1>4, <1>5 DEF GestureInv

LEMMA Tuples ==
  ASSUME NEW e, NEW f
  PROVE  /\ Head(<<e>>) = e /\ Tail(<<e>>) = <<>> /\ DOMAIN <<e>> = {1} /\ <<e>>[1] = e
         /\ Head(<<e, f>>) = e /\ Tail(<<e, f>>) = <<f>> /\ DOMAIN <<e, f>> = {1, 2}
         /\ <<e, f>>[2] = f /\ <<e, f>>[1] = e
<1>1. Head(<<e>>) = e /\ Head(<<e, f>>) = e
  OBVIOUS
<1>2. Tail(<<e>>) = <<>>
  OBVIOUS
<1>3. Tail(<<e, f>>) = <<f>>
  OBVIOUS
<1>4. DOMAIN <<e>> = {1} /\ DOMAIN <<e, f>> = {1, 2}
  OBVIOUS
<1>5. <<e>>[1] = e /\ <<e, f>>[2] = f /\ <<e, f>>[1] = e
  OBVIOUS
<1> QED BY <1>1, <1>2, <1>3, <1>4, <1>5

(* What is left of a gesture is the input next dispatched and its tail.    *)
LEMMA BatchShapes ==
  ASSUME NEW button, NEW phase
  PROVE  /\ Last(button, phase) =>
              /\ Head(batch) = Event(button, phase) /\ Tail(batch) = <<>>
              /\ DOMAIN batch = {1} /\ batch[1] = Event(button, phase)
         /\ Two(button, phase) =>
              /\ Head(batch) = Event(button, phase)
              /\ Tail(batch) = <<Event(button, "Released")>>
              /\ DOMAIN batch = {1, 2} /\ batch[2] = Event(button, "Released")
              /\ batch[1] = Event(button, phase)
         /\ Event(button, phase).source = button /\ Event(button, phase).phase = phase
<1> DEFINE e == Event(button, phase)
           f == Event(button, "Released")
<1>1. e.source = button /\ e.phase = phase
  BY DEF Event
<1>2. /\ Last(button, phase) => batch = <<e>>
      /\ Two(button, phase) => batch = <<e, f>>
  BY Zenon DEF Last, Two
<1> HIDE DEF e, f
<1>3. /\ Head(<<e>>) = e /\ Tail(<<e>>) = <<>> /\ DOMAIN <<e>> = {1} /\ <<e>>[1] = e
      /\ Head(<<e, f>>) = e /\ Tail(<<e, f>>) = <<f>> /\ DOMAIN <<e, f>> = {1, 2}
      /\ <<e, f>>[2] = f /\ <<e, f>>[1] = e
  BY Tuples
<1>4. Last(button, phase) => /\ Head(batch) = e /\ Tail(batch) = <<>>
                             /\ DOMAIN batch = {1} /\ batch[1] = e
  BY <1>2, <1>3, Zenon
<1>5. Two(button, phase) => /\ Head(batch) = e /\ Tail(batch) = <<f>>
                            /\ DOMAIN batch = {1, 2} /\ batch[2] = f /\ batch[1] = e
  BY <1>2, <1>3, Zenon
<1> QED BY <1>1, <1>4, <1>5 DEF e, f

(* A gesture begins or goes on: what it captured before is still held, or  *)
(* is about to be released.                                                *)
LEMMA GestureKept ==
  ASSUME GestureInv, NEW button \in Buttons, NEW state, NEW phase,
         Waiting, buttons' = [buttons EXCEPT ![button] = state],
         \/ Last(button, phase)' /\ (phase # "Released" => state # "up")
            /\ (phase = "Released" \/ phase \in Phases)
         \/ Two(button, phase)',
         phase = "Released" \/ state # "up" \/ Two(button, phase)',
         UNCHANGED <<captured, shown>>
  PROVE  GestureInv'
<1>1. phase \in Phases
  BY DEF Two, Phases
<1>2. buttons'[button] = state /\ \A other \in Buttons \ {button} : buttons'[other] = buttons[other]
  BY DEF GestureInv
<1>3. BatchInv'
  BY <1>1, <1>2 DEF BatchInv
<1>4. \/ state # "up"
      \/ \E i \in DOMAIN batch' : batch'[i].source = button /\ batch'[i].phase = "Released"
  <2>1. CASE Two(button, phase)'
    <3>1. DOMAIN batch' = {1, 2} /\ batch'[2] = Event(button, "Released")
      BY <2>1 DEF Two, Event
    <3> QED BY <3>1 DEF Event
  <2>2. CASE Last(button, phase)' /\ phase = "Released"
    <3>1. DOMAIN batch' = {1} /\ batch'[1] = Event(button, "Released")
      BY <2>2 DEF Last, Event
    <3> QED BY <3>1 DEF Event
  <2> QED BY <2>1, <2>2
<1>5. \A other \in captured : buttons[other] # "up"
  BY DEF GestureInv, CapturedIsHeld, Waiting
<1>6. ASSUME NEW other \in captured'
      PROVE  \/ buttons'[other] # "up"
             \/ \E i \in DOMAIN batch' : batch'[i].source = other /\ batch'[i].phase = "Released"
  BY <1>2, <1>4, <1>5, <1>6 DEF GestureInv
<1>7. CapturedIsHeld'
  BY <1>6 DEF CapturedIsHeld
<1>8. ~Leaving(button) /\ \A other : ~Leaving(other)
  BY DEF Leaving, Waiting
<1>9. \A other \in shown' : other \in captured'
  BY <1>8 DEF GestureInv
<1>10. buttons' = [other \in Buttons |-> buttons'[other]] /\ captured' \subseteq Buttons
  BY DEF GestureInv
<1> QED BY <1>3, <1>7, <1>9, <1>10 DEF GestureInv

LEMMA Gestures ==
  ASSUME InputInv, NEW button \in Buttons, Press(button) \/ HoldLong(button) \/ Release(button)
  PROVE  InputInv'
<1>1. /\ ScreenInv /\ MusicInv /\ GestureInv
  BY DEF InputInv
<1>2. /\ UNCHANGED ScreenVars /\ UNCHANGED <<captured, shown>>
      /\ UNCHANGED <<storageOpen, running, serial, mode, storage>>
  BY DEF Press, HoldLong, Release, Gesture, ScreenVars, routerVars, clockVars, storageVars,
         sessionVars
<1>3. ScreenInv'
  BY <1>1, <1>2, ScreensStay
<1>4. MusicInv'
  BY <1>1, <1>2, Zenon DEF MusicInv
<1>5. ASSUME NEW phase, phase \in {"Pressed", "LongPressed", "Released"}, NEW state,
             Gesture(button, state, <<phase>>), phase = "Released" \/ state # "up"
      PROVE  GestureInv'
  <2>1. batch' = <<Event(button, phase)>>
    BY <1>5 DEF Gesture, Event
  <2>2. Last(button, phase)' /\ phase \in Phases
    BY <1>5, <2>1 DEF Last, Phases
  <2>3. Waiting /\ buttons' = [buttons EXCEPT ![button] = state]
    BY <1>5 DEF Gesture
  <2> QED BY <1>1, <1>2, <1>5, <2>2, <2>3, GestureKept
<1>6. ASSUME NEW phase \in {"Clicked", "LongPressed"}, NEW state,
             Gesture(button, state, <<phase, "Released">>)
      PROVE  GestureInv'
  <2>1. batch' = <<Event(button, phase), Event(button, "Released")>>
    BY <1>6 DEF Gesture, Event
  <2>2. Two(button, phase)'
    BY <2>1 DEF Two
  <2>3. Waiting /\ buttons' = [buttons EXCEPT ![button] = state]
    BY <1>6 DEF Gesture
  <2> QED BY <1>1, <1>2, <2>2, <2>3, GestureKept
<1>7. GestureInv'
  BY <1>5, <1>6 DEF Press, HoldLong, Release
<1> QED BY <1>3, <1>4, <1>7 DEF InputInv

(* An input of the batch is dispatched.                                    *)
LEMMA Dispatches ==
  ASSUME InputInv, DispatchNext
  PROVE  /\ InputInv'
         /\ Screen' # Screen => Head(batch).source \notin shown
         /\ DialogOpen => Shielded
<1>1. /\ ScreenInv /\ MusicInv /\ GestureInv /\ batch # <<>>
  BY DEF InputInv, DispatchNext, Waiting
<1>2. PICK button \in Buttons, phase \in Phases :
        \/ Last(button, phase) /\ (phase # "Released" => buttons[button] # "up")
        \/ Two(button, phase)
  BY <1>1 DEF GestureInv, BatchInv
<1> DEFINE input == Event(button, phase)
<1>3. /\ Head(batch) = input /\ input.source = button /\ input.phase = phase
      /\ Tail(batch) = IF Two(button, phase) THEN <<Event(button, "Released")>> ELSE <<>>
      /\ phase = "Released" => ~Two(button, phase)
      /\ phase = "Clicked" => Two(button, phase)
  <2>1. Two(button, phase) => phase \in {"Clicked", "LongPressed"}
    BY DEF Two
  <2>2. ~Two(button, phase) => Last(button, phase) /\ phase # "Clicked"
    BY <1>2 DEF Last
  <2> QED BY <2>1, <2>2, BatchShapes
<1> HIDE DEF input
<1>4. /\ Dispatch(input) /\ buttons' = buttons /\ batch' = Tail(batch)
      /\ shown' = IF phase = "Released" THEN shown \ {button}
                  ELSE IF Screen' # Screen THEN shown \cup {button} ELSE shown
  BY <1>3 DEF DispatchNext
<1>5. IF Swallowed(input)
        THEN /\ ScreenInv' /\ MusicInv' /\ Screen' = Screen /\ Shielded
             /\ captured' = IF phase = "Released" THEN captured \ {button} ELSE captured
        ELSE Effect(input)
  BY <1>1, <1>3, <1>4, DispatchEffect
<1>6. Swallowed(input) <=> button \in captured
  BY <1>3 DEF Swallowed
<1>7. /\ ScreenInv' /\ MusicInv' /\ (DialogOpen => Shielded)
      /\ Screen' # Screen =>
           /\ button \notin captured /\ phase \in Pushing
           /\ phase = "Clicked" \/ button \in captured'
  BY <1>3, <1>5, <1>6 DEF Effect
<1>8. /\ phase = "Released" => captured' = captured \ {button}
      /\ phase # "Released" => captured' \in {captured, captured \cup {button}}
  BY <1>3, <1>5, <1>6 DEF Effect, Pushing
<1>9. ~Leaving(button) \/ phase = "Released"
  <2> SUFFICES ASSUME Leaving(button) PROVE phase = "Released"
    OBVIOUS
  <2>1. Head(batch) = Event(button, "Released")
    BY DEF Leaving
  <2> QED BY <1>3, <2>1, BatchShapes
<1>10. \A other \in Buttons : Leaving(other) => other = button
  <2> SUFFICES ASSUME NEW other \in Buttons, Leaving(other) PROVE other = button
    OBVIOUS
  <2>1. Head(batch) = Event(other, "Released")
    BY DEF Leaving
  <2> QED BY <1>3, <2>1, BatchShapes
<1>11. Screen' # Screen => button \notin shown
  BY <1>1, <1>7, <1>9 DEF GestureInv, Pushing
<1>12. captured' \subseteq Buttons
  BY <1>1, <1>8 DEF GestureInv
<1>13. BatchInv'
  <2>1. CASE ~Two(button, phase)
    BY <1>3, <1>4, <2>1 DEF BatchInv
  <2>2. CASE Two(button, phase)
    <3>1. batch' = <<Event(button, "Released")>>
      BY <1>3, <1>4, <2>2
    <3>2. Last(button, "Released")' /\ "Released" \in Phases
      BY <3>1 DEF Last, Phases
    <3> QED BY <3>2 DEF BatchInv
  <2> QED BY <2>1, <2>2
<1>14. ASSUME NEW other \in captured'
       PROVE  \/ buttons'[other] # "up"
              \/ \E i \in DOMAIN batch' : batch'[i].source = other /\ batch'[i].phase = "Released"
  <2>1. CASE Two(button, phase) /\ other = button
    <3>1. batch' = <<Event(button, "Released")>>
      BY <1>3, <1>4, <2>1
    <3>2. 1 \in DOMAIN batch' /\ batch'[1] = Event(button, "Released")
      BY <3>1
    <3>3. batch'[1].source = other /\ batch'[1].phase = "Released"
      BY <2>1, <3>2, BatchShapes
    <3> QED BY <3>2, <3>3
  <2>2. CASE ~Two(button, phase) /\ other = button
    <3>1. phase # "Released"
      BY <1>8, <1>14, <2>2
    <3> QED BY <1>2, <1>4, <2>2, <3>1
  <2>3. CASE other # button
    <3>1. other \in captured
      BY <1>8, <1>14, <2>3
    <3>2. \A i \in DOMAIN batch : batch[i].source = button
      <4>1. CASE Two(button, phase)
        <5>1. DOMAIN batch = {1, 2} /\ batch[1] = Event(button, phase)
              /\ batch[2] = Event(button, "Released")
          BY <4>1 DEF Two
        <5> QED BY <5>1, BatchShapes
      <4>2. CASE Last(button, phase)
        <5>1. DOMAIN batch = {1} /\ batch[1] = Event(button, phase)
          BY <4>2 DEF Last
        <5> QED BY <5>1, BatchShapes
      <4> QED BY <1>2, <4>1, <4>2
    <3>3. buttons[other] # "up"
      BY <1>1, <2>3, <3>1, <3>2 DEF GestureInv, CapturedIsHeld
    <3> QED BY <1>4, <3>3
  <2> QED BY <2>1, <2>2, <2>3
<1>15. CapturedIsHeld'
  BY <1>14 DEF CapturedIsHeld
<1>16. ASSUME NEW other \in shown'
       PROVE  other \in captured' \/ batch' = <<Event(other, "Released")>>
  <2>1. CASE phase = "Released"
    <3>1. other \in shown /\ other # button
      BY <1>4, <2>1
    <3>2. other \in captured
      <4>1. other \in captured \/ Leaving(other)
        BY <1>1, <3>1 DEF GestureInv
      <4>2. ~Leaving(other)
        <5> SUFFICES ASSUME Leaving(other) PROVE FALSE
          OBVIOUS
        <5>1. Head(batch) = Event(other, "Released")
          BY DEF Leaving
        <5> QED BY <1>3, <3>1, <5>1, BatchShapes
      <4> QED BY <4>1, <4>2
    <3> QED BY <1>8, <2>1, <3>1, <3>2
  <2>2. CASE phase # "Released" /\ other \in shown
    <3>1. ~Leaving(other)
      <4> SUFFICES ASSUME Leaving(other) PROVE FALSE
        OBVIOUS
      <4>1. Head(batch) = Event(other, "Released")
        BY DEF Leaving
      <4> QED BY <1>3, <2>2, <4>1, BatchShapes
    <3>2. other \in captured
      BY <1>1, <2>2, <3>1 DEF GestureInv
    <3> QED BY <1>8, <2>2, <3>2
  <2>3. CASE phase # "Released" /\ other \notin shown
    <3>1. Screen' # Screen /\ other = button
      BY <1>4, <1>16, <2>3
    <3>2. CASE phase = "Clicked"
      BY <1>3, <1>4, <3>1, <3>2
    <3>3. CASE phase # "Clicked"
      BY <1>7, <3>1, <3>3
    <3> QED BY <3>2, <3>3
  <2> QED BY <2>1, <2>2, <2>3
<1>17. (\A other \in shown : other \in captured \/ Leaving(other))'
  BY <1>16 DEF Leaving
<1>18. GestureInv'
  BY <1>1, <1>4, <1>12, <1>13, <1>15, <1>17 DEF GestureInv
<1> QED BY <1>3, <1>7, <1>11, <1>18 DEF InputInv

(* A knob captures nothing and opens nothing.                              *)
LEMMA Turns ==
  ASSUME InputInv, NEW encoder, NEW delta, Turn(encoder, delta)
  PROVE  InputInv' /\ (DialogOpen => Shielded)
<1> DEFINE input == [source |-> encoder, phase |-> "Turned", delta |-> delta]
<1>1. /\ ScreenInv /\ MusicInv /\ GestureInv
      /\ Dispatch(input) /\ UNCHANGED gestureVars
  BY DEF InputInv, Turn
<1>2. input.phase = "Turned"
  OBVIOUS
<1> HIDE DEF input
<1>3. ~Swallowed(input) /\ input.phase \notin Pushing
  BY <1>2 DEF Swallowed, Phases, Pushing
<1>4. Effect(input)
  BY <1>1, <1>3, DispatchEffect
<1>5. captured' = captured /\ ScreenInv' /\ MusicInv' /\ (DialogOpen => Shielded)
  BY <1>3, <1>4 DEF Effect
<1>6. GestureInv'
  BY <1>1, <1>5, GestureQuiet
<1> QED BY <1>5, <1>6 DEF InputInv

(* The storage request, the transport and the serial line.                 *)
LEMMA OtherSteps ==
  ASSUME InputInv,
         ProcessProgramStorage \/ ServeTransport \/ PollSerialRunCommand \/ UpdateSerialRun
  PROVE  InputInv'
<1>1. ScreenInv /\ MusicInv /\ GestureInv
  BY DEF InputInv
<1>2. UNCHANGED <<gestureVars, captured>>
  BY DEF ProcessProgramStorage, ServeTransport, PollSerialRunCommand, UpdateSerialRun, routerVars
<1>3. GestureInv'
  BY <1>1, <1>2, GestureQuiet
<1>4. CASE ProcessProgramStorage
  <2>1. /\ request # None /\ request' = None
        /\ storage' \in {"Success", "Error"} /\ contextState' = storage'
        /\ UNCHANGED <<stack, selectedStep, clockOpen, storageItem, running, storageOpen, serial>>
        /\ running => UNCHANGED mode
    BY <1>4 DEF ProcessProgramStorage, clockVars
  <2>2. storage = "Busy" /\ stack = StorageStack
    BY <1>1, <2>1 DEF ScreenInv
  <2>3. ScreenInv'
    BY <1>1, <2>1, <2>2 DEF ScreenInv
  <2>4. MusicInv'
    BY <1>1, <2>1, <2>2 DEF MusicInv
  <2> QED BY <1>3, <2>3, <2>4 DEF InputInv
<1>5. CASE ServeTransport \/ PollSerialRunCommand \/ UpdateSerialRun
  <2>1. UNCHANGED ScreenVars /\ UNCHANGED <<storage, storageOpen>>
    BY <1>5 DEF ServeTransport, PollSerialRunCommand, UpdateSerialRun, ScreenVars, routerVars,
                clockVars, storageVars
  <2>2. ScreenInv'
    BY <1>1, <2>1, ScreensStay
  <2>3. CASE ServeTransport
    <3>1. ~storageOpen
      BY <2>3 DEF ServeTransport
    <3> QED BY <1>1, <2>1, <3>1, <1>3, <2>2 DEF MusicInv, InputInv
  <2>4. CASE PollSerialRunCommand
    <3>1. serial' = TRUE /\ mode' = "Internal"
      BY <2>4 DEF PollSerialRunCommand
    <3>2. MusicInv'
      BY <1>1, <2>1, <3>1 DEF MusicInv
    <3> QED BY <1>3, <2>2, <3>2 DEF InputInv
  <2>5. CASE UpdateSerialRun
    <3>1. running' = (running /\ mode = "External")
      BY <2>5 DEF UpdateSerialRun
    <3>2. MusicInv'
      BY <1>1, <2>1, <3>1 DEF MusicInv
    <3> QED BY <1>3, <2>2, <3>2 DEF InputInv
  <2> QED BY <1>5, <2>3, <2>4, <2>5
<1> QED BY <1>4, <1>5

LEMMA InputStarts == Init => InputInv
<1> SUFFICES ASSUME Init PROVE InputInv
  OBVIOUS
<1>1. /\ buttons = [button \in Buttons |-> "up"] /\ batch = <<>> /\ captured = {} /\ shown = {}
      /\ stack = MainStack /\ selectedStep = None /\ ~clockOpen /\ storage = "Closed"
      /\ request = None
  BY DEF Init, MainStack
<1>2. /\ MainStack \in Stacks
      /\ MainStack \notin {StepStack, ShiftStack, StepShiftStack, ClockStack, StorageStack}
  BY Holding DEF Stacks, Pages
<1>3. ScreenInv
  BY <1>1, <1>2 DEF ScreenInv
<1>4. MusicInv
  BY <1>1 DEF MusicInv
<1>5. GestureInv
  BY <1>1 DEF GestureInv, BatchInv, CapturedIsHeld
<1> QED BY <1>3, <1>4, <1>5 DEF InputInv

LEMMA InputSteps == InputInv /\ [Next]_vars => InputInv'
<1> SUFFICES ASSUME InputInv, [Next]_vars PROVE InputInv'
  OBVIOUS
<1>1. CASE UNCHANGED vars
  <2>1. /\ UNCHANGED <<gestureVars, captured>> /\ UNCHANGED ScreenVars
        /\ UNCHANGED <<storageOpen, running, serial, mode, storage>>
    BY <1>1 DEF vars, routerVars, clockVars, storageVars, sessionVars, ScreenVars
  <2>2. MusicInv'
    BY <2>1, Zenon DEF InputInv, MusicInv
  <2>3. ScreenInv'
    BY <2>1, ScreensStay DEF InputInv
  <2>4. GestureInv'
    BY <2>1, GestureQuiet DEF InputInv
  <2> QED BY <2>2, <2>3, <2>4 DEF InputInv
<1>2. ASSUME NEW button \in Buttons, Press(button) \/ HoldLong(button) \/ Release(button)
      PROVE  InputInv'
  BY <1>2, Gestures
<1>3. ASSUME NEW encoder \in Encoders, NEW delta \in {-1, 1}, Turn(encoder, delta)
      PROVE  InputInv'
  BY <1>3, Turns
<1>4. CASE DispatchNext
  BY <1>4, Dispatches
<1>5. CASE ProcessProgramStorage \/ ServeTransport \/ PollSerialRunCommand \/ UpdateSerialRun
  BY <1>5, OtherSteps
<1> QED BY <1>1, <1>2, <1>3, <1>4, <1>5 DEF Next

THEOREM InputInvariance == Spec => []InputInv
<1> QED BY InputStarts, InputSteps, PTL DEF Spec

-----------------------------------------------------------------------------
(***************************************************************************)
(* What follows from it                                                    *)
(***************************************************************************)
LEMMA ScreensFollow == InputInv => ScreensAgree
<1> SUFFICES ASSUME InputInv PROVE ScreensAgree
  OBVIOUS
<1>1. ScreenInv /\ stack \in Stacks
  BY DEF InputInv, ScreenInv
<1>2. stack[1] = "global" /\ stack[2] = "main" /\ DOMAIN stack = 1 .. Len(stack)
  BY <1>1, Shapes
<1>3. \A i, j \in DOMAIN stack : stack[i] = stack[j] => i = j
  <2>1. CASE stack = MainStack
    BY <2>1, <1>2, Shapes
  <2>2. CASE stack \in {StepStack, ShiftStack, ClockStack, StorageStack}
    <3>1. Len(stack) = 3 /\ stack[3] \in {"step", "shift", "clock", "storage"}
      BY <2>2, Shapes
    <3> QED BY <1>2, <3>1
  <2>3. CASE stack = StepShiftStack
    <3>1. Len(stack) = 4 /\ stack[3] = "step" /\ stack[4] = "shift"
      BY <2>3, Shapes
    <3> QED BY <1>2, <3>1
  <2> QED BY <1>1, <2>1, <2>2, <2>3 DEF Stacks, Pages
<1>4. /\ Holds("step", stack) <=> selectedStep # None
      /\ Holds("clock", stack) <=> clockOpen
      /\ Holds("storage", stack) <=> storage # "Closed"
  BY <1>1, Holding, Zenon DEF ScreenInv
<1>5. DialogOpen => Len(stack) = 3 /\ stack[3] \in {"clock", "storage"}
  BY <1>1, Shapes DEF DialogOpen, ScreenInv
<1>6. Len(stack) < Capacity
  BY <1>1, Adding
<1>7. /\ storage # "Closed" => contextState = storage
      /\ storage = "Busy" <=> request # None
  BY <1>1 DEF ScreenInv
<1> QED BY <1>2, <1>3, <1>4, <1>5, <1>6, <1>7 DEF ScreensAgree

(* Router::_contexts, the selected step, the two dialogs and the storage   *)
(* request always tell the same, whatever gestures came in which order:    *)
(* openMidiClockSettings, openProgramStorage, openStepSettings and their   *)
(* closing counterparts (app_input_router.h) leave no context behind, add  *)
(* none twice and never run out of INPUT_CONTEXT_CAPACITY.                 *)
THEOREM ScreensCorrect == Spec => []ScreensAgree
<1> QED BY InputInvariance, ScreensFollow, PTL

(* A button that AppInputRouter swallows is still held, or its Released is *)
(* already in the batch: no later press of it is lost.                     *)
THEOREM CapturedCorrect == Spec => []CapturedIsHeld
<1>1. InputInv => CapturedIsHeld
  BY DEF InputInv, GestureInv
<1> QED BY <1>1, InputInvariance, PTL

(* Under the storage dialog nothing plays, whatever the external clock     *)
(* does: only a run of the serial line may, which asks nobody.             *)
THEOREM StorageIsSilent == Spec => []StorageStopsMusic
<1>1. InputInv => StorageStopsMusic
  BY DEF InputInv, MusicInv, StorageStopsMusic
<1> QED BY <1>1, InputInvariance, PTL

(* One gesture, from Pressed to Released, changes the screen once at most: *)
(* the capture that handleAppEvent asks for lasts to its end, and where it *)
(* does not, on a Clicked, only the Released is left.                      *)
THEOREM OneScreenCorrect == Spec => OneScreenPerGesture
<1>1. InputInv => (DispatchNext /\ Screen' # Screen => Head(batch).source \notin shown)
  BY Dispatches
<1> QED BY <1>1, InputInvariance, PTL DEF OneScreenPerGesture

(* Whatever knob or button is used while a dialog is open, the program,    *)
(* the selected step, the session and the shift behind it stay: the        *)
(* dialog's context is the topmost and lets no input pass.                 *)
THEOREM ShieldCorrect == Spec => DialogShields
<1>1. ASSUME InputInv, DialogOpen,
             DispatchNext \/ \E encoder \in Encoders, delta \in {-1, 1} : Turn(encoder, delta)
      PROVE  Shielded
  <2>1. CASE DispatchNext
    BY <1>1, <2>1, Dispatches
  <2>2. ASSUME NEW encoder \in Encoders, NEW delta \in {-1, 1}, Turn(encoder, delta)
        PROVE  Shielded
    BY <1>1, <2>2, Turns
  <2> QED BY <1>1, <2>1, <2>2
<1>2. InputInv =>
        ((DialogOpen /\ (DispatchNext \/ \E encoder \in Encoders, delta \in {-1, 1} :
                                            Turn(encoder, delta)))
           => /\ UNCHANGED <<program, selectedStep>>
              /\ running' => running
              /\ ShiftActive' => ShiftActive \/ ~DialogOpen')
  BY <1>1, Zenon DEF Shielded
<1> QED BY <1>2, InputInvariance, PTL DEF DialogShields
==========================================================================
