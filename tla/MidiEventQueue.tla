---------------------------- MODULE MidiEventQueue ----------------------------
(***************************************************************************)
(* The queue of scheduled, not yet due, note events                        *)
(* (engine/midi_event_queue.h).  The code keeps an array sorted by target  *)
(* position, message priority and insertion order; here the queue is the   *)
(* set of its events and the order is an operator on them.  The planner    *)
(* numbers its launches upwards, so the launch number stands for the       *)
(* insertion order of two events of equal position and priority.           *)
(***************************************************************************)
EXTENDS TransportTime, FiniteSets

CONSTANTS
  QueueCapacity,      \* MidiEventQueue::CAPACITY: 16 in the code
  MaxPacketsPerTick   \* MAX_PACKETS_PER_TICK: 8 in the code

ASSUME QueueAssumption ==
  /\ QueueCapacity \in Nat \ {0}
  /\ MaxPacketsPerTick \in Nat \ {0}

Scheduled(position, kind, note, launch, gen, gate) ==
  [at |-> position, kind |-> kind, note |-> note, launch |-> launch,
   gen |-> gen, gate |-> gate]

(* MidiMessage::priority: an Off goes before an On of the same position.   *)
Priority(event) == IF event.kind = "NoteOff" THEN 1 ELSE 2

EventPrecedes(left, right) ==
  \/ left.at < right.at
  \/ /\ left.at = right.at
     /\ \/ Priority(left) < Priority(right)
        \/ Priority(left) = Priority(right) /\ left.launch < right.launch

QueueFront(queue) ==
  CHOOSE e \in queue : \A f \in queue : ~EventPrecedes(f, e)

(* enqueueBatch takes both events of a launch or neither.  The queue never *)
(* holds a Clock, so the quota that keeps one packet of each tick for it   *)
(* is a strict bound on the notes of that tick.                            *)
BatchFits(queue, batch) ==
  /\ Cardinality(queue) + Cardinality(batch) <= QueueCapacity
  /\ \A e \in batch :
       Cardinality({f \in queue \cup batch : TickOf(f.at) = TickOf(e.at)})
         < MaxPacketsPerTick

DiscardAt(queue, tick) == {e \in queue : TickOf(e.at) # tick}

WithoutLaunch(queue, gen, launch) ==
  {e \in queue : ~(e.gen = gen /\ e.launch = launch)}

(* Fault: the scheduled Off of a replaced launch is not withdrawn.         *)
WithOffKept(queue, gen, launch) == queue

WithoutOff(queue, gen, launch) ==
  {e \in queue : ~(e.gen = gen /\ e.launch = launch /\ e.kind = "NoteOff")}
=============================================================================
