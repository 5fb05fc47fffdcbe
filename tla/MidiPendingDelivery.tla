------------------------- MODULE MidiPendingDelivery -------------------------
(***************************************************************************)
(* The outbox of messages that are due and not yet accepted by the USB     *)
(* stack (engine/midi_pending_delivery_queue.h).  The code keeps a ring of *)
(* Capacity entries in delivery order; here the outbox is the set of its   *)
(* entries, each with the number of its insertion, and the front is the    *)
(* entry of the smallest number.  Attempt counters only feed diagnostics.  *)
(***************************************************************************)
EXTENDS Integers, FiniteSets

CONSTANTS
  NormalCapacity,    \* NORMAL_CAPACITY: 14 in the code
  TerminalReserve    \* TERMINAL_RESERVE: 2 in the code

ASSUME OutboxAssumption ==
  /\ NormalCapacity \in Nat \ {0}
  /\ TerminalReserve \in Nat \ {0, 1}

Capacity == NormalCapacity + TerminalReserve

(* limit: the gate deadline of a NoteOn, the target tick of a Clock, and 0 *)
(* for the kinds that never expire.                                        *)
Pending(seq, kind, note, launch, gen, limit, terminal) ==
  [seq |-> seq, kind |-> kind, note |-> note, launch |-> launch,
   gen |-> gen, limit |-> limit, terminal |-> terminal]

(* push and pushNormal: the same insertion under two limits.               *)
HasRoom(outbox, room) == Cardinality(outbox) < room

Push(outbox, entry, room) ==
  IF HasRoom(outbox, room) THEN outbox \cup {entry} ELSE outbox

OutboxFront(outbox) ==
  CHOOSE p \in outbox : \A q \in outbox : p.seq <= q.seq

HasTerminal(outbox, kind, gen) ==
  \E p \in outbox : p.terminal /\ p.gen = gen /\ p.kind = kind

HasTerminalNoteOff(outbox) ==
  \E p \in outbox : p.terminal /\ p.kind = "NoteOff"

HasNoteOff(outbox, gen, launch) ==
  \E p \in outbox : p.kind = "NoteOff" /\ p.gen = gen /\ p.launch = launch
=============================================================================
