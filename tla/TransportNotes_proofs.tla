------------------------ MODULE TransportNotes_proofs ------------------------
(***************************************************************************)
(* What the instrument behind the cable hears, for every pitch, tick,      *)
(* capacity and session.  Four invariants, each on the one before it:      *)
(*                                                                         *)
(*   NoteInv: every note the host holds, every NoteOn that waits and every *)
(*   launch that is planned is accounted for, so no note is left sounding, *)
(*   one launch gets one Off, and nothing sounds under a NoteOn or a Stop; *)
(*                                                                         *)
(*   SoloInv: without an external master no Stop waits while the transport *)
(*   runs, so the whole controller is a monophonic voice;                  *)
(*                                                                         *)
(*   RoomInv: the Off of a replaced launch takes one place of the terminal *)
(*   reserve and no more, so the end of a session always finds room;       *)
(*                                                                         *)
(*   ClockInv: with a clock of its own the transport owes the host a Stop  *)
(*   for every Start, and the Stop is never lost.                          *)
(*                                                                         *)
(* NoteInv holds in every mode.  The others need assumptions on Modes: an  *)
(* external Continue begins a session without superseding the Stop of the  *)
(* one before it, and a start in mode Off supersedes a Stop it does not    *)
(* owe; both are counterexamples of TLC.                                   *)
(***************************************************************************)
EXTENDS TransportSession_proofs

-----------------------------------------------------------------------------
(***************************************************************************)
(* What is known of the notes, for an outbox `box', the launch `act' that  *)
(* sounds, the launch `proj' that is projected, and the notes `host' holds.*)
(* A send changes these four only, and in two steps: what is overdue goes, *)
(* then the front does.                                                    *)
(***************************************************************************)
OnsOf(box) == {p \in box : p.kind = "NoteOn"}

OffsOf(box) == {p \in box : p.kind = "NoteOff"}

LaunchesOf(entries) == {LaunchOf(p) : p \in entries}

(* Launches whose NoteOn is accepted or pending.                           *)
Owed(box, act) == ({act} \ {None}) \cup LaunchesOf(OnsOf(box))

Known(box, act, proj) ==
  Owed(box, act) \cup ({proj} \ {None}) \cup LaunchesOf(OffsOf(box))
    \cup LaunchesOf(queue)

SameLaunch(k, l) == k.gen = l.gen /\ k.launch = l.launch

Covered(box, l) == HasNoteOff(box, l.gen, l.launch)

Few(box) == Cardinality(box) <= NormalCapacity

(* Messages the host must not receive while a note sounds.                 *)
Barrier(p) == p.kind \in {"NoteOn", "Start", "Stop"}

Numbered(box) ==
  /\ IsFiniteSet(box)
  /\ \A p \in box : p.seq < nextSeq
  /\ \A p, q \in box : p.seq = q.seq => p = q

(* A launch is told by its session and its number.                         *)
OneLaunch(box, act, proj) ==
  \A k, l \in Known(box, act, proj) : SameLaunch(k, l) => k = l

Current(box, act, proj) ==
  \A l \in Known(box, act, proj) :
    /\ l.gen <= sessionGen
    /\ l.gen = sessionGen => l.launch <= nextBoundary /\ (running => seqRunning)

(* A scheduled NoteOn has not been sent, and none of its messages has      *)
(* unless its gate is empty, in which case it never will.                  *)
Unsent(box, act, proj) ==
  \A e \in queue : e.kind = "NoteOn" =>
    /\ LaunchOf(e) \notin Owed(box, act) \cup {proj}
    /\ e.at < e.gate => LaunchOf(e) \notin LaunchesOf(OffsOf(box))

(* What sounds has its Off pending, or is the launch the next NoteOn will  *)
(* replace, with room for the Off of the replacement or of the stop.       *)
ActualIsOwed(box, act, proj) ==
  act # None =>
    \/ Covered(box, act)
    \/ running /\ act.gen = sessionGen /\ proj \in {None, act} /\ Few(box)

PendingIsOwed(box, proj) ==
  \A p \in OnsOf(box) : Covered(box, p) \/ (proj = LaunchOf(p) /\ Few(box))

OnBeforeOff(box) ==
  \A p \in OnsOf(box), q \in OffsOf(box) : SameLaunch(p, q) => p.seq < q.seq

OffBetween(box) ==
  \A p \in OnsOf(box), b \in box : Barrier(b) /\ p.seq < b.seq =>
    \E q \in OffsOf(box) : SameLaunch(p, q) /\ p.seq < q.seq /\ q.seq < b.seq

OffBefore(box, host) ==
  \A n \in host, b \in box : Barrier(b) =>
    \E q \in OffsOf(box) : q.note = n /\ q.seq < b.seq

HostHears(box, act, host) ==
  /\ act # None => host \subseteq {act.note}
  /\ act = None => \A n \in host : \E q \in OffsOf(box) : q.note = n
  /\ \A m, n \in host : m = n

OneOff(box) ==
  \A p \in OffsOf(box) :
    /\ \A q \in OffsOf(box) \ {p} : ~SameLaunch(p, q)
    /\ \A e \in queue : e.kind = "NoteOff" => ~SameLaunch(p, e)

Accounted(box, act, proj, host) ==
  /\ Numbered(box)
  /\ OneLaunch(box, act, proj)
  /\ Current(box, act, proj)
  /\ Unsent(box, act, proj)
  /\ ActualIsOwed(box, act, proj)
  /\ PendingIsOwed(box, proj)
  /\ OnBeforeOff(box)
  /\ OffBetween(box)
  /\ OffBefore(box, host)
  /\ HostHears(box, act, host)
  /\ OneOff(box)

(* The scheduled events come in pairs, of the sequencer that runs.         *)
Planned ==
  /\ queue # {} => seqRunning
  /\ \A e, f \in queue :
       /\ SameLaunch(e, f) /\ e.kind = f.kind => e = f
       /\ SameLaunch(e, f) /\ e.kind = "NoteOn" /\ f.kind = "NoteOff" => f.at = e.gate

CutIsSilent == outcome = "Disconnected" => hostNotes = {}

NoteInv ==
  /\ FlagInv
  /\ Planned
  /\ CutIsSilent
  /\ Accounted(outbox, actual, projected, hostNotes)

-----------------------------------------------------------------------------
LEMMA LaunchFields ==
  ASSUME NEW p \in Messages \cup Events, p.kind \in {"NoteOn", "NoteOff"}
  PROVE  /\ LaunchOf(p) \in Launches /\ LaunchOf(p) # None
         /\ LaunchOf(p).note = p.note /\ LaunchOf(p).launch = p.launch
         /\ LaunchOf(p).gen = p.gen
         /\ p.note \in Notes /\ p.launch \in Nat /\ p.gen \in Nat
  BY ControllerAssumption
     DEF Messages, NoteMessages, RealtimeMessages, Events, LaunchOf, Launch, Launches

LEMMA SeqTypes ==
  ASSUME NEW p \in Messages
  PROVE  p.seq \in Nat /\ p.gen \in Nat /\ p.limit \in Nat
  BY DEF Messages, NoteMessages, RealtimeMessages

LEMMA KnownTypes ==
  ASSUME TypeOK, NEW box \in SUBSET Messages, NEW act \in Launches \cup {None},
         NEW proj \in Launches \cup {None}
  PROVE  Known(box, act, proj) \subseteq Launches
  <1>1. LaunchesOf(OnsOf(box)) \subseteq Launches /\ LaunchesOf(OffsOf(box)) \subseteq Launches
    BY LaunchFields DEF LaunchesOf, OnsOf, OffsOf
  <1>2. queue \subseteq Events /\ \A e \in queue : e.kind \in {"NoteOn", "NoteOff"}
    BY DEF TypeOK, Events
  <1>3. LaunchesOf(queue) \subseteq Launches
    BY <1>2, LaunchFields DEF LaunchesOf
  <1> QED
    BY <1>1, <1>3 DEF Known, Owed

LEMMA CoveredBy ==
  ASSUME NEW box, NEW l
  PROVE  Covered(box, l) <=> \E q \in OffsOf(box) : SameLaunch(q, l)
  BY DEF Covered, HasNoteOff, OffsOf, SameLaunch

(* Between two NoteOns there is an Off of the first, so that they are not  *)
(* of one launch.                                                          *)
LEMMA OneOn ==
  ASSUME NEW box \in SUBSET Messages, Numbered(box), OnBeforeOff(box), OffBetween(box),
         NEW p \in OnsOf(box), NEW r \in OnsOf(box), SameLaunch(p, r)
  PROVE  p = r
  <1>1. ASSUME NEW u \in OnsOf(box), NEW v \in OnsOf(box), SameLaunch(u, v), u.seq < v.seq
        PROVE  FALSE
    <2>1. PICK q \in OffsOf(box) : SameLaunch(u, q) /\ u.seq < q.seq /\ q.seq < v.seq
      BY <1>1 DEF OffBetween, OnsOf, Barrier
    <2>2. v.seq < q.seq
      BY <1>1, <2>1 DEF OnBeforeOff, SameLaunch
    <2>3. q.seq \in Nat /\ v.seq \in Nat
      BY SeqTypes DEF OnsOf, OffsOf
    <2> QED
      BY <2>1, <2>2, <2>3
  <1>2. p \in box /\ r \in box /\ p.seq \in Nat /\ r.seq \in Nat
    BY SeqTypes DEF OnsOf
  <1>3. ~(p.seq < r.seq) /\ ~(r.seq < p.seq)
    BY <1>1 DEF SameLaunch
  <1> QED
    BY <1>2, <1>3 DEF Numbered

(* What is overdue goes: NoteOns and clocks, never an Off.                 *)
LEMMA Expiring ==
  ASSUME TypeOK, NEW box \in SUBSET Messages, NEW act \in Launches \cup {None},
         NEW proj \in Launches \cup {None}, NEW host,
         Accounted(box, act, proj, host),
         NEW left \in SUBSET box, OffsOf(left) = OffsOf(box)
  PROVE  Accounted(left, act, ForgetAny(proj, LaunchesOf(OnsOf(box \ left))), host)
  <1> DEFINE gone == LaunchesOf(OnsOf(box \ left))
             proj2 == ForgetAny(proj, gone)
  <1>1. proj2 \in {None, proj} /\ (proj \notin gone => proj2 = proj)
    BY DEF ForgetAny
  <1> HIDE DEF proj2, gone
  <1>2. OnsOf(left) \subseteq OnsOf(box)
    BY DEF OnsOf
  <1>3. LaunchesOf(OnsOf(left)) \subseteq LaunchesOf(OnsOf(box))
        /\ LaunchesOf(OffsOf(left)) = LaunchesOf(OffsOf(box))
    BY <1>2 DEF LaunchesOf
  <1>4. Owed(left, act) \subseteq Owed(box, act)
    BY <1>3 DEF Owed
  <1>5. Known(left, act, proj2) \subseteq Known(box, act, proj)
    BY <1>1, <1>3, <1>4 DEF Known
  <1>6. Numbered(left)
    BY FS_Subset DEF Accounted, Numbered
  <1>7. OneLaunch(left, act, proj2)
    BY <1>5 DEF Accounted, OneLaunch
  <1>8. Current(left, act, proj2)
    BY <1>5, Zenon DEF Accounted, Current
  <1>9. Unsent(left, act, proj2)
    <2> SUFFICES ASSUME NEW e \in queue, e.kind = "NoteOn"
                 PROVE  /\ LaunchOf(e) \notin Owed(left, act) \cup {proj2}
                        /\ e.at < e.gate => LaunchOf(e) \notin LaunchesOf(OffsOf(left))
      BY DEF Unsent
    <2>1. LaunchOf(e) # None
      BY LaunchFields DEF TypeOK
    <2> QED
      BY <1>1, <1>3, <1>4, <2>1 DEF Accounted, Unsent
  <1>10. \A l : Covered(left, l) <=> Covered(box, l)
    BY CoveredBy
  <1>11. Few(box) => Few(left)
    <2>1. IsFiniteSet(box) /\ NormalCapacity \in Nat
      BY OutboxAssumption DEF Accounted, Numbered
    <2>2. Cardinality(left) \in Nat /\ Cardinality(box) \in Nat
          /\ Cardinality(left) <= Cardinality(box)
      BY <2>1, FS_Subset, FS_CardinalityType
    <2> QED
      BY <2>1, <2>2 DEF Few
  <1>12. ActualIsOwed(left, act, proj2)
    BY <1>1, <1>10, <1>11 DEF Accounted, ActualIsOwed
  <1>13. PendingIsOwed(left, proj2)
    <2> SUFFICES ASSUME NEW p \in OnsOf(left), ~Covered(left, p)
                 PROVE  proj2 = LaunchOf(p) /\ Few(left)
      BY DEF PendingIsOwed
    <2>1. p \in OnsOf(box) /\ proj = LaunchOf(p) /\ Few(left)
      BY <1>2, <1>10, <1>11 DEF Accounted, PendingIsOwed
    <2>2. proj \notin gone
      <3> SUFFICES ASSUME NEW r \in OnsOf(box \ left), LaunchOf(r) = LaunchOf(p) PROVE FALSE
        BY <2>1 DEF gone, LaunchesOf
      <3>1. r \in OnsOf(box) /\ SameLaunch(p, r)
        BY LaunchFields, <2>1 DEF OnsOf, SameLaunch
      <3>2. p = r
        BY <2>1, <3>1, OneOn DEF Accounted
      <3> QED
        BY <3>2 DEF OnsOf
    <2> QED
      BY <1>1, <2>1, <2>2
  <1>14. OnBeforeOff(left)
    BY <1>2 DEF Accounted, OnBeforeOff
  <1>15. OffBetween(left)
    BY <1>2 DEF Accounted, OffBetween
  <1>16. OffBefore(left, host)
    BY DEF Accounted, OffBefore
  <1>17. HostHears(left, act, host)
    BY DEF Accounted, HostHears
  <1>18. OneOff(left)
    BY DEF Accounted, OneOff
  <1> QED
    BY <1>6, <1>7, <1>8, <1>9, <1>12, <1>13, <1>14, <1>15, <1>16, <1>17, <1>18
       DEF Accounted, proj2, gone

(* The front of the outbox is accepted: before a NoteOn, a Start or a Stop *)
(* every note has been silenced.                                           *)
LEMMA SilentBarrier ==
  ASSUME NEW box \in SUBSET Messages, NEW host, OffBefore(box, host),
         NEW p \in box, \A q \in box : p.seq <= q.seq, Barrier(p)
  PROVE  host = {}
  <1> SUFFICES ASSUME NEW n \in host PROVE FALSE
    OBVIOUS
  <1>1. PICK q \in OffsOf(box) : q.seq < p.seq
    BY DEF OffBefore
  <1>2. q \in box /\ p.seq <= q.seq /\ p.seq \in Nat /\ q.seq \in Nat
    BY SeqTypes DEF OffsOf
  <1> QED
    BY <1>1, <1>2

(* Taking one message out of the outbox.                                   *)
LEMMA TakingOne ==
  ASSUME TypeOK, NEW box \in SUBSET Messages, NEW p \in box, Numbered(box)
  PROVE  /\ Numbered(box \ {p})
         /\ Few(box) => Few(box \ {p})
         /\ p.kind # "NoteOff" => OffsOf(box \ {p}) = OffsOf(box)
         /\ OnsOf(box \ {p}) \subseteq OnsOf(box) /\ OffsOf(box \ {p}) \subseteq OffsOf(box)
  <1>1. Numbered(box \ {p})
    BY FS_Subset DEF Numbered
  <1>2. Few(box) => Few(box \ {p})
    <2>1. IsFiniteSet(box) /\ NormalCapacity \in Nat
      BY OutboxAssumption DEF Numbered
    <2>2. Cardinality(box \ {p}) \in Nat /\ Cardinality(box) \in Nat
          /\ Cardinality(box \ {p}) <= Cardinality(box)
      BY <2>1, FS_Subset, FS_CardinalityType
    <2> QED
      BY <2>1, <2>2 DEF Few
  <1> QED
    BY <1>1, <1>2 DEF OffsOf, OnsOf

LEMMA AcceptingOn ==
  ASSUME TypeOK, NEW box \in SUBSET Messages, NEW act \in Launches \cup {None},
         NEW proj \in Launches \cup {None}, NEW host,
         Accounted(box, act, proj, host),
         \A m \in box : Musical(m) => running /\ m.gen = sessionGen,
         NEW p \in box, \A q \in box : p.seq <= q.seq, p.kind = "NoteOn"
  PROVE  Accounted(box \ {p}, LaunchOf(p), ProjectedAfterOnAccepted(proj, LaunchOf(p)),
                   host \cup {p.note})
  <1> DEFINE left == box \ {p}
             act2 == LaunchOf(p)
             proj2 == ProjectedAfterOnAccepted(proj, act2)
             host2 == host \cup {p.note}
  <1>1. /\ p \in OnsOf(box) /\ act2 \in LaunchesOf(OnsOf(box)) /\ act2 # None
        /\ act2 \in Launches /\ p.seq \in Nat
        /\ act2.note = p.note /\ act2.launch = p.launch /\ act2.gen = p.gen
    BY LaunchFields, SeqTypes DEF OnsOf, LaunchesOf
  <1>2. proj2 \in {act2, proj} /\ proj2 # None
    BY <1>1 DEF ProjectedAfterOnAccepted
  <1>3. host = {} /\ host2 = {p.note}
    BY SilentBarrier DEF Accounted, Barrier
  <1>4. /\ Numbered(left) /\ (Few(box) => Few(left)) /\ OffsOf(left) = OffsOf(box)
        /\ OnsOf(left) \subseteq OnsOf(box)
    BY TakingOne DEF Accounted
  <1>5. LaunchesOf(OnsOf(left)) \subseteq LaunchesOf(OnsOf(box))
        /\ LaunchesOf(OffsOf(left)) = LaunchesOf(OffsOf(box))
    BY <1>4 DEF LaunchesOf
  <1>6. Owed(left, act2) \subseteq Owed(box, act)
    BY <1>1, <1>5 DEF Owed
  <1>7. Known(left, act2, proj2) \subseteq Known(box, act, proj)
    BY <1>1, <1>2, <1>5, <1>6 DEF Known, Owed
  <1>8. OneLaunch(left, act2, proj2) /\ Current(left, act2, proj2)
    BY <1>7, Zenon DEF Accounted, OneLaunch, Current
  <1>9. Unsent(left, act2, proj2)
    BY <1>1, <1>2, <1>5, <1>6 DEF Accounted, Unsent, Owed
  <1>10. \A l : Covered(left, l) <=> Covered(box, l)
    BY <1>4, CoveredBy
  <1>11. p.gen = sessionGen /\ running
    BY DEF Musical
  <1>12. ActualIsOwed(left, act2, proj2)
    <2>1. CASE Covered(box, p)
      <3>1. Covered(left, act2)
        BY <1>1, <1>4, <2>1, CoveredBy DEF SameLaunch
      <3> QED
        BY <3>1 DEF ActualIsOwed
    <2>2. CASE proj = LaunchOf(p) /\ Few(box)
      <3>1. proj2 = act2
        BY <1>2, <2>2
      <3> QED
        BY <1>1, <1>4, <1>11, <2>2, <3>1 DEF ActualIsOwed
    <2> QED
      BY <1>1, <2>1, <2>2 DEF Accounted, PendingIsOwed
  <1>13. PendingIsOwed(left, proj2)
    <2> SUFFICES ASSUME NEW r \in OnsOf(left), ~Covered(left, r)
                 PROVE  proj2 = LaunchOf(r) /\ Few(left)
      BY DEF PendingIsOwed
    <2>1. r \in OnsOf(box) /\ r # p /\ proj = LaunchOf(r) /\ Few(left)
      BY <1>4, <1>10 DEF Accounted, PendingIsOwed, OnsOf
    <2>2. r.gen = sessionGen /\ LaunchOf(r).launch = r.launch /\ LaunchOf(r) # None
      BY <2>1, LaunchFields DEF OnsOf, Musical
    <2>3. r.launch # p.launch
      BY <1>1, <1>11, <2>1, <2>2, OneOn DEF Accounted, SameLaunch
    <2> QED
      BY <1>1, <2>1, <2>2, <2>3 DEF ProjectedAfterOnAccepted
  <1>14. OnBeforeOff(left)
    BY <1>4 DEF Accounted, OnBeforeOff
  <1>15. OffBetween(left)
    BY <1>4 DEF Accounted, OffBetween
  <1>16. OffBefore(left, host2)
    <2> SUFFICES ASSUME NEW b \in left, Barrier(b)
                 PROVE  \E q \in OffsOf(left) : q.note = p.note /\ q.seq < b.seq
      BY <1>3 DEF OffBefore
    <2>1. b \in box /\ b # p /\ p.seq <= b.seq /\ b.seq \in Nat
      BY SeqTypes
    <2>2. p.seq < b.seq
      BY <1>1, <2>1 DEF Accounted, Numbered
    <2>3. PICK q \in OffsOf(box) : SameLaunch(p, q) /\ q.seq < b.seq
      BY <1>1, <2>1, <2>2 DEF Accounted, OffBetween
    <2>4. LaunchOf(q).note = q.note /\ SameLaunch(LaunchOf(p), LaunchOf(q))
      BY <1>1, <2>3, LaunchFields DEF OffsOf, SameLaunch
    <2>5. LaunchOf(q) \in Known(box, act, proj) /\ LaunchOf(p) \in Known(box, act, proj)
      BY <1>1, <2>3 DEF Known, Owed, LaunchesOf
    <2>6. LaunchOf(p) = LaunchOf(q)
      BY <2>4, <2>5 DEF Accounted, OneLaunch
    <2> QED
      BY <1>1, <1>4, <2>3, <2>4, <2>6
  <1>17. HostHears(left, act2, host2)
    BY <1>1, <1>3 DEF HostHears
  <1>18. OneOff(left)
    BY <1>4 DEF Accounted, OneOff
  <1> HIDE DEF left, act2, proj2, host2
  <1>19. Accounted(left, act2, proj2, host2)
    BY <1>4, <1>8, <1>9, <1>12, <1>13, <1>14, <1>15, <1>16, <1>17, <1>18 DEF Accounted
  <1> QED
    BY <1>19 DEF left, act2, proj2, host2

LEMMA AcceptingOff ==
  ASSUME TypeOK, NEW box \in SUBSET Messages, NEW act \in Launches \cup {None},
         NEW proj \in Launches \cup {None}, NEW host,
         Accounted(box, act, proj, host),
         NEW p \in box, \A q \in box : p.seq <= q.seq, p.kind = "NoteOff"
  PROVE  Accounted(box \ {p}, Forget(act, LaunchOf(p)), Forget(proj, LaunchOf(p)),
                   host \ {p.note})
  <1> DEFINE left == box \ {p}
             l == LaunchOf(p)
             act2 == Forget(act, l)
             proj2 == Forget(proj, l)
             host2 == host \ {p.note}
  <1>1. /\ p \in OffsOf(box) /\ l \in LaunchesOf(OffsOf(box)) /\ l # None
        /\ l \in Launches /\ p.seq \in Nat
        /\ l.note = p.note /\ l.launch = p.launch /\ l.gen = p.gen
    BY LaunchFields, SeqTypes DEF OffsOf, LaunchesOf
  <1>2. /\ act2 = IF act = l THEN None ELSE act
        /\ proj2 = IF proj = l THEN None ELSE proj
    BY DEF Forget
  <1> HIDE DEF act2, proj2
  <1>3. /\ Numbered(left) /\ (Few(box) => Few(left))
        /\ OnsOf(left) = OnsOf(box) /\ OffsOf(left) = OffsOf(box) \ {p}
    <2>1. Numbered(left) /\ (Few(box) => Few(left))
      BY TakingOne DEF Accounted
    <2> QED
      BY <2>1 DEF OnsOf, OffsOf
  <1>4. LaunchesOf(OnsOf(left)) = LaunchesOf(OnsOf(box))
        /\ LaunchesOf(OffsOf(left)) \subseteq LaunchesOf(OffsOf(box))
    BY <1>3 DEF LaunchesOf
  <1>5. Owed(left, act2) \subseteq Owed(box, act)
    BY <1>2, <1>4 DEF Owed
  <1>6. Known(left, act2, proj2) \subseteq Known(box, act, proj)
    BY <1>2, <1>4, <1>5 DEF Known
  <1>7. OneLaunch(left, act2, proj2) /\ Current(left, act2, proj2)
    BY <1>6, Zenon DEF Accounted, OneLaunch, Current
  <1>8. Unsent(left, act2, proj2)
    <2> SUFFICES ASSUME NEW e \in queue, e.kind = "NoteOn"
                 PROVE  /\ LaunchOf(e) \notin Owed(left, act2) \cup {proj2}
                        /\ e.at < e.gate => LaunchOf(e) \notin LaunchesOf(OffsOf(left))
      BY DEF Unsent
    <2>1. LaunchOf(e) # None
      BY LaunchFields DEF TypeOK
    <2> QED
      BY <1>2, <1>4, <1>5, <2>1 DEF Accounted, Unsent
  (* Another launch is covered by another Off. *)
  <1>9. ASSUME NEW k \in Known(box, act, proj), k # l, Covered(box, k)
        PROVE  Covered(left, k)
    <2>1. PICK q \in OffsOf(box) : SameLaunch(q, k)
      BY <1>9, CoveredBy
    <2>2. q # p
      <3> SUFFICES ASSUME q = p PROVE FALSE
        OBVIOUS
      <3>1. l \in Known(box, act, proj) /\ SameLaunch(l, k)
        BY <1>1, <2>1 DEF Known, SameLaunch
      <3> QED
        BY <1>9, <3>1 DEF Accounted, OneLaunch
    <2> QED
      BY <1>3, <2>1, <2>2, CoveredBy
  <1>10. ASSUME NEW r \in OnsOf(box), NEW q \in OffsOf(box), SameLaunch(r, q)
         PROVE  q # p
    <2>1. r.seq < q.seq /\ p.seq <= r.seq /\ r.seq \in Nat
      BY <1>10, SeqTypes DEF Accounted, OnBeforeOff, OnsOf
    <2> QED
      BY <1>1, <2>1
  <1>11. ActualIsOwed(left, act2, proj2)
    <2> SUFFICES ASSUME act2 # None, ~Covered(left, act2)
                 PROVE  running /\ act2.gen = sessionGen /\ proj2 \in {None, act2} /\ Few(left)
      BY DEF ActualIsOwed
    <2>1. act2 = act /\ act # l /\ act \in Known(box, act, proj) /\ act # None
      BY <1>2 DEF Known, Owed
    <2>2. ~Covered(box, act)
      BY <1>9, <2>1
    <2> QED
      BY <1>2, <1>3, <2>1, <2>2 DEF Accounted, ActualIsOwed
  <1>12. PendingIsOwed(left, proj2)
    <2> SUFFICES ASSUME NEW r \in OnsOf(box), ~Covered(left, r)
                 PROVE  proj2 = LaunchOf(r) /\ Few(left)
      BY <1>3 DEF PendingIsOwed
    <2>1. ~Covered(box, r)
      <3> SUFFICES ASSUME NEW q \in OffsOf(box), SameLaunch(q, r) PROVE FALSE
        BY CoveredBy
      <3>1. q # p
        BY <1>10 DEF SameLaunch
      <3> QED
        BY <1>3, <3>1, CoveredBy
    <2>2. proj = LaunchOf(r) /\ Few(left)
      BY <1>3, <2>1 DEF Accounted, PendingIsOwed
    <2>3. LaunchOf(r).gen = r.gen /\ LaunchOf(r).launch = r.launch
      BY LaunchFields DEF OnsOf
    <2>4. LaunchOf(r) # l
      BY <1>1, <2>1, <2>3, CoveredBy DEF SameLaunch
    <2> QED
      BY <1>2, <2>2, <2>4
  <1>13. OnBeforeOff(left)
    BY <1>3 DEF Accounted, OnBeforeOff
  <1>14. OffBetween(left)
    <2> SUFFICES ASSUME NEW r \in OnsOf(box), NEW b \in left, Barrier(b), r.seq < b.seq
                 PROVE  \E q \in OffsOf(left) :
                          SameLaunch(r, q) /\ r.seq < q.seq /\ q.seq < b.seq
      BY <1>3 DEF OffBetween
    <2>1. PICK q \in OffsOf(box) : SameLaunch(r, q) /\ r.seq < q.seq /\ q.seq < b.seq
      BY DEF Accounted, OffBetween
    <2> QED
      BY <1>3, <1>10, <2>1
  <1>15. OffBefore(left, host2)
    <2> SUFFICES ASSUME NEW n \in host2, NEW b \in left, Barrier(b)
                 PROVE  \E q \in OffsOf(left) : q.note = n /\ q.seq < b.seq
      BY DEF OffBefore
    <2>1. PICK q \in OffsOf(box) : q.note = n /\ q.seq < b.seq
      BY DEF Accounted, OffBefore
    <2> QED
      BY <1>3, <2>1
  <1>16. HostHears(left, act2, host2)
    <2>1. act2 # None => host2 \subseteq {act2.note}
      BY <1>2 DEF Accounted, HostHears
    <2>2. ASSUME act2 = None, NEW n \in host2 PROVE \E q \in OffsOf(left) : q.note = n
      <3>1. act = None
        <4> SUFFICES ASSUME act # None PROVE FALSE
          OBVIOUS
        <4>1. act = l /\ n = p.note
          BY <1>1, <1>2, <2>2 DEF Accounted, HostHears
        <4> QED
          BY <2>2, <4>1
      <3>2. PICK q \in OffsOf(box) : q.note = n
        BY <2>2, <3>1 DEF Accounted, HostHears
      <3> QED
        BY <1>3, <2>2, <3>2
    <2>3. \A m, n \in host2 : m = n
      BY DEF Accounted, HostHears
    <2> QED
      BY <2>1, <2>2, <2>3 DEF HostHears
  <1>17. OneOff(left)
    BY <1>3 DEF Accounted, OneOff
  <1> HIDE DEF left, host2
  <1>18. Accounted(left, act2, proj2, host2)
    BY <1>3, <1>7, <1>8, <1>11, <1>12, <1>13, <1>14, <1>15, <1>16, <1>17 DEF Accounted
  <1> QED
    BY <1>18 DEF left, act2, proj2, host2

LEMMA AcceptingOther ==
  ASSUME TypeOK, NEW box \in SUBSET Messages, NEW act \in Launches \cup {None},
         NEW proj \in Launches \cup {None}, NEW host,
         Accounted(box, act, proj, host),
         NEW p \in box, p.kind \notin {"NoteOn", "NoteOff"}
  PROVE  Accounted(box \ {p}, act, proj, host)
  <1> DEFINE left == box \ {p}
  <1>1. OnsOf(left) = OnsOf(box) /\ OffsOf(left) = OffsOf(box)
    BY DEF OnsOf, OffsOf
  <1>2. Numbered(left) /\ (Few(box) => Few(left)) /\ left \subseteq box
    BY TakingOne DEF Accounted
  <1> HIDE DEF left
  <1>3. /\ Owed(left, act) = Owed(box, act)
        /\ Known(left, act, proj) = Known(box, act, proj)
        /\ \A l : Covered(left, l) <=> Covered(box, l)
    BY <1>1, CoveredBy DEF Known, Owed
  <1>4. OneLaunch(left, act, proj) /\ Current(left, act, proj) /\ Unsent(left, act, proj)
    BY <1>1, <1>3, Zenon DEF Accounted, OneLaunch, Current, Unsent
  <1>5. ActualIsOwed(left, act, proj) /\ PendingIsOwed(left, proj)
    BY <1>1, <1>2, <1>3 DEF Accounted, ActualIsOwed, PendingIsOwed
  <1>6. OnBeforeOff(left) /\ OffBetween(left) /\ OffBefore(left, host)
    BY <1>1, <1>2 DEF Accounted, OnBeforeOff, OffBetween, OffBefore
  <1>7. HostHears(left, act, host) /\ OneOff(left)
    BY <1>1 DEF Accounted, HostHears, OneOff
  <1> QED
    BY <1>2, <1>4, <1>5, <1>6, <1>7 DEF Accounted, left

-----------------------------------------------------------------------------
(***************************************************************************)
(* Sending                                                                 *)
(***************************************************************************)
LEMMA LiveIsAccounted ==
  ASSUME SessionInv, Accounted(outbox, actual, projected, hostNotes)
  PROVE  /\ Accounted(Live, actual, ProjectedLive, hostNotes)
         /\ Live \subseteq outbox /\ Live \subseteq Messages
         /\ ProjectedLive \in Launches \cup {None}
         /\ \A m \in Live : Musical(m) => running /\ m.gen = sessionGen
  <1>1. TypeOK /\ Live \subseteq outbox /\ Live \subseteq Messages
        /\ outbox \subseteq Messages /\ actual \in Launches \cup {None}
        /\ projected \in Launches \cup {None}
    BY DEF SessionInv, TypeOK, Live
  <1>2. OffsOf(Live) = OffsOf(outbox)
    BY DEF OffsOf, Live, Overdue
  <1>3. Accounted(Live, actual, ForgetAny(projected, LaunchesOf(OnsOf(outbox \ Live))),
                  hostNotes)
    BY <1>1, <1>2, Expiring
  <1>4. OverdueLaunches = LaunchesOf(OnsOf(outbox \ Live))
    BY DEF OverdueLaunches, LaunchesOf, OnsOf, LaunchOf
  <1>5. ProjectedLive = ForgetAny(projected, LaunchesOf(OnsOf(outbox \ Live)))
    BY <1>4 DEF ProjectedLive
  <1>6. ProjectedLive \in Launches \cup {None}
    BY <1>1, LiveTypes
  <1>7. \A m \in Live : Musical(m) => running /\ m.gen = sessionGen
    BY <1>1 DEF SessionInv, MusicIsLive
  <1> QED
    BY <1>1, <1>3, <1>5, <1>6, <1>7

(* A step that changes only the four arguments, or nothing that is told.   *)
LEMMA AccountedThen ==
  ASSUME NEW box, NEW act, NEW proj, NEW host, Accounted(box, act, proj, host),
         outbox' = box, actual' = act, projected' = proj, hostNotes' = host,
         UNCHANGED <<queue, nextSeq, sessionGen, running, seqRunning, nextBoundary>>
  PROVE  Accounted(outbox, actual, projected, hostNotes)'
  <1>1. Numbered(outbox)' /\ OneOff(outbox)'
    BY DEF Accounted, Numbered, OneOff
  <1>2. Known(outbox, actual, projected)' = Known(box, act, proj)
    BY DEF Known, Owed
  <1>3. OneLaunch(outbox, actual, projected)' /\ Current(outbox, actual, projected)'
    BY <1>2 DEF Accounted, OneLaunch, Current
  <1>4. Unsent(outbox, actual, projected)'
    BY DEF Accounted, Unsent
  <1>5. ActualIsOwed(outbox, actual, projected)' /\ PendingIsOwed(outbox, projected)'
    BY DEF Accounted, ActualIsOwed, PendingIsOwed
  <1>6. OnBeforeOff(outbox)' /\ OffBetween(outbox)' /\ OffBefore(outbox, hostNotes)'
    BY DEF Accounted, OnBeforeOff, OffBetween, OffBefore
  <1>7. HostHears(outbox, actual, hostNotes)'
    BY DEF Accounted, HostHears
  <1> QED
    BY <1>1, <1>3, <1>4, <1>5, <1>6, <1>7 DEF Accounted

LEMMA PlannedSame ==
  ASSUME Planned, queue' \subseteq queue, UNCHANGED seqRunning \/ queue' = {} \/ seqRunning'
  PROVE  Planned'
  BY DEF Planned

LEMMA NoteSame ==
  ASSUME NoteInv, FlagInv',
         UNCHANGED <<outbox, actual, projected, hostNotes, queue, nextSeq, sessionGen,
                     running, seqRunning, nextBoundary>>,
         outcome' = outcome \/ outcome' # "Disconnected"
  PROVE  NoteInv'
  <1>1. Accounted(outbox, actual, projected, hostNotes)'
    BY AccountedThen DEF NoteInv
  <1>2. Planned' /\ CutIsSilent'
    BY DEF NoteInv, Planned, CutIsSilent
  <1> QED
    BY <1>1, <1>2 DEF NoteInv

LEMMA NoteDelivery ==
  ASSUME NoteInv, FlagInv', Delivery
  PROVE  NoteInv'
  <1> USE DEF transportVars, plannerVars, passVars, outboxVars, noteVars, hostVars,
              sessionVars
  <1>1. SessionInv /\ TypeOK /\ Accounted(outbox, actual, projected, hostNotes)
    BY DEF NoteInv, FlagInv, SessionInv
  <1>2. CASE ServiceEnded \/ RetryWindowExceeded
    <2>1. UNCHANGED <<outbox, actual, projected, hostNotes, queue, nextSeq, sessionGen,
                      running, seqRunning, nextBoundary>>
          /\ (outcome' = outcome \/ outcome' # "Disconnected")
      BY <1>2 DEF ServiceEnded, RetryWindowExceeded
    <2> QED
      BY <2>1, NoteSame
  <1>3. CASE OutboxDrained \/ SendRetryLater \/ SendDisconnected \/ SendAccepted
    <2>1. UNCHANGED <<queue, nextSeq, sessionGen, running, seqRunning, nextBoundary>>
          /\ outcome = "None"
      BY <1>3, Zenon DEF OutboxDrained, SendRetryLater, SendDisconnected, SendAccepted,
                         Attempt, CanSend
    <2>2. Planned'
      BY <2>1, PlannedSame DEF NoteInv
    <2>3. /\ Accounted(Live, actual, ProjectedLive, hostNotes)
          /\ Live \in SUBSET Messages /\ ProjectedLive \in Launches \cup {None}
          /\ \A m \in Live : Musical(m) => running /\ m.gen = sessionGen
          /\ actual \in Launches \cup {None}
      BY <1>1, LiveIsAccounted DEF TypeOK
    <2>4. CASE OutboxDrained \/ SendRetryLater
      <3>1. outbox' = Live /\ projected' = ProjectedLive /\ UNCHANGED <<actual, hostNotes>>
            /\ outcome' = outcome
        BY <2>4, Zenon DEF OutboxDrained, SendRetryLater
      <3>2. Accounted(outbox, actual, projected, hostNotes)'
        BY <2>1, <2>3, <3>1, AccountedThen
      <3>3. CutIsSilent'
        BY <2>1, <3>1 DEF CutIsSilent
      <3> QED
        BY <2>2, <3>2, <3>3 DEF NoteInv
    <2>5. CASE SendDisconnected
      <3>1. outbox' = Live /\ projected' = ProjectedLive /\ hostNotes' = {}
            /\ actual' = actual
        BY <2>5, Zenon DEF SendDisconnected
      <3>2. Accounted(Live, actual, ProjectedLive, {})
        BY <2>3 DEF Accounted, OffBefore, HostHears
      <3>3. Accounted(outbox, actual, projected, hostNotes)'
        BY <2>1, <3>1, <3>2, AccountedThen
      <3> QED
        BY <2>2, <3>1, <3>3 DEF NoteInv, CutIsSilent
    <2>6. CASE SendAccepted
      <3> DEFINE p == OutboxFront(Live)
      <3>1. /\ outbox' = Live \ {p} /\ Live # {} /\ UNCHANGED outcome
            /\ NoteAccepted(p) /\ HostReceives(p)
        BY <2>6, Zenon DEF SendAccepted, Attempt
      <3>2. p \in Live /\ \A q \in Live : p.seq <= q.seq
        BY <2>3, <3>1, FrontOfOutbox
      <3> HIDE DEF p
      <3>3. p.kind = "NoteOn" => Accounted(outbox, actual, projected, hostNotes)'
        <4> SUFFICES ASSUME p.kind = "NoteOn"
                     PROVE  Accounted(outbox, actual, projected, hostNotes)'
          OBVIOUS
        <4>1. /\ actual' = LaunchOf(p) /\ hostNotes' = hostNotes \cup {p.note}
              /\ projected' = ProjectedAfterOnAccepted(ProjectedLive, LaunchOf(p))
          BY <3>1 DEF NoteAccepted, HostReceives
        <4>2. Accounted(Live \ {p}, LaunchOf(p),
                        ProjectedAfterOnAccepted(ProjectedLive, LaunchOf(p)),
                        hostNotes \cup {p.note})
          BY <1>1, <2>3, <3>2, AcceptingOn
        <4> QED
          BY <2>1, <3>1, <4>1, <4>2, AccountedThen
      <3>4. p.kind = "NoteOff" => Accounted(outbox, actual, projected, hostNotes)'
        <4> SUFFICES ASSUME p.kind = "NoteOff"
                     PROVE  Accounted(outbox, actual, projected, hostNotes)'
          OBVIOUS
        <4>1. /\ actual' = Forget(actual, LaunchOf(p)) /\ hostNotes' = hostNotes \ {p.note}
              /\ projected' = Forget(ProjectedLive, LaunchOf(p))
          BY <3>1 DEF NoteAccepted, HostReceives
        <4>2. Accounted(Live \ {p}, Forget(actual, LaunchOf(p)),
                        Forget(ProjectedLive, LaunchOf(p)), hostNotes \ {p.note})
          BY <1>1, <2>3, <3>2, AcceptingOff
        <4> QED
          BY <2>1, <3>1, <4>1, <4>2, AccountedThen
      <3>5. p.kind \notin {"NoteOn", "NoteOff"} => Accounted(outbox, actual, projected, hostNotes)'
        <4> SUFFICES ASSUME p.kind \notin {"NoteOn", "NoteOff"}
                     PROVE  Accounted(outbox, actual, projected, hostNotes)'
          OBVIOUS
        <4>1. UNCHANGED <<actual, hostNotes>> /\ projected' = ProjectedLive
          BY <3>1 DEF NoteAccepted, HostReceives
        <4>2. Accounted(Live \ {p}, actual, ProjectedLive, hostNotes)
          BY <1>1, <2>3, <3>2, AcceptingOther
        <4> QED
          BY <2>1, <3>1, <4>1, <4>2, AccountedThen
      <3>6. Accounted(outbox, actual, projected, hostNotes)'
        BY <3>3, <3>4, <3>5
      <3> QED
        BY <2>1, <2>2, <3>1, <3>6 DEF NoteInv, CutIsSilent
    <2> QED
      BY <1>3, <2>4, <2>5, <2>6
  <1> QED
    BY <1>2, <1>3 DEF Delivery

-----------------------------------------------------------------------------
(***************************************************************************)
(* Ends and starts of a session                                            *)
(***************************************************************************)
(* With the sounding launch covered, every note the host holds has its Off *)
(* pending.                                                                *)
LEMMA EachHasOff ==
  ASSUME TypeOK, Accounted(outbox, actual, projected, hostNotes),
         NEW box \in SUBSET Messages, OffsOf(outbox) \subseteq OffsOf(box),
         LaunchesOf(OffsOf(box)) \subseteq Known(outbox, actual, projected),
         actual # None => Covered(box, actual)
  PROVE  \A n \in hostNotes : \E q \in OffsOf(box) : q.note = n
  <1> SUFFICES ASSUME NEW n \in hostNotes PROVE \E q \in OffsOf(box) : q.note = n
    OBVIOUS
  <1>1. CASE actual = None
    <2>1. PICK q \in OffsOf(outbox) : q.note = n
      BY <1>1 DEF Accounted, HostHears
    <2> QED
      BY <2>1
  <1>2. CASE actual # None
    <2>1. n = actual.note
      BY <1>2 DEF Accounted, HostHears
    <2>2. PICK q \in OffsOf(box) : SameLaunch(q, actual)
      BY <1>2, CoveredBy
    <2>3. /\ LaunchOf(q) \in Known(outbox, actual, projected)
          /\ actual \in Known(outbox, actual, projected)
      BY <1>2, <2>2 DEF LaunchesOf, Known, Owed
    <2>4. LaunchOf(q).note = q.note /\ SameLaunch(LaunchOf(q), actual)
      BY <2>2, LaunchFields DEF OffsOf, SameLaunch
    <2>5. LaunchOf(q) = actual
      BY <2>3, <2>4 DEF Accounted, OneLaunch
    <2> QED
      BY <2>1, <2>2, <2>4, <2>5
  <1> QED
    BY <1>1, <1>2

(* The outbox a stop leaves: no NoteOn, every Off, and behind them at most *)
(* the Off of the sounding launch and a Stop.                              *)
EndedBox == IF terminalGen = sessionGen THEN outbox ELSE WithTerminalStop

LEMMA EndedBoxIs ==
  ASSUME NoteInv
  PROVE  /\ OnsOf(EndedBox) = {}
         /\ IsFiniteSet(EndedBox)
         /\ OffsOf(outbox) \subseteq OffsOf(EndedBox)
         /\ \A q \in OffsOf(EndedBox) : q \in OffsOf(outbox) \/
              /\ q.seq = nextSeq /\ LaunchOf(q) = actual /\ actual # None
              /\ ~Covered(outbox, actual) /\ terminalGen # sessionGen
         /\ \A p \in EndedBox : p \in outbox \/ p \in OffsOf(EndedBox) \/
              /\ p.seq = nextSeq + 1 /\ p.kind = "Stop" /\ terminalGen # sessionGen
         /\ \A p, q \in EndedBox : p.seq = q.seq => p = q
         /\ actual # None => Covered(EndedBox, actual)
  <1> DEFINE off == Pending(nextSeq, "NoteOff", actual.note, actual.launch, sessionGen, 0, TRUE)
             halt == Pending(nextSeq + 1, "Stop", None, 0, sessionGen, 0, TRUE)
  <1>1. /\ TypeOK /\ SessionInv /\ Accounted(outbox, actual, projected, hostNotes)
        /\ outbox \subseteq Messages /\ nextSeq \in Nat /\ sessionGen \in Nat
        /\ actual \in Launches \cup {None}
    BY DEF NoteInv, FlagInv, SessionInv, TypeOK
  <1>2. IsFiniteSet(outbox) /\ \A p \in outbox : p.seq < nextSeq /\ p.seq \in Nat
    BY <1>1, SeqTypes DEF Accounted, Numbered
  <1>3. CASE terminalGen = sessionGen
    <2>1. EndedBox = outbox /\ ~running
      BY <1>1, <1>3 DEF EndedBox, SessionInv, EndedIsStopped
    <2>2. OnsOf(outbox) = {}
      BY <1>1, <2>1 DEF SessionInv, MusicIsLive, Musical, OnsOf
    <2>3. actual # None => Covered(outbox, actual)
      BY <1>1, <2>1 DEF Accounted, ActualIsOwed
    <2> QED
      BY <1>1, <1>2, <2>1, <2>2, <2>3 DEF Accounted, Numbered
  <1>4. CASE terminalGen # sessionGen
    <2>1. /\ Kept \subseteq outbox /\ OffsOf(Kept) = OffsOf(outbox) /\ OnsOf(Kept) = {}
      BY <1>1 DEF Kept, Cancelled, OffsOf, OnsOf, SessionInv, MusicIsLive, Musical
    <2>2. \A l : Covered(Kept, l) <=> Covered(outbox, l)
      BY <2>1, CoveredBy
    <2>3. IsFiniteSet(Kept) /\ Cardinality(Kept) <= Cardinality(outbox)
          /\ Cardinality(Kept) \in Nat /\ Cardinality(outbox) \in Nat
      BY <1>2, <2>1, FS_Subset, FS_CardinalityType
    <2>4. TerminalOffDue <=> actual # None /\ ~Covered(outbox, actual)
      BY <2>2 DEF TerminalOffDue, Covered
    <2>5. TerminalOffDue => HasRoom(Kept, Capacity) /\ actual.gen = sessionGen
      <3> SUFFICES ASSUME TerminalOffDue
                   PROVE  Cardinality(Kept) < Capacity /\ actual.gen = sessionGen
        BY DEF HasRoom
      <3>1. actual.gen = sessionGen /\ Few(outbox)
        BY <1>1, <2>4 DEF Accounted, ActualIsOwed
      <3> QED
        BY <2>3, <3>1, OutboxAssumption DEF Few, Capacity
    <2>6. WithTerminalOff = IF TerminalOffDue THEN Kept \cup {off} ELSE Kept
      BY <2>5 DEF WithTerminalOff, Push
    <2>7. \/ EndedBox = WithTerminalOff
          \/ EndedBox = WithTerminalOff \cup {halt}
      BY <1>4 DEF EndedBox, WithTerminalStop, Push
    <2>8. /\ off.kind = "NoteOff" /\ off.seq = nextSeq /\ off.launch = actual.launch
          /\ off.gen = sessionGen /\ off.note = actual.note
          /\ halt.kind = "Stop" /\ halt.seq = nextSeq + 1
      BY DEF Pending
    <2>9. TerminalOffDue => LaunchOf(off) = actual
      BY <1>1, <2>4, <2>5, <2>8 DEF LaunchOf, Launch, Launches
    <2> HIDE DEF off, halt
    <2>10. OnsOf(EndedBox) = {}
           /\ OffsOf(EndedBox) = OffsOf(outbox) \cup (IF TerminalOffDue THEN {off} ELSE {})
      <3>1. /\ OnsOf(WithTerminalOff) = {}
            /\ OffsOf(WithTerminalOff)
                 = OffsOf(outbox) \cup (IF TerminalOffDue THEN {off} ELSE {})
        BY <2>1, <2>6, <2>8 DEF OnsOf, OffsOf
      <3> QED
        BY <2>7, <2>8, <3>1 DEF OnsOf, OffsOf
    <2>11. EndedBox \subseteq Kept \cup OffsOf(EndedBox) \cup {halt}
      BY <2>6, <2>7, <2>10
    <2>12. IsFiniteSet(EndedBox)
      BY <2>3, <2>6, <2>7, FS_AddElement
    <2>13. actual # None => Covered(EndedBox, actual)
      <3>1. TerminalOffDue => off \in OffsOf(EndedBox) /\ SameLaunch(off, actual)
        BY <2>5, <2>8, <2>10 DEF SameLaunch
      <3>2. OffsOf(outbox) \subseteq OffsOf(EndedBox)
        BY <2>10
      <3> QED
        BY <2>4, <3>1, <3>2, CoveredBy
    <2>14. ASSUME NEW p \in EndedBox, NEW q \in EndedBox, p.seq = q.seq PROVE p = q
      <3>1. \A m \in EndedBox : m \in outbox \/ m = off \/ m = halt
        BY <2>1, <2>6, <2>7
      <3>2. \A m \in outbox : m.seq # off.seq /\ m.seq # halt.seq
        BY <1>1, <1>2, <2>8
      <3>3. off.seq # halt.seq
        BY <1>1, <2>8
      <3> QED
        BY <1>1, <2>14, <3>1, <3>2, <3>3 DEF Accounted, Numbered
    <2> QED
      BY <1>4, <2>1, <2>4, <2>8, <2>9, <2>10, <2>11, <2>12, <2>13, <2>14
  <1> QED
    BY <1>3, <1>4

LEMMA NoteEnds ==
  ASSUME NoteInv, FlagInv', EndSession, UNCHANGED <<actual, projected, hostNotes>>,
         outcome' = outcome \/ outcome' = "None"
  PROVE  NoteInv'
  <1>1. /\ TypeOK /\ TypeOK' /\ Accounted(outbox, actual, projected, hostNotes)
        /\ nextSeq \in Nat /\ outbox' \subseteq Messages
        /\ actual \in Launches \cup {None}
    BY DEF NoteInv, FlagInv, SessionInv, TypeOK
  <1>2. /\ outbox' = EndedBox /\ queue' = {} /\ running' = FALSE /\ UNCHANGED sessionGen
        /\ nextSeq' = IF terminalGen = sessionGen THEN nextSeq ELSE nextSeq + 2
    BY DEF EndSession, EndedBox
  <1> DEFINE box == outbox'
  <1>3. /\ OnsOf(box) = {} /\ IsFiniteSet(box) /\ OffsOf(outbox) \subseteq OffsOf(box)
        /\ \A q \in OffsOf(box) : q \in OffsOf(outbox) \/
             /\ q.seq = nextSeq /\ LaunchOf(q) = actual /\ actual # None
             /\ ~Covered(outbox, actual) /\ terminalGen # sessionGen
        /\ \A p \in box : p \in outbox \/ p \in OffsOf(box) \/
             /\ p.seq = nextSeq + 1 /\ p.kind = "Stop" /\ terminalGen # sessionGen
        /\ \A p, q \in box : p.seq = q.seq => p = q
        /\ actual # None => Covered(box, actual)
    BY <1>2, EndedBoxIs, Zenon
  <1>4. box \in SUBSET Messages
    BY <1>1
  <1> HIDE DEF box
  <1>5. LaunchesOf(OffsOf(box)) \subseteq Known(outbox, actual, projected)
    BY <1>3 DEF LaunchesOf, Known, Owed
  <1>7. Known(outbox, actual, projected)' \subseteq Known(outbox, actual, projected)
    <2>1. LaunchesOf(queue)' = {} /\ LaunchesOf(OnsOf(box)) = {}
      BY <1>2, <1>3 DEF LaunchesOf
    <2> QED
      BY <1>5, <2>1 DEF Known, Owed, box
  <1>8. Numbered(outbox)'
    <2> SUFFICES ASSUME NEW p \in box PROVE p.seq < nextSeq'
      BY <1>3 DEF Numbered, box
    <2>1. p \in outbox => p.seq < nextSeq /\ p.seq \in Nat
      BY <1>1, SeqTypes DEF Accounted, Numbered, TypeOK
    <2>2. p \in OffsOf(outbox) => p \in outbox
      BY DEF OffsOf
    <2> QED
      BY <1>1, <1>2, <1>3, <2>1, <2>2
  <1>9. OneLaunch(outbox, actual, projected)'
    BY <1>1, <1>7 DEF Accounted, OneLaunch
  <1>10. Current(outbox, actual, projected)'
    <2> SUFFICES ASSUME NEW l \in Known(outbox, actual, projected)'
                 PROVE  l.gen <= sessionGen /\ (l.gen = sessionGen => l.launch <= nextBoundary)
      BY <1>2 DEF Current, EndSession
    <2> QED
      BY <1>1, <1>7 DEF Accounted, Current
  <1>11. Unsent(outbox, actual, projected)'
    BY <1>2 DEF Unsent
  <1>12. ActualIsOwed(outbox, actual, projected)' /\ PendingIsOwed(outbox, projected)'
         /\ OnBeforeOff(outbox)' /\ OffBetween(outbox)'
    BY <1>3 DEF ActualIsOwed, PendingIsOwed, OnBeforeOff, OffBetween, box
  <1>13. \A n \in hostNotes : \E q \in OffsOf(box) : q.note = n
    BY <1>1, <1>3, <1>4, <1>5, EachHasOff
  <1>14. OffBefore(outbox, hostNotes)'
    <2> SUFFICES ASSUME NEW n \in hostNotes, NEW b \in box, Barrier(b)
                 PROVE  \E q \in OffsOf(box) : q.note = n /\ q.seq < b.seq
      BY DEF OffBefore, box
    <2>1. b \notin OffsOf(box)
      BY DEF OffsOf, Barrier
    <2>2. CASE b \in outbox
      BY <1>1, <1>3, <2>2 DEF Accounted, OffBefore
    <2>3. CASE b.seq = nextSeq + 1
      <3>1. PICK q \in OffsOf(box) : q.note = n
        BY <1>13
      <3>2. q \in OffsOf(outbox) => q.seq < nextSeq /\ q.seq \in Nat
        BY <1>1, SeqTypes DEF Accounted, Numbered, TypeOK, OffsOf
      <3>3. q.seq < nextSeq + 1
        BY <1>1, <1>3, <3>2
      <3> QED
        BY <2>3, <3>1, <3>3
    <2> QED
      BY <1>3, <2>1, <2>2, <2>3
  <1>15. HostHears(outbox, actual, hostNotes)'
    BY <1>1, <1>13 DEF Accounted, HostHears, box
  <1>16. OneOff(outbox)'
    <2> SUFFICES ASSUME NEW p \in OffsOf(box), NEW q \in OffsOf(box) \ {p}, SameLaunch(p, q)
                 PROVE  FALSE
      BY <1>2 DEF OneOff, box
    <2>1. ASSUME NEW u \in OffsOf(outbox), NEW v \in OffsOf(box), v \notin OffsOf(outbox)
          PROVE  ~SameLaunch(u, v) /\ ~SameLaunch(v, u)
      <3>1. LaunchOf(v) = actual /\ ~Covered(outbox, actual)
        BY <1>3, <2>1
      <3>2. actual.gen = v.gen /\ actual.launch = v.launch
        BY <1>4, <2>1, <3>1, LaunchFields DEF OffsOf
      <3> QED
        BY <2>1, <3>1, <3>2, CoveredBy DEF SameLaunch
    <2>2. p \notin OffsOf(outbox) /\ q \notin OffsOf(outbox) => p.seq = q.seq
      BY <1>3
    <2>3. p \in box /\ q \in box
      BY DEF OffsOf
    <2> QED
      BY <1>1, <1>3, <2>1, <2>2, <2>3 DEF Accounted, OneOff
  <1>17. Accounted(outbox, actual, projected, hostNotes)'
    BY <1>8, <1>9, <1>10, <1>11, <1>12, <1>14, <1>15, <1>16 DEF Accounted
  <1>18. Planned' /\ CutIsSilent'
    BY <1>2 DEF NoteInv, Planned, CutIsSilent
  <1> QED
    BY <1>17, <1>18 DEF NoteInv

LEMMA NoteDisconnect ==
  ASSUME NoteInv, FlagInv', Disconnect
  PROVE  NoteInv'
  <1> USE DEF noteVars
  <1>1. /\ TypeOK /\ Accounted(outbox, actual, projected, hostNotes)
        /\ outcome = "Disconnected" /\ hostNotes = {}
    BY DEF NoteInv, FlagInv, SessionInv, CutIsSilent, Disconnect
  <1>2. /\ outbox' = {} /\ queue' = {} /\ running' = FALSE /\ hostNotes' = {}
        /\ actual' = None /\ projected' \in {None, projected}
        /\ UNCHANGED <<nextSeq, sessionGen, nextBoundary>> /\ outcome' = "None"
    BY <1>1 DEF Disconnect
  <1>3. /\ OnsOf({}) = {} /\ OffsOf({}) = {} /\ LaunchesOf({}) = {}
    BY DEF OnsOf, OffsOf, LaunchesOf
  <1>4. Known(outbox, actual, projected)' \subseteq Known(outbox, actual, projected)
    <2>1. Known(outbox, actual, projected)' = {projected'} \ {None}
      BY <1>2, <1>3 DEF Known, Owed, LaunchesOf, OnsOf, OffsOf
    <2> QED
      BY <1>2, <2>1 DEF Known
  <1>5. OneLaunch(outbox, actual, projected)'
    BY <1>1, <1>4 DEF Accounted, OneLaunch
  <1>6. Current(outbox, actual, projected)'
    <2> SUFFICES ASSUME NEW l \in Known(outbox, actual, projected)'
                 PROVE  l.gen <= sessionGen /\ (l.gen = sessionGen => l.launch <= nextBoundary)
      BY <1>2 DEF Current
    <2> QED
      BY <1>1, <1>4 DEF Accounted, Current
  <1>7. Numbered(outbox)'
    BY <1>2, FS_EmptySet DEF Numbered
  <1>8. /\ Unsent(outbox, actual, projected)' /\ ActualIsOwed(outbox, actual, projected)'
        /\ PendingIsOwed(outbox, projected)' /\ OnBeforeOff(outbox)' /\ OffBetween(outbox)'
        /\ OffBefore(outbox, hostNotes)' /\ HostHears(outbox, actual, hostNotes)'
        /\ OneOff(outbox)'
    BY <1>2, <1>3 DEF Unsent, ActualIsOwed, PendingIsOwed, OnBeforeOff, OffBetween,
                      OffBefore, HostHears, OneOff
  <1>9. Planned' /\ CutIsSilent'
    BY <1>2 DEF Planned, CutIsSilent
  <1> QED
    BY <1>5, <1>6, <1>7, <1>8, <1>9 DEF NoteInv, Accounted

(* A stopped transport has nothing to play and every Off pending.          *)
LEMMA StoppedIsCovered ==
  ASSUME NoteInv, ~running
  PROVE  /\ OnsOf(outbox) = {} /\ queue = {} /\ ~seqRunning
         /\ actual # None => Covered(outbox, actual)
         /\ \A n \in hostNotes : \E q \in OffsOf(outbox) : q.note = n
  <1>1. /\ TypeOK /\ SessionInv /\ Accounted(outbox, actual, projected, hostNotes)
        /\ outbox \in SUBSET Messages
    BY DEF NoteInv, FlagInv, SessionInv, TypeOK
  <1>2. OnsOf(outbox) = {} /\ queue = {} /\ ~seqRunning
    BY <1>1 DEF NoteInv, FlagInv, Planned, SessionInv, MusicIsLive, Musical, OnsOf
  <1>3. actual # None => Covered(outbox, actual)
    BY <1>1 DEF Accounted, ActualIsOwed
  <1>4. LaunchesOf(OffsOf(outbox)) \subseteq Known(outbox, actual, projected)
    BY DEF Known
  <1> QED
    BY <1>1, <1>2, <1>3, <1>4, EachHasOff

(* A new session of a stopped transport.                                   *)
LEMMA NoteBegins ==
  ASSUME NoteInv, FlagInv', ~running, sessionGen' = sessionGen + 1,
         UNCHANGED <<actual, projected, hostNotes, outcome, queue, nextBoundary>>,
         nextSeq' \in {nextSeq, nextSeq + 1},
         OffsOf(outbox)' = OffsOf(outbox),
         \A p \in outbox' : p \in outbox \/
           (p.kind = "Start" /\ p.seq = nextSeq /\ nextSeq' = nextSeq + 1),
         \A p, q \in outbox' : p \in outbox \/ q \in outbox \/ p = q,
         IsFiniteSet(outbox')
  PROVE  NoteInv'
  <1>1. /\ TypeOK /\ Accounted(outbox, actual, projected, hostNotes)
        /\ nextSeq \in Nat /\ sessionGen \in Nat /\ OnsOf(outbox) = {} /\ queue = {}
        /\ actual # None => Covered(outbox, actual)
        /\ \A n \in hostNotes : \E q \in OffsOf(outbox) : q.note = n
        /\ outbox \in SUBSET Messages
    BY StoppedIsCovered DEF NoteInv, FlagInv, SessionInv, TypeOK
  <1> DEFINE box == outbox'
  <1>2. OffsOf(box) = OffsOf(outbox) /\ OnsOf(box) = {}
    BY <1>1 DEF OffsOf, OnsOf
  <1> HIDE DEF box
  <1>3. \A p \in outbox : p.seq \in Nat /\ p.seq < nextSeq
    BY <1>1, SeqTypes DEF Accounted, Numbered
  <1>4. Known(outbox, actual, projected)' = Known(outbox, actual, projected)
    BY <1>1, <1>2 DEF Known, Owed, box
  <1>5. Numbered(outbox)'
    BY <1>1, <1>3 DEF Accounted, Numbered
  <1>6. OneLaunch(outbox, actual, projected)'
    BY <1>1, <1>4 DEF Accounted, OneLaunch
  <1>7. Current(outbox, actual, projected)'
    <2>1. ASSUME NEW l \in Known(outbox, actual, projected)
          PROVE  l.gen <= sessionGen + 1 /\ l.gen # sessionGen + 1
      <3>1. l.gen <= sessionGen /\ l.gen \in Nat
        BY <1>1, KnownTypes DEF Accounted, Current, TypeOK, Launches
      <3> QED
        BY <1>1, <3>1
    <2>2. \A l \in Known(outbox, actual, projected)' :
            l.gen <= sessionGen' /\ l.gen # sessionGen'
      BY <1>4, <2>1
    <2> QED
      BY <2>2 DEF Current
  <1>8. ActualIsOwed(outbox, actual, projected)' /\ Unsent(outbox, actual, projected)'
    <2>1. actual # None => Covered(box, actual)
      BY <1>1, <1>2, CoveredBy
    <2> QED
      BY <1>1, <2>1 DEF ActualIsOwed, Unsent, box
  <1>9. /\ PendingIsOwed(outbox, projected)' /\ OnBeforeOff(outbox)' /\ OffBetween(outbox)'
        /\ HostHears(outbox, actual, hostNotes)' /\ OneOff(outbox)'
    BY <1>1, <1>2 DEF Accounted, PendingIsOwed, OnBeforeOff, OffBetween, HostHears, OneOff,
                      box
  <1>10. OffBefore(outbox, hostNotes)'
    <2> SUFFICES ASSUME NEW n \in hostNotes, NEW b \in box, Barrier(b)
                 PROVE  \E q \in OffsOf(outbox) : q.note = n /\ q.seq < b.seq
      BY <1>2 DEF OffBefore, box
    <2>1. CASE b \in outbox
      BY <1>1, <2>1 DEF Accounted, OffBefore
    <2>2. CASE b.seq = nextSeq
      BY <1>1, <1>3, <2>2 DEF OffsOf
    <2> QED
      BY <2>1, <2>2 DEF box
  <1>11. Planned' /\ CutIsSilent'
    BY <1>1 DEF NoteInv, Planned, CutIsSilent
  <1> QED
    BY <1>5, <1>6, <1>7, <1>8, <1>9, <1>10, <1>11 DEF NoteInv, Accounted

LEMMA NoteStarts ==
  ASSUME NoteInv, FlagInv', DispatcherStart \/ ContinueSession
  PROVE  NoteInv'
  <1> USE DEF outboxVars, noteVars, hostVars, passVars, plannerVars
  <1>1. SessionInv /\ agenda # <<>> /\ IsFiniteSet(outbox)
        /\ outbox \in SUBSET Messages
    BY DEF NoteInv, FlagInv, SessionInv, TypeOK, DispatcherStart, ContinueSession, Doing,
           Accounted, Numbered
  <1>2. /\ ~running
        /\ sessionGen' = sessionGen + 1
        /\ UNCHANGED <<actual, projected, hostNotes, outcome, queue, nextBoundary>>
    BY <1>1, AtHand DEF DispatcherStart, ContinueSession, Doing
  <1>3. CASE DispatcherStart
    <2> DEFINE kept == {p \in outbox : ~(p.terminal /\ p.kind = "Stop")}
               entry == Pending(nextSeq, "Start", None, 0, sessionGen + 1, 0, FALSE)
    <2>1. outbox' \in {kept, kept \cup {entry}} /\ nextSeq' = nextSeq + 1
      BY <1>3 DEF DispatcherStart, Push
    <2>2. entry.kind = "Start" /\ entry.seq = nextSeq
      BY DEF Pending
    <2>3. OffsOf(kept) = OffsOf(outbox) /\ kept \subseteq outbox /\ IsFiniteSet(kept)
      BY <1>1, FS_Subset DEF OffsOf
    <2> HIDE DEF kept, entry
    <2>4. OffsOf(outbox)' = OffsOf(outbox) /\ IsFiniteSet(outbox')
      BY <2>1, <2>2, <2>3, FS_AddElement DEF OffsOf
    <2>5. \A p \in outbox' : p \in outbox \/ p = entry
      BY <2>1, <2>3
    <2> QED
      BY <1>2, <2>1, <2>2, <2>4, <2>5, NoteBegins
  <1>4. CASE ContinueSession
    <2>1. UNCHANGED <<outbox, nextSeq>>
      BY <1>4 DEF ContinueSession
    <2>2. OffsOf(outbox)' = OffsOf(outbox)
      BY <2>1 DEF OffsOf
    <2> QED
      BY <1>1, <1>2, <2>1, <2>2, NoteBegins
  <1> QED
    BY <1>3, <1>4

(* The clean start forgets the launch that sounds: its Off is pending.     *)
LEMMA NoteLaunch ==
  ASSUME NoteInv, FlagInv', LaunchSession
  PROVE  NoteInv'
  <1> USE DEF outboxVars, hostVars, passVars, transportVars, sessionVars
  <1>1. /\ TypeOK /\ SessionInv /\ Accounted(outbox, actual, projected, hostNotes)
        /\ outbox \in SUBSET Messages /\ running /\ ~seqRunning
    <2>1. SessionInv /\ TypeOK /\ agenda # <<>> /\ agenda \in Seq(Labels)
          /\ InTurn(agenda, Starting) /\ Head(agenda) = "launch"
      BY DEF NoteInv, FlagInv, SessionInv, TypeOK, LaunchSession, Doing
    <2>2. Starting
      BY <2>1, InTurnRest
    <2> QED
      BY <2>1, <2>2 DEF Starting, NoteInv, TypeOK
  <1>2. /\ actual' = None /\ projected' = None /\ seqRunning'
        /\ UNCHANGED <<outbox, nextSeq, queue, hostNotes, outcome, sessionGen, running>>
    BY DEF LaunchSession
  <1>3. queue = {}
    BY <1>1 DEF NoteInv, Planned
  <1>4. ASSUME NEW l \in Known(outbox, actual, projected) PROVE l.gen # sessionGen
    BY <1>1, <1>4 DEF Accounted, Current
  <1>5. OnsOf(outbox) = {}
    <2> SUFFICES ASSUME NEW p \in OnsOf(outbox) PROVE FALSE
      OBVIOUS
    <2>1. p.gen = sessionGen /\ LaunchOf(p).gen = p.gen
      BY <1>1, LaunchFields DEF OnsOf, SessionInv, MusicIsLive, Musical
    <2>2. LaunchOf(p) \in Known(outbox, actual, projected)
      BY DEF Known, Owed, LaunchesOf
    <2> QED
      BY <1>4, <2>1, <2>2
  <1>6. actual # None => Covered(outbox, actual)
    BY <1>1, <1>4 DEF Accounted, ActualIsOwed, Known, Owed
  <1>7. \A n \in hostNotes : \E q \in OffsOf(outbox) : q.note = n
    <2>1. LaunchesOf(OffsOf(outbox)) \subseteq Known(outbox, actual, projected)
      BY DEF Known
    <2> QED
      BY <1>1, <1>6, <2>1, EachHasOff
  <1>8. Known(outbox, actual, projected)' \subseteq Known(outbox, actual, projected)
    BY <1>2 DEF Known, Owed, LaunchesOf, OnsOf, OffsOf
  <1>9. OneLaunch(outbox, actual, projected)'
    BY <1>1, <1>8 DEF Accounted, OneLaunch
  <1>10. Current(outbox, actual, projected)'
    <2>1. \A l \in Known(outbox, actual, projected) :
            l.gen <= sessionGen /\ l.gen # sessionGen
      BY <1>1, <1>4 DEF Accounted, Current
    <2>2. \A l \in Known(outbox, actual, projected)' :
            l.gen <= sessionGen' /\ l.gen # sessionGen'
      BY <1>2, <1>8, <2>1
    <2> QED
      BY <2>2 DEF Current
  <1>11. /\ Numbered(outbox)' /\ OnBeforeOff(outbox)' /\ OffBetween(outbox)'
         /\ OffBefore(outbox, hostNotes)' /\ OneOff(outbox)'
    BY <1>1, <1>2 DEF Accounted, Numbered, OnBeforeOff, OffBetween, OffBefore, OneOff
  <1>12. /\ Unsent(outbox, actual, projected)' /\ ActualIsOwed(outbox, actual, projected)'
         /\ PendingIsOwed(outbox, projected)'
    BY <1>2, <1>3, <1>5 DEF Unsent, ActualIsOwed, PendingIsOwed
  <1>13. HostHears(outbox, actual, hostNotes)'
    BY <1>1, <1>2, <1>7 DEF Accounted, HostHears
  <1>14. Planned' /\ CutIsSilent'
    BY <1>2, <1>3 DEF NoteInv, Planned, CutIsSilent
  <1> QED
    BY <1>9, <1>10, <1>11, <1>12, <1>13, <1>14 DEF NoteInv, Accounted

-----------------------------------------------------------------------------
(***************************************************************************)
(* Planning and ticks                                                      *)
(***************************************************************************)
(* A step that moves no note and takes at most events from the queue.      *)
LEMMA NoteKeeps ==
  ASSUME NoteInv, FlagInv', Numbered(outbox)',
         OnsOf(outbox)' = OnsOf(outbox), OffsOf(outbox)' = OffsOf(outbox),
         \A p \in outbox' : Barrier(p) => p \in outbox,
         Few(outbox) => Few(outbox)', queue' \subseteq queue,
         UNCHANGED <<actual, projected, hostNotes, outcome, sessionGen, running, seqRunning,
                     nextBoundary>>
  PROVE  NoteInv'
  <1>1. Accounted(outbox, actual, projected, hostNotes)
    BY DEF NoteInv
  <1> DEFINE box == outbox'
  <1>2. OnsOf(box) = OnsOf(outbox) /\ OffsOf(box) = OffsOf(outbox)
    BY DEF OnsOf, OffsOf
  <1> HIDE DEF box
  <1>3. Known(outbox, actual, projected)' \subseteq Known(outbox, actual, projected)
    BY <1>2 DEF Known, Owed, LaunchesOf, box
  <1>4. \A l : Covered(box, l) <=> Covered(outbox, l)
    BY <1>2, CoveredBy
  <1>5. OneLaunch(outbox, actual, projected)'
    BY <1>1, <1>3 DEF Accounted, OneLaunch
  <1>6. Current(outbox, actual, projected)'
    <2>1. \A l \in Known(outbox, actual, projected)' :
            /\ l.gen <= sessionGen
            /\ l.gen = sessionGen => l.launch <= nextBoundary /\ (running => seqRunning)
      BY <1>1, <1>3 DEF Accounted, Current
    <2> QED
      BY <2>1 DEF Current
  <1>7. Unsent(outbox, actual, projected)'
    <2>1. Owed(box, actual) = Owed(outbox, actual)
      BY <1>2 DEF Owed
    <2> QED
      BY <1>1, <1>2, <2>1 DEF Accounted, Unsent, box
  <1>8. ActualIsOwed(outbox, actual, projected)' /\ PendingIsOwed(outbox, projected)'
    <2>1. Few(outbox) => Few(box)
      BY DEF Few, box
    <2> QED
      BY <1>1, <1>2, <1>4, <2>1 DEF Accounted, ActualIsOwed, PendingIsOwed, box
  <1>9. OnBeforeOff(outbox)' /\ OffBetween(outbox)' /\ OffBefore(outbox, hostNotes)'
    BY <1>1, <1>2 DEF Accounted, OnBeforeOff, OffBetween, OffBefore, box
  <1>10. HostHears(outbox, actual, hostNotes)' /\ OneOff(outbox)'
    BY <1>1, <1>2 DEF Accounted, HostHears, OneOff, box
  <1>11. Planned' /\ CutIsSilent'
    BY PlannedSame DEF NoteInv, CutIsSilent
  <1> QED
    BY <1>5, <1>6, <1>7, <1>8, <1>9, <1>10, <1>11 DEF NoteInv, Accounted

LEMMA NoteTick ==
  ASSUME NoteInv, FlagInv', AdvanceTick
  PROVE  NoteInv'
  <1> USE DEF plannerVars, sessionVars, passVars, noteVars, hostVars
  <1>1. /\ TypeOK /\ Accounted(outbox, actual, projected, hostNotes)
        /\ nextSeq \in Nat /\ outbox \in SUBSET Messages
    BY DEF NoteInv, FlagInv, SessionInv, TypeOK
  <1> DEFINE kept == {p \in outbox : ~OwnClock(p)}
             clock == Pending(nextSeq, "Clock", None, 0, sessionGen, tick', FALSE)
  <1>2. /\ \/ outbox' \in {outbox, kept}
           \/ outbox' = kept \cup {clock} /\ HasRoom(kept, NormalCapacity)
        /\ nextSeq' = nextSeq + 1 /\ queue' \in {queue, DiscardAt(queue, tick)}
        /\ UNCHANGED <<actual, projected, hostNotes, outcome, sessionGen, running,
                       seqRunning, nextBoundary>>
    BY DEF AdvanceTick, Push
  <1>3. clock.kind = "Clock" /\ clock.seq = nextSeq
    BY DEF Pending
  <1>4. /\ kept \subseteq outbox
        /\ OnsOf(kept) = OnsOf(outbox) /\ OffsOf(kept) = OffsOf(outbox)
    BY DEF OwnClock, OnsOf, OffsOf
  <1> HIDE DEF kept, clock
  <1>5. OnsOf(outbox)' = OnsOf(outbox) /\ OffsOf(outbox)' = OffsOf(outbox)
    BY <1>2, <1>3, <1>4 DEF OnsOf, OffsOf
  <1>6. \A p \in outbox' : Barrier(p) => p \in outbox
    BY <1>2, <1>3, <1>4 DEF Barrier
  <1>7. /\ IsFiniteSet(outbox) /\ \A p \in outbox : p.seq \in Nat /\ p.seq < nextSeq
        /\ \A p, q \in outbox : p.seq = q.seq => p = q
    BY <1>1, SeqTypes DEF Accounted, Numbered
  <1>8. IsFiniteSet(kept) /\ Cardinality(kept) <= Cardinality(outbox)
        /\ Cardinality(kept) \in Nat /\ Cardinality(outbox) \in Nat
    BY <1>4, <1>7, FS_Subset, FS_CardinalityType
  <1>9. Numbered(outbox)'
    <2>1. IsFiniteSet(outbox')
      BY <1>2, <1>7, <1>8, FS_AddElement
    <2>2. \A p \in outbox' : p \in outbox \/ p = clock
      BY <1>2, <1>4
    <2>3. \A p \in outbox' : p.seq < nextSeq'
      BY <1>1, <1>2, <1>3, <1>7, <2>2
    <2>4. \A p, q \in outbox' : p.seq = q.seq => p = q
      BY <1>1, <1>3, <1>7, <2>2
    <2> QED
      BY <2>1, <2>3, <2>4 DEF Numbered
  <1>10. Few(outbox) => Few(outbox)'
    <2>1. NormalCapacity \in Nat
      BY OutboxAssumption
    <2>2. CASE outbox' \in {outbox, kept}
      BY <1>8, <2>1, <2>2 DEF Few
    <2>3. CASE outbox' = kept \cup {clock} /\ HasRoom(kept, NormalCapacity)
      <3>1. Cardinality(kept \cup {clock}) <= Cardinality(kept) + 1
            /\ Cardinality(kept \cup {clock}) \in Nat
        <4>1. Cardinality(kept \cup {clock}) \in {Cardinality(kept), Cardinality(kept) + 1}
          BY <1>8, FS_AddElement
        <4> QED
          BY <1>8, <4>1
      <3> QED
        BY <1>8, <2>1, <2>3, <3>1 DEF Few, HasRoom
    <2> QED
      BY <1>2, <2>2, <2>3
  <1>11. queue' \subseteq queue
    BY <1>2 DEF DiscardAt
  <1> QED
    BY <1>2, <1>5, <1>6, <1>9, <1>10, <1>11, NoteKeeps

(* A launch that is planned is new: its number is behind the boundary.     *)
LEMMA NoteSchedule ==
  ASSUME NoteInv, FlagInv', NEW step \in StepChoices, NEW swing \in Swings,
         ScheduleStep(step, swing)
  PROVE  NoteInv'
  <1> USE DEF transportVars, sessionVars, passVars, noteVars, hostVars, outboxVars
  <1>1. /\ TypeOK /\ Accounted(outbox, actual, projected, hostNotes) /\ Planned
        /\ outbox \in SUBSET Messages /\ queue' \subseteq Events /\ queue \subseteq Events
        /\ nextBoundary \in Nat /\ sessionGen \in Nat
        /\ actual \in Launches \cup {None} /\ projected \in Launches \cup {None}
    BY DEF NoteInv, FlagInv, SessionInv, TypeOK
  <1>2. /\ UNCHANGED <<actual, projected, hostNotes, outcome, sessionGen, running,
                       seqRunning, outbox, nextSeq>>
        /\ nextBoundary' = nextBoundary + TicksPerSixteenth /\ seqRunning
        /\ queue' = queue \/ queue' = queue \cup LaunchAt(step, swing)
    BY DEF ScheduleStep, PlanningDue
  <1> DEFINE position == At(nextBoundary,
                            SwingPhase(nextBoundary \div TicksPerSixteenth, swing))
             gate == GateDeadline(position, step.gate)
             on == Scheduled(position, "NoteOn", step.note, nextBoundary + 1, sessionGen, gate)
             off == Scheduled(gate, "NoteOff", step.note, nextBoundary + 1, sessionGen, gate)
             fresh == Launch(step.note, nextBoundary + 1, sessionGen)
  <1>3. LaunchAt(step, swing) = {on, off}
    BY DEF LaunchAt
  <1>4. /\ on.kind = "NoteOn" /\ off.kind = "NoteOff" /\ LaunchOf(on) = fresh
        /\ LaunchOf(off) = fresh /\ off.at = on.gate /\ fresh.gen = sessionGen
        /\ fresh.launch = nextBoundary + 1
        /\ on.gen = sessionGen /\ off.gen = sessionGen
        /\ on.launch = nextBoundary + 1 /\ off.launch = nextBoundary + 1
    BY DEF Scheduled, LaunchOf, Launch
  <1> HIDE DEF position, gate, on, off, fresh
  <1>5. TicksPerSixteenth \in Nat \ {0}
    BY TimeAssumption
  <1>6. ASSUME NEW l \in Known(outbox, actual, projected)
        PROVE  l # fresh /\ ~SameLaunch(l, fresh) /\ l.launch \in Nat
    <2>1. l \in Launches
      BY <1>1, KnownTypes
    <2>2. l.launch \in Nat
      BY <2>1 DEF Launches
    <2>3. l.gen = sessionGen => l.launch <= nextBoundary
      BY <1>1 DEF Accounted, Current
    <2> QED
      BY <1>1, <1>4, <2>2, <2>3 DEF SameLaunch
  <1>7. LaunchesOf(queue)' \subseteq LaunchesOf(queue) \cup {fresh}
    BY <1>2, <1>3, <1>4 DEF LaunchesOf
  <1>8. Known(outbox, actual, projected)' \subseteq Known(outbox, actual, projected) \cup {fresh}
    BY <1>2, <1>7 DEF Known, Owed, LaunchesOf, OnsOf, OffsOf
  <1>9. OneLaunch(outbox, actual, projected)'
    <2>1. \A k, l \in Known(outbox, actual, projected) \cup {fresh} : SameLaunch(k, l) => k = l
      BY <1>1, <1>6 DEF Accounted, OneLaunch, SameLaunch
    <2> QED
      BY <1>8, <2>1 DEF OneLaunch
  <1>10. Current(outbox, actual, projected)'
    <2>1. ASSUME NEW l \in Known(outbox, actual, projected) \cup {fresh}
          PROVE  /\ l.gen <= sessionGen
                 /\ l.gen = sessionGen => l.launch <= nextBoundary + TicksPerSixteenth
      <3>1. CASE l = fresh
        BY <1>1, <1>4, <1>5, <3>1
      <3>2. CASE l \in Known(outbox, actual, projected)
        <4>1. l.gen <= sessionGen /\ (l.gen = sessionGen => l.launch <= nextBoundary)
          BY <1>1, <3>2 DEF Accounted, Current
        <4> QED
          BY <1>1, <1>5, <1>6, <3>2, <4>1
      <3> QED
        BY <2>1, <3>1, <3>2
    <2>2. \A l \in Known(outbox, actual, projected)' :
            /\ l.gen <= sessionGen'
            /\ l.gen = sessionGen' => l.launch <= nextBoundary' /\ seqRunning'
      BY <1>2, <1>8, <2>1
    <2> QED
      BY <2>2 DEF Current
  <1>11. Unsent(outbox, actual, projected)'
    <2> SUFFICES ASSUME NEW e \in queue', e.kind = "NoteOn"
                 PROVE  /\ LaunchOf(e) \notin Owed(outbox, actual) \cup {projected}
                        /\ e.at < e.gate => LaunchOf(e) \notin LaunchesOf(OffsOf(outbox))
      BY <1>2 DEF Unsent, Owed, LaunchesOf, OnsOf, OffsOf
    <2>1. CASE e \in queue
      BY <1>1, <2>1 DEF Accounted, Unsent
    <2>2. CASE LaunchOf(e) = fresh
      <3>1. fresh # None
        BY <2>2, <1>1, LaunchFields
      <3>2. Owed(outbox, actual) \cup LaunchesOf(OffsOf(outbox)) \cup ({projected} \ {None})
              \subseteq Known(outbox, actual, projected)
        BY DEF Known
      <3> QED
        BY <1>6, <2>2, <3>1, <3>2
    <2> QED
      BY <1>2, <1>3, <1>4, <2>1, <2>2
  <1>12. /\ Numbered(outbox)' /\ OnBeforeOff(outbox)' /\ OffBetween(outbox)'
         /\ OffBefore(outbox, hostNotes)' /\ HostHears(outbox, actual, hostNotes)'
         /\ ActualIsOwed(outbox, actual, projected)' /\ PendingIsOwed(outbox, projected)'
    BY <1>1, <1>2 DEF Accounted, Numbered, OnBeforeOff, OffBetween, OffBefore, HostHears,
                      ActualIsOwed, PendingIsOwed
  <1>13. OneOff(outbox)'
    <2> SUFFICES ASSUME NEW p \in OffsOf(outbox), NEW e \in queue', e.kind = "NoteOff",
                        SameLaunch(p, e)
                 PROVE  FALSE
      BY <1>1, <1>2 DEF Accounted, OneOff
    <2>1. CASE e \in queue
      BY <1>1, <2>1 DEF Accounted, OneOff
    <2>2. CASE e \in {on, off}
      <3>1. LaunchOf(p) \in Known(outbox, actual, projected)
        BY DEF Known, LaunchesOf
      <3>2. SameLaunch(LaunchOf(p), fresh)
        BY <1>1, <1>4, <2>2, LaunchFields DEF SameLaunch, OffsOf
      <3> QED
        BY <1>6, <3>1, <3>2
    <2> QED
      BY <1>2, <1>3, <2>1, <2>2
  <1>14. Planned'
    <2>1. \A e \in queue : ~SameLaunch(e, on) /\ ~SameLaunch(on, e)
      <3> SUFFICES ASSUME NEW e \in queue PROVE ~(e.gen = on.gen /\ e.launch = on.launch)
        BY DEF SameLaunch
      <3>1. LaunchOf(e) \in Known(outbox, actual, projected)
        BY DEF Known, LaunchesOf
      <3>2. e.kind \in {"NoteOn", "NoteOff"}
        BY <1>1 DEF Events
      <3>3. LaunchOf(e).gen = e.gen /\ LaunchOf(e).launch = e.launch
        BY <1>1, <3>2, LaunchFields
      <3> QED
        BY <1>4, <1>6, <3>1, <3>3 DEF SameLaunch
    <2>2. \A e \in queue : ~SameLaunch(e, off) /\ ~SameLaunch(off, e)
      BY <1>4, <2>1 DEF SameLaunch
    <2>3. queue' = queue \/ queue' = queue \cup {on, off}
      BY <1>2, <1>3
    <2> QED
      BY <1>1, <1>2, <1>4, <2>1, <2>2, <2>3 DEF Planned
  <1>15. CutIsSilent'
    BY <1>2 DEF NoteInv, CutIsSilent
  <1> QED
    BY <1>9, <1>10, <1>11, <1>12, <1>13, <1>14, <1>15 DEF NoteInv, Accounted

-----------------------------------------------------------------------------
(***************************************************************************)
(* Moving due events to the outbox                                         *)
(***************************************************************************)
LEMMA NoteDrop ==
  ASSUME NoteInv, FlagInv', DropLaunch
  PROVE  NoteInv'
  <1> USE DEF transportVars, plannerVars, sessionVars, passVars, hostVars, outboxVars
  <1>1. TypeOK /\ Accounted(outbox, actual, projected, hostNotes) /\ queue \in SUBSET Events
    BY DEF NoteInv, FlagInv, SessionInv, TypeOK
  <1> DEFINE e == QueueFront(queue)
  <1>2. /\ UNCHANGED <<actual, hostNotes, outcome, sessionGen, running, seqRunning,
                       nextBoundary, outbox, nextSeq>>
        /\ queue # {} /\ queue' = WithoutLaunch(queue, e.gen, e.launch)
        /\ \/ projected' = projected
           \/ e.kind = "NoteOn" /\ projected' = Forget(projected, LaunchOf(e))
    BY DEF DropLaunch, Transferring, EventDue, GatePassed, LaunchOf
  <1>3. e \in queue
    BY <1>1, <1>2, FrontOfQueue
  <1> HIDE DEF e
  <1>4. projected' = projected
    BY <1>1, <1>2, <1>3 DEF Accounted, Unsent, Forget
  <1>5. queue' \subseteq queue
    BY <1>2 DEF WithoutLaunch
  <1>6. /\ Numbered(outbox)' /\ OnsOf(outbox)' = OnsOf(outbox)
        /\ OffsOf(outbox)' = OffsOf(outbox) /\ (Few(outbox) => Few(outbox)')
    BY <1>1, <1>2 DEF Accounted, Numbered, OnsOf, OffsOf, Few
  <1> QED
    BY <1>2, <1>4, <1>5, <1>6, NoteKeeps

(* The event at the front is of the session that runs.                     *)
LEMMA FrontEvent ==
  ASSUME NoteInv, Transferring, EventDue
  PROVE  /\ QueueFront(queue) \in queue /\ QueueFront(queue) \in Events
         /\ LaunchOf(QueueFront(queue)) \in Known(outbox, actual, projected)
         /\ \A f \in queue : ~EventPrecedes(f, QueueFront(queue))
  <1>1. queue \in SUBSET Events /\ queue # {}
    BY DEF NoteInv, FlagInv, SessionInv, TypeOK, EventDue
  <1>2. QueueFront(queue) \in queue /\ \A f \in queue : ~EventPrecedes(f, QueueFront(queue))
    BY <1>1, FrontOfQueue
  <1>3. LaunchOf(QueueFront(queue)) \in LaunchesOf(queue)
    BY <1>2 DEF LaunchesOf
  <1> QED
    BY <1>1, <1>2, <1>3 DEF Known

LEMMA NoteTransfersOff ==
  ASSUME NoteInv, FlagInv', TransferNoteOff
  PROVE  NoteInv'
  <1> USE DEF transportVars, plannerVars, sessionVars, passVars, hostVars, outboxVars
  <1> DEFINE e == QueueFront(queue)
             off == Pending(nextSeq, "NoteOff", e.note, e.launch, sessionGen, 0, FALSE)
  <1>1. /\ TypeOK /\ TypeOK' /\ Accounted(outbox, actual, projected, hostNotes) /\ Planned
        /\ outbox \in SUBSET Messages /\ outbox' \in SUBSET Messages
        /\ nextSeq \in Nat /\ queue \in SUBSET Events
    BY DEF NoteInv, FlagInv, SessionInv, TypeOK
  <1>2. /\ UNCHANGED <<actual, projected, hostNotes, outcome, sessionGen, running,
                       seqRunning, nextBoundary>>
        /\ e.gen = sessionGen /\ e.kind = "NoteOff" /\ nextSeq' = nextSeq + 1
        /\ \/ UNCHANGED <<outbox, queue>>
           \/ /\ HasRoom(outbox, NormalCapacity) /\ queue' = queue \ {e}
              /\ outbox' = outbox \cup {off}
    BY DEF TransferNoteOff, Transferring, Stale, Push
  <1>3. /\ e \in queue /\ e \in Events /\ LaunchOf(e) \in Known(outbox, actual, projected)
        /\ \A f \in queue : ~EventPrecedes(f, e)
    BY FrontEvent DEF TransferNoteOff
  <1>4. /\ off.kind = "NoteOff" /\ off.seq = nextSeq /\ LaunchOf(off) = LaunchOf(e)
        /\ off.gen = e.gen /\ off.launch = e.launch
    BY <1>2 DEF Pending, LaunchOf, Launch
  <1> HIDE DEF e, off
  <1>5. /\ IsFiniteSet(outbox) /\ \A p \in outbox : p.seq \in Nat /\ p.seq < nextSeq
        /\ \A p, q \in outbox : p.seq = q.seq => p = q
    BY <1>1, SeqTypes DEF Accounted, Numbered
  <1>6. CASE UNCHANGED <<outbox, queue>>
    <2>1. Numbered(outbox)'
      BY <1>1, <1>2, <1>5, <1>6 DEF Numbered
    <2> QED
      BY <1>2, <1>6, <2>1, NoteKeeps DEF OnsOf, OffsOf, Few
  <1>7. CASE HasRoom(outbox, NormalCapacity) /\ queue' = queue \ {e}
             /\ outbox' = outbox \cup {off}
    <2> DEFINE box == outbox'
    <2>1. OnsOf(box) = OnsOf(outbox) /\ OffsOf(box) = OffsOf(outbox) \cup {off}
          /\ box = outbox \cup {off}
      BY <1>4, <1>7 DEF OnsOf, OffsOf
    <2>2. Numbered(outbox)'
      <3>1. IsFiniteSet(box)
        BY <1>5, <2>1, FS_AddElement
      <3> QED
        BY <1>1, <1>2, <1>4, <1>5, <2>1, <3>1 DEF Numbered
    <2>3. Few(box)
      <3>1. Cardinality(box) \in {Cardinality(outbox), Cardinality(outbox) + 1}
            /\ Cardinality(outbox) \in Nat
        BY <1>5, <2>1, FS_AddElement, FS_CardinalityType
      <3> QED
        BY <1>7, <3>1, OutboxAssumption DEF Few, HasRoom
    <2>4. LaunchesOf(OnsOf(box)) = LaunchesOf(OnsOf(outbox))
          /\ LaunchesOf(OffsOf(box)) = LaunchesOf(OffsOf(outbox)) \cup {LaunchOf(e)}
      BY <1>4, <2>1 DEF LaunchesOf
    <2>5. Known(outbox, actual, projected)' \subseteq Known(outbox, actual, projected)
      <3>1. LaunchesOf(queue)' \subseteq LaunchesOf(queue)
        BY <1>7 DEF LaunchesOf
      <3>2. Known(outbox, actual, projected)' = Owed(box, actual) \cup ({projected} \ {None})
              \cup LaunchesOf(OffsOf(box)) \cup LaunchesOf(queue)'
        BY <1>2 DEF Known, Owed, LaunchesOf, OnsOf, OffsOf
      <3>3. Owed(box, actual) = Owed(outbox, actual)
        BY <2>4 DEF Owed
      <3> HIDE DEF box
      <3> QED
        BY <1>3, <2>4, <3>1, <3>2, <3>3 DEF Known
    <2> HIDE DEF box
    <2>6. \A l : Covered(outbox, l) => Covered(box, l)
      BY <2>1, CoveredBy
    <2>7. OneLaunch(outbox, actual, projected)'
      BY <1>1, <2>5 DEF Accounted, OneLaunch
    <2>8. Current(outbox, actual, projected)'
      <3>1. \A l \in Known(outbox, actual, projected)' :
              /\ l.gen <= sessionGen
              /\ l.gen = sessionGen => l.launch <= nextBoundary /\ (running => seqRunning)
        BY <1>1, <2>5 DEF Accounted, Current
      <3> QED
        BY <1>2, <3>1 DEF Current
    <2>9. Unsent(outbox, actual, projected)'
      <3> SUFFICES ASSUME NEW f \in queue \ {e}, f.kind = "NoteOn"
                   PROVE  /\ LaunchOf(f) \notin Owed(box, actual) \cup {projected}
                          /\ f.at < f.gate => LaunchOf(f) \notin LaunchesOf(OffsOf(box))
        BY <1>2, <1>7 DEF Unsent, box
      <3>1. Owed(box, actual) = Owed(outbox, actual)
        BY <2>4 DEF Owed
      <3>2. /\ LaunchOf(f) \notin Owed(outbox, actual) \cup {projected}
            /\ f.at < f.gate => LaunchOf(f) \notin LaunchesOf(OffsOf(outbox))
        BY <1>1 DEF Accounted, Unsent
      <3>3. ASSUME LaunchOf(f) = LaunchOf(e) PROVE ~(f.at < f.gate)
        <4>1. f \in Events /\ f.kind \in {"NoteOn", "NoteOff"}
          BY <1>1 DEF Events
        <4>2. SameLaunch(f, e)
          BY <1>2, <1>3, <3>3, <4>1, LaunchFields DEF SameLaunch
        <4>3. e.at = f.gate
          BY <1>1, <1>2, <1>3, <4>2 DEF Planned
        <4> QED
          BY <1>3, <4>1, <4>3 DEF EventPrecedes, Events
      <3> QED
        BY <2>4, <3>1, <3>2, <3>3
    <2>10. ActualIsOwed(outbox, actual, projected)' /\ PendingIsOwed(outbox, projected)'
      BY <1>1, <1>2, <2>1, <2>3, <2>6 DEF Accounted, ActualIsOwed, PendingIsOwed, box
    <2>11. OnBeforeOff(outbox)'
      <3>1. \A p \in OnsOf(outbox) : p.seq < off.seq
        BY <1>4, <1>5 DEF OnsOf
      <3>2. OnBeforeOff(box)
        BY <1>1, <2>1, <3>1 DEF Accounted, OnBeforeOff
      <3> QED
        BY <3>2 DEF OnBeforeOff, box
    <2>12. OffBetween(outbox)' /\ OffBefore(outbox, hostNotes)'
      <3>1. \A b \in box : Barrier(b) => b \in outbox
        BY <1>4, <2>1 DEF Barrier
      <3>2. OffBetween(box) /\ OffBefore(box, hostNotes)
        BY <1>1, <2>1, <3>1 DEF Accounted, OffBetween, OffBefore
      <3> QED
        BY <1>2, <3>2 DEF OffBetween, OffBefore, box
    <2>13. HostHears(outbox, actual, hostNotes)'
      BY <1>1, <1>2, <2>1 DEF Accounted, HostHears, box
    <2>14. OneOff(outbox)'
      <3>1. \A q \in OffsOf(outbox) : ~SameLaunch(q, off) /\ ~SameLaunch(off, q)
        BY <1>1, <1>2, <1>3, <1>4 DEF Accounted, OneOff, SameLaunch
      <3>2. \A f \in queue \ {e} : f.kind = "NoteOff" => ~SameLaunch(off, f)
        BY <1>1, <1>2, <1>3, <1>4 DEF Planned, SameLaunch
      <3> QED
        BY <1>1, <1>7, <2>1, <3>1, <3>2 DEF Accounted, OneOff, box
    <2>15. Planned'
      BY <1>1, <1>2, <1>7, PlannedSame
    <2>16. CutIsSilent'
      BY <1>2 DEF NoteInv, CutIsSilent
    <2> QED
      BY <2>2, <2>7, <2>8, <2>9, <2>10, <2>11, <2>12, <2>13, <2>14, <2>15, <2>16
         DEF NoteInv, Accounted
  <1> QED
    BY <1>2, <1>6, <1>7

(* Before a NoteOn is queued, the launch it replaces gets its Off; with it *)
(* whatever sounds or is pending has one.                                  *)
Replaced(e) ==
  IF ReplacementDue(e) THEN Push(outbox, ReplacementOff, Capacity) ELSE outbox

LEMMA ReplacedIs ==
  ASSUME NoteInv, running, NEW e \in queue, e.kind = "NoteOn", e.gen = sessionGen
  PROVE  /\ Replaced(e) \in {outbox, outbox \cup {ReplacementOff}}
         /\ Replaced(e) # outbox => /\ ReplacementDue(e) /\ HasRoom(outbox, Capacity)
                                    /\ Replaced(e) = outbox \cup {ReplacementOff}
         /\ ReplacementOff.kind = "NoteOff" /\ ReplacementOff.seq = nextSeq
         /\ ReplacementDue(e) => /\ LaunchOf(ReplacementOff) = Active
                                 /\ Active \in {projected, actual} \ {None}
                                 /\ Active.gen = sessionGen /\ Active.launch # e.launch
                                 /\ ~Covered(outbox, Active)
                                 /\ SameLaunch(ReplacementOff, Active)
         /\ actual # None => Covered(Replaced(e), actual)
         /\ \A p \in OnsOf(outbox) : Covered(Replaced(e), p)
  <1>1. /\ TypeOK /\ SessionInv /\ Accounted(outbox, actual, projected, hostNotes)
        /\ outbox \in SUBSET Messages /\ queue \in SUBSET Events /\ e \in Events
        /\ actual \in Launches \cup {None} /\ projected \in Launches \cup {None}
    BY DEF NoteInv, FlagInv, SessionInv, TypeOK
  <1>2. IsFiniteSet(outbox) /\ Cardinality(outbox) \in Nat
    BY <1>1, FS_CardinalityType DEF Accounted, Numbered
  <1>3. /\ Replaced(e) \in {outbox, outbox \cup {ReplacementOff}}
        /\ Replaced(e) # outbox => /\ ReplacementDue(e) /\ HasRoom(outbox, Capacity)
                                   /\ Replaced(e) = outbox \cup {ReplacementOff}
        /\ ReplacementDue(e) /\ HasRoom(outbox, Capacity) =>
             Replaced(e) = outbox \cup {ReplacementOff}
    BY DEF Replaced, Push
  <1>4. /\ ReplacementOff.kind = "NoteOff" /\ ReplacementOff.seq = nextSeq
        /\ ReplacementOff.launch = Active.launch /\ ReplacementOff.gen = sessionGen
        /\ ReplacementOff.note = Active.note
    BY DEF ReplacementOff, Pending
  <1>5. ReplacementDue(e) <=>
          /\ Active # None /\ Active.gen = sessionGen /\ Active.launch # e.launch
          /\ ~Covered(outbox, Active)
    BY DEF ReplacementDue, Covered
  <1>6. Active \in {projected, actual} /\ Active = IF projected # None THEN projected ELSE actual
    BY DEF Active, ProjectedOrActual
  <1> HIDE DEF Active
  <1>7. ASSUME ReplacementDue(e)
        PROVE  LaunchOf(ReplacementOff) = Active /\ SameLaunch(ReplacementOff, Active)
    <2>1. Active \in Launches
      BY <1>1, <1>5, <1>6, <1>7
    <2> QED
      BY <1>4, <1>5, <1>7, <2>1 DEF LaunchOf, Launch, Launches, SameLaunch
  <1>8. LaunchOf(e) \notin Owed(outbox, actual) \cup {projected}
        /\ LaunchOf(e) \in Known(outbox, actual, projected)
        /\ LaunchOf(e).gen = sessionGen /\ LaunchOf(e).launch = e.launch
    <2>1. LaunchOf(e).gen = sessionGen /\ LaunchOf(e).launch = e.launch
      BY <1>1, LaunchFields
    <2> QED
      BY <1>1, <2>1 DEF Accounted, Unsent, Known, LaunchesOf
  (* The launch that is not covered is the one that is replaced. *)
  <1>9. ASSUME NEW l \in Owed(outbox, actual), ~Covered(outbox, l), Few(outbox),
               Active = l, l.gen = sessionGen, l # None
        PROVE  Covered(Replaced(e), l)
    <2>1. l \in Known(outbox, actual, projected) /\ l # LaunchOf(e)
      BY <1>8 DEF Known
    <2>2. l.launch # e.launch
      BY <1>1, <1>8, <1>9, <2>1 DEF Accounted, OneLaunch, SameLaunch
    <2>3. ReplacementDue(e)
      BY <1>5, <1>9, <2>2
    <2>4. HasRoom(outbox, Capacity)
      BY <1>2, <1>9, OutboxAssumption DEF Few, HasRoom, Capacity
    <2>5. ReplacementOff \in OffsOf(Replaced(e))
      BY <1>3, <1>4, <2>3, <2>4 DEF OffsOf
    <2> QED
      BY <1>7, <1>9, <2>3, <2>5, CoveredBy
  <1>10. \A l : Covered(outbox, l) => Covered(Replaced(e), l)
    <2>1. OffsOf(outbox) \subseteq OffsOf(Replaced(e))
      BY <1>3 DEF OffsOf
    <2> QED
      BY <2>1, CoveredBy
  <1>11. actual # None => Covered(Replaced(e), actual)
    <2> SUFFICES ASSUME actual # None, ~Covered(outbox, actual)
                 PROVE  Covered(Replaced(e), actual)
      BY <1>10
    <2>1. actual.gen = sessionGen /\ projected \in {None, actual} /\ Few(outbox)
      BY <1>1 DEF Accounted, ActualIsOwed
    <2>2. actual \in Owed(outbox, actual) /\ Active = actual
      BY <1>6, <2>1 DEF Owed
    <2> QED
      BY <1>9, <2>1, <2>2
  <1>12. ASSUME NEW p \in OnsOf(outbox) PROVE Covered(Replaced(e), p)
    <2> SUFFICES ASSUME ~Covered(outbox, p) PROVE Covered(Replaced(e), p)
      BY <1>10
    <2>1. projected = LaunchOf(p) /\ Few(outbox)
      BY <1>1 DEF Accounted, PendingIsOwed
    <2>2. p.gen = sessionGen
      BY <1>1 DEF SessionInv, MusicIsLive, Musical, OnsOf
    <2>3. LaunchOf(p).gen = p.gen /\ LaunchOf(p).launch = p.launch /\ LaunchOf(p) # None
      BY <1>1, LaunchFields DEF OnsOf
    <2>4. ~Covered(outbox, LaunchOf(p)) /\ (Covered(Replaced(e), LaunchOf(p)) =>
            Covered(Replaced(e), p))
      BY <2>3, CoveredBy DEF SameLaunch
    <2>5. LaunchOf(p) \in Owed(outbox, actual) /\ Active = LaunchOf(p)
      BY <1>6, <2>1, <2>3 DEF Owed, LaunchesOf
    <2> QED
      BY <1>9, <2>1, <2>2, <2>3, <2>4, <2>5
  <1> QED
    BY <1>3, <1>4, <1>5, <1>6, <1>7, <1>11, <1>12

LEMMA NoteTransfersOn ==
  ASSUME NoteInv, FlagInv', TransferNoteOn
  PROVE  NoteInv'
  <1> USE DEF transportVars, plannerVars, sessionVars, passVars, hostVars, outboxVars
  <1> DEFINE e == QueueFront(queue)
             on == Pending(nextSeq + 1, "NoteOn", e.note, e.launch, sessionGen, e.gate, FALSE)
             off == ReplacementOff
             mid == Replaced(e)
             queueLeft == IF ReplacementDue(e) THEN WithoutOff(queue, Active.gen, Active.launch)
                          ELSE queue
             fits == /\ ReplacementDue(e) => HasRoom(outbox, Capacity)
                     /\ HasRoom(mid, NormalCapacity)
             box == outbox'
  <1>1. /\ TypeOK /\ TypeOK' /\ SessionInv /\ Planned
        /\ Accounted(outbox, actual, projected, hostNotes)
        /\ outbox \in SUBSET Messages /\ box \in SUBSET Messages
        /\ nextSeq \in Nat /\ queue \in SUBSET Events
        /\ actual \in Launches \cup {None} /\ projected \in Launches \cup {None}
    BY DEF NoteInv, FlagInv, SessionInv, TypeOK
  <1>2. /\ UNCHANGED <<actual, hostNotes, outcome, sessionGen, running, seqRunning,
                       nextBoundary>>
        /\ e.gen = sessionGen /\ e.kind = "NoteOn" /\ nextSeq' = nextSeq + 2
        /\ box = IF fits THEN mid \cup {on} ELSE mid
        /\ queue' = IF fits THEN queueLeft \ {e} ELSE queueLeft
        /\ projected' = IF fits THEN LaunchOf(e) ELSE projected
        /\ ~(e.gate <= deliveryPos) /\ e.at <= deliveryPos
    BY DEF TransferNoteOn, Transferring, Stale, EventDue, GatePassed, LaunchOf, Replaced
  <1>3. /\ e \in queue /\ e \in Events /\ LaunchOf(e) \in Known(outbox, actual, projected)
    BY FrontEvent DEF TransferNoteOn
  <1>4. running
    <2>1. agenda # <<>> /\ Head(agenda) = "sendDue"
      BY DEF TransferNoteOn, Transferring, Doing
    <2> QED
      BY <1>1, <2>1, AtHand
  <1>5. /\ on.kind = "NoteOn" /\ on.seq = nextSeq + 1 /\ LaunchOf(on) = LaunchOf(e)
        /\ on.gen = e.gen /\ on.launch = e.launch
    BY <1>2 DEF Pending, LaunchOf, Launch
  <1>6. /\ off.kind = "NoteOff" /\ off.seq = nextSeq
        /\ mid = outbox \/ (ReplacementDue(e) /\ mid = outbox \cup {off})
        /\ ReplacementDue(e) => /\ LaunchOf(off) = Active /\ Active \in {projected, actual} \ {None}
                                /\ Active.gen = sessionGen /\ Active.launch # e.launch
                                /\ ~Covered(outbox, Active) /\ SameLaunch(off, Active)
        /\ actual # None => Covered(mid, actual)
        /\ \A p \in OnsOf(outbox) : Covered(mid, p)
    BY <1>2, <1>3, <1>4, ReplacedIs
  <1>7. e.at < e.gate
    BY <1>1, <1>2, <1>3 DEF TypeOK, Events
  <1>8. queueLeft \subseteq queue
    BY DEF WithoutOff
  <1>9. ReplacementDue(e) =>
          \A f \in queueLeft : ~(f.kind = "NoteOff" /\ SameLaunch(off, f))
    BY <1>6 DEF WithoutOff, SameLaunch
  <1> HIDE DEF e, on, off, mid, queueLeft, box
  <1>10. /\ IsFiniteSet(outbox) /\ \A p \in outbox : p.seq \in Nat /\ p.seq < nextSeq
         /\ \A p, q \in outbox : p.seq = q.seq => p = q
    BY <1>1, SeqTypes DEF Accounted, Numbered
  <1>11. /\ OnsOf(mid) = OnsOf(outbox)
         /\ OffsOf(mid) = OffsOf(outbox) \/
              (ReplacementDue(e) /\ OffsOf(mid) = OffsOf(outbox) \cup {off})
         /\ OffsOf(box) = OffsOf(mid)
         /\ OnsOf(box) = IF fits THEN OnsOf(outbox) \cup {on} ELSE OnsOf(outbox)
    BY <1>2, <1>5, <1>6 DEF OnsOf, OffsOf
  <1>12. \A p \in box : p \in outbox \/ (p = off /\ off \in mid) \/ (p = on /\ fits)
    BY <1>2, <1>6
  <1>13. \A l : Covered(mid, l) => Covered(box, l)
    BY <1>11, CoveredBy
  <1>14. Numbered(outbox)'
    <2>1. IsFiniteSet(mid)
      BY <1>6, <1>10, FS_AddElement
    <2>2. IsFiniteSet(box)
      BY <1>2, <2>1, FS_AddElement
    <2>3. \A p \in box : p.seq < nextSeq + 2
      BY <1>1, <1>5, <1>6, <1>10, <1>12
    <2>4. \A p, q \in box : p.seq = q.seq => p = q
      BY <1>1, <1>5, <1>6, <1>10, <1>12
    <2> QED
      BY <1>2, <2>2, <2>3, <2>4 DEF Numbered, box
  <1>15. fits => Few(box)
    <2> SUFFICES ASSUME fits PROVE Few(box)
      OBVIOUS
    <2>1. IsFiniteSet(mid) /\ Cardinality(mid) \in Nat
      BY <1>6, <1>10, FS_AddElement, FS_CardinalityType
    <2>2. Cardinality(mid \cup {on}) \in {Cardinality(mid), Cardinality(mid) + 1}
      BY <2>1, FS_AddElement
    <2> QED
      BY <1>2, <2>1, <2>2, OutboxAssumption DEF Few, HasRoom
  <1>16. /\ LaunchesOf(OffsOf(box)) \subseteq
              LaunchesOf(OffsOf(outbox)) \cup ({Active} \ {LaunchOf(e)})
         /\ LaunchesOf(OffsOf(box)) \subseteq Known(outbox, actual, projected)
    <2>1. ReplacementDue(e) => Active # LaunchOf(e) /\ Active \in Known(outbox, actual, projected)
      <3>1. LaunchOf(e).launch = e.launch
        BY <1>2, <1>3, LaunchFields
      <3> QED
        BY <1>6, <3>1 DEF Known, Owed
    <2>2. OffsOf(box) = OffsOf(outbox) \/
            (ReplacementDue(e) /\ OffsOf(box) = OffsOf(outbox) \cup {off})
      BY <1>11
    <2> QED
      BY <1>6, <2>1, <2>2 DEF LaunchesOf, Known
  <1>17. Owed(box, actual) \subseteq
           Owed(outbox, actual) \cup (IF fits THEN {LaunchOf(e)} ELSE {})
    BY <1>5, <1>11 DEF Owed, LaunchesOf
  <1>18. Known(outbox, actual, projected)' \subseteq Known(outbox, actual, projected)
    <2>1. LaunchesOf(queue)' \subseteq LaunchesOf(queue)
      BY <1>2, <1>8 DEF LaunchesOf
    <2>2. Known(outbox, actual, projected)' = Owed(box, actual) \cup ({projected'} \ {None})
            \cup LaunchesOf(OffsOf(box)) \cup LaunchesOf(queue)'
      BY <1>2 DEF Known, Owed, LaunchesOf, OnsOf, OffsOf, box
    <2>3. Owed(box, actual) \cup ({projected'} \ {None}) \subseteq Known(outbox, actual, projected)
      BY <1>2, <1>3, <1>17 DEF Known
    <2> QED
      BY <1>16, <2>1, <2>2, <2>3 DEF Known
  <1>19. OneLaunch(outbox, actual, projected)'
    BY <1>1, <1>18 DEF Accounted, OneLaunch
  <1>20. Current(outbox, actual, projected)'
    <2>1. \A l \in Known(outbox, actual, projected)' :
            /\ l.gen <= sessionGen
            /\ l.gen = sessionGen => l.launch <= nextBoundary /\ (running => seqRunning)
      BY <1>1, <1>18 DEF Accounted, Current
    <2> QED
      BY <1>2, <2>1 DEF Current
  <1>21. Unsent(outbox, actual, projected)'
    <2> SUFFICES ASSUME NEW f \in queue', f.kind = "NoteOn"
                 PROVE  /\ LaunchOf(f) \notin Owed(box, actual) \cup {projected'}
                        /\ f.at < f.gate => LaunchOf(f) \notin LaunchesOf(OffsOf(box))
      BY <1>2 DEF Unsent, Owed, LaunchesOf, OnsOf, OffsOf, box
    <2>1. f \in queue /\ (fits => f # e)
      BY <1>2, <1>8
    <2>2. fits => LaunchOf(f) # LaunchOf(e)
      <3> SUFFICES ASSUME LaunchOf(f) = LaunchOf(e) PROVE f = e
        BY <2>1
      <3>1. SameLaunch(f, e)
        BY <1>1, <1>2, <1>3, <2>1, LaunchFields DEF SameLaunch
      <3> QED
        BY <1>1, <1>2, <1>3, <2>1, <3>1 DEF Planned
    <2>3. /\ LaunchOf(f) \notin Owed(outbox, actual) \cup {projected}
          /\ f.at < f.gate => LaunchOf(f) \notin LaunchesOf(OffsOf(outbox))
      BY <1>1, <2>1 DEF Accounted, Unsent
    <2>4. LaunchOf(f) \notin Owed(box, actual) \cup {projected'}
      BY <1>2, <1>17, <2>2, <2>3
    <2>5. ReplacementDue(e) => LaunchOf(f) # Active
      BY <1>6, <2>3 DEF Owed
    <2>6. f.at < f.gate => LaunchOf(f) \notin LaunchesOf(OffsOf(box))
      BY <1>6, <1>11, <2>3, <2>5 DEF LaunchesOf
    <2> QED
      BY <2>4, <2>6
  <1>22. ActualIsOwed(outbox, actual, projected)'
    BY <1>2, <1>6, <1>13 DEF ActualIsOwed, box
  <1>23. PendingIsOwed(outbox, projected)'
    <2> SUFFICES ASSUME NEW p \in OnsOf(box)
                 PROVE  Covered(box, p) \/ (projected' = LaunchOf(p) /\ Few(box))
      BY DEF PendingIsOwed, box
    <2> QED
      BY <1>2, <1>5, <1>6, <1>11, <1>13, <1>15
  <1>24. OnBeforeOff(box)
    <2> SUFFICES ASSUME NEW p \in OnsOf(box), NEW q \in OffsOf(box), SameLaunch(p, q)
                 PROVE  p.seq < q.seq
      BY DEF OnBeforeOff
    <2>1. CASE p \in OnsOf(outbox) /\ q \in OffsOf(outbox)
      BY <1>1, <2>1 DEF Accounted, OnBeforeOff
    <2>2. CASE p \in OnsOf(outbox) /\ q = off
      BY <1>6, <1>10, <2>2 DEF OnsOf
    <2>3. CASE p = on /\ fits
      <3>1. q \in Messages /\ LaunchOf(q) \in LaunchesOf(OffsOf(box))
        BY <1>1 DEF OffsOf, LaunchesOf
      <3>2. LaunchOf(q) \in Known(outbox, actual, projected)
        BY <1>16, <3>1
      <3>3. SameLaunch(LaunchOf(q), LaunchOf(e))
        BY <1>2, <1>3, <1>5, <2>3, <3>1, LaunchFields DEF OffsOf, SameLaunch
      <3>4. LaunchOf(q) = LaunchOf(e)
        BY <1>1, <1>3, <3>2, <3>3 DEF Accounted, OneLaunch
      <3>5. LaunchOf(e) \notin LaunchesOf(OffsOf(outbox))
        BY <1>1, <1>2, <1>3, <1>7 DEF Accounted, Unsent
      <3> QED
        BY <1>16, <3>1, <3>4, <3>5
    <2> QED
      BY <1>11, <2>1, <2>2, <2>3
  <1>25. ASSUME NEW q \in OffsOf(box) PROVE q.seq < on.seq /\ q.seq \in Nat
    BY <1>1, <1>5, <1>6, <1>10, <1>11 DEF OffsOf
  <1>26. OffBetween(box)
    <2> SUFFICES ASSUME NEW p \in OnsOf(box), NEW b \in box, Barrier(b), p.seq < b.seq
                 PROVE  \E q \in OffsOf(box) :
                          SameLaunch(p, q) /\ p.seq < q.seq /\ q.seq < b.seq
      BY DEF OffBetween
    <2>1. p # on
      <3>1. b \in outbox \/ b.seq \in {nextSeq, nextSeq + 1}
        BY <1>5, <1>6, <1>12
      <3> QED
        BY <1>1, <1>5, <1>10, <3>1
    <2>2. p \in OnsOf(outbox)
      BY <1>11, <2>1
    <2>3. CASE b \in outbox
      BY <1>1, <1>11, <2>2, <2>3 DEF Accounted, OffBetween
    <2>4. CASE b = on
      <3>1. PICK q \in OffsOf(box) : SameLaunch(q, p)
        BY <1>6, <1>13, <2>2, CoveredBy
      <3>2. SameLaunch(p, q) /\ p.seq < q.seq
        BY <1>24, <3>1 DEF OnBeforeOff, SameLaunch
      <3> QED
        BY <1>25, <2>4, <3>2
    <2> QED
      BY <1>6, <1>12, <2>3, <2>4 DEF Barrier
  <1>27. OffBefore(box, hostNotes)
    <2> SUFFICES ASSUME NEW n \in hostNotes, NEW b \in box, Barrier(b)
                 PROVE  \E q \in OffsOf(box) : q.note = n /\ q.seq < b.seq
      BY DEF OffBefore
    <2>1. CASE b \in outbox
      BY <1>1, <1>11, <2>1 DEF Accounted, OffBefore
    <2>2. CASE b = on
      <3>1. OffsOf(outbox) \subseteq OffsOf(box)
        BY <1>11
      <3>2. PICK q \in OffsOf(box) : q.note = n
        BY <1>1, <1>6, <1>13, <1>16, <3>1, EachHasOff
      <3> QED
        BY <1>25, <2>2, <3>2
    <2> QED
      BY <1>6, <1>12, <2>1, <2>2 DEF Barrier
  <1>28. OnBeforeOff(outbox)' /\ OffBetween(outbox)' /\ OffBefore(outbox, hostNotes)'
    BY <1>2, <1>24, <1>26, <1>27 DEF OnBeforeOff, OffBetween, OffBefore, box
  <1>29. HostHears(outbox, actual, hostNotes)'
    <2>1. OffsOf(outbox) \subseteq OffsOf(box)
      BY <1>11
    <2> QED
      BY <1>1, <1>2, <2>1 DEF Accounted, HostHears, box
  <1>30. OneOff(outbox)'
    <2>1. ReplacementDue(e) => \A q \in OffsOf(outbox) : ~SameLaunch(q, off) /\ ~SameLaunch(off, q)
      BY <1>6, CoveredBy DEF SameLaunch
    <2>2. queue' \subseteq queueLeft /\ queue' \subseteq queue
      BY <1>2, <1>8
    <2> QED
      BY <1>1, <1>9, <1>11, <2>1, <2>2 DEF Accounted, OneOff, box
  <1>31. Planned'
    <2>1. queue' \subseteq queue
      BY <1>2, <1>8
    <2> QED
      BY <1>1, <1>2, <2>1, PlannedSame
  <1>32. CutIsSilent'
    BY <1>2 DEF NoteInv, CutIsSilent
  <1> QED
    BY <1>14, <1>19, <1>20, <1>21, <1>22, <1>23, <1>28, <1>29, <1>30, <1>31, <1>32
       DEF NoteInv, Accounted

-----------------------------------------------------------------------------
(***************************************************************************)
(* The invariant                                                           *)
(***************************************************************************)
(* Steps that only look, or move time.                                     *)
LEMMA NoteQuiet ==
  ASSUME NoteInv, FlagInv',
         \/ CapacityKept \/ NoOutcome \/ ScheduleDone
         \/ \E step \in StepChoices, swing \in Swings : ScheduleOverflow(step, swing)
         \/ \E phase \in Phases : ConsumeTick(phase)
         \/ AdvanceRefused \/ DispatchDue \/ NothingDue \/ SendDueDone
         \/ ClockLost \/ ClockPresent
  PROVE  NoteInv'
  <1> USE DEF transportVars, plannerVars, outboxVars, sessionVars, passVars, noteVars, hostVars
  <1>1. UNCHANGED <<outbox, actual, projected, hostNotes, queue, nextSeq, sessionGen,
                    running, seqRunning, nextBoundary, outcome>>
    BY Zenon DEF CapacityKept, NoOutcome, ScheduleDone, ScheduleOverflow, ConsumeTick,
                 AdvanceRefused, DispatchDue, NothingDue, SendDueDone, Transferring,
                 ClockLost, ClockPresent
  <1> QED
    BY <1>1, NoteSame

LEMMA NoteStops ==
  ASSUME NoteInv, FlagInv',
         StopSession \/ CapacityStop \/ RetryWindowStop \/ EndPreviousSession
  PROVE  NoteInv'
  <1>1. /\ EndSession /\ UNCHANGED <<actual, projected, hostNotes>>
        /\ outcome' = outcome \/ outcome' = "None"
    BY Zenon DEF StopSession, Stop, CapacityStop, RetryWindowStop, EndPreviousSession,
                 passVars, noteVars, hostVars
  <1> QED
    BY <1>1, NoteEnds

LEMMA NoteWork ==
  ASSUME NoteInv, FlagInv', Work
  PROVE  NoteInv'
  BY NoteQuiet, NoteStops, NoteDisconnect, NoteStarts, NoteLaunch, NoteSchedule, NoteTick,
     NoteDrop, NoteTransfersOff, NoteTransfersOn DEF Work

(* The numbers of an empty outbox start over; nothing else is touched.     *)
LEMMA NoteOperations ==
  ASSUME NoteInv, FlagInv', Operation
  PROVE  NoteInv'
  <1> USE DEF transportVars, plannerVars, sessionVars, noteVars, hostVars
  <1>1. /\ PassUnchanged
        /\ nextSeq' = nextSeq \/ outbox = {}
    BY Zenon DEF Operation, Toggle, ApplyMode, OpenStorage, CloseStorage, Process,
                 ExternalStart, ExternalContinue, ExternalStop, ExternalClock, HearsExternal,
                 Pass
  <1>2. /\ UNCHANGED <<outbox, actual, projected, hostNotes, queue, sessionGen, running,
                       seqRunning, nextBoundary, outcome>>
        /\ Accounted(outbox, actual, projected, hostNotes)
    BY <1>1 DEF PassUnchanged, NoteInv
  <1>3. /\ Numbered(outbox)' /\ OnsOf(outbox)' = OnsOf(outbox)
        /\ OffsOf(outbox)' = OffsOf(outbox) /\ (Few(outbox) => Few(outbox)')
    BY <1>1, <1>2 DEF Accounted, Numbered, OnsOf, OffsOf, Few
  <1> QED
    BY <1>2, <1>3, NoteKeeps

(* Every launch that sounds at the host, is accepted, pending or scheduled *)
(* is accounted for in every state of every pass: see NoteInv.             *)
THEOREM NoteInvariance == Spec => []NoteInv
  <1>1. Init /\ FlagInv => NoteInv
    <2> SUFFICES ASSUME Init, FlagInv PROVE NoteInv
      OBVIOUS
    <2>1. /\ outbox = {} /\ queue = {} /\ actual = None /\ projected = None
          /\ hostNotes = {} /\ outcome = "None"
      BY DEF Init
    <2>2. OnsOf(outbox) = {} /\ OffsOf(outbox) = {} /\ Known(outbox, actual, projected) = {}
      BY <2>1 DEF OnsOf, OffsOf, Known, Owed, LaunchesOf
    <2>3. Numbered(outbox) /\ OneLaunch(outbox, actual, projected)
          /\ Current(outbox, actual, projected)
      BY <2>1, <2>2, FS_EmptySet DEF Numbered, OneLaunch, Current
    <2>4. Accounted(outbox, actual, projected, hostNotes)
      BY <2>1, <2>2, <2>3 DEF Accounted, Unsent, ActualIsOwed, PendingIsOwed, OnBeforeOff,
         OffBetween, OffBefore, HostHears, OneOff
    <2> QED
      BY <2>1, <2>4 DEF NoteInv, Planned, CutIsSilent
  <1>2. NoteInv /\ FlagInv' /\ [Next]_vars => NoteInv'
    <2> SUFFICES ASSUME NoteInv, FlagInv', [Next]_vars PROVE NoteInv'
      OBVIOUS
    <2>1. CASE UNCHANGED vars
      BY <2>1, NoteSame DEF vars, transportVars, plannerVars, outboxVars, sessionVars,
         passVars, noteVars, hostVars
    <2> QED
      BY <2>1, NoteOperations, NoteDelivery, NoteWork DEF Next
  <1> QED
    BY <1>1, <1>2, FlagInvariance, PTL DEF Spec

-----------------------------------------------------------------------------
(***************************************************************************)
(* What it means for the instrument                                        *)
(***************************************************************************)
(* No note hangs: whatever was refused, expired, replaced, stopped or cut, *)
(* a note that sounds at the host has its Off in the outbox, or is the     *)
(* launch the running session knows to be sounding.                        *)
THEOREM NoNoteIsStuck == Spec => []NoStuckNote
  <1>1. NoteInv => NoStuckNote
    <2> SUFFICES ASSUME NoteInv, NEW n \in hostNotes
                 PROVE  OffPending(n) \/ (running /\ actual # None /\ actual.note = n)
      BY DEF NoStuckNote
    <2>1. Accounted(outbox, actual, projected, hostNotes) /\ TypeOK
      BY DEF NoteInv, FlagInv, SessionInv
    <2>2. (\E q \in OffsOf(outbox) : q.note = n) => OffPending(n)
      BY DEF OffsOf, OffPending
    <2>3. CASE running /\ actual # None
      BY <2>1, <2>3 DEF Accounted, HostHears
    <2>4. CASE ~running /\ actual # None
      <3>1. Covered(outbox, actual)
        BY <2>1, <2>4 DEF Accounted, ActualIsOwed
      <3>2. /\ outbox \in SUBSET Messages
            /\ LaunchesOf(OffsOf(outbox)) \subseteq Known(outbox, actual, projected)
        BY <2>1 DEF TypeOK, Known
      <3> QED
        BY <2>1, <2>2, <3>1, <3>2, EachHasOff
    <2>5. CASE actual = None
      BY <2>1, <2>2, <2>5 DEF Accounted, HostHears
    <2> QED
      BY <2>3, <2>4, <2>5
  <1> QED
    BY <1>1, NoteInvariance, PTL

(* The Off of a launch is never both scheduled and pending, nor pending    *)
(* twice: an Off that is replaced or owed by a stop takes the place of the *)
(* one that was planned.                                                   *)
THEOREM OneOffALaunch == Spec => []OffIsNotDuplicated
  <1>1. NoteInv => OffIsNotDuplicated
    <2> SUFFICES ASSUME NoteInv, NEW p \in outbox, p.kind = "NoteOff"
                 PROVE  /\ \A q \in outbox \ {p} :
                             ~(q.kind = "NoteOff" /\ q.gen = p.gen /\ q.launch = p.launch)
                        /\ \A e \in queue :
                             ~(e.kind = "NoteOff" /\ e.gen = p.gen /\ e.launch = p.launch)
      BY DEF OffIsNotDuplicated
    <2>1. OneOff(outbox) /\ p \in OffsOf(outbox)
      BY DEF NoteInv, Accounted, OffsOf
    <2> QED
      BY <2>1 DEF OneOff, OffsOf, SameLaunch
  <1> QED
    BY <1>1, NoteInvariance, PTL

(* Whatever leads the outbox after the overdue messages left it, the host  *)
(* is silent when it is a NoteOn, a Start or a Stop.                       *)
LEMMA AcceptedInSilence ==
  ASSUME NoteInv, SendAccepted
  PROVE  /\ Accepted \in Live /\ Accepted \in Messages /\ Accepted \in outbox
         /\ Barrier(Accepted) => hostNotes = {}
  <1>1. /\ SessionInv /\ Accounted(outbox, actual, projected, hostNotes)
        /\ Live # {}
    BY DEF NoteInv, FlagInv, SendAccepted, Attempt
  <1>2. /\ OffBefore(Live, hostNotes) /\ Live \in SUBSET Messages /\ Live \subseteq outbox
    BY <1>1, LiveIsAccounted DEF Accounted
  <1>3. Accepted \in Live /\ \A q \in Live : Accepted.seq <= q.seq
    BY <1>1, <1>2, FrontOfOutbox DEF Accepted
  <1>4. Barrier(Accepted) => hostNotes = {}
    <2> HIDE DEF Accepted
    <2> QED
      BY <1>2, <1>3, SilentBarrier
  <1> QED
    BY <1>2, <1>3, <1>4

(* The instrument is played one note at a time: the host is silent when it *)
(* gets a NoteOn, whatever was refused, expired or replaced before.        *)
THEOREM NotesComeOneByOne == Spec => OneNoteAtATime
  <1>1. NoteInv /\ [Next]_vars =>
          [SendAccepted /\ Accepted.kind = "NoteOn" => hostNotes = {}]_vars
    BY AcceptedInSilence DEF Barrier
  <1> QED
    BY <1>1, NoteInvariance, PTL DEF Spec, OneNoteAtATime

(* The host hears a Stop only after the Off of the note it holds.          *)
THEOREM StopComesLast == Spec => OffBeforeStop
  <1>1. NoteInv /\ [Next]_vars =>
          [SendAccepted /\ Accepted.kind = "Stop" => hostNotes = {}]_vars
    BY AcceptedInSilence DEF Barrier
  <1> QED
    BY <1>1, NoteInvariance, PTL DEF Spec, OffBeforeStop

-----------------------------------------------------------------------------
(***************************************************************************)
(* A transport that follows no master                                      *)
(*                                                                         *)
(* An external Continue begins a session without a start, and a Stop that  *)
(* still waits is not superseded.  Without it, a Stop waits only while the *)
(* transport is stopped.                                                   *)
(***************************************************************************)
NoContinue(rest) == \A i \in 1 .. Len(rest) : rest[i] # "continue"

StopsWait == \A p \in outbox : p.kind = "Stop" => ~running /\ p.terminal

SoloInv ==
  /\ NoteInv
  /\ mode # "External"
  /\ NoContinue(agenda)
  /\ StopsWait

(* What the steps of a pass put in front of the rest of it: a send, a stop *)
(* or the way through a tick.                                              *)
SmallPuts == {<<"servicePending">>, <<"stop">>, <<"stopExternal">>}

DuePuts == {<<"sendDue", "servicePending">>, <<"sendDue", "servicePending", "advance">>}

Puts == SmallPuts \cup DuePuts \cup {<<"advance">>}

LEMMA AgendaSteps ==
  ASSUME Work \/ Delivery
  PROVE  /\ agenda # <<>>
         /\ \/ agenda' = agenda
            \/ agenda' = Tail(agenda)
            \/ \E work \in Puts :
                 /\ agenda' = work \o Tail(agenda)
                 /\ \/ work \in SmallPuts
                    \/ Head(agenda) \in {"consumeTick", "advance", "dispatchDue"}
                 /\ work \in DuePuts => haveTick'
  <1> USE DEF transportVars
  <1>1. CASE Delivery
    BY <1>1, Zenon DEF Delivery, ServiceEnded, RetryWindowExceeded, OutboxDrained, SendAccepted,
           SendRetryLater, SendDisconnected, Attempt, CanSend, Doing, Done
  <1>2. ASSUME NEW step \in StepChoices, NEW swing \in Swings, ScheduleStep(step, swing)
        PROVE  agenda # <<>> /\ agenda' = agenda
    BY <1>2 DEF ScheduleStep, Doing
  <1>3. /\ <<"servicePending">> \in SmallPuts /\ <<"stop">> \in SmallPuts
        /\ <<"stopExternal">> \in SmallPuts /\ SmallPuts \subseteq Puts
        /\ <<"servicePending">> \notin DuePuts /\ <<"stop">> \notin DuePuts
        /\ <<"stopExternal">> \notin DuePuts /\ <<"advance">> \in Puts \ DuePuts
        /\ <<"sendDue", "servicePending">> \in DuePuts \cap Puts
        /\ <<"sendDue", "servicePending", "advance">> \in DuePuts \cap Puts
    BY DEF SmallPuts, DuePuts, Puts
  <1> DEFINE Small == \E work \in SmallPuts : agenda' = work \o Tail(agenda)
             Open(work) == /\ agenda' = work \o Tail(agenda)
                           /\ Head(agenda) \in {"consumeTick", "advance", "dispatchDue"}
  <1>4. ASSUME NEW step \in StepChoices, NEW swing \in Swings, ScheduleOverflow(step, swing)
        PROVE  agenda # <<>> /\ Small
    BY <1>3, <1>4 DEF ScheduleOverflow, Doing
  <1>5. ASSUME NEW phase \in Phases, ConsumeTick(phase)
        PROVE  /\ agenda # <<>>
               /\ \/ agenda' = Tail(agenda)
                  \/ Open(<<"sendDue", "servicePending", "advance">>) /\ haveTick'
                  \/ Open(<<"advance">>)
    BY <1>5, Zenon DEF ConsumeTick, Doing, Done, Then
  <1>6. CASE AdvanceTick \/ DispatchDue
    <2>1. haveTick'
      <3>1. CASE AdvanceTick
        BY <3>1, Zenon DEF AdvanceTick
      <3>2. CASE DispatchDue
        <4>1. haveTick' = haveTick
          BY <3>2 DEF DispatchDue
        <4>2. haveTick
          BY <3>2, Zenon DEF DispatchDue
        <4> QED
          BY <4>1, <4>2, Zenon
      <3> QED
        BY <1>6, <3>1, <3>2
    <2>2. agenda # <<>> /\ Open(<<"sendDue", "servicePending">>)
      BY <1>6, Zenon DEF AdvanceTick, DispatchDue, Doing, Then
    <2> QED
      BY <1>3, <2>1, <2>2
  <1>7. CASE \/ StopSession \/ CapacityStop \/ EndPreviousSession \/ DispatcherStart
             \/ ClockLost
    <2>1. agenda # <<>> /\ (Small \/ agenda' = Tail(agenda))
      BY <1>3, <1>7, Zenon DEF StopSession, Stop, CapacityStop, EndPreviousSession,
             DispatcherStart, ClockLost, Doing, Done, Then
    <2> QED
      BY <1>3, <2>1 DEF SmallPuts, DuePuts
  <1>8. CASE \/ CapacityKept \/ NoOutcome \/ RetryWindowStop \/ Disconnect \/ LaunchSession
             \/ ContinueSession \/ ScheduleDone \/ AdvanceRefused \/ NothingDue \/ SendDueDone
             \/ DropLaunch \/ TransferNoteOff \/ TransferNoteOn \/ ClockPresent
    BY <1>8, Zenon DEF CapacityKept, NoOutcome, RetryWindowStop, Disconnect, LaunchSession,
           ContinueSession, ScheduleDone, AdvanceRefused, NothingDue, SendDueDone, DropLaunch,
           TransferNoteOff, TransferNoteOn, ClockPresent, Transferring, Doing, Done
  <1>9. Small => \E work \in Puts : /\ agenda' = work \o Tail(agenda)
                                   /\ work \in SmallPuts /\ work \notin DuePuts
    BY <1>3 DEF SmallPuts
  <1>10. (\E phase \in Phases : ConsumeTick(phase)) =>
           /\ agenda # <<>>
           /\ \/ agenda' = Tail(agenda)
              \/ \E work \in Puts :
                   /\ agenda' = work \o Tail(agenda)
                   /\ Head(agenda) \in {"consumeTick", "advance", "dispatchDue"}
                   /\ work \in DuePuts => haveTick'
    BY <1>3, <1>5
  <1> QED
    BY <1>1, <1>2, <1>4, <1>6, <1>7, <1>8, <1>9, <1>10 DEF Work

LEMMA PutTypes ==
  Puts \subseteq Seq(Labels) /\ \A work \in Puts : NoContinue(work)
  BY DEF Puts, SmallPuts, DuePuts, Labels, NoContinue

LEMMA NoContinueTail ==
  ASSUME NEW rest \in Seq(Labels), rest # <<>>, NoContinue(rest)
  PROVE  NoContinue(Tail(rest)) /\ Tail(rest) \in Seq(Labels) /\ Head(rest) # "continue"
  <1>1. /\ Tail(rest) \in Seq(Labels) /\ Len(rest) \in Nat \ {0}
        /\ Len(Tail(rest)) = Len(rest) - 1 /\ Head(rest) = rest[1]
        /\ \A i \in 1 .. Len(Tail(rest)) : Tail(rest)[i] = rest[i + 1]
    BY TailAt
  <1>2. \A i \in 1 .. Len(Tail(rest)) : i + 1 \in 1 .. Len(rest)
    BY <1>1
  <1>3. 1 \in 1 .. Len(rest)
    BY <1>1
  <1> QED
    BY <1>1, <1>2, <1>3 DEF NoContinue

LEMMA NoContinueConcat ==
  ASSUME NEW work \in Seq(Labels), NEW rest \in Seq(Labels), NoContinue(work), NoContinue(rest)
  PROVE  NoContinue(work \o rest)
  <1>1. /\ Len(work) \in Nat /\ Len(rest) \in Nat /\ Len(work \o rest) = Len(work) + Len(rest)
        /\ \A i \in 1 .. Len(work) : (work \o rest)[i] = work[i]
        /\ \A i \in 1 .. Len(rest) : (work \o rest)[Len(work) + i] = rest[i]
    BY ConcatAt
  <1> SUFFICES ASSUME NEW i \in 1 .. Len(work \o rest) PROVE (work \o rest)[i] # "continue"
    BY DEF NoContinue
  <1>2. CASE i <= Len(work)
    BY <1>1, <1>2 DEF NoContinue
  <1>3. CASE i > Len(work)
    <2>1. i - Len(work) \in 1 .. Len(rest) /\ Len(work) + (i - Len(work)) = i
      BY <1>1, <1>3
    <2> QED
      BY <1>1, <2>1 DEF NoContinue
  <1> QED
    BY <1>1, <1>2, <1>3

LEMMA PassHasNoContinue ==
  ASSUME NEW work \in Seq(Labels), Plain(work), Pass(work)
  PROVE  NoContinue(agenda')
  <1>1. /\ "servicePending" \in Labels /\ FinishPass \in Seq(Labels)
    BY WorkTypes DEF Labels
  <1>2. <<"servicePending">> \o work \in Seq(Labels) /\ <<"servicePending">> \in Seq(Labels)
    BY <1>1, PutAt
  <1>3. /\ NoContinue(work) /\ NoContinue(FinishPass)
        /\ NoContinue(<<"servicePending">>)
    BY PlainWork DEF Plain, PlainAt, NoContinue
  <1>4. NoContinue(<<"servicePending">> \o work)
    BY <1>2, <1>3, NoContinueConcat
  <1>5. NoContinue(<<"servicePending">> \o work \o FinishPass)
    BY <1>1, <1>2, <1>3, <1>4, NoContinueConcat
  <1> QED
    BY <1>5 DEF Pass

LEMMA SoloOperations ==
  ASSUME "External" \notin Modes, SoloInv, NoteInv', Operation
  PROVE  SoloInv'
  <1> USE DEF transportVars, controlVars
  <1>1. /\ Plain(StartSession) /\ StartSession \in Seq(Labels)
        /\ Plain(<<"stop">>) /\ <<"stop">> \in Seq(Labels)
    BY WorkTypes, PlainWork DEF Labels
  <1>2. ~HearsExternal
    BY DEF SoloInv, HearsExternal
  <1>3. PassUnchanged /\ mode' # "External"
    BY <1>2, Zenon DEF Operation, Toggle, ApplyMode, OpenStorage, CloseStorage, Process,
           ExternalStart, ExternalContinue, ExternalStop, ExternalClock, SoloInv
  <1>4. StopsWait'
    BY <1>3 DEF SoloInv, StopsWait, PassUnchanged
  <1>5. NoContinue(agenda')
    <2>1. CASE Toggle
      BY <1>1, <2>1, PassHasNoContinue DEF Toggle
    <2>2. ASSUME NEW m \in Modes, ApplyMode(m) PROVE NoContinue(agenda')
      BY <1>1, <2>2, PassHasNoContinue DEF ApplyMode
    <2>3. CASE OpenStorage
      BY <1>1, <2>3, PassHasNoContinue DEF OpenStorage
    <2>4. CASE CloseStorage
      BY <2>4 DEF CloseStorage, SoloInv
    <2>5. ASSUME NEW n \in 0 .. MaxTicksPerPass, Process(n) PROVE NoContinue(agenda')
      <3> DEFINE ticks == [i \in 1 .. 2 * n |->
                             IF i % 2 = 1 THEN "consumeTick" ELSE "capCheck"]
                 loss == IF mode = "External" THEN <<"clockLoss">> ELSE <<>>
                 work == ticks \o <<"dispatchDue", "capCheck", "schedule">> \o loss
      <3>1. Pass(work)
        BY <2>5, Zenon DEF Process
      <3>2. n \in Nat /\ loss \in {<<"clockLoss">>, <<>>}
        BY ControllerAssumption
      <3>3. work \in Seq(Labels) /\ Plain(work)
        <4> HIDE DEF loss
        <4> QED
          BY <3>2, ProcessWork
      <3> HIDE DEF work
      <3> QED
        BY <3>1, <3>3, PassHasNoContinue
    <2> QED
      BY <1>2, <2>1, <2>2, <2>3, <2>4, <2>5
         DEF Operation, ExternalStart, ExternalContinue, ExternalStop, ExternalClock
  <1> QED
    BY <1>3, <1>4, <1>5 DEF SoloInv

(* Only a stop adds a Stop, a start takes all of them, and nothing else    *)
(* begins a session.                                                       *)
LEMMA StopsWaitKept ==
  ASSUME SoloInv, Work \/ Delivery
  PROVE  StopsWait'
  <1> USE DEF transportVars, outboxVars
  <1>1. StopsWait /\ agenda \in Seq(Labels) /\ NoContinue(agenda)
    BY DEF SoloInv, NoteInv, FlagInv, SessionInv, TypeOK
  <1>2. ASSUME UNCHANGED running, \A p \in outbox' : p \in outbox \/ p.kind # "Stop"
        PROVE  StopsWait'
    BY <1>1, <1>2 DEF StopsWait
  <1>3. CASE Delivery
    <2>1. UNCHANGED running /\ outbox' \subseteq outbox
      BY <1>3, Zenon DEF Delivery, ServiceEnded, RetryWindowExceeded, OutboxDrained, SendAccepted,
             SendRetryLater, SendDisconnected, Attempt, Live
    <2> QED
      BY <1>2, <2>1
  <1>4. CASE EndSession
    <2>1. \A p \in outbox' : p \in outbox \/ p.kind # "Stop" \/ p.terminal
      BY <1>4 DEF EndSession, WithTerminalStop, WithTerminalOff, Kept, Push, Pending
    <2> QED
      BY <1>1, <1>4, <2>1 DEF StopsWait, EndSession
  <1>5. CASE DispatcherStart
    <2>1. \A p \in outbox' : p.kind # "Stop"
      BY <1>1, <1>5 DEF DispatcherStart, StopsWait, Push, Pending
    <2> QED
      BY <2>1 DEF StopsWait
  <1>6. CASE ContinueSession
    BY <1>1, <1>6, NoContinueTail DEF ContinueSession, Doing
  <1>7. CASE Disconnect
    BY <1>7 DEF Disconnect, StopsWait
  <1>8. CASE AdvanceTick
    <2>1. \A p \in outbox' : p \in outbox \/ p.kind # "Stop"
      BY <1>8 DEF AdvanceTick, Push, Pending
    <2> QED
      BY <1>2, <1>8, <2>1 DEF AdvanceTick
  <1>9. CASE TransferNoteOff \/ TransferNoteOn
    <2>1. \A p \in outbox' : p \in outbox \/ p.kind # "Stop"
      BY <1>9 DEF TransferNoteOff, TransferNoteOn, ReplacementOff, Push, Pending
    <2> QED
      BY <1>2, <1>9, <2>1 DEF TransferNoteOff, TransferNoteOn, Transferring
  <1>10. CASE StopSession \/ CapacityStop \/ RetryWindowStop \/ EndPreviousSession
    BY <1>4, <1>10 DEF StopSession, Stop, CapacityStop, RetryWindowStop, EndPreviousSession
  <1>11. CASE UNCHANGED <<running, outbox>>
    BY <1>2, <1>11
  <1>12. CASE \/ CapacityKept \/ NoOutcome \/ LaunchSession \/ ScheduleDone
              \/ \E step \in StepChoices, swing \in Swings : ScheduleStep(step, swing)
              \/ \E step \in StepChoices, swing \in Swings : ScheduleOverflow(step, swing)
              \/ \E phase \in Phases : ConsumeTick(phase)
              \/ AdvanceRefused \/ DispatchDue \/ NothingDue \/ SendDueDone \/ DropLaunch
              \/ ClockLost \/ ClockPresent
    BY <1>11, <1>12, Zenon DEF CapacityKept, NoOutcome, LaunchSession, ScheduleDone,
           ScheduleStep, ScheduleOverflow, ConsumeTick, AdvanceRefused, DispatchDue,
           NothingDue, SendDueDone, DropLaunch, Transferring, ClockLost, ClockPresent
  <1> QED
    BY <1>3, <1>5, <1>6, <1>7, <1>8, <1>9, <1>10, <1>12 DEF Work

LEMMA SoloSteps ==
  ASSUME SoloInv, NoteInv', Work \/ Delivery
  PROVE  SoloInv'
  <1>1. agenda \in Seq(Labels) /\ NoContinue(agenda)
    BY DEF SoloInv, NoteInv, FlagInv, SessionInv, TypeOK
  <1>2. NoContinue(agenda')
    BY <1>1, AgendaSteps, PutTypes, NoContinueTail, NoContinueConcat
  <1>3. UNCHANGED mode
    <2>1. CASE Delivery
      BY <2>1, Zenon DEF controlVars, Delivery, ServiceEnded, RetryWindowExceeded,
             OutboxDrained, SendAccepted, SendRetryLater, SendDisconnected, Attempt
    <2>2. CASE Work
      BY <2>2, Zenon DEF controlVars, Work, StopSession, Stop, CapacityStop, CapacityKept,
             NoOutcome, RetryWindowStop, Disconnect, EndPreviousSession, DispatcherStart,
             LaunchSession, ContinueSession, ScheduleDone, ScheduleStep, ScheduleOverflow,
             ConsumeTick, AdvanceTick, AdvanceRefused, DispatchDue, NothingDue, SendDueDone,
             DropLaunch, TransferNoteOff, TransferNoteOn, Transferring, ClockLost, ClockPresent
    <2> QED
      BY <2>1, <2>2
  <1> QED
    BY <1>2, <1>3, StopsWaitKept DEF SoloInv

(* While no external mode can be chosen, a Stop waits only in a stopped    *)
(* transport, and no pass continues a session.                             *)
THEOREM SoloInvariance ==
  ASSUME "External" \notin Modes
  PROVE  Spec => []SoloInv
  <1>1. Init /\ NoteInv => SoloInv
    BY DEF Init, SoloInv, NoContinue, StopsWait
  <1>2. SoloInv /\ NoteInv' /\ [Next]_vars => SoloInv'
    <2> SUFFICES ASSUME SoloInv, NoteInv', [Next]_vars PROVE SoloInv'
      OBVIOUS
    <2>1. CASE UNCHANGED vars
      BY <2>1 DEF vars, transportVars, outboxVars, controlVars, SoloInv, StopsWait
    <2> QED
      BY <2>1, SoloOperations, SoloSteps DEF Next
  <1> QED
    BY <1>1, <1>2, NoteInvariance, PTL DEF Spec


LEMMA VoiceDelivery ==
  ASSUME SoloInv, Delivery
  PROVE  [Voice!VoiceNext]_(Voice!voice)
  <1> USE DEF transportVars, passVars, hostVars, Voice!voice
  <1>1. /\ SessionInv /\ TypeOK /\ Accounted(outbox, actual, projected, hostNotes)
        /\ StopsWait
    BY DEF SoloInv, NoteInv, FlagInv, SessionInv
  <1>2. CASE ServiceEnded \/ OutboxDrained \/ SendRetryLater
    BY <1>2 DEF ServiceEnded, OutboxDrained, SendRetryLater, Attempt
  <1>3. CASE RetryWindowExceeded
    BY <1>3 DEF RetryWindowExceeded, CanSend
  <1>4. CASE SendDisconnected
    BY <1>4 DEF SendDisconnected, Attempt, CanSend, Voice!VoiceNext, Voice!CableLost
  <1>5. CASE SendAccepted
    <2> DEFINE p == Accepted
    <2>1. /\ p \in Messages /\ p \in outbox /\ (Barrier(p) => hostNotes = {})
          /\ Musical(p) => running
      BY <1>1, <1>5, AcceptedInSilence DEF SoloInv, SessionInv, MusicIsLive
    <2>2. /\ hostNotes' = IF p.kind = "NoteOn" THEN hostNotes \cup {p.note}
                          ELSE IF p.kind = "NoteOff" THEN hostNotes \ {p.note}
                          ELSE hostNotes
          /\ hostPlaying' = (p.kind = "Start" \/ (hostPlaying /\ p.kind # "Stop"))
          /\ UNCHANGED <<running, outcome>> /\ outcome # "Disconnected"
      BY <1>5 DEF SendAccepted, Attempt, CanSend, HostReceives, Accepted
    <2>3. p.kind \in {"NoteOn", "NoteOff", "Clock", "Start", "Stop"}
      BY <2>1 DEF Messages, NoteMessages, RealtimeMessages
    <2>4. p.kind = "NoteOn" => p.note \in Notes
      BY <2>1 DEF Messages, NoteMessages, RealtimeMessages
    <2>5. hostPlaying \in BOOLEAN /\ \A m, n \in hostNotes : m = n
      BY <1>1 DEF TypeOK, Accounted, HostHears
    <2>6. Voice!Heard
      BY <2>2 DEF Voice!Heard
    <2> HIDE DEF p
    <2>7. CASE p.kind = "NoteOn"
      <3>1. Voice!Attack(p.note)
        BY <2>1, <2>2, <2>5, <2>6, <2>7 DEF Voice!Attack, Voice!Silent, Barrier, Musical
      <3> QED
        BY <2>4, <2>7, <3>1 DEF Voice!VoiceNext
    <2>8. CASE p.kind = "NoteOff"
      <3>1. hostNotes' = hostNotes \/ (hostNotes # {} /\ hostNotes' = {})
        BY <2>2, <2>5, <2>8
      <3>2. UNCHANGED <<running, hostPlaying, outcome>>
        BY <2>2, <2>5, <2>8
      <3> QED
        BY <2>6, <3>1, <3>2 DEF Voice!VoiceNext, Voice!Release, Voice!Silent
    <2>9. CASE p.kind = "Clock"
      BY <2>2, <2>5, <2>9
    <2>10. CASE p.kind = "Start"
      <3>1. Voice!StartInstrument
        BY <2>1, <2>2, <2>6, <2>10 DEF Voice!StartInstrument, Voice!Silent, Barrier, Musical
      <3> QED
        BY <3>1 DEF Voice!VoiceNext
    <2>11. CASE p.kind = "Stop"
      <3>1. ~running
        BY <1>1, <2>1, <2>11 DEF StopsWait
      <3>2. Voice!StopInstrument
        BY <2>1, <2>2, <2>6, <2>11, <3>1 DEF Voice!StopInstrument, Voice!Silent, Barrier
      <3> QED
        BY <3>2 DEF Voice!VoiceNext
    <2> QED
      BY <2>3, <2>7, <2>8, <2>9, <2>10, <2>11
  <1> QED
    BY <1>2, <1>3, <1>4, <1>5 DEF Delivery

(* Nothing but a send reaches the host; a lost cable is dealt with by      *)
(* giving up the session.                                                  *)
LEMMA HostIsLeft ==
  ASSUME Operation \/ Work
  PROVE  /\ UNCHANGED <<hostNotes, hostPlaying>>
         /\ \/ outcome' = outcome
            \/ outcome = "RetryWindowExceeded" /\ outcome' = "None"
            \/ outcome = "Disconnected" /\ outcome' = "None" /\ running' = FALSE
  <1>1. CASE Operation
    BY <1>1, Zenon DEF Operation, Toggle, ApplyMode, OpenStorage, CloseStorage, Process,
           ExternalStart, ExternalContinue, ExternalStop, ExternalClock, PassUnchanged, hostVars
  <1>2. CASE Work
    BY <1>2, Zenon DEF hostVars, passVars, Work, StopSession, Stop, CapacityStop, CapacityKept,
           NoOutcome, RetryWindowStop, Disconnect, EndPreviousSession, DispatcherStart,
           LaunchSession, ContinueSession, ScheduleDone, ScheduleStep, ScheduleOverflow,
           ConsumeTick, AdvanceTick, AdvanceRefused, DispatchDue, NothingDue, SendDueDone,
           DropLaunch, TransferNoteOff, TransferNoteOn, Transferring, ClockLost, ClockPresent
  <1> QED
    BY <1>1, <1>2

(* Seen through the cable, the controller is a monophonic voice: every     *)
(* step of its passes is a step of MonophonicVoice or changes nothing the  *)
(* instrument hears.  An external master's Continue is left out: with it a *)
(* Stop of an earlier session may reach the host while a session runs.     *)
THEOREM VoiceIsMonophonic ==
  ASSUME "External" \notin Modes
  PROVE  Spec => Voice!VoiceSafety
  <1>1. Init => Voice!VoiceInit
    BY DEF Init, Voice!VoiceInit
  <1>2. SoloInv /\ SoloInv' /\ [Next]_vars => [Voice!VoiceNext]_(Voice!voice)
    <2> SUFFICES ASSUME SoloInv, SoloInv', [Next]_vars
                 PROVE  [Voice!VoiceNext]_(Voice!voice)
      OBVIOUS
    <2>1. CASE UNCHANGED vars
      BY <2>1 DEF vars, transportVars, passVars, hostVars, Voice!voice
    <2>2. CASE Operation \/ Work
      <3>1. running' \in BOOLEAN
        BY DEF SoloInv, NoteInv, FlagInv, SessionInv, TypeOK
      <3>2. CASE outcome = "Disconnected" /\ outcome' = "None" /\ running' = FALSE
        BY <2>2, <3>2, HostIsLeft DEF Voice!VoiceNext, Voice!CableGivenUp
      <3>3. CASE (outcome' = "Disconnected") = (outcome = "Disconnected")
        BY <2>2, <3>1, <3>3, HostIsLeft DEF Voice!VoiceNext, Voice!Begin, Voice!End
      <3> QED
        BY <2>2, <3>2, <3>3, HostIsLeft
    <2> QED
      BY <2>1, <2>2, VoiceDelivery DEF Next
  <1> QED
    BY <1>1, <1>2, SoloInvariance, PTL DEF Spec, Voice!VoiceSafety

-----------------------------------------------------------------------------
(***************************************************************************)
(* The terminal reserve                                                    *)
(*                                                                         *)
(* Only the Off of a replaced launch may pass the normal capacity.  That   *)
(* leaves room for the Stop because it happens once: the pass then looks   *)
(* at its capacity, and stops, before another event is due.                *)
(***************************************************************************)
CheckFollowsAt(rest, i) ==
  /\ rest[i] \in {"consumeTick", "advance", "dispatchDue"} =>
       i < Len(rest) /\ rest[i + 1] = "capCheck"
  /\ rest[i] = "sendDue" =>
       /\ i + 1 < Len(rest) /\ rest[i + 1] = "servicePending"
       /\ rest[i + 2] \in {"advance", "capCheck"}

CheckFollows(rest) == \A i \in 1 .. Len(rest) : CheckFollowsAt(rest, i)

DueIsOpen == \A i \in 1 .. Len(agenda) : agenda[i] = "sendDue" => haveTick

(* The pass will stop the transport before it moves another event.         *)
HaltsSoon(rest) ==
  \E i \in 1 .. Len(rest) :
    rest[i] = "capCheck" /\ \A j \in 1 .. i - 1 : rest[j] \in {"servicePending", "advance"}

Halting == capacityExceeded /\ haveTick /\ HaltsSoon(agenda)

(* A session that has queued no launch yet, behind a full outbox.          *)
NothingPlayed ==
  OnsOf(outbox) = {} /\ (projected = None \/ projected.gen # sessionGen)

Music(box) == {p \in box : p.kind # "Stop"}

RoomForStop == Cardinality(Music(outbox)) <= NormalCapacity + 1

FullIsHalting == running /\ ~Few(outbox) => Halting \/ NothingPlayed

RoomInv ==
  /\ SoloInv
  /\ CheckFollows(agenda)
  /\ DueIsOpen
  /\ RoomForStop
  /\ FullIsHalting

LEMMA CheckFollowsTail ==
  ASSUME NEW rest \in Seq(Labels), rest # <<>>, CheckFollows(rest)
  PROVE  CheckFollows(Tail(rest)) /\ CheckFollowsAt(rest, 1)
  <1> DEFINE t == Tail(rest)
  <1>1. /\ Len(rest) \in Nat \ {0} /\ Len(t) = Len(rest) - 1
        /\ \A i \in 1 .. Len(t) : t[i] = rest[i + 1]
    BY TailAt
  <1> HIDE DEF t
  <1>2. ASSUME NEW i \in 1 .. Len(t) PROVE CheckFollowsAt(t, i)
    <2>1. i + 1 \in 1 .. Len(rest) /\ CheckFollowsAt(rest, i + 1) /\ t[i] = rest[i + 1]
      BY <1>1 DEF CheckFollows
    <2>2. t[i] \in {"consumeTick", "advance", "dispatchDue"} =>
            i < Len(t) /\ t[i + 1] = "capCheck"
      <3>1. i + 1 < Len(rest) => i + 1 \in 1 .. Len(t) /\ t[i + 1] = rest[(i + 1) + 1]
        BY <1>1
      <3> QED
        BY <1>1, <2>1, <3>1 DEF CheckFollowsAt
    <2>3. t[i] = "sendDue" => /\ i + 1 < Len(t) /\ t[i + 1] = "servicePending"
                              /\ t[i + 2] \in {"advance", "capCheck"}
      <3>1. (i + 1) + 1 < Len(rest) =>
              /\ i + 1 < Len(t) /\ i + 1 \in 1 .. Len(t) /\ i + 2 \in 1 .. Len(t)
              /\ t[i + 1] = rest[(i + 1) + 1] /\ t[i + 2] = rest[(i + 1) + 2]
        <4>1. (i + 2) + 1 = (i + 1) + 2
          BY <1>1
        <4> QED
          BY <1>1, <4>1
      <3> QED
        BY <2>1, <3>1 DEF CheckFollowsAt
    <2> QED
      BY <2>2, <2>3 DEF CheckFollowsAt
  <1>3. 1 \in 1 .. Len(rest)
    BY <1>1
  <1> QED
    BY <1>2, <1>3 DEF CheckFollows, t

LEMMA CheckFollowsConcat ==
  ASSUME NEW work \in Seq(Labels), NEW rest \in Seq(Labels), CheckFollows(rest),
         \A i \in 1 .. Len(work) : CheckFollowsAt(work \o rest, i)
  PROVE  CheckFollows(work \o rest)
  <1> DEFINE t == work \o rest
  <1>1. /\ Len(work) \in Nat /\ Len(rest) \in Nat /\ Len(t) = Len(work) + Len(rest)
        /\ \A i \in 1 .. Len(rest) : t[Len(work) + i] = rest[i]
    BY ConcatAt
  <1>2. \A i \in 1 .. Len(work) : CheckFollowsAt(t, i)
    OBVIOUS
  <1> HIDE DEF t
  <1>3. ASSUME NEW k \in 1 .. Len(rest) PROVE CheckFollowsAt(t, Len(work) + k)
    <2>1. CheckFollowsAt(rest, k) /\ t[Len(work) + k] = rest[k]
      BY <1>1 DEF CheckFollows
    <2>2. k < Len(rest) => /\ Len(work) + k < Len(t)
                           /\ t[(Len(work) + k) + 1] = rest[k + 1]
      <3> SUFFICES ASSUME k < Len(rest)
                   PROVE  Len(work) + k < Len(t) /\ t[(Len(work) + k) + 1] = rest[k + 1]
        OBVIOUS
      <3>1. k + 1 \in 1 .. Len(rest) /\ Len(work) + (k + 1) = (Len(work) + k) + 1
        BY <1>1
      <3> QED
        BY <1>1, <3>1
    <2>3. k + 1 < Len(rest) => /\ (Len(work) + k) + 1 < Len(t)
                               /\ t[(Len(work) + k) + 1] = rest[k + 1]
                               /\ t[(Len(work) + k) + 2] = rest[k + 2]
      <3> SUFFICES ASSUME k + 1 < Len(rest)
                   PROVE  /\ (Len(work) + k) + 1 < Len(t)
                          /\ t[(Len(work) + k) + 1] = rest[k + 1]
                          /\ t[(Len(work) + k) + 2] = rest[k + 2]
        OBVIOUS
      <3>1. /\ k + 1 \in 1 .. Len(rest) /\ Len(work) + (k + 1) = (Len(work) + k) + 1
            /\ k + 2 \in 1 .. Len(rest) /\ Len(work) + (k + 2) = (Len(work) + k) + 2
        BY <1>1
      <3> QED
        BY <1>1, <3>1
    <2> QED
      BY <2>1, <2>2, <2>3 DEF CheckFollowsAt
  <1>4. ASSUME NEW i \in 1 .. Len(t) PROVE CheckFollowsAt(t, i)
    <2>1. CASE i <= Len(work)
      BY <1>1, <1>2, <2>1
    <2>2. CASE i > Len(work)
      <3>1. i - Len(work) \in 1 .. Len(rest) /\ Len(work) + (i - Len(work)) = i
        BY <1>1, <2>2
      <3> QED
        BY <1>3, <3>1
    <2> QED
      BY <1>1, <2>1, <2>2
  <1> QED
    BY <1>4 DEF CheckFollows, t

(* What is complete in itself stays so in front of anything.               *)
LEMMA CheckFollowsBoth ==
  ASSUME NEW work \in Seq(Labels), NEW rest \in Seq(Labels), CheckFollows(work),
         CheckFollows(rest)
  PROVE  CheckFollows(work \o rest)
  <1> DEFINE t == work \o rest
  <1>1. /\ Len(work) \in Nat /\ Len(rest) \in Nat /\ Len(t) = Len(work) + Len(rest)
        /\ \A i \in 1 .. Len(work) : t[i] = work[i]
    BY ConcatAt
  <1> HIDE DEF t
  <1>2. ASSUME NEW i \in 1 .. Len(work) PROVE CheckFollowsAt(t, i)
    <2>1. CheckFollowsAt(work, i) /\ t[i] = work[i]
      BY <1>1 DEF CheckFollows
    <2>2. i < Len(work) => i < Len(t) /\ t[i + 1] = work[i + 1]
      BY <1>1
    <2>3. i + 1 < Len(work) =>
            i + 1 < Len(t) /\ t[i + 1] = work[i + 1] /\ t[i + 2] = work[i + 2]
      BY <1>1
    <2> QED
      BY <2>1, <2>2, <2>3 DEF CheckFollowsAt
  <1> QED
    BY <1>2, CheckFollowsConcat DEF t

LEMMA CheckFollowsPuts ==
  ASSUME NEW rest \in Seq(Labels), CheckFollows(rest), NEW work \in Puts,
         work \in SmallPuts \/ (rest # <<>> /\ rest[1] = "capCheck")
  PROVE  CheckFollows(work \o rest)
  <1> DEFINE t == work \o rest
  <1>1. work \in Seq(Labels)
    BY PutTypes
  <1>2. /\ Len(work) \in Nat /\ Len(rest) \in Nat /\ Len(t) = Len(work) + Len(rest)
        /\ \A i \in 1 .. Len(work) : t[i] = work[i]
        /\ \A i \in 1 .. Len(rest) : t[Len(work) + i] = rest[i]
    BY <1>1, ConcatAt
  <1>3. rest # <<>> => 1 \in 1 .. Len(rest)
    BY <1>2
  <1> HIDE DEF t
  <1>4. CASE work \in SmallPuts
    <2>1. Len(work) = 1 /\ work[1] \in {"servicePending", "stop", "stopExternal"}
      BY <1>4 DEF SmallPuts
    <2>2. CheckFollowsAt(t, 1)
      BY <1>2, <2>1 DEF CheckFollowsAt
    <2>3. \A i \in 1 .. Len(work) : CheckFollowsAt(t, i)
      BY <2>1, <2>2
    <2> QED
      BY <1>1, <2>3, CheckFollowsConcat DEF t
  <1>5. CASE work = <<"advance">> /\ rest # <<>> /\ rest[1] = "capCheck"
    <2>1. Len(work) = 1 /\ work[1] = "advance"
      BY <1>5
    <2>2. Len(t) > 1 /\ t[1 + 1] = "capCheck" /\ t[1] = "advance"
      BY <1>2, <1>3, <1>5, <2>1
    <2>3. CheckFollowsAt(t, 1)
      BY <2>2 DEF CheckFollowsAt
    <2>4. \A i \in 1 .. Len(work) : CheckFollowsAt(t, i)
      BY <2>1, <2>3
    <2> QED
      BY <1>1, <2>4, CheckFollowsConcat DEF t
  <1>6. CASE work = <<"sendDue", "servicePending">> /\ rest # <<>> /\ rest[1] = "capCheck"
    <2>1. Len(work) = 2 /\ work[1] = "sendDue" /\ work[2] = "servicePending"
      BY <1>6
    <2>2. Len(t) > 2 /\ t[1] = "sendDue" /\ t[2] = "servicePending" /\ t[2 + 1] = "capCheck"
      BY <1>2, <1>3, <1>6, <2>1
    <2>3. CheckFollowsAt(t, 1) /\ CheckFollowsAt(t, 2)
      BY <1>2, <2>2 DEF CheckFollowsAt
    <2>4. \A i \in 1 .. 2 : i = 1 \/ i = 2
      OBVIOUS
    <2>5. \A i \in 1 .. Len(work) : CheckFollowsAt(t, i)
      BY <2>1, <2>3, <2>4
    <2> QED
      BY <1>1, <2>5, CheckFollowsConcat DEF t
  <1>7. CASE /\ work = <<"sendDue", "servicePending", "advance">>
             /\ rest # <<>> /\ rest[1] = "capCheck"
    <2>1. Len(work) = 3 /\ work[1] = "sendDue" /\ work[2] = "servicePending"
          /\ work[3] = "advance"
      BY <1>7
    <2>2. Len(t) > 3 /\ t[1] = "sendDue" /\ t[2] = "servicePending" /\ t[3] = "advance"
          /\ t[3 + 1] = "capCheck"
      BY <1>2, <1>3, <1>7, <2>1
    <2>3. CheckFollowsAt(t, 1) /\ CheckFollowsAt(t, 2) /\ CheckFollowsAt(t, 3)
      BY <1>2, <2>2 DEF CheckFollowsAt
    <2>4. \A i \in 1 .. 3 : i = 1 \/ i = 2 \/ i = 3
      OBVIOUS
    <2>5. \A i \in 1 .. Len(work) : CheckFollowsAt(t, i)
      BY <2>1, <2>3, <2>4
    <2> QED
      BY <1>1, <2>5, CheckFollowsConcat DEF t
  <1> QED
    BY <1>4, <1>5, <1>6, <1>7 DEF Puts, DuePuts

LEMMA CheckFollowsProcess ==
  ASSUME NEW n \in Nat, NEW loss \in {<<"clockLoss">>, <<>>}
  PROVE  LET ticks == [i \in 1 .. 2 * n |->
                         IF i % 2 = 1 THEN "consumeTick" ELSE "capCheck"]
         IN CheckFollows(ticks \o <<"dispatchDue", "capCheck", "schedule">> \o loss)
  <1> DEFINE ticks == [i \in 1 .. 2 * n |-> IF i % 2 = 1 THEN "consumeTick" ELSE "capCheck"]
             due == <<"dispatchDue", "capCheck", "schedule">>
  <1>1. ticks \in Seq(Labels) /\ Len(ticks) = 2 * n
    <2>1. 2 * n \in Nat
      OBVIOUS
    <2>2. ticks \in [1 .. 2 * n -> Labels]
      BY DEF Labels
    <2> HIDE DEF ticks
    <2> QED
      BY <2>1, <2>2
  <1>2. CheckFollows(ticks)
    <2> SUFFICES ASSUME NEW i \in 1 .. 2 * n PROVE CheckFollowsAt(ticks, i)
      BY <1>1 DEF CheckFollows
    <2>1. CASE i % 2 = 1
      <3>1. i < 2 * n /\ i + 1 \in 1 .. 2 * n /\ (i + 1) % 2 # 1
        BY <2>1
      <3>2. ticks[i] = "consumeTick" /\ ticks[i + 1] = "capCheck"
        BY <2>1, <3>1
      <3> HIDE DEF ticks
      <3> QED
        BY <1>1, <3>1, <3>2 DEF CheckFollowsAt
    <2>2. CASE i % 2 # 1
      <3>1. ticks[i] = "capCheck"
        BY <2>2
      <3> HIDE DEF ticks
      <3> QED
        BY <3>1 DEF CheckFollowsAt
    <2> QED
      BY <2>1, <2>2
  <1>3. due \in Seq(Labels) /\ CheckFollows(due)
    BY WorkTypes DEF CheckFollows, CheckFollowsAt
  <1>4. loss \in Seq(Labels) /\ CheckFollows(loss)
    <2>1. CASE loss = <<>>
      BY <2>1, WorkTypes DEF CheckFollows
    <2>2. CASE loss = <<"clockLoss">>
      BY <2>2, WorkTypes DEF Labels, CheckFollows, CheckFollowsAt
    <2> QED
      BY <2>1, <2>2
  <1> HIDE DEF ticks, due
  <1>5. ticks \o due \in Seq(Labels) /\ CheckFollows(ticks \o due)
    BY <1>1, <1>2, <1>3, ConcatAt, CheckFollowsBoth
  <1>6. CheckFollows(ticks \o due \o loss)
    BY <1>4, <1>5, CheckFollowsBoth
  <1> QED
    BY <1>6 DEF ticks, due

LEMMA CheckFollowsPass ==
  ASSUME NEW work \in Seq(Labels), CheckFollows(work), Plain(work), Pass(work)
  PROVE  CheckFollows(agenda') /\ \A i \in 1 .. Len(agenda') : agenda'[i] # "sendDue"
  <1> DEFINE head == <<"servicePending">>
             first == head \o work
             rest == first \o FinishPass
  <1>1. /\ head \in Seq(Labels) /\ FinishPass \in Seq(Labels)
        /\ CheckFollows(head) /\ CheckFollows(FinishPass)
    <2>1. FinishPass[1] = "capCheck" /\ FinishPass[2] = "servicePending"
          /\ FinishPass[3] = "lifecycle" /\ Len(FinishPass) = 3
      BY DEF FinishPass
    <2>2. \A i \in 1 .. 3 : i = 1 \/ i = 2 \/ i = 3
      OBVIOUS
    <2>3. CheckFollows(FinishPass)
      BY <2>1, <2>2 DEF CheckFollows, CheckFollowsAt
    <2>4. CheckFollows(head)
      BY DEF CheckFollows, CheckFollowsAt
    <2> QED
      BY <2>3, <2>4, WorkTypes DEF Labels
  <1>2. /\ Plain(head) /\ Plain(FinishPass)
    BY PlainWork DEF Labels
  <1> HIDE DEF head
  <1>3. first \in Seq(Labels) /\ CheckFollows(first) /\ Plain(first)
    BY <1>1, <1>2, ConcatAt, CheckFollowsBoth, PlainConcat
  <1> HIDE DEF first
  <1>4. CheckFollows(rest) /\ Plain(rest)
    BY <1>1, <1>2, <1>3, CheckFollowsBoth, PlainConcat
  <1> HIDE DEF rest
  <1>5. agenda' = rest
    BY DEF Pass, rest, first, head
  <1> QED
    BY <1>4, <1>5 DEF Plain, PlainAt

LEMMA CheckFollowsSteps ==
  ASSUME RoomInv, Work \/ Delivery
  PROVE  CheckFollows(agenda')
  <1>1. agenda \in Seq(Labels) /\ CheckFollows(agenda) /\ agenda # <<>>
    BY AgendaSteps DEF RoomInv, SoloInv, NoteInv, FlagInv, SessionInv, TypeOK
  <1> DEFINE t == Tail(agenda)
  <1>2. /\ t \in Seq(Labels) /\ Len(agenda) \in Nat \ {0} /\ Len(t) = Len(agenda) - 1
        /\ Head(agenda) = agenda[1] /\ \A i \in 1 .. Len(t) : t[i] = agenda[i + 1]
    BY <1>1, TailAt
  <1>3. CheckFollows(t) /\ CheckFollowsAt(agenda, 1)
    BY <1>1, CheckFollowsTail
  <1>4. Head(agenda) \in {"consumeTick", "advance", "dispatchDue"} =>
          t # <<>> /\ t[1] = "capCheck"
    <2> SUFFICES ASSUME Head(agenda) \in {"consumeTick", "advance", "dispatchDue"}
                 PROVE  t # <<>> /\ t[1] = "capCheck"
      OBVIOUS
    <2> HIDE DEF t
    <2>1. 1 < Len(agenda) /\ agenda[1 + 1] = "capCheck"
      BY <1>2, <1>3 DEF CheckFollowsAt
    <2>2. 1 \in 1 .. Len(t)
      BY <1>2, <2>1
    <2>3. t # <<>>
      <3>1. Len(<<>>) = 0
        OBVIOUS
      <3> QED
        BY <2>2, <3>1
    <2> QED
      BY <1>2, <2>1, <2>2, <2>3
  <1>5. \/ agenda' = agenda
        \/ agenda' = t
        \/ \E work \in Puts :
             /\ agenda' = work \o t
             /\ \/ work \in SmallPuts
                \/ Head(agenda) \in {"consumeTick", "advance", "dispatchDue"}
    BY AgendaSteps
  <1> HIDE DEF t
  <1> QED
    BY <1>1, <1>2, <1>3, <1>4, <1>5, CheckFollowsPuts

(* A stop or a start comes when no event is left to be moved.              *)
LEMMA DueIsOpenSteps ==
  ASSUME RoomInv, SoloInv', Work \/ Delivery
  PROVE  DueIsOpen'
  <1>1. /\ agenda \in Seq(Labels) /\ agenda # <<>> /\ SessionInv /\ SessionInv' /\ DueIsOpen
    BY AgendaSteps DEF RoomInv, SoloInv, NoteInv, FlagInv, SessionInv, TypeOK
  <1> DEFINE t == Tail(agenda)
  <1>2. /\ t \in Seq(Labels) /\ Len(agenda) \in Nat \ {0} /\ Len(t) = Len(agenda) - 1
        /\ Head(agenda) = agenda[1] /\ \A i \in 1 .. Len(t) : t[i] = agenda[i + 1]
    BY <1>1, TailAt
  <1>3. \A i \in 1 .. Len(t) : i + 1 \in 1 .. Len(agenda) /\ 1 \in 1 .. (i + 1) - 1
    BY <1>2
  <1> SUFFICES ASSUME NEW i \in 1 .. Len(agenda'), agenda'[i] = "sendDue" PROVE haveTick'
    BY DEF DueIsOpen
  <1>4. running'
    BY <1>1 DEF SessionInv, Ordered, OrderedAt
  <1>5. CASE \E work \in DuePuts : agenda' = work \o t /\ haveTick'
    BY <1>5
  <1>6. ASSUME \/ agenda' = agenda
               \/ agenda' = t
               \/ \E work \in Puts \ DuePuts : agenda' = work \o t
        PROVE  haveTick'
    <2>1. \E k \in 1 .. Len(agenda) :
            agenda[k] = "sendDue" /\ (agenda' # agenda => 1 \in 1 .. k - 1)
      <3>1. CASE agenda' = agenda
        BY <3>1
      <3>2. CASE agenda' = t
        <4> HIDE DEF t
        <4>1. i \in 1 .. Len(t) /\ t[i] = "sendDue"
          BY <3>2
        <4> QED
          BY <1>2, <1>3, <4>1
      <3>3. ASSUME NEW work \in Puts \ DuePuts, agenda' = work \o t
            PROVE  \E k \in 1 .. Len(agenda) : agenda[k] = "sendDue" /\ 1 \in 1 .. k - 1
        <4> HIDE DEF t
        <4>1. work \in Seq(Labels) /\ Len(work) = 1 /\ work[1] # "sendDue"
          BY <3>3 DEF Puts, SmallPuts, Labels
        <4>2. /\ Len(agenda') = Len(work) + Len(t) /\ Len(t) \in Nat
              /\ \A j \in 1 .. Len(work) : agenda'[j] = work[j]
              /\ \A j \in 1 .. Len(t) : agenda'[Len(work) + j] = t[j]
          BY <1>2, <3>3, <4>1, ConcatAt
        <4>3. i - 1 \in 1 .. Len(t) /\ Len(work) + (i - 1) = i
          BY <4>1, <4>2
        <4>4. t[i - 1] = "sendDue"
          BY <4>2, <4>3
        <4> QED
          BY <1>2, <1>3, <4>3, <4>4
      <3> QED
        BY <1>6, <3>1, <3>2, <3>3
    <2>2. PICK k \in 1 .. Len(agenda) :
            agenda[k] = "sendDue" /\ (agenda' # agenda => 1 \in 1 .. k - 1)
      BY <2>1
    <2>3. haveTick
      BY <1>1, <2>2 DEF DueIsOpen
    <2>4. agenda' # agenda => Head(agenda) # "dispatcherStart" /\ Head(agenda) # "continue"
      BY <1>1, <1>2, <2>2 DEF SessionInv, Ordered, OrderedAt, LiveWork
    <2>5. \/ haveTick' = haveTick
          \/ haveTick' = TRUE
          \/ running' = FALSE
          \/ Doing("dispatcherStart") /\ agenda' = <<"servicePending">> \o Tail(agenda)
          \/ Doing("continue") /\ agenda' = Tail(agenda)
      <3>1. CASE Delivery
        BY <3>1 DEF transportVars, Delivery, ServiceEnded, RetryWindowExceeded,
               OutboxDrained, SendAccepted, SendRetryLater, SendDisconnected, Attempt
      <3>2. CASE \/ StopSession \/ CapacityStop \/ RetryWindowStop \/ EndPreviousSession
                 \/ Disconnect
        BY <3>2, Zenon DEF StopSession, Stop, CapacityStop, RetryWindowStop,
               EndPreviousSession, EndSession, Disconnect
      <3>3. CASE DispatcherStart \/ ContinueSession \/ AdvanceTick
        BY <3>3, Zenon DEF DispatcherStart, ContinueSession, AdvanceTick, Then, Done
      <3>4. CASE \/ CapacityKept \/ NoOutcome \/ LaunchSession \/ ScheduleDone
                 \/ \E step \in StepChoices, swing \in Swings : ScheduleStep(step, swing)
                 \/ \E step \in StepChoices, swing \in Swings : ScheduleOverflow(step, swing)
                 \/ \E phase \in Phases : ConsumeTick(phase)
                 \/ AdvanceRefused \/ DispatchDue \/ NothingDue \/ SendDueDone \/ DropLaunch
                 \/ TransferNoteOff \/ TransferNoteOn \/ ClockLost \/ ClockPresent
        <4>1. UNCHANGED transportVars
          BY <3>4, Zenon DEF CapacityKept, NoOutcome, LaunchSession, ScheduleDone,
             ScheduleStep, ScheduleOverflow, ConsumeTick, AdvanceRefused, DispatchDue,
             NothingDue, SendDueDone, DropLaunch, TransferNoteOff, TransferNoteOn,
             Transferring, ClockLost, ClockPresent
        <4> QED
          BY <4>1 DEF transportVars
      <3> QED
        BY <3>1, <3>2, <3>3, <3>4 DEF Work
    <2>6. agenda' = agenda => ~Doing("dispatcherStart") \/ haveTick'
      <3> SUFFICES ASSUME agenda' = agenda, Doing("dispatcherStart"),
                          agenda' = <<"servicePending">> \o Tail(agenda)
                   PROVE  FALSE
        BY <2>3, <2>5, <1>4, <1>2 DEF Doing
      <3>1. (<<"servicePending">> \o t)[1] = "servicePending"
        BY <1>2, PutAt DEF Labels
      <3> QED
        BY <1>2, <3>1 DEF Doing
    <2>7. agenda' = Tail(agenda) => agenda' # agenda
      <3>1. t # agenda
        <4> HIDE DEF t
        <4> QED
          BY <1>2
      <3> QED
        BY <3>1
    <2> QED
      BY <1>4, <2>3, <2>4, <2>5, <2>6, <2>7 DEF Doing
  <1>7. \/ agenda' = agenda
        \/ agenda' = t
        \/ \E work \in Puts : agenda' = work \o t /\ (work \in DuePuts => haveTick')
    BY AgendaSteps
  <1> HIDE DEF t
  <1> QED
    BY <1>5, <1>6, <1>7

LEMMA HaltingAhead ==
  ASSUME NEW rest \in Seq(Labels), rest # <<>>
  PROVE  /\ HaltsSoon(rest) => Head(rest) \in {"servicePending", "advance", "capCheck"}
         /\ HaltsSoon(rest) /\ Head(rest) # "capCheck" => HaltsSoon(Tail(rest))
  <1>1. /\ Len(rest) \in Nat \ {0} /\ Len(Tail(rest)) = Len(rest) - 1 /\ Head(rest) = rest[1]
        /\ \A i \in 1 .. Len(Tail(rest)) : Tail(rest)[i] = rest[i + 1]
    BY TailAt
  <1> SUFFICES ASSUME HaltsSoon(rest)
               PROVE  /\ Head(rest) \in {"servicePending", "advance", "capCheck"}
                      /\ Head(rest) # "capCheck" => HaltsSoon(Tail(rest))
    OBVIOUS
  <1>2. PICK i \in 1 .. Len(rest) :
          rest[i] = "capCheck" /\ \A j \in 1 .. i - 1 : rest[j] \in {"servicePending", "advance"}
    BY DEF HaltsSoon
  <1>3. CASE i = 1
    BY <1>1, <1>2, <1>3
  <1>4. CASE i # 1
    <2>1. 1 \in 1 .. i - 1 /\ i - 1 \in 1 .. Len(Tail(rest)) /\ (i - 1) + 1 = i
      BY <1>1, <1>4
    <2>2. \A j \in 1 .. (i - 1) - 1 : j \in 1 .. Len(Tail(rest)) /\ j + 1 \in 1 .. i - 1
      BY <1>1, <1>4
    <2>3. Tail(rest)[i - 1] = "capCheck"
          /\ \A j \in 1 .. (i - 1) - 1 : Tail(rest)[j] \in {"servicePending", "advance"}
      BY <1>1, <1>2, <2>1, <2>2
    <2>4. HaltsSoon(Tail(rest))
      BY <2>1, <2>3 DEF HaltsSoon
    <2> QED
      BY <1>1, <1>2, <2>1, <2>4
  <1> QED
    BY <1>3, <1>4

LEMMA RoomTypes ==
  ASSUME RoomInv
  PROVE  /\ SoloInv /\ NoteInv /\ FlagInv /\ SessionInv /\ TypeOK
         /\ Accounted(outbox, actual, projected, hostNotes)
         /\ agenda \in Seq(Labels) /\ outbox \in SUBSET Messages
         /\ IsFiniteSet(outbox) /\ IsFiniteSet(Music(outbox)) /\ Music(outbox) \subseteq outbox
         /\ Cardinality(outbox) \in Nat /\ Cardinality(Music(outbox)) \in Nat
         /\ Cardinality(Music(outbox)) <= Cardinality(outbox)
         /\ running => Music(outbox) = outbox
         /\ NormalCapacity \in Nat
         /\ actual \in Launches \cup {None} /\ projected \in Launches \cup {None}
  <1>1. /\ SoloInv /\ NoteInv /\ FlagInv /\ SessionInv /\ TypeOK
        /\ Accounted(outbox, actual, projected, hostNotes)
    BY DEF RoomInv, SoloInv, NoteInv, FlagInv, SessionInv
  <1>2. IsFiniteSet(outbox) /\ Music(outbox) \subseteq outbox
    BY <1>1 DEF Accounted, Numbered, Music
  <1>3. running => Music(outbox) = outbox
    BY <1>1 DEF SoloInv, StopsWait, Music
  <1> QED
    BY <1>1, <1>2, <1>3, FS_Subset, FS_CardinalityType, OutboxAssumption DEF TypeOK

(* A step that adds no music.                                              *)
LEMMA RoomShrinks ==
  ASSUME RoomInv, outbox' \subseteq outbox, UNCHANGED <<running, sessionGen>>,
         projected' \in {None, projected},
         \/ ~HaltsSoon(agenda)
         \/ ~(capacityExceeded /\ haveTick)
         \/ /\ UNCHANGED <<capacityExceeded, haveTick>>
            /\ Head(agenda) # "capCheck"
            /\ agenda' = agenda \/ (agenda # <<>> /\ agenda' = Tail(agenda))
  PROVE  RoomForStop' /\ FullIsHalting'
  <1>1. /\ agenda \in Seq(Labels) /\ IsFiniteSet(outbox) /\ IsFiniteSet(Music(outbox))
        /\ NormalCapacity \in Nat /\ RoomForStop /\ FullIsHalting
    BY RoomTypes DEF RoomInv
  <1>2. Music(outbox)' \subseteq Music(outbox) /\ OnsOf(outbox)' \subseteq OnsOf(outbox)
    BY DEF Music, OnsOf
  <1>3. /\ Cardinality(Music(outbox)') <= Cardinality(Music(outbox))
        /\ Cardinality(outbox') <= Cardinality(outbox)
        /\ Cardinality(Music(outbox)') \in Nat /\ Cardinality(Music(outbox)) \in Nat
        /\ Cardinality(outbox') \in Nat /\ Cardinality(outbox) \in Nat
    BY <1>1, <1>2, FS_Subset, FS_CardinalityType
  <1>4. RoomForStop'
    BY <1>1, <1>3 DEF RoomForStop
  <1>5. Few(outbox) => Few(outbox)'
    BY <1>1, <1>3 DEF Few
  <1>6. Halting => Halting'
    <2> SUFFICES ASSUME Halting PROVE Halting'
      OBVIOUS
    <2>1. /\ capacityExceeded' /\ haveTick' /\ HaltsSoon(agenda) /\ Head(agenda) # "capCheck"
          /\ agenda' = agenda \/ (agenda # <<>> /\ agenda' = Tail(agenda))
      BY Zenon DEF Halting
    <2>2. HaltsSoon(agenda')
      BY <1>1, <2>1, HaltingAhead
    <2> QED
      BY <2>1, <2>2 DEF Halting
  <1>7. NothingPlayed => NothingPlayed'
    BY <1>2 DEF NothingPlayed
  <1> QED
    BY <1>1, <1>4, <1>5, <1>6, <1>7 DEF FullIsHalting

LEMMA OneMore ==
  ASSUME NEW S, IsFiniteSet(S), NEW x
  PROVE  /\ IsFiniteSet(S \cup {x}) /\ Cardinality(S) \in Nat
         /\ Cardinality(S \cup {x}) \in Nat /\ Cardinality(S \cup {x}) <= Cardinality(S) + 1
  <1>1. IsFiniteSet(S \cup {x}) /\ Cardinality(S) \in Nat
    BY FS_AddElement, FS_CardinalityType
  <1>2. Cardinality(S \cup {x}) \in {Cardinality(S), Cardinality(S) + 1}
    BY FS_AddElement
  <1> QED
    BY <1>1, <1>2

LEMMA Rooms ==
  /\ NormalCapacity \in Nat /\ Capacity \in Nat /\ NormalCapacity + 2 <= Capacity
  <1>1. NormalCapacity \in Nat /\ TerminalReserve \in Nat /\ TerminalReserve >= 2
    BY OutboxAssumption
  <1> QED
    BY <1>1 DEF Capacity

LEMMA RoomDelivery ==
  ASSUME RoomInv, Delivery
  PROVE  RoomForStop' /\ FullIsHalting'
  <1> USE DEF transportVars, outboxVars, noteVars, sessionVars
  <1>1. /\ UNCHANGED <<running, sessionGen, capacityExceeded, haveTick>>
        /\ outbox' \subseteq outbox
        /\ agenda # <<>> /\ Head(agenda) = "servicePending"
        /\ agenda' = agenda \/ agenda' = Tail(agenda)
    BY DEF Delivery, ServiceEnded, RetryWindowExceeded, OutboxDrained, SendAccepted,
           SendRetryLater, SendDisconnected, Attempt, CanSend, Live, Doing, Done
  <1>2. ProjectedLive \in {None, projected}
    BY DEF ProjectedLive, ForgetAny
  <1>3. CASE ~(SendAccepted /\ Accepted.kind = "NoteOn")
    <2>1. projected' \in {None, projected}
      BY <1>2, <1>3 DEF Delivery, ServiceEnded, RetryWindowExceeded, OutboxDrained,
         SendAccepted, SendRetryLater, SendDisconnected, NoteAccepted, Forget, Accepted
    <2> QED
      BY <1>1, <2>1, RoomShrinks
  <1>4. CASE SendAccepted /\ Accepted.kind = "NoteOn"
    <2>1. Accepted \in outbox /\ OnsOf(outbox) # {}
      BY <1>4, RoomTypes, AcceptedInSilence DEF OnsOf
    <2>2. /\ IsFiniteSet(outbox) /\ IsFiniteSet(Music(outbox))
          /\ Music(outbox)' \subseteq Music(outbox) /\ NormalCapacity \in Nat
      BY <1>1, RoomTypes DEF Music
    <2>3. /\ Cardinality(Music(outbox)') <= Cardinality(Music(outbox))
          /\ Cardinality(outbox') <= Cardinality(outbox)
          /\ Cardinality(Music(outbox)') \in Nat /\ Cardinality(Music(outbox)) \in Nat
          /\ Cardinality(outbox') \in Nat /\ Cardinality(outbox) \in Nat
      BY <1>1, <2>2, FS_Subset, FS_CardinalityType
    <2>4. RoomForStop'
      BY <2>2, <2>3 DEF RoomInv, RoomForStop
    <2>5. running' /\ ~Few(outbox)' => Halting
      BY <1>1, <2>1, <2>2, <2>3 DEF Few, RoomInv, FullIsHalting, NothingPlayed
    <2>6. Halting => Halting'
      <3> SUFFICES ASSUME Halting PROVE Halting'
        OBVIOUS
      <3>1. agenda' = agenda
        BY <1>4 DEF SendAccepted
      <3>2. capacityExceeded' = capacityExceeded /\ haveTick' = haveTick
        BY <1>1
      <3> QED
        BY <3>1, <3>2 DEF Halting
    <2> QED
      BY <2>4, <2>5, <2>6 DEF FullIsHalting
  <1> QED
    BY <1>3, <1>4

(* Steps that neither fill the outbox nor run where it is looked at.       *)
LEMMA RoomQuiet ==
  ASSUME RoomInv,
         \/ CapacityKept \/ NoOutcome \/ LaunchSession \/ ScheduleDone
         \/ \E step \in StepChoices, swing \in Swings : ScheduleStep(step, swing)
         \/ \E step \in StepChoices, swing \in Swings : ScheduleOverflow(step, swing)
         \/ \E phase \in Phases : ConsumeTick(phase)
         \/ AdvanceRefused \/ DispatchDue \/ NothingDue \/ SendDueDone \/ DropLaunch
         \/ ClockLost \/ ClockPresent
  PROVE  RoomForStop' /\ FullIsHalting'
  <1> USE DEF transportVars, outboxVars, noteVars, sessionVars
  <1>1. agenda \in Seq(Labels)
    BY RoomTypes
  <1>2. /\ UNCHANGED <<outbox, running, sessionGen, haveTick>>
        /\ agenda # <<>>
    BY Zenon DEF CapacityKept, NoOutcome, LaunchSession, ScheduleDone, ScheduleStep,
       ScheduleOverflow, ConsumeTick, AdvanceRefused, DispatchDue, NothingDue, SendDueDone,
       DropLaunch, Transferring, ClockLost, ClockPresent, Doing
  <1>3. projected' \in {None, projected}
    <2>1. CASE LaunchSession
      BY <2>1 DEF LaunchSession
    <2>2. CASE DropLaunch
      BY <2>2 DEF DropLaunch, Forget
    <2>3. CASE ~LaunchSession /\ ~DropLaunch
      BY <2>3, Zenon DEF CapacityKept, NoOutcome, ScheduleDone, ScheduleStep,
         ScheduleOverflow, ConsumeTick, AdvanceRefused, DispatchDue, NothingDue, SendDueDone,
         Transferring, ClockLost, ClockPresent
    <2> QED
      BY <2>1, <2>2, <2>3
  <1>4. \/ Head(agenda) \in Labels \ {"servicePending", "advance", "capCheck"}
        \/ Head(agenda) = "capCheck" /\ ~capacityExceeded
        \/ AdvanceRefused
    <2>1. Head(agenda) \in Labels
      BY <1>1, <1>2
    <2>2. \/ Doing("lifecycle") \/ Doing("launch") \/ Doing("schedule")
          \/ Doing("consumeTick") \/ Doing("dispatchDue") \/ Doing("sendDue")
          \/ Doing("clockLoss")
          \/ Doing("capCheck") /\ ~capacityExceeded
          \/ AdvanceRefused
      BY Zenon DEF CapacityKept, NoOutcome, LaunchSession, ScheduleDone, ScheduleStep,
         ScheduleOverflow, ConsumeTick, DispatchDue, NothingDue, SendDueDone, DropLaunch,
         Transferring, ClockLost, ClockPresent
    <2> QED
      BY <2>1, <2>2 DEF Doing
  <1>5. AdvanceRefused =>
          /\ UNCHANGED <<capacityExceeded, haveTick>> /\ Head(agenda) = "advance"
          /\ agenda' = Tail(agenda)
    BY DEF AdvanceRefused, Doing, Done
  <1>6. Head(agenda) \notin {"servicePending", "advance", "capCheck"} => ~HaltsSoon(agenda)
    BY <1>1, <1>2, HaltingAhead
  <1> QED
    BY <1>2, <1>3, <1>4, <1>5, <1>6, RoomShrinks

(* The end of a session adds the Off of a launch that is not covered, for  *)
(* which there is room, and a Stop, which is no music.                     *)
LEMMA RoomForEnd ==
  ASSUME RoomInv
  PROVE  /\ Cardinality(Music(WithTerminalStop)) <= NormalCapacity + 1
         /\ running => ~TerminalDropped
  <1>1. /\ TypeOK /\ Accounted(outbox, actual, projected, hostNotes)
        /\ IsFiniteSet(outbox) /\ IsFiniteSet(Music(outbox)) /\ NormalCapacity \in Nat
        /\ Cardinality(Music(outbox)) \in Nat /\ Cardinality(outbox) \in Nat
        /\ running => Music(outbox) = outbox
        /\ Cardinality(Music(outbox)) <= NormalCapacity + 1
        /\ Capacity \in Nat /\ NormalCapacity + 2 <= Capacity
    BY RoomTypes, Rooms DEF RoomInv, RoomForStop
  <1> DEFINE off == Pending(nextSeq, "NoteOff", actual.note, actual.launch, sessionGen, 0, TRUE)
             halt == Pending(nextSeq + 1, "Stop", None, 0, sessionGen, 0, TRUE)
  <1>2. Kept \subseteq outbox /\ OffsOf(Kept) = OffsOf(outbox)
    BY DEF Kept, Cancelled, OffsOf
  <1>3. IsFiniteSet(Kept) /\ Cardinality(Kept) <= Cardinality(outbox)
        /\ Cardinality(Kept) \in Nat
    BY <1>1, <1>2, FS_Subset, FS_CardinalityType
  <1>4. TerminalOffDue => Few(outbox) /\ running
    <2>1. TerminalOffDue => actual # None /\ ~Covered(outbox, actual)
      BY <1>2, CoveredBy DEF TerminalOffDue, Covered
    <2> QED
      BY <1>1, <2>1 DEF Accounted, ActualIsOwed
  <1>5. /\ WithTerminalOff \subseteq IF TerminalOffDue THEN Kept \cup {off} ELSE Kept
        /\ WithTerminalStop \subseteq WithTerminalOff \cup {halt}
    BY DEF WithTerminalOff, WithTerminalStop, Push
  <1>6. halt.kind = "Stop"
    BY DEF Pending
  <1> HIDE DEF off, halt
  <1>7. /\ IsFiniteSet(Kept \cup {off}) /\ Cardinality(Kept \cup {off}) \in Nat
        /\ Cardinality(Kept \cup {off}) <= Cardinality(Kept) + 1
    BY <1>3, OneMore
  <1>8. Music(WithTerminalStop) \subseteq Music(outbox) \/
          (TerminalOffDue /\ Music(WithTerminalStop) \subseteq Kept \cup {off})
    <2>1. Music(WithTerminalStop) \subseteq Music(WithTerminalOff)
      BY <1>5, <1>6 DEF Music
    <2>2. TerminalOffDue => Music(WithTerminalStop) \subseteq Kept \cup {off}
      BY <1>5, <2>1 DEF Music
    <2>3. ~TerminalOffDue => Music(WithTerminalStop) \subseteq Music(outbox)
      BY <1>2, <1>5, <2>1 DEF Music
    <2> QED
      BY <2>2, <2>3
  <1>9. Cardinality(Music(WithTerminalStop)) <= NormalCapacity + 1
    <2>1. CASE Music(WithTerminalStop) \subseteq Music(outbox)
      <3>1. Cardinality(Music(WithTerminalStop)) <= Cardinality(Music(outbox))
            /\ Cardinality(Music(WithTerminalStop)) \in Nat
        BY <1>1, <2>1, FS_Subset, FS_CardinalityType
      <3> QED
        BY <1>1, <3>1
    <2>2. CASE TerminalOffDue /\ Music(WithTerminalStop) \subseteq Kept \cup {off}
      <3>1. Cardinality(Music(WithTerminalStop)) <= Cardinality(Kept \cup {off})
            /\ Cardinality(Music(WithTerminalStop)) \in Nat
        BY <1>7, <2>2, FS_Subset, FS_CardinalityType
      <3>2. Cardinality(outbox) <= NormalCapacity
        BY <1>4, <2>2 DEF Few
      <3> QED
        BY <1>1, <1>3, <1>7, <3>1, <3>2
    <2> QED
      BY <1>8, <2>1, <2>2
  <1>10. ASSUME running PROVE ~TerminalDropped
    <2>1. TerminalOffDue => HasRoom(Kept, Capacity)
      <3>1. Few(outbox) => Cardinality(Kept) < Capacity
        BY <1>1, <1>3 DEF Few
      <3> QED
        BY <1>4, <3>1 DEF HasRoom
    <2>2. HasRoom(WithTerminalOff, Capacity)
      <3>1. CASE TerminalOffDue
        <4>1. Cardinality(WithTerminalOff) <= Cardinality(Kept \cup {off})
              /\ Cardinality(WithTerminalOff) \in Nat
          BY <1>5, <1>7, <3>1, FS_Subset, FS_CardinalityType
        <4>2. Cardinality(outbox) <= NormalCapacity
          BY <1>4, <3>1 DEF Few
        <4>3. Cardinality(WithTerminalOff) < Capacity
          BY <1>1, <1>3, <1>7, <4>1, <4>2
        <4> QED
          BY <4>3 DEF HasRoom
      <3>2. CASE ~TerminalOffDue
        <4>1. Cardinality(WithTerminalOff) <= Cardinality(Kept)
              /\ Cardinality(WithTerminalOff) \in Nat
          BY <1>3, <1>5, <3>2, FS_Subset, FS_CardinalityType
        <4>2. Cardinality(outbox) <= NormalCapacity + 1
          BY <1>1, <1>10
        <4>3. Cardinality(WithTerminalOff) < Capacity
          BY <1>1, <1>3, <4>1, <4>2
        <4> QED
          BY <4>3 DEF HasRoom
      <3> QED
        BY <3>1, <3>2
    <2> QED
      BY <2>1, <2>2 DEF TerminalDropped
  <1> QED
    BY <1>9, <1>10

LEMMA RoomEnds ==
  ASSUME RoomInv, EndSession
  PROVE  RoomForStop' /\ FullIsHalting'
  <1>1. outbox' \in {outbox, WithTerminalStop} /\ running' = FALSE
    BY DEF EndSession
  <1>2. Cardinality(Music(outbox')) <= NormalCapacity + 1
    BY <1>1, RoomForEnd DEF RoomInv, RoomForStop
  <1> QED
    BY <1>1, <1>2 DEF RoomForStop, Music, FullIsHalting

(* A session begins with what a stopped transport had left, and no launch. *)
LEMMA RoomBegins ==
  ASSUME RoomInv, DispatcherStart
  PROVE  RoomForStop' /\ FullIsHalting'
  <1> USE DEF noteVars, outboxVars
  <1> DEFINE kept == {p \in outbox : ~(p.terminal /\ p.kind = "Stop")}
             entry == Pending(nextSeq, "Start", None, 0, sessionGen + 1, 0, FALSE)
  <1>1. /\ NoteInv /\ SessionInv /\ Accounted(outbox, actual, projected, hostNotes)
        /\ IsFiniteSet(outbox) /\ IsFiniteSet(Music(outbox)) /\ NormalCapacity \in Nat
        /\ Cardinality(Music(outbox)) <= NormalCapacity + 1 /\ sessionGen \in Nat
        /\ projected \in Launches \cup {None} /\ StopsWait
    BY RoomTypes DEF RoomInv, RoomForStop, TypeOK, SoloInv
  <1>2. ~running /\ sessionGen' = sessionGen + 1 /\ UNCHANGED projected
    BY <1>1, AtHand DEF DispatcherStart, Doing
  <1>3. OnsOf(outbox) = {}
    BY <1>1, <1>2, StoppedIsCovered
  <1>4. \/ outbox' = kept
        \/ outbox' = kept \cup {entry} /\ HasRoom(kept, NormalCapacity)
    BY DEF DispatcherStart, Push
  <1>5. entry.kind = "Start" /\ kept = Music(outbox)
    BY <1>1 DEF Pending, StopsWait, Music
  <1> HIDE DEF kept, entry
  <1>6. IsFiniteSet(kept) /\ Cardinality(kept) \in Nat
    BY <1>1, <1>5, FS_CardinalityType
  <1>7. /\ IsFiniteSet(outbox') /\ Cardinality(outbox') \in Nat
        /\ Cardinality(outbox') <= NormalCapacity + 1
    <2>1. CASE outbox' = kept
      BY <1>1, <1>5, <1>6, <2>1
    <2>2. CASE outbox' = kept \cup {entry} /\ HasRoom(kept, NormalCapacity)
      <3>1. IsFiniteSet(kept \cup {entry}) /\ Cardinality(kept \cup {entry}) \in Nat
            /\ Cardinality(kept \cup {entry}) <= Cardinality(kept) + 1
        BY <1>6, OneMore
      <3>2. Cardinality(kept) < NormalCapacity
        BY <2>2 DEF HasRoom
      <3>3. Cardinality(kept \cup {entry}) <= NormalCapacity + 1
        BY <1>1, <1>6, <3>1, <3>2
      <3> QED
        BY <2>2, <3>1, <3>3
    <2> QED
      BY <1>4, <2>1, <2>2
  <1>8. RoomForStop'
    <2>1. Music(outbox') \subseteq outbox'
      BY DEF Music
    <2>2. Cardinality(Music(outbox')) <= Cardinality(outbox')
          /\ Cardinality(Music(outbox')) \in Nat
      BY <1>7, <2>1, FS_Subset, FS_CardinalityType
    <2>3. Cardinality(Music(outbox')) <= NormalCapacity + 1
      BY <1>1, <1>7, <2>2
    <2> QED
      BY <2>3 DEF RoomForStop, Music
  <1>9. NothingPlayed'
    <2>1. OnsOf(outbox)' = {}
      BY <1>3, <1>4, <1>5 DEF OnsOf, Music
    <2>2. projected # None => projected.gen <= sessionGen /\ projected.gen \in Nat
      BY <1>1 DEF Accounted, Current, Known, Launches
    <2>3. projected # None => projected.gen # sessionGen + 1
      BY <1>1, <2>2
    <2> QED
      BY <1>2, <2>1, <2>3 DEF NothingPlayed
  <1> QED
    BY <1>8, <1>9 DEF FullIsHalting

LEMMA RoomDisconnects ==
  ASSUME RoomInv, Disconnect
  PROVE  RoomForStop' /\ FullIsHalting'
  <1>1. outbox' = {} /\ running' = FALSE
    BY DEF Disconnect
  <1>2. Music(outbox)' = {} /\ Cardinality({}) = 0 /\ NormalCapacity \in Nat
    BY <1>1, FS_EmptySet, Rooms DEF Music
  <1>3. Cardinality(Music(outbox)') <= NormalCapacity + 1
    BY <1>2
  <1> QED
    BY <1>1, <1>3 DEF RoomForStop, FullIsHalting

(* What the normal capacity lets in leaves few entries.                    *)
LEMMA PushedIsFew ==
  ASSUME NEW S, IsFiniteSet(S), NEW x, HasRoom(S, NormalCapacity)
  PROVE  Few(S \cup {x})
  <1>1. Cardinality(S) \in Nat /\ Cardinality(S \cup {x}) \in Nat
        /\ Cardinality(S \cup {x}) <= Cardinality(S) + 1 /\ NormalCapacity \in Nat
    BY OneMore, Rooms
  <1> QED
    BY <1>1 DEF Few, HasRoom

LEMMA FewHasRoom ==
  ASSUME NEW box, IsFiniteSet(box), outbox' = box, Few(box)
  PROVE  RoomForStop' /\ FullIsHalting'
  <1>1. Music(box) \subseteq box /\ NormalCapacity \in Nat
    BY Rooms DEF Music
  <1>2. /\ Cardinality(Music(box)) <= Cardinality(box)
        /\ Cardinality(Music(box)) \in Nat /\ Cardinality(box) \in Nat
    BY <1>1, FS_Subset, FS_CardinalityType
  <1>3. Cardinality(box) <= NormalCapacity
    BY DEF Few
  <1>4. Cardinality(Music(box)) <= NormalCapacity + 1
    BY <1>1, <1>2, <1>3
  <1> QED
    BY <1>3, <1>4 DEF RoomForStop, Music, FullIsHalting, Few

(* A tick is refused while the transport is about to halt.                 *)
LEMMA RoomTicks ==
  ASSUME RoomInv, AdvanceTick
  PROVE  RoomForStop' /\ FullIsHalting'
  <1> USE DEF sessionVars, noteVars
  <1> DEFINE kept == {p \in outbox : ~OwnClock(p)}
             clock == Pending(nextSeq, "Clock", None, 0, sessionGen, tick', FALSE)
  <1>1. IsFiniteSet(outbox) /\ IsFiniteSet(Music(outbox)) /\ NormalCapacity \in Nat
        /\ RoomForStop /\ FullIsHalting
    BY RoomTypes DEF RoomInv
  <1>2. /\ \/ outbox' \in {outbox, kept}
           \/ outbox' = kept \cup {clock} /\ HasRoom(kept, NormalCapacity)
        /\ UNCHANGED <<projected, sessionGen, running>>
        /\ ~Halting
    BY DEF AdvanceTick, Push, Halting
  <1>3. kept \subseteq outbox
    OBVIOUS
  <1> HIDE DEF kept, clock
  <1>4. CASE outbox' \in {outbox, kept}
    <2>1. outbox' \subseteq outbox /\ ~(capacityExceeded /\ haveTick)
      BY <1>3, <1>4, Zenon DEF AdvanceTick
    <2> QED
      BY <1>2, <2>1, RoomShrinks
  <1>5. CASE outbox' = kept \cup {clock} /\ HasRoom(kept, NormalCapacity)
    <2>1. IsFiniteSet(kept)
      BY <1>1, <1>3, FS_Subset
    <2> QED
      BY <1>5, <2>1, PushedIsFew, OneMore, FewHasRoom
  <1> QED
    BY <1>2, <1>4, <1>5

(* What moves events stands in front of a look at the capacity.            *)
LEMMA MovingHaltsSoon ==
  ASSUME RoomInv, Doing("sendDue")
  PROVE  /\ running /\ haveTick /\ ~Halting
         /\ HaltsSoon(Tail(agenda))
  <1> DEFINE t == Tail(agenda)
  <1>1. agenda \in Seq(Labels) /\ CheckFollows(agenda) /\ agenda # <<>> /\ SessionInv
        /\ DueIsOpen
    BY RoomTypes DEF RoomInv, Doing
  <1>2. /\ Len(agenda) \in Nat \ {0} /\ Len(t) = Len(agenda) - 1
        /\ agenda[1] = "sendDue" /\ \A i \in 1 .. Len(t) : t[i] = agenda[i + 1]
    BY <1>1, TailAt DEF Doing
  <1> HIDE DEF t
  <1>3. 1 \in 1 .. Len(agenda)
    BY <1>2
  <1>4. /\ 2 < Len(agenda) /\ agenda[2] = "servicePending"
        /\ agenda[3] \in {"advance", "capCheck"}
    <2>1. CheckFollowsAt(agenda, 1)
      BY <1>1, <1>3 DEF CheckFollows
    <2>2. 1 + 1 < Len(agenda) /\ agenda[1 + 1] = "servicePending"
          /\ agenda[1 + 2] \in {"advance", "capCheck"}
      BY <1>2, <2>1 DEF CheckFollowsAt
    <2> QED
      BY <2>2
  <1>5. 1 \in 1 .. Len(t) /\ 2 \in 1 .. Len(t) /\ t[1] = "servicePending"
        /\ t[2] \in {"advance", "capCheck"}
    BY <1>2, <1>4
  <1>6. CASE t[2] = "capCheck"
    <2>1. \A j \in 1 .. 2 - 1 : j = 1
      OBVIOUS
    <2> QED
      BY <1>1, <1>2, <1>3, <1>5, <1>6, <2>1, AtHand, HaltingAhead
         DEF HaltsSoon, DueIsOpen, Halting, t, Doing
  <1>7. CASE t[2] = "advance"
    <2>1. 3 \in 1 .. Len(agenda) /\ agenda[3] = "advance"
      BY <1>2, <1>4, <1>5, <1>7
    <2>2. 3 < Len(agenda) /\ agenda[4] = "capCheck"
      <3>1. CheckFollowsAt(agenda, 3)
        BY <1>1, <2>1 DEF CheckFollows
      <3>2. 3 < Len(agenda) /\ agenda[3 + 1] = "capCheck"
        BY <2>1, <3>1 DEF CheckFollowsAt
      <3> QED
        BY <3>2
    <2>3. 3 \in 1 .. Len(t) /\ t[3] = "capCheck"
      BY <1>2, <2>2
    <2>4. \A j \in 1 .. 3 - 1 : j = 1 \/ j = 2
      OBVIOUS
    <2>5. HaltsSoon(t)
      BY <1>5, <1>7, <2>3, <2>4 DEF HaltsSoon
    <2> QED
      BY <1>1, <1>2, <1>3, <2>5, AtHand, HaltingAhead DEF DueIsOpen, Halting, t, Doing
  <1> QED
    BY <1>5, <1>6, <1>7

LEMMA RoomTransfersOff ==
  ASSUME RoomInv, TransferNoteOff
  PROVE  RoomForStop' /\ FullIsHalting'
  <1> USE DEF transportVars, sessionVars, noteVars
  <1>1. IsFiniteSet(outbox)
    BY RoomTypes
  <1>2. Doing("sendDue") /\ UNCHANGED <<projected, sessionGen, running>>
    BY DEF TransferNoteOff, Transferring
  <1>3. ~HaltsSoon(agenda)
    BY <1>2, RoomTypes, HaltingAhead DEF Doing
  <1>4. PICK x : \/ outbox' = outbox
                 \/ outbox' = outbox \cup {x} /\ HasRoom(outbox, NormalCapacity)
    BY DEF TransferNoteOff, Push
  <1>5. CASE outbox' = outbox
    BY <1>2, <1>3, <1>5, RoomShrinks
  <1>6. CASE outbox' = outbox \cup {x} /\ HasRoom(outbox, NormalCapacity)
    BY <1>1, <1>6, PushedIsFew, OneMore, FewHasRoom
  <1> QED
    BY <1>4, <1>5, <1>6

(* A launch is replaced while few entries wait; if there is no room behind *)
(* its Off, the pass halts.                                                *)
LEMMA RoomTransfersOn ==
  ASSUME RoomInv, TransferNoteOn
  PROVE  RoomForStop' /\ FullIsHalting'
  <1> USE DEF transportVars, sessionVars, noteVars
  <1> DEFINE e == QueueFront(queue)
             on == Pending(nextSeq + 1, "NoteOn", e.note, e.launch, sessionGen, e.gate, FALSE)
             mid == Replaced(e)
             fits == /\ ReplacementDue(e) => HasRoom(outbox, Capacity)
                     /\ HasRoom(mid, NormalCapacity)
  <1>1. /\ IsFiniteSet(outbox) /\ Accounted(outbox, actual, projected, hostNotes)
        /\ FullIsHalting /\ NormalCapacity \in Nat /\ NoteInv /\ Cardinality(outbox) \in Nat
    BY RoomTypes DEF RoomInv
  <1>2. /\ UNCHANGED <<actual, sessionGen, running, haveTick>>
        /\ e.gen = sessionGen /\ e.kind = "NoteOn" /\ Doing("sendDue")
        /\ outbox' = IF fits THEN mid \cup {on} ELSE mid
        /\ ~fits => UNCHANGED projected /\ capacityExceeded' /\ agenda' = Tail(agenda)
    BY Zenon DEF TransferNoteOn, Transferring, Stale, Replaced, Done
  <1>3. running /\ haveTick /\ ~Halting /\ HaltsSoon(Tail(agenda))
    BY <1>2, MovingHaltsSoon
  <1>4. e \in queue
    BY <1>1, FrontEvent DEF TransferNoteOn
  <1>5. /\ mid = outbox \/ (ReplacementDue(e) /\ mid = outbox \cup {ReplacementOff})
        /\ ReplacementDue(e) => /\ Active \in {projected, actual} \ {None}
                                /\ Active.gen = sessionGen /\ ~Covered(outbox, Active)
    BY <1>1, <1>2, <1>3, <1>4, ReplacedIs
  <1>6. ReplacementDue(e) => Few(outbox)
    <2> SUFFICES ASSUME ReplacementDue(e) PROVE Few(outbox)
      OBVIOUS
    <2>1. CASE Active = projected
      BY <1>1, <1>3, <1>5, <2>1 DEF FullIsHalting, NothingPlayed
    <2>2. CASE Active = actual
      BY <1>1, <1>5, <2>2 DEF Accounted, ActualIsOwed
    <2> QED
      BY <1>5, <2>1, <2>2
  <1> HIDE DEF e, on, mid
  <1>7. IsFiniteSet(mid)
    BY <1>1, <1>5, OneMore
  <1>8. CASE fits
    BY <1>2, <1>7, <1>8, PushedIsFew, OneMore, FewHasRoom
  <1>9. CASE ~fits /\ mid = outbox
    <2>1. ~HaltsSoon(agenda)
      BY <1>2, RoomTypes, HaltingAhead DEF Doing
    <2> QED
      BY <1>2, <1>9, <2>1, RoomShrinks
  <1>10. CASE ~fits /\ ReplacementDue(e) /\ mid = outbox \cup {ReplacementOff}
    <2>1. Cardinality(outbox) <= NormalCapacity
      BY <1>6, <1>10 DEF Few
    <2>2. Cardinality(mid) <= NormalCapacity + 1 /\ Cardinality(mid) \in Nat
      <3>1. Cardinality(mid) <= Cardinality(outbox) + 1 /\ Cardinality(mid) \in Nat
        BY <1>1, <1>10, OneMore
      <3> QED
        BY <1>1, <2>1, <3>1
    <2>3. Music(mid) \subseteq mid
      BY DEF Music
    <2>4. Cardinality(Music(mid)) <= Cardinality(mid) /\ Cardinality(Music(mid)) \in Nat
      BY <1>7, <2>3, FS_Subset, FS_CardinalityType
    <2>5. Cardinality(Music(mid)) <= NormalCapacity + 1
      BY <1>1, <2>2, <2>4
    <2>6. RoomForStop'
      BY <1>2, <1>10, <2>5 DEF RoomForStop, Music
    <2>7. Halting'
      BY <1>2, <1>3, <1>10 DEF Halting
    <2> QED
      BY <2>6, <2>7 DEF FullIsHalting
  <1> QED
    BY <1>5, <1>8, <1>9, <1>10

LEMMA RoomOperations ==
  ASSUME RoomInv, SoloInv', Operation
  PROVE  RoomInv'
  <1> USE DEF transportVars, sessionVars, noteVars
  <1>1. ~HearsExternal
    BY RoomTypes DEF SoloInv, HearsExternal
  <1>2. /\ PassUnchanged /\ Idle
    BY <1>1, Zenon DEF Operation, Toggle, ApplyMode, OpenStorage, CloseStorage, Process,
           ExternalStart, ExternalContinue, ExternalStop, ExternalClock
  <1>3. UNCHANGED <<outbox, running, sessionGen, projected, haveTick>>
    BY <1>2 DEF PassUnchanged
  <1>4. ~HaltsSoon(agenda)
    BY <1>2 DEF Idle, HaltsSoon
  <1>5. RoomForStop' /\ FullIsHalting'
    BY <1>3, <1>4, RoomShrinks
  <1>6. CheckFollows(agenda') /\ \A i \in 1 .. Len(agenda') : agenda'[i] # "sendDue"
    <2>1. /\ Plain(StartSession) /\ StartSession \in Seq(Labels) /\ CheckFollows(StartSession)
          /\ Plain(<<"stop">>) /\ <<"stop">> \in Seq(Labels) /\ CheckFollows(<<"stop">>)
      <3>1. CheckFollows(StartSession)
        <4>1. /\ StartSession[1] = "start" /\ StartSession[2] = "dispatcherStart"
              /\ StartSession[3] = "launch" /\ StartSession[4] = "schedule"
              /\ Len(StartSession) = 4
          BY DEF StartSession
        <4>2. \A i \in 1 .. 4 : i = 1 \/ i = 2 \/ i = 3 \/ i = 4
          OBVIOUS
        <4> QED
          BY <4>1, <4>2 DEF CheckFollows, CheckFollowsAt
      <3>2. CheckFollows(<<"stop">>)
        BY DEF CheckFollows, CheckFollowsAt
      <3> QED
        BY <3>1, <3>2, WorkTypes, PlainWork DEF Labels
    <2> DEFINE Good == CheckFollows(agenda') /\ \A i \in 1 .. Len(agenda') : agenda'[i] # "sendDue"
    <2>2. CASE Toggle
      <3>1. Pass(StartSession) \/ Pass(<<"stop">>)
        BY <2>2 DEF Toggle
      <3> QED
        BY <2>1, <3>1, CheckFollowsPass
    <2>3. CASE OpenStorage \/ \E m \in Modes : ApplyMode(m)
      <3>1. Pass(<<"stop">>)
        BY <2>3 DEF OpenStorage, ApplyMode
      <3> QED
        BY <2>1, <3>1, CheckFollowsPass
    <2>4. CASE CloseStorage
      BY <1>2, <2>4 DEF CloseStorage, Idle, CheckFollows
    <2>5. ASSUME NEW n \in 0 .. MaxTicksPerPass, Process(n) PROVE Good
      <3> DEFINE ticks == [i \in 1 .. 2 * n |->
                             IF i % 2 = 1 THEN "consumeTick" ELSE "capCheck"]
                 loss == IF mode = "External" THEN <<"clockLoss">> ELSE <<>>
                 work == ticks \o <<"dispatchDue", "capCheck", "schedule">> \o loss
      <3>1. Pass(work)
        BY <2>5, Zenon DEF Process
      <3>2. n \in Nat /\ loss \in {<<"clockLoss">>, <<>>}
        BY ControllerAssumption
      <3>3. work \in Seq(Labels) /\ Plain(work) /\ CheckFollows(work)
        <4> HIDE DEF loss
        <4> QED
          BY <3>2, ProcessWork, CheckFollowsProcess
      <3> HIDE DEF work
      <3> QED
        BY <3>1, <3>3, CheckFollowsPass
    <2> QED
      BY <1>1, <2>2, <2>3, <2>4, <2>5
         DEF Operation, ExternalStart, ExternalContinue, ExternalStop, ExternalClock
  <1> QED
    BY <1>5, <1>6 DEF RoomInv, DueIsOpen

LEMMA RoomSteps ==
  ASSUME RoomInv, SoloInv', Work \/ Delivery
  PROVE  RoomInv'
  <1>1. CheckFollows(agenda') /\ DueIsOpen'
    BY CheckFollowsSteps, DueIsOpenSteps
  <1>2. ~ContinueSession
    <2>1. agenda \in Seq(Labels) /\ NoContinue(agenda)
      BY RoomTypes DEF SoloInv
    <2> QED
      BY <2>1, NoContinueTail DEF ContinueSession, Doing
  <1> DEFINE Goal == RoomForStop' /\ FullIsHalting'
  <1>3. ASSUME StopSession \/ CapacityStop \/ RetryWindowStop \/ EndPreviousSession
        PROVE  Goal
    BY <1>3, RoomEnds DEF StopSession, Stop, CapacityStop, RetryWindowStop, EndPreviousSession
  <1>4. ASSUME \/ CapacityKept \/ NoOutcome \/ LaunchSession \/ ScheduleDone
               \/ \E step \in StepChoices, swing \in Swings : ScheduleStep(step, swing)
               \/ \E step \in StepChoices, swing \in Swings : ScheduleOverflow(step, swing)
               \/ \E phase \in Phases : ConsumeTick(phase)
               \/ AdvanceRefused \/ DispatchDue \/ NothingDue \/ SendDueDone \/ DropLaunch
               \/ ClockLost \/ ClockPresent
        PROVE  Goal
    BY <1>4, RoomQuiet, Zenon
  <1>5. ASSUME \/ Disconnect \/ DispatcherStart \/ AdvanceTick \/ TransferNoteOff
               \/ TransferNoteOn
        PROVE  Goal
    BY <1>5, RoomBegins, RoomDisconnects, RoomTicks, RoomTransfersOff, RoomTransfersOn, Zenon
  <1>6. Delivery => Goal
    BY RoomDelivery
  <1> HIDE DEF Goal
  <1>7. Goal
    BY <1>2, <1>3, <1>4, <1>5, <1>6, Zenon DEF Work
  <1> QED
    BY <1>1, <1>7 DEF RoomInv, Goal

(* Behind a transport that follows no master, the outbox always has room   *)
(* for a Stop.                                                             *)
THEOREM RoomInvariance ==
  ASSUME "External" \notin Modes
  PROVE  Spec => []RoomInv
  <1>1. Init /\ SoloInv => RoomInv
    <2> SUFFICES ASSUME Init, SoloInv PROVE RoomInv
      OBVIOUS
    <2>1. outbox = {} /\ agenda = <<>> /\ ~running
      BY DEF Init
    <2>2. Music(outbox) = {} /\ Cardinality({}) = 0
      BY <2>1, FS_EmptySet DEF Music
    <2>3. Cardinality(Music(outbox)) <= NormalCapacity + 1
      BY <2>2, Rooms
    <2>4. Len(agenda) = 0
      BY <2>1
    <2>5. CheckFollows(agenda) /\ DueIsOpen
      BY <2>4 DEF CheckFollows, DueIsOpen
    <2> QED
      BY <2>1, <2>3, <2>5 DEF RoomInv, RoomForStop, FullIsHalting
  <1>2. RoomInv /\ SoloInv' /\ [Next]_vars => RoomInv'
    <2> SUFFICES ASSUME RoomInv, SoloInv', [Next]_vars PROVE RoomInv'
      OBVIOUS
    <2>1. CASE UNCHANGED vars
      BY <2>1 DEF vars, transportVars, outboxVars, sessionVars, noteVars, RoomInv, CheckFollows,
         DueIsOpen, RoomForStop, FullIsHalting, Halting, HaltsSoon, NothingPlayed, OnsOf, Music
    <2> QED
      BY <2>1, RoomOperations, RoomSteps DEF Next
  <1> QED
    BY <1>1, <1>2, SoloInvariance, PTL DEF Spec

(* A session that was not ended and does not run has left nothing behind:  *)
(* the cable was lost.                                                     *)
CutIsEmpty == terminalGen # sessionGen /\ ~running => outbox = {}

LEMMA CutSteps ==
  ASSUME SoloInv, CutIsEmpty, [Next]_vars
  PROVE  CutIsEmpty'
  <1> USE DEF transportVars, sessionVars, outboxVars
  <1>1. SessionInv /\ agenda \in Seq(Labels) /\ NoContinue(agenda)
    BY DEF SoloInv, NoteInv, FlagInv, SessionInv, TypeOK
  <1>2. CASE outbox' \subseteq outbox /\ UNCHANGED <<running, sessionGen, terminalGen>>
    BY <1>2 DEF CutIsEmpty
  <1>3. CASE StopSession \/ CapacityStop \/ RetryWindowStop \/ EndPreviousSession
    BY <1>3, Zenon DEF StopSession, Stop, CapacityStop, RetryWindowStop, EndPreviousSession,
       EndSession, CutIsEmpty
  <1>4. CASE DispatcherStart \/ Disconnect
    BY <1>4, Zenon DEF DispatcherStart, Disconnect, CutIsEmpty
  <1>5. ~ContinueSession
    BY <1>1, NoContinueTail DEF ContinueSession, Doing
  <1>6. CASE AdvanceTick \/ TransferNoteOff \/ TransferNoteOn
    <2>1. running
      BY <1>1, <1>6, AtHand DEF AdvanceTick, TransferNoteOff, TransferNoteOn, Transferring, Doing
    <2>2. running' = running
      BY <1>6 DEF AdvanceTick, TransferNoteOff, TransferNoteOn, Transferring
    <2> QED
      BY <2>1, <2>2 DEF CutIsEmpty
  <1>7. CASE \/ CapacityKept \/ NoOutcome \/ LaunchSession \/ ScheduleDone
             \/ \E step \in StepChoices, swing \in Swings : ScheduleStep(step, swing)
             \/ \E step \in StepChoices, swing \in Swings : ScheduleOverflow(step, swing)
             \/ \E phase \in Phases : ConsumeTick(phase)
             \/ AdvanceRefused \/ DispatchDue \/ NothingDue \/ SendDueDone \/ DropLaunch
             \/ ClockLost \/ ClockPresent
    <2>1. UNCHANGED <<outbox, running, sessionGen, terminalGen>>
      BY <1>7, Zenon DEF CapacityKept, NoOutcome, LaunchSession, ScheduleDone, ScheduleStep,
         ScheduleOverflow, ConsumeTick, AdvanceRefused, DispatchDue, NothingDue, SendDueDone,
         DropLaunch, Transferring, ClockLost, ClockPresent
    <2> QED
      BY <1>2, <2>1
  <1>8. CASE Operation
    <2>1. UNCHANGED <<outbox, running, sessionGen, terminalGen>>
      BY <1>8, Zenon DEF Operation, Toggle, ApplyMode, OpenStorage, CloseStorage, Process,
         ExternalStart, ExternalContinue, ExternalStop, ExternalClock, PassUnchanged
    <2> QED
      BY <1>2, <2>1
  <1>9. CASE Delivery
    <2>1. outbox' \subseteq outbox /\ UNCHANGED <<running, sessionGen, terminalGen>>
      BY <1>9, Zenon DEF Delivery, ServiceEnded, RetryWindowExceeded, OutboxDrained,
         SendAccepted, SendRetryLater, SendDisconnected, Attempt, Live
    <2> QED
      BY <1>2, <2>1
  <1>10. CASE UNCHANGED vars
    BY <1>2, <1>10 DEF vars
  <1> QED
    BY <1>3, <1>4, <1>5, <1>6, <1>7, <1>8, <1>9, <1>10 DEF Next, Work

(* Whatever a session has pending when it is stopped, its Off and its Stop *)
(* find room: the terminal reserve is never exceeded                       *)
(* (MidiPendingDeliveryQueue::TERMINAL_RESERVE and stopLaunch).            *)
THEOREM ReserveSuffices ==
  ASSUME "External" \notin Modes
  PROVE  Spec => []~TerminalDropped
  <1>1. Init => CutIsEmpty
    BY DEF Init, CutIsEmpty
  <1>2. SoloInv /\ CutIsEmpty /\ [Next]_vars => CutIsEmpty'
    BY CutSteps
  <1>3. RoomInv /\ CutIsEmpty => ~TerminalDropped
    <2> SUFFICES ASSUME RoomInv, CutIsEmpty, TerminalDropped PROVE FALSE
      OBVIOUS
    <2>1. outbox = {} /\ terminalGen # sessionGen
      BY RoomForEnd DEF CutIsEmpty, TerminalDropped
    <2>2. Kept = {} /\ Cardinality({}) = 0 /\ IsFiniteSet({})
      BY <2>1, FS_EmptySet DEF Kept
    <2>3. PICK x : WithTerminalOff \in {Kept, Kept \cup {x}}
      BY DEF WithTerminalOff, Push
    <2>4. Cardinality(WithTerminalOff) \in Nat /\ Cardinality(WithTerminalOff) <= 1
      BY <2>2, <2>3, OneMore
    <2>5. Cardinality(WithTerminalOff) < Capacity /\ Cardinality(Kept) < Capacity
      BY <2>2, <2>4, Rooms
    <2> QED
      BY <2>5 DEF TerminalDropped, HasRoom
  <1> QED
    BY <1>1, <1>2, <1>3, SoloInvariance, RoomInvariance, PTL DEF Spec

-----------------------------------------------------------------------------
(***************************************************************************)
(* A transport that is its own clock                                       *)
(*                                                                         *)
(* Every session sends a Start and owes a Stop, and the Stop finds room.   *)
(* Before the mode is chosen the transport sends neither.                  *)
(***************************************************************************)
StartIsOwed == \A p \in outbox : p.kind = "Start" => outputActive

CutIsStopped == outcome = "Disconnected" => ~hostPlaying

OffIsQuiet == mode = "Off" => ~hostPlaying /\ ~outputActive

HostIsOwed == StartIsOwed /\ CutIsStopped /\ OffIsQuiet /\ HostIsStopped

ClockInv == RoomInv /\ HostIsOwed

LEMMA OwedSame ==
  ASSUME ClockInv, UNCHANGED <<running, outputActive, hostPlaying, outcome>>,
         mode' \in {mode, "Internal"},
         \A p \in outbox : p.kind = "Stop" => p \in outbox',
         \A p \in outbox' : p.kind = "Start" => p \in outbox
  PROVE  HostIsOwed'
  BY DEF ClockInv, HostIsOwed, StartIsOwed, CutIsStopped, OffIsQuiet, HostIsStopped, StopPending

LEMMA OwedDelivery ==
  ASSUME ClockInv, Delivery
  PROVE  HostIsOwed'
  <1> USE DEF transportVars, sessionVars, hostVars, controlVars, outboxVars, passVars
  <1>1. /\ NoteInv /\ SessionInv /\ HostIsOwed
        /\ Live \subseteq outbox /\ \A p \in outbox : p.kind = "Stop" => p \in Live
    BY RoomTypes DEF ClockInv, Live, Overdue
  <1>2. CASE ServiceEnded \/ OutboxDrained \/ SendRetryLater
    <2>1. UNCHANGED <<running, outputActive, hostPlaying, outcome, mode>>
          /\ outbox' \in {outbox, Live}
      BY <1>2 DEF ServiceEnded, OutboxDrained, SendRetryLater, Attempt
    <2> QED
      BY <1>1, <2>1, OwedSame
  <1>3. CASE RetryWindowExceeded
    BY <1>1, <1>3 DEF RetryWindowExceeded, HostIsOwed, StartIsOwed, CutIsStopped, OffIsQuiet,
       HostIsStopped, StopPending
  <1>4. CASE SendDisconnected
    <2>1. UNCHANGED <<outputActive, mode>> /\ outbox' = Live /\ hostPlaying' = FALSE
      BY <1>4 DEF SendDisconnected, Attempt
    <2> QED
      BY <1>1, <2>1 DEF HostIsOwed, StartIsOwed, CutIsStopped, OffIsQuiet, HostIsStopped
  <1>5. CASE SendAccepted
    <2> DEFINE p == Accepted
    <2>1. p \in outbox
      BY <1>1, <1>5, AcceptedInSilence
    <2>2. /\ UNCHANGED <<running, outputActive, mode, outcome>> /\ outcome = "None"
          /\ outbox' = Live \ {p}
          /\ hostPlaying' = (p.kind = "Start" \/ (hostPlaying /\ p.kind # "Stop"))
      BY <1>5 DEF SendAccepted, Attempt, CanSend, HostReceives, Accepted
    <2> HIDE DEF p
    <2>3. StartIsOwed' /\ CutIsStopped'
      BY <1>1, <2>2 DEF HostIsOwed, StartIsOwed, CutIsStopped
    <2>4. CASE p.kind = "Start"
      <3>1. running /\ outputActive
        BY <1>1, <2>1, <2>4 DEF SessionInv, MusicIsLive, Musical, HostIsOwed, StartIsOwed
      <3> QED
        BY <1>1, <2>2, <2>3, <3>1 DEF HostIsOwed, OffIsQuiet, HostIsStopped
    <2>5. CASE p.kind = "Stop"
      BY <1>1, <2>2, <2>3, <2>5 DEF HostIsOwed, OffIsQuiet, HostIsStopped
    <2>6. CASE p.kind \notin {"Start", "Stop"}
      <3>1. hostPlaying' => hostPlaying
        BY <2>2, <2>6
      <3>2. StopPending => StopPending'
        BY <1>1, <2>2, <2>6 DEF StopPending
      <3> QED
        BY <1>1, <2>2, <2>3, <3>1, <3>2 DEF HostIsOwed, OffIsQuiet, HostIsStopped
    <2> QED
      BY <2>4, <2>5, <2>6
  <1> QED
    BY <1>2, <1>3, <1>4, <1>5 DEF Delivery

(* A session that ends leaves the Stop it owes, or had left it before.     *)
LEMMA OwedEnds ==
  ASSUME ClockInv, EndSession, outcome' \in {outcome, "None"}, UNCHANGED <<mode, hostPlaying>>
  PROVE  HostIsOwed'
  <1>1. RoomInv /\ SessionInv /\ HostIsOwed
    BY RoomTypes DEF ClockInv
  <1>2. StartIsOwed'
    BY <1>1, EndLeavesNoMusic DEF StartIsOwed, Musical
  <1>3. CutIsStopped' /\ OffIsQuiet'
    BY <1>1 DEF HostIsOwed, CutIsStopped, OffIsQuiet, EndSession
  <1>4. WithTerminalOff \subseteq WithTerminalStop /\ Kept \subseteq WithTerminalOff
    BY DEF WithTerminalOff, WithTerminalStop, Push
  <1>5. StopPending => StopPending'
    <2> SUFFICES ASSUME NEW p \in outbox, p.kind = "Stop" PROVE p \in outbox'
      BY DEF StopPending
    <2>1. p \in Kept
      BY DEF Kept, Cancelled
    <2> QED
      BY <1>4, <2>1 DEF EndSession
  <1>6. running /\ outputActive => StopPending'
    <2> SUFFICES ASSUME running, outputActive PROVE StopPending'
      OBVIOUS
    <2>1. terminalGen # sessionGen /\ ~TerminalDropped
      BY <1>1, RoomForEnd DEF SessionInv, EndedIsStopped
    <2>2. outbox' = WithTerminalStop
      BY <2>1 DEF EndSession
    <2>3. CASE TerminalStopDue
      <3>1. HasRoom(WithTerminalOff, Capacity)
        BY <2>1, <2>3 DEF TerminalDropped
      <3> DEFINE halt == Pending(nextSeq + 1, "Stop", None, 0, sessionGen, 0, TRUE)
      <3>2. halt \in WithTerminalStop /\ halt.kind = "Stop"
        BY <2>3, <3>1 DEF WithTerminalStop, Push, Pending
      <3> QED
        BY <2>2, <3>2 DEF StopPending
    <2>4. CASE ~TerminalStopDue
      <3>1. \E p \in WithTerminalOff : p.kind = "Stop"
        BY <2>4 DEF TerminalStopDue, HasTerminal
      <3> QED
        BY <1>4, <2>2, <3>1 DEF StopPending
    <2> QED
      BY <2>3, <2>4
  <1>7. HostIsStopped'
    BY <1>1, <1>5, <1>6 DEF HostIsOwed, HostIsStopped
  <1> QED
    BY <1>2, <1>3, <1>7 DEF HostIsOwed

(* A start takes the Stop that waits, and owes one of its own.             *)
LEMMA OwedBegins ==
  ASSUME ClockInv, DispatcherStart
  PROVE  HostIsOwed'
  <1> USE DEF controlVars, hostVars, passVars
  <1>1. SessionInv /\ HostIsOwed /\ mode \in {"Off", "Internal"}
    BY RoomTypes DEF ClockInv, SoloInv, TypeOK, ClockModes
  <1>2. /\ running' = TRUE /\ outputActive' = (mode = "Internal")
        /\ UNCHANGED <<mode, hostPlaying, outcome>>
    BY DEF DispatcherStart
  <1>3. mode # "Internal" => \A p \in outbox' : p \in outbox
    BY DEF DispatcherStart
  <1>4. StartIsOwed'
    <2>1. \A p \in outbox : p.kind # "Start"
      BY <1>1, AtHand DEF SessionInv, MusicIsLive, Musical, DispatcherStart, Doing
    <2> QED
      BY <1>2, <1>3, <2>1 DEF StartIsOwed
  <1> QED
    BY <1>1, <1>2, <1>4 DEF HostIsOwed, CutIsStopped, OffIsQuiet, HostIsStopped

LEMMA OwedWork ==
  ASSUME ClockInv, Work
  PROVE  HostIsOwed'
  <1> USE DEF transportVars, sessionVars, hostVars, controlVars, outboxVars, passVars
  <1>1. RoomInv /\ HostIsOwed /\ agenda \in Seq(Labels) /\ NoContinue(agenda)
    BY RoomTypes DEF ClockInv, SoloInv
  <1>2. ASSUME StopSession \/ CapacityStop \/ RetryWindowStop \/ EndPreviousSession
        PROVE  HostIsOwed'
    <2>1. EndSession /\ outcome' \in {outcome, "None"} /\ UNCHANGED <<mode, hostPlaying>>
      BY <1>2, Zenon DEF StopSession, Stop, CapacityStop, RetryWindowStop, EndPreviousSession
    <2> QED
      BY <2>1, OwedEnds
  <1>3. ASSUME Disconnect
        PROVE  HostIsOwed'
    BY <1>1, <1>3 DEF Disconnect, HostIsOwed, StartIsOwed, CutIsStopped, OffIsQuiet,
       HostIsStopped
  <1>4. ~ContinueSession
    BY <1>1, NoContinueTail DEF ContinueSession, Doing
  <1>5. ASSUME AdvanceTick \/ TransferNoteOff \/ TransferNoteOn
        PROVE  HostIsOwed'
    <2>1. UNCHANGED <<running, outputActive, hostPlaying, outcome, mode>>
      BY <1>5 DEF AdvanceTick, TransferNoteOff, TransferNoteOn, Transferring
    <2>2. \A p \in outbox : p.kind = "Stop" => p \in outbox'
      BY <1>5 DEF AdvanceTick, TransferNoteOff, TransferNoteOn, OwnClock, Push
    <2>3. \A p \in outbox' : p.kind = "Start" => p \in outbox
      BY <1>5 DEF AdvanceTick, TransferNoteOff, TransferNoteOn, ReplacementOff, Push, Pending
    <2> QED
      BY <2>1, <2>2, <2>3, OwedSame
  <1>6. ASSUME \/ CapacityKept \/ NoOutcome \/ LaunchSession \/ ScheduleDone
               \/ \E step \in StepChoices, swing \in Swings : ScheduleStep(step, swing)
               \/ \E step \in StepChoices, swing \in Swings : ScheduleOverflow(step, swing)
               \/ \E phase \in Phases : ConsumeTick(phase)
               \/ AdvanceRefused \/ DispatchDue \/ NothingDue \/ SendDueDone \/ DropLaunch
               \/ ClockLost \/ ClockPresent
        PROVE  HostIsOwed'
    <2>1. UNCHANGED <<outbox, running, outputActive, hostPlaying, outcome, mode>>
      BY <1>6, Zenon DEF CapacityKept, NoOutcome, LaunchSession, ScheduleDone, ScheduleStep,
         ScheduleOverflow, ConsumeTick, AdvanceRefused, DispatchDue, NothingDue, SendDueDone,
         DropLaunch, Transferring, ClockLost, ClockPresent
    <2> QED
      BY <2>1, OwedSame
  <1> QED
    BY <1>2, <1>3, <1>4, <1>5, <1>6, OwedBegins DEF Work

LEMMA OwedOperations ==
  ASSUME Modes \subseteq {"Internal"}, ClockInv, Operation
  PROVE  HostIsOwed'
  <1> USE DEF transportVars, sessionVars, hostVars, controlVars
  <1>1. PassUnchanged
    BY Zenon DEF Operation, Toggle, ApplyMode, OpenStorage, CloseStorage, Process,
       ExternalStart, ExternalContinue, ExternalStop, ExternalClock
  <1>2. mode' \in {mode, "Internal"}
    BY Zenon DEF Operation, Toggle, ApplyMode, OpenStorage, CloseStorage, Process,
       ExternalStart, ExternalContinue, ExternalStop, ExternalClock
  <1>3. UNCHANGED <<outbox, running, outputActive, hostPlaying, outcome>>
    BY <1>1 DEF PassUnchanged
  <1> QED
    BY <1>2, <1>3, OwedSame

(* A host that follows our Start is being driven or is owed a Stop, over   *)
(* every refusal, full outbox and lost cable, while the mode stays         *)
(* Internal.  (A start in mode Off drops the Stop of a session before it:  *)
(* MCTransport_superseded_stop.cfg.)                                       *)
THEOREM HostIsAlwaysStopped ==
  ASSUME Modes \subseteq {"Internal"}
  PROVE  Spec => []HostIsStopped
  <1>1. "External" \notin Modes
    OBVIOUS
  <1>2. Init /\ RoomInv => ClockInv
    BY DEF Init, ClockInv, HostIsOwed, StartIsOwed, CutIsStopped, OffIsQuiet, HostIsStopped
  <1>3. ClockInv /\ RoomInv' /\ [Next]_vars => ClockInv'
    <2> SUFFICES ASSUME ClockInv, RoomInv', [Next]_vars PROVE HostIsOwed'
      BY DEF ClockInv
    <2>1. CASE UNCHANGED vars
      BY <2>1, OwedSame DEF vars, transportVars, outboxVars, sessionVars, hostVars, passVars,
         controlVars
    <2> QED
      BY <2>1, OwedOperations, OwedDelivery, OwedWork DEF Next
  <1>4. ClockInv => HostIsStopped
    BY DEF ClockInv, HostIsOwed
  <1>5. Spec => []RoomInv
    BY <1>1, RoomInvariance
  <1> QED
    BY <1>2, <1>3, <1>4, <1>5, PTL DEF Spec
=============================================================================
