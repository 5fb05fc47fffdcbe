-------------------------- MODULE ProgramStorage_proofs --------------------------
(***************************************************************************)
(* A program saved is a program kept: the codec loses nothing, two copies  *)
(* stay one revision apart, and the store implements DurableSlots, for     *)
(* every number of slots, every program and whatever the flash does.       *)
(*                                                                         *)
(* Saving, loading and autosaving programs: the store under them keeps its *)
(* promises, a user's slot changes only by a Save of that slot, what the   *)
(* controller takes to be saved is stored, and what is kept in RAM follows *)
(* flash.                                                                  *)
(***************************************************************************)
EXTENDS ProgramStorage, TLAPS

-----------------------------------------------------------------------------
(***************************************************************************)
(* The codec                                                               *)
(***************************************************************************)

(* A program is its fields' values.                                        *)
LEMMA ProgramFields ==
  ASSUME NEW prog \in Programs
  PROVE  /\ DOMAIN prog = Fields
         /\ \A field \in Fields : prog[field] \in Valid[field]
         /\ prog = [field \in Fields |-> prog[field]]
BY DEF Programs

(* Values written today are not cut down when they are read back.          *)
LEMMA WrittenIsNormal ==
  ASSUME NEW prog \in Programs, NEW field \in Fields
  PROVE  Normalized(field, prog[field]) = prog[field]
<1>1. prog[field] \in Valid[field]
  BY ProgramFields
<1>2. CASE field = "swing"
  <2>1. Valid[field] \cap LegacySwings = {}
    BY <1>2, CodecAssumption
  <2> QED BY <1>1, <2>1 DEF Normalized
<1>3. CASE field # "swing"
  BY <1>3 DEF Normalized
<1> QED BY <1>2, <1>3

(* What encodeProgram writes decodeProgram accepts, and no value of today  *)
(* is taken for one of older firmware (program_codec.cpp:229-231).  What   *)
(* that is worth in flash, LoadsFollowSaves says.                          *)
LEMMA RoundTrip ==
  ASSUME NEW prog \in Programs, NEW revision
  PROVE  /\ Decodable(Encode(prog, revision))
         /\ Decoded(Encode(prog, revision)) = prog
         /\ Encode(prog, revision).revision = revision
<1> DEFINE image == Encode(prog, revision)
<1>1. image.whole /\ image.content = prog /\ image.revision = revision
  BY DEF Encode
<1>2. DOMAIN image.content = Fields
  BY <1>1, ProgramFields
<1>3. \A field \in Fields : Normalized(field, image.content[field]) = prog[field]
  BY <1>1, WrittenIsNormal
<1>4. \A field \in Fields : prog[field] \in Valid[field]
  BY ProgramFields
<1> HIDE DEF image
<1>5. Decodable(image)
  BY <1>1, <1>2, <1>3, <1>4 DEF Decodable
<1>6. Decoded(image) = [field \in Fields |-> prog[field]]
  BY <1>2, <1>3 DEF Decoded
<1>7. Decoded(image) = prog
  BY <1>6, ProgramFields
<1> QED BY <1>1, <1>5, <1>7 DEF image

(* Whatever an image holds, what is decoded from it is a program: values   *)
(* it lacks are defaults, those of older firmware are cut down.            *)
LEMMA DecodedIsProgram ==
  ASSUME NEW image, Decodable(image)
  PROVE  Decoded(image) \in Programs
<1> DEFINE prog == Decoded(image)
<1>1. ASSUME NEW field \in Fields PROVE prog[field] \in Valid[field]
  <2>1. Default[field] \in Valid[field]
    BY CodecAssumption, ProgramFields
  <2>2. CASE field \in DOMAIN image.content
    BY <2>2 DEF Decoded, Decodable
  <2>3. CASE field \notin DOMAIN image.content
    BY <2>1, <2>3 DEF Decoded
  <2> QED BY <2>2, <2>3
<1>2. prog = [field \in Fields |-> prog[field]]
  BY DEF Decoded
<1> HIDE DEF prog
<1>3. \A field \in Fields : prog[field] \in UNION {Valid[f] : f \in Fields}
  BY <1>1
<1>4. prog \in [Fields -> UNION {Valid[f] : f \in Fields}]
  BY <1>2, <1>3
<1>5. prog \in Programs
  BY <1>1, <1>4 DEF Programs
<1> QED BY <1>5 DEF prog

-----------------------------------------------------------------------------
(***************************************************************************)
(* A pair of copies                                                        *)
(***************************************************************************)
TypedPair(pair) ==
  \A copy \in Copies : pair[copy] # Missing => pair[copy].revision \in 0 .. MaxRevision

NewerIn(pair, copy) ==
  /\ IsValid(pair[copy])
  /\ IsValid(pair[Other(copy)]) => pair[copy].revision > pair[Other(copy)].revision

StoredIn(pair) ==
  IF NewerIn(pair, "A") THEN Decoded(pair["A"])
  ELSE IF IsValid(pair["B"]) THEN Decoded(pair["B"])
  ELSE None

BeforeIn(pair) ==
  IF ~(IsValid(pair["A"]) /\ IsValid(pair["B"])) THEN None
  ELSE Decoded(pair[IF NewerIn(pair, "A") THEN "B" ELSE "A"])

(* A copy may be written under a revision: it is not the newer one, and    *)
(* the revision follows the other's.                                       *)
Ready(pair, copy, revision) ==
  /\ IsValid(pair[Other(copy)]) => revision = pair[Other(copy)].revision + 1
  /\ IsValid(pair[copy]) =>
       /\ IsValid(pair[Other(copy)])
       /\ pair[copy].revision < pair[Other(copy)].revision

(* No decoder accepts a torn file or a missing one; what save() encodes is *)
(* a valid image.                                                          *)
LEMMA Images ==
  /\ ~IsValid(Torn)
  /\ Torn.revision = 0
  /\ ~IsValid(Missing)
  /\ \A prog \in Programs, revision \in 1 .. MaxRevision :
       /\ IsValid(Encode(prog, revision))
       /\ Encode(prog, revision) # Torn
       /\ Encode(prog, revision).revision = revision
       /\ Decoded(Encode(prog, revision)) = prog
<1>1. ~IsValid(Torn) /\ Torn.revision = 0 /\ ~IsValid(Missing)
  BY DEF IsValid, Torn, Decodable
<1>2. ASSUME NEW prog \in Programs, NEW revision \in 1 .. MaxRevision
      PROVE  /\ IsValid(Encode(prog, revision))
             /\ Encode(prog, revision).revision = revision
             /\ Decoded(Encode(prog, revision)) = prog
  <2>1. Encode(prog, revision) # Missing
    BY StoreAssumption
  <2> QED BY <2>1, RoundTrip DEF IsValid
<1> QED BY <1>1, <1>2

(* A save that is cut short loses nothing but the older program.           *)
LEMMA TornEffect ==
  ASSUME NEW pair, NEW new, NEW copy \in Copies, NEW revision,
         TypedPair(pair), Ready(pair, copy, revision),
         new[copy] = Torn, new[Other(copy)] = pair[Other(copy)]
  PROVE  TypedPair(new) /\ Apart(new) /\ StoredIn(new) = StoredIn(pair) /\ BeforeIn(new) = None
<1>1. MaxRevision \in Nat
  BY StoreAssumption
<1>2. CASE copy = "A"
  BY <1>1, <1>2, Images DEF TypedPair, Apart, StoredIn, BeforeIn, NewerIn, Ready, Other, Copies
<1>3. CASE copy = "B"
  BY <1>1, <1>3, Images DEF TypedPair, Apart, StoredIn, BeforeIn, NewerIn, Ready, Other, Copies
<1> QED BY <1>2, <1>3 DEF Copies

(* A save that is written takes the slot over and keeps the program that   *)
(* was stored as the older one.                                            *)
LEMMA WrittenEffect ==
  ASSUME NEW pair, NEW new, NEW copy \in Copies, NEW revision \in 1 .. MaxRevision,
         NEW prog \in Programs,
         TypedPair(pair), Ready(pair, copy, revision),
         new[copy] = Encode(prog, revision), new[Other(copy)] = pair[Other(copy)]
  PROVE  /\ TypedPair(new)
         /\ Apart(new)
         /\ StoredIn(new) = prog
         /\ BeforeIn(new) = StoredIn(pair)
<1>1. MaxRevision \in Nat
  BY StoreAssumption
<1>2. /\ IsValid(new[copy]) /\ new[copy].revision = revision /\ Decoded(new[copy]) = prog
  BY Images
<1>3. IsValid(pair[Other(copy)]) => pair[Other(copy)].revision \in 0 .. MaxRevision
  BY Images DEF TypedPair, Other, Copies
<1>4. CASE copy = "A"
  <2>1. /\ new["B"] = pair["B"]
        /\ IsValid(pair["B"]) =>
             revision = pair["B"].revision + 1 /\ pair["B"].revision \in 0 .. MaxRevision
        /\ IsValid(pair["A"]) => IsValid(pair["B"]) /\ pair["A"].revision < pair["B"].revision
    BY <1>3, <1>4 DEF Ready, Other
  <2>2. StoredIn(pair) = IF IsValid(pair["B"]) THEN Decoded(pair["B"]) ELSE None
    BY <2>1, Images DEF StoredIn, NewerIn, Other, TypedPair, Copies
  <2>3. NewerIn(new, "A")
    BY <1>2, <1>4, <2>1 DEF NewerIn, Other
  <2>4. TypedPair(new) /\ Apart(new)
    BY <1>1, <1>2, <1>4, <2>1 DEF TypedPair, Apart, Copies
  <2> QED BY <1>2, <1>4, <2>1, <2>2, <2>3, <2>4 DEF StoredIn, BeforeIn
<1>5. CASE copy = "B"
  <2>1. /\ new["A"] = pair["A"]
        /\ IsValid(pair["A"]) =>
             revision = pair["A"].revision + 1 /\ pair["A"].revision \in 0 .. MaxRevision
        /\ IsValid(pair["B"]) => IsValid(pair["A"]) /\ pair["B"].revision < pair["A"].revision
    BY <1>3, <1>5 DEF Ready, Other
  <2>2. StoredIn(pair) = IF IsValid(pair["A"]) THEN Decoded(pair["A"]) ELSE None
    BY <2>1, Images DEF StoredIn, NewerIn, Other, TypedPair, Copies
  <2>3. ~NewerIn(new, "A")
    BY <1>2, <1>5, <2>1 DEF NewerIn, Other
  <2>4. TypedPair(new) /\ Apart(new)
    BY <1>1, <1>2, <1>5, <2>1 DEF TypedPair, Apart, Copies
  <2> QED BY <1>2, <1>5, <2>1, <2>2, <2>3, <2>4 DEF StoredIn, BeforeIn
<1> QED BY <1>4, <1>5 DEF Copies

(* Every valid copy holds the stored program or the one before it.         *)
LEMMA ValidIsStored ==
  ASSUME NEW pair, TypedPair(pair), Apart(pair), NEW copy \in Copies, IsValid(pair[copy])
  PROVE  Decoded(pair[copy]) \in {StoredIn(pair), BeforeIn(pair)} \ {None}
<1>1. MaxRevision \in Nat /\ None \notin Programs
  BY StoreAssumption
<1>2. Decoded(pair[copy]) # None
  BY <1>1, DecodedIsProgram DEF IsValid
<1>3. \A c \in Copies : IsValid(pair[c]) => pair[c].revision \in 0 .. MaxRevision
  BY Images DEF TypedPair
<1>4. Decoded(pair[copy]) \in {StoredIn(pair), BeforeIn(pair)}
  BY <1>1, <1>3 DEF Apart, StoredIn, BeforeIn, NewerIn, Other, Copies
<1> QED BY <1>2, <1>4

-----------------------------------------------------------------------------
(***************************************************************************)
(* selectCopy and save() before the write                                  *)
(***************************************************************************)

(* Whatever could not be read, the copy selected is a valid one.           *)
LEMMA SelectedIsValid ==
  ASSUME NEW slot \in Slots, NEW failed \in SUBSET Copies, Selection(slot, failed).status = "Ok"
  PROVE  /\ Selection(slot, failed).copy \in Copies
         /\ IsValid(files[slot][Selection(slot, failed).copy])
<1> DEFINE newest == Newest(slot, ValidCopies(slot, failed))
<1>1. newest \subseteq Copies /\ \A copy \in newest : IsValid(files[slot][copy])
  BY DEF Newest, ValidCopies, Readable
<1> HIDE DEF newest
<1>2. newest # {} /\ Selection(slot, failed).copy = IF newest = {"B"} THEN "B" ELSE "A"
  BY DEF Selection, newest
<1>3. newest # {"B"} => "A" \in newest
  BY <1>1, <1>2 DEF Copies
<1> QED BY <1>1, <1>2, <1>3 DEF Copies

(* With both copies read, the newest is selected, and none only if neither *)
(* is valid.                                                               *)
LEMMA NewestIsSelected ==
  ASSUME NEW slot \in Slots, TypedPair(files[slot]), Apart(files[slot])
  PROVE  LET selection == Selection(slot, {})
             other == Other(selection.copy)
         IN  /\ selection.status = "Ok" =>
                  /\ IsValid(files[slot][other]) =>
                       Revision(slot, other) < Revision(slot, selection.copy)
             /\ selection.status \notin {"Ok", "Conflict"} =>
                  \A copy \in Copies : ~IsValid(files[slot][copy])
<1> DEFINE pair == files[slot]
           valid == ValidCopies(slot, {})
           newest == Newest(slot, valid)
<1>1. valid = {copy \in Copies : IsValid(pair[copy])}
  BY DEF ValidCopies, Readable, IsValid
<1>2. \A copy \in valid : pair[copy].revision \in Int
  BY <1>1, Images, StoreAssumption DEF TypedPair
<1> HIDE DEF valid
<1>3. newest = {copy \in valid : \A other \in valid : pair[other].revision <= pair[copy].revision}
  BY DEF Newest, Revision
<1>4. "A" \in valid /\ "B" \in valid =>
        \/ newest = {"A"} /\ pair["B"].revision < pair["A"].revision
        \/ newest = {"B"} /\ pair["A"].revision < pair["B"].revision
  BY <1>1, <1>2, <1>3 DEF Apart, Copies
<1>5. /\ "A" \in valid /\ "B" \notin valid => newest = {"A"}
      /\ "B" \in valid /\ "A" \notin valid => newest = {"B"}
      /\ "A" \notin valid /\ "B" \notin valid => newest = {}
  BY <1>1, <1>2, <1>3 DEF Copies
<1>6. /\ Selection(slot, {}).copy = IF newest = {"B"} THEN "B" ELSE "A"
      /\ Selection(slot, {}).status \notin {"Ok", "Conflict"} => newest = {}
      /\ Selection(slot, {}).status = "Ok" => newest # {}
  <2> DEFINE unreadable == IF Readable(slot, {}) = {} THEN "Empty" ELSE "Corrupt"
             differ == files[slot]["A"] # files[slot]["B"]
  <2> HIDE DEF newest
  <2>1. Selection(slot, {}) =
          [status |-> IF newest = Copies /\ differ THEN "Conflict"
                      ELSE IF newest # {} THEN "Ok" ELSE unreadable,
           copy |-> IF newest = {"B"} THEN "B" ELSE "A"]
    BY DEF Selection, newest, valid
  <2>2. unreadable \in {"Empty", "Corrupt"} /\ Copies # {}
    BY DEF Copies
  <2> HIDE DEF unreadable, differ
  <2> QED BY <2>1, <2>2
<1> HIDE DEF newest
<1>7. ASSUME Selection(slot, {}).status = "Ok", IsValid(pair[Other(Selection(slot, {}).copy)])
      PROVE  pair[Other(Selection(slot, {}).copy)].revision < pair[Selection(slot, {}).copy].revision
  <2>1. CASE newest = {"B"}
    BY <1>1, <1>4, <1>5, <1>6, <1>7, <2>1 DEF Other, Copies
  <2>2. CASE newest # {"B"}
    BY <1>1, <1>4, <1>5, <1>6, <1>7, <2>2 DEF Other, Copies
  <2> QED BY <2>1, <2>2
<1>8. Selection(slot, {}).status \notin {"Ok", "Conflict"} =>
        \A copy \in Copies : ~IsValid(pair[copy])
  BY <1>1, <1>4, <1>5, <1>6 DEF Copies
<1> QED BY <1>7, <1>8 DEF Revision

(* Copies that are one revision apart are never in conflict.               *)
LEMMA NoConflict ==
  ASSUME NEW slot \in Slots, NEW failed \in SUBSET Copies,
         TypedPair(files[slot]), Apart(files[slot])
  PROVE  Selection(slot, failed).status # "Conflict"
<1> DEFINE pair == files[slot]
           valid == ValidCopies(slot, failed)
           newest == Newest(slot, valid)
<1>1. valid \subseteq Copies /\ \A copy \in valid : IsValid(pair[copy])
  BY DEF ValidCopies, Readable
<1>2. \A copy \in valid : pair[copy].revision \in Int
  BY <1>1, Images, StoreAssumption DEF TypedPair
<1> HIDE DEF valid
<1>3. newest = {copy \in valid : \A other \in valid : pair[other].revision <= pair[copy].revision}
  BY DEF Newest, Revision
<1>4. newest # Copies
  BY <1>1, <1>2, <1>3 DEF Apart, Copies
<1> DEFINE differ == files[slot]["A"] # files[slot]["B"]
           others == IF newest # {} THEN "Ok"
                     ELSE IF failed # {} THEN "ReadFailed"
                     ELSE IF Readable(slot, failed) = {} THEN "Empty" ELSE "Corrupt"
<1> HIDE DEF newest
<1>5. Selection(slot, failed).status = IF newest = Copies /\ differ THEN "Conflict" ELSE others
  BY DEF Selection, newest, valid
<1>6. others # "Conflict"
  OBVIOUS
<1> QED BY <1>4, <1>5, <1>6

(* save() goes on only with a copy that may be written, under a revision   *)
(* an image can carry.                                                     *)
LEMMA TargetIsReady ==
  ASSUME NEW slot \in Slots, NEW failed \in SUBSET Copies,
         TypedPair(files[slot]), Apart(files[slot]), SaveStatus(slot, failed) = "Ok"
  PROVE  LET selection == Selection(slot, failed)
             revision == IF selection.status = "Ok" THEN Revision(slot, selection.copy) + 1 ELSE 1
         IN  /\ Target(selection) \in Copies
             /\ revision \in 1 .. MaxRevision
             /\ Ready(files[slot], Target(selection), revision)
<1> DEFINE selection == Selection(slot, failed)
<1>1. /\ failed = {}
      /\ selection.status # "Conflict"
      /\ selection.status = "Ok" => Revision(slot, selection.copy) # MaxRevision
  BY DEF SaveStatus
<1>2. MaxRevision \in Nat \ {0}
  BY StoreAssumption
<1>3. CASE selection.status = "Ok"
  <2>1. /\ selection.copy \in Copies
        /\ IsValid(files[slot][selection.copy])
        /\ IsValid(files[slot][Other(selection.copy)]) =>
             Revision(slot, Other(selection.copy)) < Revision(slot, selection.copy)
    BY <1>1, <1>3, SelectedIsValid, NewestIsSelected
  <2>2. Revision(slot, selection.copy) \in 0 .. MaxRevision
    BY <2>1, Images DEF TypedPair, Revision
  <2>3. Target(selection) = Other(selection.copy)
    BY <1>3 DEF Target
  <2> HIDE DEF selection
  <2>4. Target(selection) \in Copies /\ Other(Target(selection)) = selection.copy
    BY <2>1, <2>3 DEF Other, Copies
  <2>5. Revision(slot, selection.copy) + 1 \in 1 .. MaxRevision
    BY <1>1, <1>2, <1>3, <2>2
  <2>6. Ready(files[slot], Target(selection), Revision(slot, selection.copy) + 1)
    BY <2>1, <2>3, <2>4 DEF Ready, Revision
  <2> QED BY <1>3, <2>4, <2>5, <2>6 DEF selection
<1>4. CASE selection.status # "Ok"
  <2>1. \A copy \in Copies : ~IsValid(files[slot][copy])
    BY <1>1, <1>4, NewestIsSelected
  <2>2. Target(selection) = "A"
    BY <1>4 DEF Target
  <2>3. Ready(files[slot], "A", 1)
    BY <2>1 DEF Ready, Other, Copies
  <2> QED BY <1>2, <1>4, <2>2, <2>3 DEF Copies
<1> QED BY <1>3, <1>4

-----------------------------------------------------------------------------
(***************************************************************************)
(* The invariant of the store                                              *)
(***************************************************************************)
FilesInv ==
  /\ files = [slot \in Slots |-> [copy \in Copies |-> files[slot][copy]]]
  /\ \A slot \in Slots : TypedPair(files[slot]) /\ Apart(files[slot])

CallInv ==
  /\ call \in Calls \cup {None}
  /\ call # None /\ call.phase = "write" =>
       Ready(files[call.slot], call.target, call.revision)

StoreInv == FilesInv /\ CallInv

Writing == call \in Calls /\ call.phase = "write"

Values == [slot \in Slots |-> Stored(slot)]
Previous == [slot \in Slots |-> StoredBefore(slot)]

LEMMA StoredPairs ==
  /\ Values = [slot \in Slots |-> StoredIn(files[slot])]
  /\ Previous = [slot \in Slots |-> BeforeIn(files[slot])]
BY DEF Values, Previous, Stored, StoredBefore, StoredIn, BeforeIn, Holds, Newer, NewerIn, Content,
       Revision, Copies

LEMMA CallTypes ==
  ASSUME NEW c \in Calls
  PROVE  /\ c.slot \in Slots /\ c.target \in Copies /\ c.program \in Programs
         /\ c.revision \in 1 .. MaxRevision /\ c.phase \in {"write", "verify"} /\ c # None
BY StoreAssumption DEF Calls

(* Writing one copy leaves every other file alone.                         *)
LEMMA PutEffect ==
  ASSUME FilesInv, call \in Calls, NEW image, Put(image)
  PROVE  /\ files' = [slot \in Slots |-> [copy \in Copies |-> files'[slot][copy]]]
         /\ \A slot \in Slots \ {call.slot} : files'[slot] = files[slot]
         /\ files'[call.slot][call.target] = image
         /\ files'[call.slot][Other(call.target)] = files[call.slot][Other(call.target)]
<1>1. call.slot \in Slots /\ call.target \in Copies
  BY CallTypes
<1>2. Other(call.target) \in Copies /\ Other(call.target) # call.target
  BY <1>1 DEF Other, Copies
<1>3. files' = [files EXCEPT ![call.slot] = [files[call.slot] EXCEPT ![call.target] = image]]
  BY DEF Put
<1> QED BY <1>1, <1>2, <1>3 DEF FilesInv

(* The values of the slots after a write, torn or whole.                   *)
LEMMA PutTorn ==
  ASSUME StoreInv, Writing, Put(Torn)
  PROVE  FilesInv' /\ Values' = Values /\ Previous' = [Previous EXCEPT ![call.slot] = None]
<1>1. /\ call.slot \in Slots /\ call.target \in Copies
      /\ FilesInv /\ call \in Calls /\ Ready(files[call.slot], call.target, call.revision)
  BY CallTypes DEF StoreInv, CallInv, Writing
<1>2. /\ files' = [slot \in Slots |-> [copy \in Copies |-> files'[slot][copy]]]
      /\ \A slot \in Slots \ {call.slot} : files'[slot] = files[slot]
      /\ files'[call.slot][call.target] = Torn
      /\ files'[call.slot][Other(call.target)] = files[call.slot][Other(call.target)]
  BY <1>1, PutEffect
<1>3. /\ TypedPair(files'[call.slot]) /\ Apart(files'[call.slot])
      /\ StoredIn(files'[call.slot]) = StoredIn(files[call.slot])
      /\ BeforeIn(files'[call.slot]) = None
  BY <1>1, <1>2, TornEffect DEF FilesInv
<1>4. FilesInv'
  BY <1>2, <1>3, <1>1 DEF FilesInv
<1>5. Values' = [slot \in Slots |-> StoredIn(files'[slot])]
  BY DEF Values, Stored, StoredIn, Holds, Newer, NewerIn, Content, Revision
<1>6. Previous' = [slot \in Slots |-> BeforeIn(files'[slot])]
  BY DEF Previous, StoredBefore, BeforeIn, Holds, Newer, NewerIn, Content, Revision
<1>7. Values' = Values
  BY <1>2, <1>3, <1>5, StoredPairs
<1>8. Previous' = [Previous EXCEPT ![call.slot] = None]
  BY <1>1, <1>2, <1>3, <1>6, StoredPairs
<1> QED BY <1>4, <1>7, <1>8

LEMMA PutWritten ==
  ASSUME StoreInv, Writing, Put(Written)
  PROVE  /\ FilesInv'
         /\ Values' = [Values EXCEPT ![call.slot] = call.program]
         /\ Previous' = [Previous EXCEPT ![call.slot] = Values[call.slot]]
<1>1. /\ call.slot \in Slots /\ call.target \in Copies
      /\ call.program \in Programs /\ call.revision \in 1 .. MaxRevision
      /\ FilesInv /\ call \in Calls /\ Ready(files[call.slot], call.target, call.revision)
  BY CallTypes DEF StoreInv, CallInv, Writing
<1>2. /\ files' = [slot \in Slots |-> [copy \in Copies |-> files'[slot][copy]]]
      /\ \A slot \in Slots \ {call.slot} : files'[slot] = files[slot]
      /\ files'[call.slot][call.target] = Encode(call.program, call.revision)
      /\ files'[call.slot][Other(call.target)] = files[call.slot][Other(call.target)]
  BY <1>1, PutEffect DEF Written
<1>3. /\ TypedPair(files'[call.slot]) /\ Apart(files'[call.slot])
      /\ StoredIn(files'[call.slot]) = call.program
      /\ BeforeIn(files'[call.slot]) = StoredIn(files[call.slot])
  <2> DEFINE pair == files[call.slot]
             new == files'[call.slot]
  <2>1. TypedPair(pair)
    BY <1>1 DEF FilesInv
  <2>2. /\ Ready(pair, call.target, call.revision)
        /\ new[call.target] = Encode(call.program, call.revision)
        /\ new[Other(call.target)] = pair[Other(call.target)]
    BY <1>1, <1>2
  <2> HIDE DEF pair, new
  <2>3. /\ TypedPair(new) /\ Apart(new) /\ StoredIn(new) = call.program
        /\ BeforeIn(new) = StoredIn(pair)
    BY <1>1, <2>1, <2>2, WrittenEffect, Zenon
  <2> QED BY <2>3 DEF pair, new
<1>4. FilesInv'
  BY <1>2, <1>3, <1>1 DEF FilesInv
<1>5. Values' = [slot \in Slots |-> StoredIn(files'[slot])]
  BY DEF Values, Stored, StoredIn, Holds, Newer, NewerIn, Content, Revision
<1>6. Previous' = [slot \in Slots |-> BeforeIn(files'[slot])]
  BY DEF Previous, StoredBefore, BeforeIn, Holds, Newer, NewerIn, Content, Revision
<1>7. Values' = [Values EXCEPT ![call.slot] = call.program]
  BY <1>1, <1>2, <1>3, <1>5, StoredPairs
<1>8. Previous' = [Previous EXCEPT ![call.slot] = Values[call.slot]]
  BY <1>1, <1>2, <1>3, <1>6, StoredPairs
<1> QED BY <1>4, <1>7, <1>8

-----------------------------------------------------------------------------
(***************************************************************************)
(* Every step of the store keeps the invariant, and is a step of           *)
(* DurableSlots or none at all                                             *)
(***************************************************************************)
Effective == call.phase = "verify" /\ Verified

SavingOf(theCall, done) ==
  IF theCall = None THEN None
  ELSE [slot |-> theCall.slot, program |-> theCall.program, done |-> done]

Saving == SavingOf(call, Effective)

LEMMA EffectiveIsBoolean == Effective \in BOOLEAN /\ Effective' \in BOOLEAN
BY Zenon DEF Effective

LEMMA SavingFields ==
  ASSUME NEW c \in Calls, NEW d \in BOOLEAN
  PROVE  /\ SavingOf(c, d) = [slot |-> c.slot, program |-> c.program, done |-> d]
         /\ SavingOf(c, d) \in [slot : Slots, program : Programs, done : BOOLEAN]
         /\ SavingOf(c, d) # None
<1>1. SavingOf(c, d) = [slot |-> c.slot, program |-> c.program, done |-> d]
  BY CallTypes DEF SavingOf
<1>2. [slot |-> c.slot, program |-> c.program, done |-> d]
        \in [slot : Slots, program : Programs, done : BOOLEAN]
  BY CallTypes
<1> QED BY <1>1, <1>2, StoreAssumption

(* What the steps of DurableSlots are in the terms of this module.         *)
LEMMA AbstractStutter ==
  ASSUME UNCHANGED <<Values, Previous, Saving, reply>>
  PROVE  UNCHANGED Durable!slots
BY Zenon DEF Durable!slots, Values, Previous, Saving, SavingOf, Effective

LEMMA AbstractStart ==
  ASSUME Saving = None, Saving' \in [slot : Slots, program : Programs, done : {FALSE}],
         UNCHANGED <<Values, Previous, reply>>
  PROVE  Durable!StartSave
BY Zenon DEF Durable!StartSave, Values, Previous, Saving, SavingOf, Effective

LEMMA AbstractOverwrite ==
  ASSUME Saving # None, ~Saving.done, UNCHANGED <<Values, Saving, reply>>,
         Previous' = [Previous EXCEPT ![Saving.slot] = None]
  PROVE  Durable!Write
BY Zenon DEF Durable!Write, Durable!Overwrite, Values, Previous, Saving, SavingOf, Effective

LEMMA AbstractEffect ==
  ASSUME Saving # None, ~Saving.done, UNCHANGED reply,
         Saving' = [slot |-> Saving.slot, program |-> Saving.program, done |-> TRUE],
         Values' = [Values EXCEPT ![Saving.slot] = Saving.program],
         Previous' = [Previous EXCEPT ![Saving.slot] = Values[Saving.slot]]
  PROVE  Durable!Write
BY Zenon DEF Durable!Write, Durable!TakeEffect, Values, Previous, Saving, SavingOf, Effective

LEMMA AbstractEnd ==
  ASSUME Saving # None, Saving' = None, reply'.status = "Ok" => Saving.done,
         \/ UNCHANGED <<Values, Previous>>
         \/ /\ ~Saving.done
            /\ Previous' = [Previous EXCEPT ![Saving.slot] = None]
            /\ UNCHANGED Values
  PROVE  Durable!EndSave
BY Zenon DEF Durable!EndSave, Durable!Overwrite, Values, Previous, Saving, SavingOf, Effective

LEMMA AbstractLoss ==
  ASSUME Saving' = None,
         \/ UNCHANGED <<Values, Previous>>
         \/ /\ Saving # None /\ ~Saving.done
            /\ Previous' = [Previous EXCEPT ![Saving.slot] = None]
            /\ UNCHANGED Values
         \/ /\ Saving # None /\ ~Saving.done
            /\ Values' = [Values EXCEPT ![Saving.slot] = Saving.program]
            /\ Previous' = [Previous EXCEPT ![Saving.slot] = Values[Saving.slot]]
  PROVE  Durable!PowerLoss
BY Zenon DEF Durable!PowerLoss, Durable!Overwrite, Durable!TakeEffect, Values, Previous, Saving,
             SavingOf, Effective

LEMMA AbstractLoad ==
  ASSUME NEW slot \in Slots, Saving = None, UNCHANGED <<Values, Previous, Saving>>,
         reply'.status = "Ok" => reply'.program \in {Values[slot], Previous[slot]} \ {None}
  PROVE  Durable!Load(slot)
BY Zenon DEF Durable!Load, Values, Previous, Saving, SavingOf, Effective

LEMMA AbstractRefuse ==
  ASSUME Saving = None, UNCHANGED <<Values, Previous, Saving>>, reply'.status # "Ok"
  PROVE  Durable!Refuse
BY Zenon DEF Durable!Refuse, Values, Previous, Saving, SavingOf, Effective

LEMMA UnchangedFiles ==
  ASSUME UNCHANGED files, StoreInv
  PROVE  FilesInv' /\ UNCHANGED <<Values, Previous>>
<1>1. FilesInv'
  BY DEF StoreInv, FilesInv
<1>2. UNCHANGED <<Values, Previous>>
  BY Zenon DEF Values, Previous, Stored, StoredBefore, Holds, Newer, Content, Revision
<1> QED BY <1>1, <1>2

(* A step that leaves files, call and reply alone.                         *)
LEMMA QuietStep ==
  ASSUME StoreInv, UNCHANGED <<files, call, reply>>
  PROVE  StoreInv' /\ UNCHANGED Durable!slots
<1>1. FilesInv' /\ UNCHANGED <<Values, Previous>>
  BY UnchangedFiles
<1>2. CallInv'
  BY DEF StoreInv, CallInv
<1>3. Saving' = Saving
  BY Zenon DEF Saving, SavingOf, Effective, Verified, Written
<1> QED BY <1>1, <1>2, <1>3, AbstractStutter DEF StoreInv

(* A step outside a save that changes the answer.                          *)
LEMMA IdleStep ==
  ASSUME StoreInv, call = None, UNCHANGED <<files, call>>
  PROVE  /\ StoreInv' /\ UNCHANGED <<Values, Previous, Saving>>
         /\ Saving = None
<1>1. FilesInv' /\ UNCHANGED <<Values, Previous>>
  BY UnchangedFiles
<1>2. CallInv'
  BY DEF StoreInv, CallInv
<1>3. Saving = None /\ Saving' = None
  BY DEF Saving, SavingOf
<1> QED BY <1>1, <1>2, <1>3 DEF StoreInv

LEMMA LoadStep ==
  ASSUME StoreInv, NEW slot \in Slots, CallLoad(slot)
  PROVE  StoreInv' /\ Durable!Load(slot)
<1>1. /\ call = None /\ UNCHANGED <<files, call>>
      /\ \E failed \in SUBSET Copies : Load(slot, failed)
  BY Zenon DEF CallLoad
<1>2. PICK failed \in SUBSET Copies : Load(slot, failed)
  BY <1>1
<1>3. /\ StoreInv' /\ UNCHANGED <<Values, Previous, Saving>>
      /\ Saving = None
  BY <1>1, IdleStep
<1>4. ASSUME reply'.status = "Ok"
      PROVE  reply'.program \in {Values[slot], Previous[slot]} \ {None}
  <2> DEFINE copy == Selection(slot, failed).copy
  <2>1. Selection(slot, failed).status = "Ok" /\ reply'.program = Decoded(files[slot][copy])
    BY <1>2, <1>4 DEF Load, Answer, Content
  <2>2. copy \in Copies /\ IsValid(files[slot][copy])
    BY <2>1, SelectedIsValid
  <2> HIDE DEF copy
  <2>3. Decoded(files[slot][copy]) \in {StoredIn(files[slot]), BeforeIn(files[slot])} \ {None}
    BY <2>2, ValidIsStored DEF StoreInv, FilesInv
  <2>4. Values[slot] = StoredIn(files[slot]) /\ Previous[slot] = BeforeIn(files[slot])
    BY StoredPairs
  <2> QED BY <2>1, <2>3, <2>4
<1> QED BY <1>3, <1>4, AbstractLoad

LEMMA SaveBegins ==
  ASSUME StoreInv, NEW slot \in Slots, NEW prog \in Programs, CallSave(slot, prog)
  PROVE  StoreInv' /\ (Durable!StartSave \/ Durable!Refuse)
<1>1. /\ call = None /\ UNCHANGED files
      /\ \E failed \in SUBSET Copies : Save(slot, prog, failed)
  BY Zenon DEF CallSave
<1>2. PICK failed \in SUBSET Copies : Save(slot, prog, failed)
  BY <1>1
<1>3. CASE SaveStatus(slot, failed) # "Ok"
  <2>1. UNCHANGED call /\ reply'.status # "Ok"
    BY <1>1, <1>2, <1>3 DEF Save, Answer
  <2> QED BY <1>1, <2>1, IdleStep, AbstractRefuse
<1>4. CASE SaveStatus(slot, failed) = "Ok"
  <2> DEFINE selection == Selection(slot, failed)
             revision == IF selection.status = "Ok" THEN Revision(slot, selection.copy) + 1 ELSE 1
             target == Target(selection)
  <2>1. /\ call' = [phase |-> "write", slot |-> slot, program |-> prog, target |-> target,
                    revision |-> revision]
        /\ reply' = reply
    BY <1>2, <1>4 DEF Save
  <2>2. target \in Copies /\ revision \in 1 .. MaxRevision /\ Ready(files[slot], target, revision)
    BY <1>4, TargetIsReady DEF StoreInv, FilesInv
  <2> HIDE DEF target, revision
  <2>3. /\ call' \in Calls
        /\ call'.phase = "write" /\ call'.slot = slot /\ call'.target = target
        /\ call'.revision = revision
    BY <2>1, <2>2 DEF Calls
  <2>4. FilesInv' /\ UNCHANGED <<Values, Previous>>
    BY <1>1, UnchangedFiles
  <2>5. CallInv'
    BY <1>1, <2>2, <2>3 DEF CallInv
  <2>6. Effective' = FALSE
    BY <2>3 DEF Effective
  <2>7. Saving' = SavingOf(call', FALSE)
    BY <2>6, Zenon DEF Saving
  <2>8. Saving' \in [slot : Slots, program : Programs, done : {FALSE}]
    <3>1. /\ call'.slot \in Slots /\ call'.program \in Programs
          /\ Saving' = [slot |-> call'.slot, program |-> call'.program, done |-> FALSE]
      BY <2>3, <2>7, CallTypes DEF SavingOf
    <3> QED BY <3>1
  <2>9. Saving = None
    BY <1>1 DEF Saving, SavingOf
  <2> QED BY <2>1, <2>4, <2>5, <2>8, <2>9, AbstractStart DEF StoreInv
<1> QED BY <1>3, <1>4

(* The save under way, as long as nothing has been written.                *)
LEMMA WritingFacts ==
  ASSUME StoreInv, call # None, call.phase = "write"
  PROVE  /\ Writing
         /\ Saving # None /\ ~Saving.done
         /\ Saving = [slot |-> call.slot, program |-> call.program, done |-> FALSE]
<1>1. Writing
  BY DEF StoreInv, CallInv, Writing
<1>2. Effective = FALSE
  BY DEF Effective
<1>3. Saving = SavingOf(call, FALSE)
  BY <1>2, Zenon DEF Saving
<1>4. FALSE \in BOOLEAN
  BY Zenon
<1>5. /\ Saving # None
      /\ Saving = [slot |-> call.slot, program |-> call.program, done |-> FALSE]
  BY <1>1, <1>3, <1>4, SavingFields, Zenon DEF Writing
<1> QED BY <1>1, <1>5

LEMMA WriteStep ==
  ASSUME StoreInv, WriteReturns
  PROVE  StoreInv' /\ Durable!Write
<1>1. /\ call # None /\ call.phase = "write" /\ call' = [call EXCEPT !.phase = "verify"]
      /\ reply' = reply
      /\ Put(Written) \/ Put(Torn)
  BY Zenon DEF WriteReturns
<1>2. /\ Writing /\ Saving # None /\ ~Saving.done
      /\ Saving = [slot |-> call.slot, program |-> call.program, done |-> FALSE]
  BY <1>1, WritingFacts
<1>3. /\ call' \in Calls /\ call'.phase = "verify" /\ call'.slot = call.slot
      /\ call'.target = call.target /\ call'.program = call.program
      /\ call'.revision = call.revision
  BY <1>1, <1>2 DEF Writing, Calls
<1>4. CallInv'
  BY <1>3 DEF CallInv
<1>5. /\ call.slot \in Slots /\ call.target \in Copies /\ call.program \in Programs
      /\ call.revision \in 1 .. MaxRevision
  BY <1>2, CallTypes DEF Writing
<1>6. Effective' <=> files'[call.slot][call.target] = Encode(call.program, call.revision)
  BY <1>3 DEF Effective, Verified, Written
<1>7. CASE Put(Written)
  <2>1. /\ FilesInv'
        /\ Values' = [Values EXCEPT ![call.slot] = call.program]
        /\ Previous' = [Previous EXCEPT ![call.slot] = Values[call.slot]]
    BY <1>2, <1>7, PutWritten
  <2>2. files'[call.slot][call.target] = Encode(call.program, call.revision)
    BY <1>2, <1>7, PutEffect DEF StoreInv, Written, Writing
  <2>3. Effective'
    BY <1>6, <2>2
  <2>4. Saving' = [slot |-> call.slot, program |-> call.program, done |-> TRUE]
    <3>1. Effective' = TRUE
      BY <2>3, EffectiveIsBoolean, Zenon
    <3>2. Saving' = SavingOf(call', TRUE)
      BY <3>1, Zenon DEF Saving
    <3> QED BY <1>3, <3>2, CallTypes DEF SavingOf
  <2>5. Saving.slot = call.slot /\ Saving.program = call.program
    BY <1>2
  <2> QED BY <1>1, <1>2, <1>4, <2>1, <2>4, <2>5, AbstractEffect, Zenon DEF StoreInv
<1>8. CASE Put(Torn)
  <2>1. FilesInv' /\ Values' = Values /\ Previous' = [Previous EXCEPT ![call.slot] = None]
    BY <1>2, <1>8, PutTorn
  <2>2. files'[call.slot][call.target] = Torn
    BY <1>2, <1>8, PutEffect DEF StoreInv, Writing
  <2>3. ~Effective'
    BY <1>5, <1>6, <2>2, Images
  <2>4. Saving' = Saving
    <3>1. Effective' = FALSE
      BY <2>3, EffectiveIsBoolean, Zenon
    <3>2. Saving' = SavingOf(call', FALSE)
      BY <3>1, Zenon DEF Saving
    <3> QED BY <1>2, <1>3, <3>2, CallTypes DEF SavingOf
  <2>5. Saving.slot = call.slot
    BY <1>2
  <2> QED BY <1>1, <1>2, <1>4, <2>1, <2>4, <2>5, AbstractOverwrite, Zenon DEF StoreInv
<1> QED BY <1>1, <1>7, <1>8

(* A save, or the power, ends: nothing is under way.                       *)
LEMMA NothingUnderWay ==
  ASSUME call' = None
  PROVE  CallInv' /\ Saving' = None
<1>1. CallInv'
  BY DEF CallInv
<1>2. Saving' = None
  BY DEF Saving, SavingOf
<1> QED BY <1>1, <1>2

LEMMA FailedWrite ==
  ASSUME StoreInv, WriteFails
  PROVE  StoreInv' /\ Durable!EndSave
<1>1. /\ call # None /\ call.phase = "write" /\ call' = None
      /\ UNCHANGED files \/ Put(Torn)
  BY Zenon DEF WriteFails
<1>2. reply'.status # "Ok"
  BY DEF WriteFails, Answer
<1>3. /\ Writing /\ Saving # None /\ ~Saving.done /\ Saving.slot = call.slot
  BY <1>1, WritingFacts
<1>4. CallInv' /\ Saving' = None
  BY <1>1, NothingUnderWay
<1>5. CASE UNCHANGED files
  BY <1>2, <1>3, <1>4, <1>5, UnchangedFiles, AbstractEnd DEF StoreInv
<1>6. CASE Put(Torn)
  <2>1. FilesInv' /\ Values' = Values /\ Previous' = [Previous EXCEPT ![Saving.slot] = None]
    BY <1>3, <1>6, PutTorn
  <2> QED BY <1>2, <1>3, <1>4, <2>1, AbstractEnd DEF StoreInv
<1> QED BY <1>1, <1>5, <1>6

LEMMA VerifyStep ==
  ASSUME StoreInv, Verify
  PROVE  StoreInv' /\ Durable!EndSave
<1>1. call # None /\ call.phase = "verify" /\ call' = None /\ UNCHANGED files
  BY Zenon DEF Verify
<1>2. reply'.status = "Ok" => Verified
  BY DEF Verify, Answer
<1>3. call \in Calls
  BY <1>1 DEF StoreInv, CallInv
<1>4. Saving # None /\ (Verified => Saving.done)
  <2>1. Saving # None
    BY <1>3, EffectiveIsBoolean, SavingFields, Zenon DEF Saving
  <2>2. ASSUME Verified PROVE Saving.done
    <3>1. Effective = TRUE
      BY <1>1, <2>2, Zenon DEF Effective
    <3>2. Saving = SavingOf(call, TRUE)
      BY <3>1, Zenon DEF Saving
    <3>3. Saving = [slot |-> call.slot, program |-> call.program, done |-> TRUE]
      BY <1>1, <3>2 DEF SavingOf
    <3> QED BY <3>3
  <2> QED BY <2>1, <2>2
<1>5. CallInv' /\ Saving' = None
  BY <1>1, NothingUnderWay
<1> QED BY <1>1, <1>2, <1>4, <1>5, UnchangedFiles, AbstractEnd DEF StoreInv

LEMMA CutStep ==
  ASSUME StoreInv, PowerCut
  PROVE  StoreInv' /\ Durable!PowerLoss
<1>1. /\ call' = None
      /\ \/ UNCHANGED files
         \/ /\ call # None /\ call.phase = "write"
            /\ Put(Torn) \/ Put(Written)
  BY Zenon DEF PowerCut
<1>2. CallInv' /\ Saving' = None
  BY <1>1, NothingUnderWay
<1>3. CASE UNCHANGED files
  BY <1>2, <1>3, UnchangedFiles, AbstractLoss DEF StoreInv
<1>4. CASE call # None /\ call.phase = "write" /\ Put(Torn)
  <2>1. Writing /\ Saving # None /\ ~Saving.done /\ Saving.slot = call.slot
    BY <1>4, WritingFacts
  <2>2. FilesInv' /\ Values' = Values /\ Previous' = [Previous EXCEPT ![Saving.slot] = None]
    BY <1>4, <2>1, PutTorn
  <2> QED BY <1>2, <2>1, <2>2, AbstractLoss DEF StoreInv
<1>5. CASE call # None /\ call.phase = "write" /\ Put(Written)
  <2>1. /\ Writing /\ Saving # None /\ ~Saving.done /\ Saving.slot = call.slot
        /\ Saving.program = call.program
    BY <1>5, WritingFacts
  <2>2. /\ FilesInv'
        /\ Values' = [Values EXCEPT ![Saving.slot] = Saving.program]
        /\ Previous' = [Previous EXCEPT ![Saving.slot] = Values[Saving.slot]]
    BY <1>5, <2>1, PutWritten
  <2> QED BY <1>2, <2>1, <2>2, AbstractLoss DEF StoreInv
<1> QED BY <1>1, <1>3, <1>4, <1>5

-----------------------------------------------------------------------------
(***************************************************************************)
(* The store as a whole, whoever calls it                                  *)
(***************************************************************************)

(* The invariant holds of whatever the firmware before this one left.      *)
LEMMA InitStore == Init => StoreInv /\ Durable!SlotsInit
<1> SUFFICES ASSUME Init PROVE StoreInv /\ Durable!SlotsInit
  OBVIOUS
<1>1. files \in InitialFiles /\ call = None
  BY DEF Init
<1>2. FilesInv
  BY <1>1, StoreAssumption DEF FilesInv, TypedPair
<1>3. CallInv
  BY <1>1 DEF CallInv
<1>4. \A slot \in Slots : Stored(slot) \in Programs \cup {None}
  <2>1. \A copy \in Copies, slot \in Slots : Holds(slot, copy) => Content(slot, copy) \in Programs
    BY DecodedIsProgram DEF Holds, IsValid, Content
  <2> QED BY <2>1 DEF Stored, Newer, Copies
<1>5. \A slot \in Slots : StoredBefore(slot) \in Programs \cup {None}
  <2>1. \A copy \in Copies, slot \in Slots : Holds(slot, copy) => Content(slot, copy) \in Programs
    BY DecodedIsProgram DEF Holds, IsValid, Content
  <2> QED BY <2>1 DEF StoredBefore, Copies
<1>6. Durable!SlotsInit
  BY <1>1, <1>4, <1>5 DEF Durable!SlotsInit, Durable!Contents
<1> QED BY <1>2, <1>3, <1>6 DEF StoreInv

(* One step: a call on the store, a step of a save, a power cut, or the    *)
(* caller that takes the answer.                                           *)
LEMMA StoreStep ==
  ASSUME StoreInv, [Next \/ (call = None /\ Answered)]_storeVars
  PROVE  StoreInv' /\ [Durable!SlotsNext]_(Durable!slots)
<1>1. CASE UNCHANGED storeVars
  BY <1>1, QuietStep DEF storeVars
<1>2. CASE CallMount
  BY <1>2, QuietStep DEF CallMount, Mount
<1>3. ASSUME NEW slot \in Slots, CallLoad(slot)
      PROVE  StoreInv' /\ Durable!SlotsNext
  BY <1>3, LoadStep DEF Durable!SlotsNext
<1>4. ASSUME NEW slot \in Slots, NEW prog \in Programs, CallSave(slot, prog)
      PROVE  StoreInv' /\ Durable!SlotsNext
  BY <1>4, SaveBegins DEF Durable!SlotsNext
<1>5. CASE WriteReturns
  BY <1>5, WriteStep DEF Durable!SlotsNext
<1>6. CASE WriteFails
  BY <1>6, FailedWrite DEF Durable!SlotsNext
<1>7. CASE Verify
  BY <1>7, VerifyStep DEF Durable!SlotsNext
<1>8. CASE PowerCut
  BY <1>8, CutStep DEF Durable!SlotsNext
<1>9. CASE Answered /\ call = None
  BY <1>9, IdleStep, AbstractRefuse DEF Answered, Answer, Durable!SlotsNext
<1> QED BY <1>1, <1>2, <1>3, <1>4, <1>5, <1>6, <1>7, <1>8, <1>9 DEF Next, SaveStep

(* Two valid copies of a slot stay one revision apart: the newer program   *)
(* is always known (selectCopy, program_slot_store.cpp:50-78).             *)
THEOREM RevisionsCorrect == Spec => []RevisionsStayApart
<1>1. Init => StoreInv
  BY InitStore
<1>2. StoreInv /\ [Next]_storeVars => StoreInv'
  BY StoreStep
<1>3. StoreInv => RevisionsStayApart
  BY DEF StoreInv, FilesInv, RevisionsStayApart
<1> QED BY <1>1, <1>2, <1>3, PTL DEF Spec

(* A save takes effect at one moment or not at all, and what answered Ok   *)
(* lasts, whatever fails and whenever the power goes.                      *)
THEOREM StoreIsDurable == Spec => ImplementsDurableSlots
<1>1. Init => StoreInv /\ Durable!SlotsInit
  BY InitStore
<1>2. StoreInv /\ [Next]_storeVars => StoreInv' /\ [Durable!SlotsNext]_(Durable!slots)
  BY StoreStep
<1> QED BY <1>1, <1>2, PTL DEF Spec, ImplementsDurableSlots, Durable!SlotsSpec

-----------------------------------------------------------------------------
(***************************************************************************)
(* The controller: the invariant                                           *)
(***************************************************************************)

(* The bank is a table, and every program in RAM is one.                   *)
BankInv == bank = [slot \in Users |-> bank[slot]]

(* A save under way belongs to a task, to its slot and to what is played.  *)
TaskInv ==
  /\ task # None =>
       /\ power = "on"
       /\ task.stage = "slot" => task.kind \in {"save", "load"}
       /\ task.kind \in {"save", "load"} => task.slot \in Users
       /\ task.stage = "slot" /\ task.kind = "load" =>
            reply.status = "Ok" /\ reply.program \in Programs
  /\ call # None =>
       /\ task # None
       /\ call.program = program
       /\ task.stage = "slot" => task.kind = "save" /\ call.slot = task.slot
       /\ task.stage = "current" => call.slot = CurrentSlot

SavingCurrent == task # None /\ task.stage = "current"

DoneIsStored == Saving # None /\ Saving.done => Values[Saving.slot] = Saving.program

Known == power = "on" /\ mounted /\ ~doubted /\ ~SavingCurrent

(* What is remembered is stored, up to the save that replaces it; when     *)
(* that is done the program played is.                                     *)
MemoryInv ==
  /\ Known => Values[CurrentSlot] = remembered
  /\ SavingCurrent /\ call = None /\ reply.status = "Ok" => Values[CurrentSlot] = program
  /\ DoneIsStored
  /\ power # "on" => ~running

StorageInv == StoreInv /\ TypeOK /\ BankInv /\ TaskInv /\ MemoryInv

-----------------------------------------------------------------------------
(***************************************************************************)
(* Every step is one of the store, too                                     *)
(***************************************************************************)
StoreAction == Next \/ (call = None /\ Answered)

UserStep ==
  \/ Edit \/ ToggleTransport \/ SerialRun \/ CloseDialog
  \/ \E kind \in {"storage", "other"} : OpenDialog(kind)

LEMMA Constants ==
  /\ CurrentSlot \in Slots /\ Default \in Programs /\ Edits \subseteq Programs
  /\ None \notin Users /\ None \notin Tasks /\ None \notin Programs /\ CurrentSlot \notin Users
BY StoreAssumption, StorageAssumption, CodecAssumption DEF Users

LEMMA SaveAsIsSave ==
  ASSUME NEW kind, NEW stage, NEW slot, NEW target \in Slots, NEW content \in Programs,
         call = None, SaveAs(kind, stage, slot, target, content)
  PROVE  Next
<1>1. CallSave(target, content)
  BY Zenon DEF SaveAs, CallSave
<1> QED BY <1>1 DEF Next

LEMMA StepOfStore ==
  ASSUME StorageInv, [StorageNext]_vars
  PROVE  [StoreAction]_storeVars
<1>1. CASE UNCHANGED vars
  BY <1>1, Zenon DEF vars
<1>2. CASE PowerOn
  BY <1>2 DEF PowerOn, StoreAction, Next
<1>3. CASE Restore
  <2>1. CallLoad(CurrentSlot)
    BY <1>3, Zenon DEF Restore, CallLoad
  <2> QED BY <2>1, Constants DEF StoreAction, Next
<1>4. CASE PowerOff
  BY <1>4 DEF PowerOff, StoreAction, Next
<1>5. CASE UserStep
  BY <1>5, Zenon DEF UserStep, Edit, ToggleTransport, SerialRun, CloseDialog, OpenDialog
<1>6. ASSUME NEW slot \in Users, RequestSave(slot)
      PROVE  StoreAction
  <2>1. call = None /\ SaveAs("save", "slot", slot, slot, program)
    BY <1>6, Zenon DEF RequestSave, Idle
  <2>2. slot \in Slots /\ program \in Programs
    BY DEF Users, StorageInv, TypeOK, RamTypes
  <2> QED BY <2>1, <2>2, SaveAsIsSave DEF StoreAction
<1>7. ASSUME NEW slot \in Users, RequestLoad(slot)
      PROVE  StoreAction
  <2>1. CallLoad(slot)
    BY <1>7, Zenon DEF RequestLoad, Idle, CallLoad
  <2> QED BY <2>1 DEF StoreAction, Next, Users
<1>8. CASE RequestReset
  <2>1. call = None /\ SaveAs("reset", "current", None, CurrentSlot, Default)
    BY <1>8, Zenon DEF RequestReset, Idle, SaveCurrent
  <2> QED BY <2>1, Constants, SaveAsIsSave DEF StoreAction
<1>9. CASE Sync
  <2>1. call = None /\ SaveAs("sync", "current", None, CurrentSlot, program)
    BY <1>9, Zenon DEF Sync, Idle, SaveCurrent
  <2>2. program \in Programs
    BY DEF StorageInv, TypeOK, RamTypes
  <2> QED BY <2>1, <2>2, Constants, SaveAsIsSave DEF StoreAction
<1>10. CASE FlashStep
  BY <1>10 DEF FlashStep, StoreAction, Next
<1>11. CASE SlotDone
  <2>1. call = None /\ task # None /\ task.stage = "slot"
    BY <1>11 DEF SlotDone, AtStage
  <2>2. CASE reply.status # "Ok"
    BY <1>11, <2>1, <2>2 DEF SlotDone, StoreAction
  <2>3. CASE reply.status = "Ok"
    <3>1. /\ program' = IF task.kind = "load" THEN Applied(reply.program) ELSE program
          /\ SaveAs(task.kind, "current", task.slot, CurrentSlot, program')
      BY <1>11, <2>3 DEF SlotDone, SaveCurrent
    <3>2. program' \in Programs
      BY <2>1, <3>1 DEF StorageInv, TypeOK, RamTypes, TaskInv, Applied
    <3> QED BY <2>1, <3>1, <3>2, Constants, SaveAsIsSave DEF StoreAction
  <2> QED BY <2>2, <2>3
<1>12. CASE CurrentDone
  BY <1>12, Zenon DEF CurrentDone, AtStage, StoreAction
<1> QED BY <1>1, <1>2, <1>3, <1>4, <1>5, <1>6, <1>7, <1>8, <1>9, <1>10, <1>11, <1>12, Zenon
        DEF StorageNext, UserStep, Continue

-----------------------------------------------------------------------------
(***************************************************************************)
(* Types                                                                   *)
(***************************************************************************)
LEMMA FaultTypes ==
  ASSUME NEW happens, faults \in 0 .. MaxFaults, Fault(happens)
  PROVE  faults' \in 0 .. MaxFaults
BY StoreAssumption DEF Fault

LEMMA StoreTypesKept ==
  ASSUME StoreInv, StoreTypes, [StoreAction]_storeVars
  PROVE  StoreTypes'
<1>1. StoreInv'
  BY StoreStep DEF StoreAction
<1>2. /\ \A slot \in Slots, copy \in Copies :
           files'[slot][copy] # Missing => files'[slot][copy].revision \in 0 .. MaxRevision
      /\ call' \in Calls \cup {None}
  BY <1>1 DEF StoreInv, FilesInv, CallInv, TypedPair
<1>3. /\ erased \in BOOLEAN /\ mounted \in BOOLEAN /\ faults \in 0 .. MaxFaults
  BY DEF StoreTypes
<1>4. erased' \in BOOLEAN /\ mounted' \in BOOLEAN
  <2>1. CASE CallMount
    BY <2>1, Zenon DEF CallMount, Mount
  <2>2. CASE PowerCut
    <3>1. mounted' = FALSE /\ erased' = erased
      BY <2>2, Zenon DEF PowerCut
    <3> QED BY <1>3, <3>1, Zenon
  <2>3. CASE UNCHANGED <<erased, mounted>>
    BY <1>3, <2>3
  <2>4. CallMount \/ PowerCut \/ UNCHANGED <<erased, mounted>>
    BY Zenon DEF StoreAction, Next, CallLoad, CallSave, SaveStep, WriteReturns, WriteFails, Verify,
                 Answered, storeVars
  <2> QED BY <2>1, <2>2, <2>3, <2>4
<1>5. faults' \in 0 .. MaxFaults
  <2>1. (\E happens \in {TRUE, FALSE} : Fault(happens)) \/ faults' = faults
    <3>1. CASE CallMount
      BY <3>1, Zenon DEF CallMount
    <3>2. ASSUME NEW slot \in Slots, CallLoad(slot)
          PROVE  \E happens \in {TRUE, FALSE} : Fault(happens)
      BY <3>2, Zenon DEF CallLoad
    <3>3. ASSUME NEW slot \in Slots, NEW content \in Programs, CallSave(slot, content)
          PROVE  \E happens \in {TRUE, FALSE} : Fault(happens)
      BY <3>3, Zenon DEF CallSave
    <3>4. CASE SaveStep \/ PowerCut
      BY <3>4, Zenon DEF SaveStep, WriteReturns, WriteFails, Verify, PowerCut
    <3>5. CASE UNCHANGED storeVars \/ Answered
      BY <3>5, Zenon DEF storeVars, Answered
    <3> QED BY <3>1, <3>2, <3>3, <3>4, <3>5, Zenon DEF StoreAction, Next
  <2> QED BY <1>3, <2>1, FaultTypes
<1> QED BY <1>2, <1>4, <1>5 DEF StoreTypes

(* What the store answers a load with, in the hands of its caller.         *)
LEMMA LoadedProgram ==
  ASSUME NEW slot \in Slots, NEW failed \in SUBSET Copies, Load(slot, failed),
         reply'.status = "Ok"
  PROVE  /\ reply'.program \in Programs
         /\ mounted
         /\ FilesInv /\ failed = {} => reply'.program = Stored(slot)
<1> DEFINE copy == Selection(slot, failed).copy
<1>1. /\ mounted /\ Selection(slot, failed).status = "Ok"
      /\ reply'.program = Decoded(files[slot][copy])
  BY DEF Load, Answer, Content
<1>2. copy \in Copies /\ IsValid(files[slot][copy])
  BY <1>1, SelectedIsValid
<1>3. reply'.program \in Programs
  BY <1>1, <1>2, DecodedIsProgram DEF IsValid
<1>4. ASSUME FilesInv, failed = {} PROVE reply'.program = Stored(slot)
  <2>1. IsValid(files[slot][Other(copy)]) =>
          files[slot][Other(copy)].revision < files[slot][copy].revision
    BY <1>1, <1>4, NewestIsSelected DEF FilesInv, Revision
  <2>2. \A c \in Copies : IsValid(files[slot][c]) => files[slot][c].revision \in Int
    BY <1>4, Images, StoreAssumption DEF FilesInv, TypedPair
  <2>3. StoredIn(files[slot]) = Stored(slot)
    BY DEF Stored, StoredIn, Holds, Newer, NewerIn, Content, Revision
  <2> HIDE DEF copy
  <2>4. StoredIn(files[slot]) = Decoded(files[slot][copy])
    BY <1>2, <2>1, <2>2 DEF StoredIn, NewerIn, Other, Copies
  <2> QED BY <1>1, <2>3, <2>4 DEF copy
<1> QED BY <1>1, <1>3, <1>4

RamInv == RamTypes /\ BankInv /\ TaskInv

(* The answer of a save or load is enough to go on.                        *)
LEMMA RamUnchanged ==
  ASSUME StorageInv, UNCHANGED <<power, ramVars, doubted, call, reply>>
  PROVE  RamInv'
<1>1. RamTypes /\ BankInv /\ TaskInv
  BY DEF StorageInv, TypeOK
<1>2. RamTypes'
  BY <1>1, Zenon DEF RamTypes, ramVars
<1>3. BankInv'
  BY <1>1, Zenon DEF BankInv, ramVars
<1>4. TaskInv'
  BY <1>1, Zenon DEF TaskInv, ramVars
<1> QED BY <1>2, <1>3, <1>4 DEF RamInv

(* Nothing under way: the task and the save are none.                      *)
LEMMA NoTask ==
  ASSUME task' = None, call' = None
  PROVE  TaskInv'
BY DEF TaskInv

(* The user's steps.                                                       *)
LEMMA UserSteps ==
  ASSUME StorageInv, UserStep
  PROVE  RamInv'
<1>1. RamTypes /\ BankInv /\ TaskInv
  BY DEF StorageInv, TypeOK
<1>2. /\ task = None /\ call = None
      /\ UNCHANGED <<power, task, call, bank, draft, remembered, doubted>>
  BY Zenon DEF UserStep, Edit, ToggleTransport, SerialRun, CloseDialog, OpenDialog, Idle, storeVars
<1>3. TaskInv'
  BY <1>2, NoTask
<1>4. BankInv'
  BY <1>1, <1>2, Zenon DEF BankInv
<1>5. program' \in Programs
  BY <1>1, Constants DEF UserStep, Edit, ToggleTransport, SerialRun, CloseDialog, OpenDialog, RamTypes
<1>6. running' \in BOOLEAN
  BY <1>1 DEF UserStep, Edit, ToggleTransport, SerialRun, CloseDialog, OpenDialog, RamTypes
<1>7. dialog' \in {"none", "storage", "other"}
  BY <1>1 DEF UserStep, Edit, ToggleTransport, SerialRun, CloseDialog, OpenDialog, RamTypes
<1>8. RamTypes'
  BY <1>1, <1>2, <1>5, <1>6, <1>7, Zenon DEF RamTypes
<1> QED BY <1>3, <1>4, <1>8 DEF RamInv

LEMMA BootSteps ==
  ASSUME StorageInv, PowerOn \/ Restore \/ PowerOff
  PROVE  RamInv'
<1>1. RamTypes /\ BankInv /\ TaskInv
  BY DEF StorageInv, TypeOK
<1>2. CASE PowerOn
  <2>1. /\ power = "off" /\ power' = "booting" /\ call = None /\ call' = None
        /\ UNCHANGED <<ramVars, doubted>>
    BY <1>2, Zenon DEF PowerOn, CallMount
  <2>2. task = None /\ UNCHANGED <<program, running, dialog, task, remembered, bank, draft>>
    BY <1>1, <2>1 DEF TaskInv, ramVars
  <2>3. TaskInv'
    BY <2>1, <2>2, NoTask
  <2>4. RamTypes'
    BY <1>1, <2>1, <2>2, Zenon DEF RamTypes
  <2>5. BankInv'
    BY <1>1, <2>2, Zenon DEF BankInv
  <2> QED BY <2>3, <2>4, <2>5 DEF RamInv
<1>3. CASE Restore
  <2>1. /\ power = "booting" /\ power' = "on" /\ call = None /\ call' = None
        /\ UNCHANGED <<running, dialog, task, bank>>
        /\ program' = Applied(IF reply'.status = "Ok" THEN reply'.program ELSE Default)
        /\ remembered' = program'
        /\ IF reply'.status = "Ok" THEN Draft(program', None) ELSE draft' = draft
        /\ \E failed \in SUBSET Copies :
             /\ Load(CurrentSlot, failed)
             /\ doubted' = (reply'.status # "Ok" \/ failed # {})
    BY <1>3, Zenon DEF Restore
  <2>2. doubted' \in BOOLEAN
    BY <2>1
  <2>3. reply'.status = "Ok" => reply'.program \in Programs
    BY <2>1, LoadedProgram, Constants
  <2>4. program' \in Programs
    BY <1>1, <2>1, <2>3, Constants DEF Applied, RamTypes
  <2>5. draft' \in [program : Programs, source : Users \cup {None}]
    BY <1>1, <2>1, <2>4 DEF Draft, RamTypes
  <2>6. task = None
    BY <1>1, <2>1 DEF TaskInv
  <2>7. TaskInv'
    BY <2>1, <2>6, NoTask
  <2>8. RamTypes'
    BY <1>1, <2>1, <2>2, <2>4, <2>5, Zenon DEF RamTypes
  <2>9. BankInv'
    BY <1>1, <2>1, Zenon DEF BankInv
  <2> QED BY <2>7, <2>8, <2>9 DEF RamInv
<1>4. CASE PowerOff
  <2>1. /\ power' = "off" /\ program' = Default /\ running' = FALSE /\ dialog' = "none"
        /\ task' = None /\ remembered' = None /\ bank' = [slot \in Users |-> None]
        /\ Draft(Default, None) /\ doubted' = doubted /\ call' = None
    BY <1>4, Zenon DEF PowerOff, PowerCut
  <2>2. draft' \in [program : Programs, source : Users \cup {None}]
    BY <2>1, Constants DEF Draft
  <2>3. running' \in BOOLEAN
    BY <2>1, Zenon
  <2>4. \A slot \in Users : bank'[slot] = None
    BY <2>1
  <2>5. RamTypes'
    BY <1>1, <2>1, <2>2, <2>3, <2>4, Constants, Zenon DEF RamTypes
  <2>6. BankInv'
    BY <2>1 DEF BankInv
  <2>7. TaskInv'
    BY <2>1, NoTask
  <2> QED BY <2>5, <2>6, <2>7 DEF RamInv
<1> QED BY <1>2, <1>3, <1>4

(* A save begun for a task: refused, or under way with the task's slot.    *)
LEMMA SaveBegun ==
  ASSUME NEW kind, NEW stage, NEW slot, NEW target, NEW content,
         SaveAs(kind, stage, slot, target, content)
  PROVE  \/ call' = None /\ task' = None
         \/ /\ call' # None /\ call'.slot = target /\ call'.program = content
            /\ call'.phase = "write"
            /\ task' = [kind |-> kind, stage |-> stage, slot |-> slot]
<1>1. PICK failed \in SUBSET Copies : Save(target, content, failed)
  BY DEF SaveAs
<1>2. task' = IF call' = None THEN None ELSE [kind |-> kind, stage |-> stage, slot |-> slot]
  BY DEF SaveAs
<1>3. CASE call' = None
  BY <1>2, <1>3
<1>4. CASE call' # None
  <2>1. /\ call' # None /\ call'.slot = target /\ call'.program = content
        /\ call'.phase = "write"
    BY <1>1, <1>4 DEF Save
  <2> QED BY <1>2, <1>4, <2>1
<1> QED BY <1>3, <1>4

(* ... which keeps the invariant of the RAM when the rest of it does.      *)
LEMMA SaveBegunInv ==
  ASSUME StorageInv,
         NEW kind \in {"save", "load", "reset", "sync"}, NEW stage \in {"slot", "current"},
         NEW slot \in Users \cup {None}, NEW target,
         SaveAs(kind, stage, slot, target, program'), program' \in Programs, power = "on",
         UNCHANGED <<power, running, dialog, remembered, bank, draft, doubted>>,
         kind \in {"save", "load"} => slot \in Users,
         stage = "slot" => kind = "save" /\ target = slot,
         stage = "current" => target = CurrentSlot
  PROVE  RamInv'
<1>1. RamTypes /\ BankInv /\ TaskInv
  BY DEF StorageInv, TypeOK
<1>2. \/ call' = None /\ task' = None
      \/ /\ call' # None /\ call'.slot = target /\ call'.program = program'
         /\ task' = [kind |-> kind, stage |-> stage, slot |-> slot]
  BY SaveBegun
<1>3. [kind |-> kind, stage |-> stage, slot |-> slot] \in Tasks
  BY DEF Tasks
<1>4. task' \in Tasks \cup {None}
  BY <1>2, <1>3
<1>5. RamTypes'
  BY <1>1, <1>4, Zenon DEF RamTypes
<1>6. BankInv'
  BY <1>1, Zenon DEF BankInv
<1>7. TaskInv'
  <2>1. CASE task' = None /\ call' = None
    BY <2>1, NoTask
  <2>2. CASE task' # None
    <3>1. task' = [kind |-> kind, stage |-> stage, slot |-> slot]
      BY <1>2, <2>2
    <3>2. task'.kind = kind /\ task'.stage = stage /\ task'.slot = slot
      BY <3>1
    <3>3. power' = "on" /\ call'.slot = target /\ call'.program = program'
      BY <1>2, <2>2
    <3> QED BY <2>2, <3>2, <3>3 DEF TaskInv
  <2> QED BY <1>2, <1>3, <2>1, <2>2, Constants
<1> QED BY <1>5, <1>6, <1>7 DEF RamInv

LEMMA RequestSteps ==
  ASSUME StorageInv,
         NEW slot \in Users, RequestSave(slot) \/ RequestLoad(slot)
  PROVE  RamInv'
<1>1. RamTypes /\ BankInv /\ TaskInv
  BY DEF StorageInv, TypeOK
<1>2. CASE RequestSave(slot)
  <2>1. /\ power = "on" /\ SaveAs("save", "slot", slot, slot, program) /\ program' = program
        /\ UNCHANGED <<power, running, dialog, remembered, bank, draft, doubted>>
    BY <1>2, Zenon DEF RequestSave, Idle
  <2>2. program' \in Programs
    BY <1>1, <2>1 DEF RamTypes
  <2>3. SaveAs("save", "slot", slot, slot, program')
    BY <2>1, Zenon
  <2> QED BY <2>1, <2>2, <2>3, SaveBegunInv
<1>3. CASE RequestLoad(slot)
  <2>1. /\ power = "on" /\ call = None /\ UNCHANGED call
        /\ \E failed \in SUBSET Copies : Load(slot, failed)
        /\ task' = IF reply'.status = "Ok" THEN [kind |-> "load", stage |-> "slot", slot |-> slot]
                   ELSE None
        /\ UNCHANGED <<power, program, running, dialog, remembered, bank, draft, doubted>>
    BY <1>3, Zenon DEF RequestLoad, Idle
  <2>2. reply'.status = "Ok" => reply'.program \in Programs
    BY <2>1, LoadedProgram DEF Users
  <2>3. task' \in Tasks \cup {None}
    BY <2>1 DEF Tasks
  <2>4. RamTypes'
    BY <1>1, <2>1, <2>3, Zenon DEF RamTypes
  <2>5. BankInv'
    BY <1>1, <2>1, Zenon DEF BankInv
  <2>6. CASE reply'.status = "Ok"
    <3>1. task'.kind = "load" /\ task'.stage = "slot" /\ task'.slot = slot
      BY <2>1, <2>6
    <3>2. power' = "on" /\ call' = None
      BY <2>1
    <3>3. reply'.status = "Ok" /\ reply'.program \in Programs
      BY <2>2, <2>6
    <3>4. task'.kind \in {"save", "load"} /\ task'.slot \in Users
      BY <3>1
    <3>5. TaskInv'
      BY <3>2, <3>3, <3>4, Zenon DEF TaskInv
    <3> QED BY <2>4, <2>5, <3>5 DEF RamInv
  <2>7. CASE reply'.status # "Ok"
    <3>1. task' = None /\ call' = None
      BY <2>1, <2>7
    <3> QED BY <2>4, <2>5, <3>1, NoTask DEF RamInv
  <2> QED BY <2>6, <2>7
<1> QED BY <1>2, <1>3

LEMMA RequestResetOrSync ==
  ASSUME StorageInv, RequestReset \/ Sync
  PROVE  RamInv'
<1>1. RamTypes /\ BankInv /\ TaskInv
  BY DEF StorageInv, TypeOK
<1>2. CASE RequestReset
  <2>1. /\ power = "on" /\ SaveAs("reset", "current", None, CurrentSlot, Default)
        /\ running = FALSE
        /\ program' = Applied(Default)
        /\ UNCHANGED <<power, running, dialog, remembered, bank, draft, doubted>>
    BY <1>1, <1>2 DEF RequestReset, Idle, SaveCurrent, RamTypes
  <2>2. program' = Default
    BY <2>1 DEF Applied
  <2>3. SaveAs("reset", "current", None, CurrentSlot, program')
    BY <2>1, <2>2, Zenon
  <2> QED BY <2>1, <2>2, <2>3, SaveBegunInv, Constants
<1>3. CASE Sync
  <2>1. /\ power = "on" /\ SaveAs("sync", "current", None, CurrentSlot, program)
        /\ program' = program
        /\ UNCHANGED <<power, running, dialog, remembered, bank, draft, doubted>>
    BY <1>3, Zenon DEF Sync, Idle, SaveCurrent
  <2>2. program' \in Programs
    BY <1>1, <2>1 DEF RamTypes
  <2>3. SaveAs("sync", "current", None, CurrentSlot, program')
    BY <2>1, Zenon
  <2> QED BY <2>1, <2>2, <2>3, SaveBegunInv
<1> QED BY <1>2, <1>3

LEMMA TaskSteps ==
  ASSUME StorageInv, SlotDone \/ CurrentDone
  PROVE  RamInv'
<1>1. RamTypes /\ BankInv /\ TaskInv
  BY DEF StorageInv, TypeOK
<1>2. CASE SlotDone
  <2>1. /\ power = "on" /\ task # None /\ call = None /\ task.stage = "slot"
        /\ UNCHANGED <<power, running, dialog, remembered, bank, draft, doubted>>
    BY <1>2, Zenon DEF SlotDone, AtStage
  <2>2. CASE reply.status # "Ok"
    <3>1. task' = None /\ call' = None /\ program' = program
      BY <1>2, <2>1, <2>2, Zenon DEF SlotDone, Answered
    <3>2. RamTypes'
      BY <1>1, <2>1, <3>1, Zenon DEF RamTypes
    <3>3. BankInv'
      BY <1>1, <2>1, Zenon DEF BankInv
    <3> QED BY <3>1, <3>2, <3>3, NoTask DEF RamInv
  <2>3. CASE reply.status = "Ok"
    <3>1. /\ program' = IF task.kind = "load" THEN Applied(reply.program) ELSE program
          /\ SaveAs(task.kind, "current", task.slot, CurrentSlot, program')
      BY <1>2, <2>3 DEF SlotDone, SaveCurrent
    <3>2. program' \in Programs
      BY <1>1, <2>1, <3>1 DEF RamTypes, TaskInv, Applied
    <3>3. task.kind \in {"save", "load"} /\ task.slot \in Users
      BY <1>1, <2>1 DEF TaskInv
    <3> QED BY <2>1, <3>1, <3>2, <3>3, SaveBegunInv
  <2> QED BY <2>2, <2>3
<1>3. CASE CurrentDone
  <2>1. /\ power = "on" /\ task # None /\ call = None /\ task.stage = "current"
        /\ task' = None /\ call' = None
        /\ UNCHANGED <<power, program, running, dialog>>
    BY <1>3, Zenon DEF CurrentDone, AtStage, Answered
  <2>2. CASE reply.status # "Ok"
    <3>1. doubted' = TRUE /\ UNCHANGED <<remembered, bank, draft>>
      BY <1>3, <2>2 DEF CurrentDone
    <3>2. doubted' \in BOOLEAN
      BY <3>1, Zenon
    <3>3. RamTypes'
      BY <1>1, <2>1, <3>1, <3>2, Zenon DEF RamTypes
    <3>4. BankInv'
      BY <1>1, <3>1, Zenon DEF BankInv
    <3> QED BY <2>1, <3>3, <3>4, NoTask DEF RamInv
  <2>3. CASE reply.status = "Ok"
    <3>1. /\ doubted' = FALSE /\ remembered' = program
          /\ IF task.kind = "save" THEN Replace(task.slot)
             ELSE /\ Draft(program, IF task.kind = "sync" THEN draft.source ELSE task.slot)
                  /\ UNCHANGED bank
      BY <1>3, <2>3 DEF CurrentDone
    <3>2. doubted' \in BOOLEAN /\ remembered' \in Programs \cup {None}
      <4>1. doubted' \in BOOLEAN
        BY <3>1, Zenon
      <4> QED BY <1>1, <3>1, <4>1 DEF RamTypes
    <3>3. task.slot \in Users \cup {None}
      BY <1>1, <2>1 DEF RamTypes, Tasks
    <3>4. draft' \in [program : Programs, source : Users \cup {None}]
      BY <1>1, <2>1, <3>1, <3>3 DEF Draft, Replace, RamTypes, TaskInv
    <3>5. /\ \A slot \in Users : bank'[slot] # None => bank'[slot].revision \in 1 .. MaxRevision
          /\ bank' = [slot \in Users |-> bank'[slot]]
      <4>1. CASE bank' = bank
        BY <1>1, <4>1 DEF RamTypes, BankInv
      <4>2. CASE bank' # bank
        <5>1. task.slot \in Users
          BY <1>1, <2>1, <3>1, <4>2 DEF TaskInv
        <5> DEFINE revision == IF bank[task.slot] = None THEN 1 ELSE bank[task.slot].revision + 1
                   entry == [program |-> program, revision |-> revision]
        <5>2. bank' = [bank EXCEPT ![task.slot] = entry]
              /\ (bank[task.slot] # None => bank[task.slot].revision # MaxRevision)
          BY <3>1, <4>2 DEF Replace
        <5>3. revision \in 1 .. MaxRevision
          <6>1. bank[task.slot] # None => bank[task.slot].revision \in 1 .. MaxRevision
            BY <1>1, <5>1 DEF RamTypes
          <6>2. bank[task.slot] # None => bank[task.slot].revision # MaxRevision
            BY <5>2
          <6>3. MaxRevision \in Nat \ {0}
            BY StoreAssumption
          <6>4. CASE bank[task.slot] = None
            BY <6>3, <6>4
          <6>5. CASE bank[task.slot] # None
            BY <6>1, <6>2, <6>3, <6>5
          <6> QED BY <6>4, <6>5
        <5>4. entry.revision = revision
          OBVIOUS
        <5> HIDE DEF entry, revision
        <5> QED BY <1>1, <5>1, <5>2, <5>3, <5>4 DEF RamTypes, BankInv
      <4> QED BY <4>1, <4>2
    <3>6. RamTypes'
      BY <1>1, <2>1, <3>2, <3>4, <3>5, Zenon DEF RamTypes
    <3>7. BankInv'
      BY <3>5 DEF BankInv
    <3> QED BY <2>1, <3>6, <3>7, NoTask DEF RamInv
  <2> QED BY <2>2, <2>3
<1> QED BY <1>2, <1>3

(* A step of a save touches nothing in RAM.                                *)
LEMMA FlashKeeps ==
  ASSUME StorageInv, FlashStep
  PROVE  RamInv'
<1>1. RamTypes /\ BankInv /\ TaskInv
  BY DEF StorageInv, TypeOK
<1>2. /\ call # None /\ SaveStep
      /\ UNCHANGED <<power, program, running, dialog, task, remembered, bank, draft, doubted>>
  BY Zenon DEF FlashStep, SaveStep, WriteReturns, WriteFails, Verify, ramVars
<1>3. RamTypes'
  BY <1>1, <1>2, Zenon DEF RamTypes
<1>4. BankInv'
  BY <1>1, <1>2, Zenon DEF BankInv
<1>5. call \in Calls
  BY <1>2 DEF StorageInv, StoreInv, CallInv
<1>6. call' = None \/ (call'.program = call.program /\ call'.slot = call.slot)
  BY <1>2, <1>5 DEF SaveStep, WriteReturns, WriteFails, Verify, Calls
<1>7. task.stage = "slot" => task.kind = "save"
  BY <1>1, <1>2 DEF TaskInv
<1>8. TaskInv'
  BY <1>1, <1>2, <1>6, <1>7 DEF TaskInv
<1> QED BY <1>3, <1>4, <1>8 DEF RamInv

LEMMA RamKept ==
  ASSUME StorageInv, [StorageNext]_vars
  PROVE  RamInv'
<1>1. CASE UNCHANGED vars
  <2>1. UNCHANGED <<power, ramVars, doubted, call, reply>>
    BY <1>1, Zenon DEF vars, storeVars
  <2> QED BY <2>1, RamUnchanged
<1>2. CASE PowerOn \/ Restore \/ PowerOff
  BY <1>2, BootSteps
<1>3. CASE UserStep
  BY <1>3, UserSteps
<1>4. ASSUME NEW slot \in Users, RequestSave(slot) \/ RequestLoad(slot)
      PROVE  RamInv'
  BY <1>4, RequestSteps
<1>5. CASE RequestReset \/ Sync
  BY <1>5, RequestResetOrSync
<1>6. CASE Continue
  BY <1>6, FlashKeeps, TaskSteps DEF Continue
<1> QED BY <1>1, <1>2, <1>3, <1>4, <1>5, <1>6, Zenon DEF StorageNext, UserStep

-----------------------------------------------------------------------------
(***************************************************************************)
(* What is stored, and what the controller believes of it                  *)
(***************************************************************************)
TakesEffect ==
  Saving # None /\ ~Saving.done /\ Values' = [Values EXCEPT ![Saving.slot] = Saving.program]

(* The steps of DurableSlots, seen from here.                              *)
LEMMA AbstractSteps ==
  ASSUME [Durable!SlotsNext]_(Durable!slots)
  PROVE  \/ UNCHANGED <<Values, Saving>>
         \/ Saving' = None /\ (UNCHANGED Values \/ TakesEffect)
         \/ Saving' \in [slot : Slots, program : Programs, done : {FALSE}] /\ UNCHANGED Values
         \/ /\ Saving' = [slot |-> Saving.slot, program |-> Saving.program, done |-> TRUE]
            /\ TakesEffect
<1>1. CASE UNCHANGED Durable!slots
  BY <1>1, Zenon DEF Durable!slots, Values, Saving, SavingOf, Effective
<1>2. CASE Durable!PowerLoss
  BY <1>2, Zenon DEF Durable!PowerLoss, Durable!Overwrite, Durable!TakeEffect, TakesEffect, Values,
                     Saving, SavingOf, Effective
<1>3. CASE Durable!StartSave
  BY <1>3, Zenon DEF Durable!StartSave, Values, Saving, SavingOf, Effective
<1>4. CASE Durable!Write
  BY <1>4, Zenon DEF Durable!Write, Durable!Overwrite, Durable!TakeEffect, TakesEffect, Values,
                     Saving, SavingOf, Effective
<1>5. CASE Durable!EndSave
  BY <1>5, Zenon DEF Durable!EndSave, Durable!Overwrite, Values, Saving, SavingOf, Effective
<1>6. CASE Durable!Refuse \/ \E slot \in Slots : Durable!Load(slot)
  BY <1>6, Zenon DEF Durable!Refuse, Durable!Load, Values, Saving, SavingOf, Effective
<1> QED BY <1>1, <1>2, <1>3, <1>4, <1>5, <1>6, Zenon DEF Durable!SlotsNext

(* The save under way, if there is one.                                    *)
LEMMA SavingIsCall ==
  ASSUME StoreInv
  PROVE  /\ call = None => Saving = None
         /\ call # None =>
              /\ call.slot \in Slots /\ call.program \in Programs
              /\ Saving = [slot |-> call.slot, program |-> call.program, done |-> Effective]
              /\ Saving # None
<1>1. CASE call = None
  BY <1>1 DEF Saving, SavingOf
<1>2. CASE call # None
  <2>1. call \in Calls
    BY <1>2 DEF StoreInv, CallInv
  <2> QED BY <1>2, <2>1, EffectiveIsBoolean, SavingFields, CallTypes, Zenon DEF Saving
<1> QED BY <1>1, <1>2

LEMMA DoneStaysStored ==
  ASSUME StoreInv, DoneIsStored, [StoreAction]_storeVars
  PROVE  DoneIsStored' /\ (UNCHANGED Values \/ TakesEffect)
<1>1. \/ UNCHANGED <<Values, Saving>>
      \/ Saving' = None /\ (UNCHANGED Values \/ TakesEffect)
      \/ Saving' \in [slot : Slots, program : Programs, done : {FALSE}] /\ UNCHANGED Values
      \/ /\ Saving' = [slot |-> Saving.slot, program |-> Saving.program, done |-> TRUE]
         /\ TakesEffect
  BY StoreStep, AbstractSteps DEF StoreAction
<1>2. DOMAIN Values = Slots
  BY DEF Values
<1>3. Saving # None => Saving.slot \in Slots
  BY SavingIsCall
<1>4. CASE UNCHANGED <<Values, Saving>>
  BY <1>4 DEF DoneIsStored
<1>5. CASE Saving' = None /\ (UNCHANGED Values \/ TakesEffect)
  BY <1>5 DEF DoneIsStored
<1>6. CASE Saving' \in [slot : Slots, program : Programs, done : {FALSE}] /\ UNCHANGED Values
  BY <1>6 DEF DoneIsStored
<1>7. CASE /\ Saving' = [slot |-> Saving.slot, program |-> Saving.program, done |-> TRUE]
           /\ TakesEffect
  <2>1. Values'[Saving.slot] = Saving.program
    BY <1>2, <1>3, <1>7 DEF TakesEffect
  <2>2. Saving'.slot = Saving.slot /\ Saving'.program = Saving.program
    BY <1>7
  <2> QED BY <1>7, <2>1, <2>2 DEF DoneIsStored
<1> QED BY <1>1, <1>4, <1>5, <1>6, <1>7

(* A slot changes only when its own save takes effect.                     *)
LEMMA OnlyItsSave ==
  ASSUME StoreInv, DoneIsStored, [StoreAction]_storeVars, NEW slot \in Slots,
         Values'[slot] # Values[slot]
  PROVE  call # None /\ call.slot = slot /\ Values'[slot] = call.program
<1>1. TakesEffect
  BY DoneStaysStored
<1>2. call # None /\ Saving.slot = call.slot /\ Saving.program = call.program
  BY <1>1, SavingIsCall DEF TakesEffect
<1>3. DOMAIN Values = Slots /\ call.slot \in Slots
  BY <1>2, SavingIsCall DEF Values
<1> QED BY <1>1, <1>2, <1>3 DEF TakesEffect

(* A save that is verified has taken effect.                               *)
LEMMA VerifiedIsStored ==
  ASSUME StoreInv, DoneIsStored, Verify, reply'.status = "Ok"
  PROVE  Values[call.slot] = call.program
<1>1. call # None /\ call.phase = "verify"
  BY Zenon DEF Verify
<1>2. Verified
  BY DEF Verify, Answer
<1>3. Effective = TRUE
  BY <1>1, <1>2, Zenon DEF Effective
<1>4. Saving = [slot |-> call.slot, program |-> call.program, done |-> TRUE]
  BY <1>1, <1>3, SavingIsCall
<1> QED BY <1>1, <1>4, SavingIsCall DEF DoneIsStored

LEMMA MemoryQuiet ==
  ASSUME StorageInv, [StorageNext]_vars, DoneIsStored',
         UNCHANGED <<files, call, reply, mounted, power, task, remembered, doubted>>,
         SavingCurrent => UNCHANGED program, power # "on" => UNCHANGED running
  PROVE  MemoryInv'
<1>1. MemoryInv
  BY DEF StorageInv
<1>2. UNCHANGED Values
  BY UnchangedFiles DEF StorageInv
<1>3. Known' <=> Known
  BY Zenon DEF Known, SavingCurrent
<1>4. SavingCurrent' <=> SavingCurrent
  BY Zenon DEF SavingCurrent
<1> QED BY <1>1, <1>2, <1>3, <1>4 DEF MemoryInv

(* No task and no save of the current slot: what is remembered stays, or   *)
(* there is nothing to remember.                                           *)
LEMMA MemoryWithoutSave ==
  ASSUME StorageInv, DoneIsStored', ~SavingCurrent',
         Known' => Values'[CurrentSlot] = remembered',
         power' # "on" => ~running'
  PROVE  MemoryInv'
BY DEF MemoryInv

(* A task of the current slot begins, or is refused and the slot is as it  *)
(* was.                                                                    *)
LEMMA MemorySaveBegins ==
  ASSUME StorageInv, DoneIsStored', UNCHANGED files, ~SavingCurrent,
         NEW kind, NEW stage, NEW slot, NEW target, NEW content,
         SaveAs(kind, stage, slot, target, content),
         power = "on", UNCHANGED <<power, remembered, doubted, mounted>>
  PROVE  MemoryInv'
<1>1. MemoryInv
  BY DEF StorageInv
<1>2. UNCHANGED Values
  BY UnchangedFiles DEF StorageInv
<1>3. call' = None => task' = None
  BY SaveBegun
<1>4. Known' => Known
  BY Zenon DEF Known
<1> QED BY <1>1, <1>2, <1>3, <1>4 DEF MemoryInv, SavingCurrent

LEMMA MemoryKept ==
  ASSUME StorageInv, [StorageNext]_vars
  PROVE  MemoryInv'
<1>1. /\ StoreInv /\ TypeOK /\ BankInv /\ TaskInv /\ MemoryInv /\ DoneIsStored
      /\ CurrentSlot \in Slots
  BY Constants DEF StorageInv, MemoryInv
<1>2. [StoreAction]_storeVars
  BY StepOfStore
<1>3. DoneIsStored'
  BY <1>1, <1>2, DoneStaysStored
<1>4. CASE UNCHANGED vars
  <2>1. /\ UNCHANGED <<files, call, reply, mounted, power, task, remembered, doubted>>
        /\ UNCHANGED <<program, running>>
    BY <1>4, Zenon DEF vars, storeVars, ramVars
  <2> QED BY <1>3, <2>1, MemoryQuiet
<1>5. CASE PowerOn
  <2>1. power' = "booting" /\ power = "off" /\ UNCHANGED <<running, task>>
    BY <1>5, Zenon DEF PowerOn, ramVars
  <2>2. task' = None /\ ~running'
    BY <1>1, <2>1 DEF TaskInv, MemoryInv
  <2> QED BY <1>3, <2>1, <2>2, MemoryWithoutSave DEF Known, SavingCurrent
<1>6. CASE Restore
  <2>1. PICK failed \in SUBSET Copies :
          /\ Load(CurrentSlot, failed)
          /\ doubted' = (reply'.status # "Ok" \/ failed # {})
    BY <1>6, Zenon DEF Restore
  <2>2. /\ power = "booting" /\ power' = "on" /\ UNCHANGED <<files, task, mounted>>
        /\ program' = Applied(IF reply'.status = "Ok" THEN reply'.program ELSE Default)
        /\ remembered' = program'
    BY <1>6, Zenon DEF Restore
  <2>3. task' = None /\ ~running
    BY <1>1, <2>2 DEF TaskInv, MemoryInv
  <2>4. UNCHANGED Values
    BY <1>1, <2>2, UnchangedFiles
  <2>5. ASSUME ~doubted' PROVE Values'[CurrentSlot] = remembered'
    <3>1. reply'.status = "Ok" /\ failed = {}
      BY <2>1, <2>5
    <3>2. reply'.program = Stored(CurrentSlot)
      BY <1>1, <2>1, <3>1, LoadedProgram DEF StoreInv
    <3>3. remembered' = reply'.program
      BY <2>2, <2>3, <3>1 DEF Applied
    <3> QED BY <1>1, <2>4, <3>2, <3>3 DEF Values
  <2> QED BY <1>3, <2>2, <2>3, <2>5, MemoryWithoutSave DEF Known, SavingCurrent
<1>7. CASE PowerOff
  <2>1. power' = "off" /\ running' = FALSE /\ task' = None
    BY <1>7, Zenon DEF PowerOff
  <2> QED BY <1>3, <2>1, MemoryWithoutSave DEF Known, SavingCurrent
<1>8. CASE UserStep
  <2>1. /\ UNCHANGED <<files, call, reply, mounted, power, task, remembered, doubted>>
        /\ task = None /\ power = "on"
    BY <1>8, Zenon DEF UserStep, Edit, ToggleTransport, SerialRun, CloseDialog, OpenDialog, Idle, storeVars
  <2> QED BY <1>3, <2>1, MemoryQuiet DEF SavingCurrent
<1>9. ASSUME NEW slot \in Users, RequestSave(slot)
      PROVE  MemoryInv'
  <2>1. /\ task = None /\ power = "on" /\ SaveAs("save", "slot", slot, slot, program)
        /\ UNCHANGED <<power, remembered, doubted>>
    BY <1>9, Zenon DEF RequestSave, Idle
  <2>2. UNCHANGED <<files, mounted>>
    BY <2>1, Zenon DEF SaveAs
  <2> QED BY <1>3, <2>1, <2>2, MemorySaveBegins DEF SavingCurrent
<1>10. ASSUME NEW slot \in Users, RequestLoad(slot)
       PROVE  MemoryInv'
  <2>1. /\ task = None /\ UNCHANGED <<files, mounted, power, remembered, doubted, running>>
        /\ power = "on"
        /\ task' = IF reply'.status = "Ok" THEN [kind |-> "load", stage |-> "slot", slot |-> slot]
                   ELSE None
    BY <1>10, Zenon DEF RequestLoad, Idle
  <2>2. ~SavingCurrent /\ ~SavingCurrent'
    BY <2>1 DEF SavingCurrent
  <2>3. Known' => Known
    BY <2>1, <2>2, Zenon DEF Known
  <2>4. UNCHANGED Values
    BY <1>1, <2>1, UnchangedFiles
  <2> QED BY <1>1, <1>3, <2>1, <2>2, <2>3, <2>4, MemoryWithoutSave DEF MemoryInv
<1>11. CASE RequestReset
  <2>1. /\ task = None /\ power = "on" /\ SaveAs("reset", "current", None, CurrentSlot, Default)
        /\ UNCHANGED <<power, remembered, doubted>>
    BY <1>11, Zenon DEF RequestReset, Idle, SaveCurrent
  <2>2. UNCHANGED <<files, mounted>>
    BY <2>1, Zenon DEF SaveAs
  <2> QED BY <1>3, <2>1, <2>2, MemorySaveBegins DEF SavingCurrent
<1>12. CASE Sync
  <2>1. /\ task = None /\ power = "on" /\ SaveAs("sync", "current", None, CurrentSlot, program)
        /\ UNCHANGED <<power, remembered, doubted>>
    BY <1>12, Zenon DEF Sync, Idle, SaveCurrent
  <2>2. UNCHANGED <<files, mounted>>
    BY <2>1, Zenon DEF SaveAs
  <2> QED BY <1>3, <2>1, <2>2, MemorySaveBegins DEF SavingCurrent
<1>13. CASE FlashStep
  <2>1. /\ SaveStep /\ call # None
        /\ UNCHANGED <<mounted, power, program, running, task, remembered, doubted>>
    BY <1>13, Zenon DEF FlashStep, SaveStep, WriteReturns, WriteFails, Verify, ramVars
  <2>2. task # None /\ call.program = program /\ power = "on"
    BY <1>1, <2>1 DEF TaskInv
  <2>3. CASE SavingCurrent
    <3>1. call.slot = CurrentSlot
      BY <1>1, <2>1, <2>3 DEF TaskInv, SavingCurrent
    <3>2. ASSUME call' = None, reply'.status = "Ok" PROVE Values'[CurrentSlot] = program'
      <4>1. call # None /\ call \in Calls
        BY <1>1, <2>1 DEF StoreInv, CallInv
      <4>2. ASSUME WriteReturns PROVE FALSE
        <5>1. call' = [call EXCEPT !.phase = "verify"]
          BY <4>2, Zenon DEF WriteReturns
        <5>2. call' \in Calls
          BY <4>1, <5>1 DEF Calls
        <5> QED BY <3>2, <5>2, CallTypes
      <4>3. ASSUME WriteFails PROVE FALSE
        <5>1. Answer("WriteFailed")
          BY <4>3, Zenon DEF WriteFails
        <5> QED BY <3>2, <5>1 DEF Answer
      <4>4. Verify
        BY <2>1, <4>2, <4>3 DEF SaveStep
      <4>5. Values[call.slot] = call.program
        BY <1>1, <3>2, <4>4, VerifiedIsStored
      <4>6. UNCHANGED files
        BY <4>4, Zenon DEF Verify
      <4>7. UNCHANGED Values
        BY <1>1, <4>6, UnchangedFiles
      <4> QED BY <2>1, <2>2, <3>1, <4>5, <4>7
    <3>3. SavingCurrent'
      BY <2>1, <2>3 DEF SavingCurrent
    <3> QED BY <1>3, <2>1, <2>2, <3>2, <3>3 DEF MemoryInv, Known
  <2>4. CASE ~SavingCurrent
    <3>1. task.stage = "slot" /\ task.kind = "save" /\ call.slot \in Users
      BY <1>1, <2>1, <2>2, <2>4 DEF TaskInv, SavingCurrent, TypeOK, RamTypes, Tasks
    <3>2. Values'[CurrentSlot] = Values[CurrentSlot]
      BY <1>1, <1>2, <3>1, OnlyItsSave, Constants
    <3>3. ~SavingCurrent'
      BY <2>1, <2>4 DEF SavingCurrent
    <3>4. Known' => Known
      BY <2>1, <2>4, Zenon DEF Known
    <3> QED BY <1>1, <1>3, <2>1, <3>2, <3>3, <3>4 DEF MemoryInv
  <2> QED BY <2>3, <2>4
<1>14. CASE SlotDone
  <2>1. /\ task # None /\ task.stage = "slot" /\ power = "on"
        /\ UNCHANGED <<power, remembered, doubted, running>>
    BY <1>14, Zenon DEF SlotDone, AtStage
  <2>2. ~SavingCurrent
    BY <2>1 DEF SavingCurrent
  <2>3. CASE reply.status # "Ok"
    <3>1. task' = None /\ UNCHANGED <<files, mounted>>
      BY <1>14, <2>3, Zenon DEF SlotDone, Answered
    <3>2. Known' => Known
      BY <2>1, <2>2, <3>1, Zenon DEF Known
    <3>3. UNCHANGED Values
      BY <1>1, <3>1, UnchangedFiles
    <3> QED BY <1>1, <1>3, <2>1, <3>1, <3>2, <3>3, MemoryWithoutSave DEF MemoryInv, SavingCurrent
  <2>4. CASE reply.status = "Ok"
    <3>1. SaveAs(task.kind, "current", task.slot, CurrentSlot, program')
      BY <1>14, <2>4 DEF SlotDone, SaveCurrent
    <3>2. UNCHANGED <<files, mounted>>
      BY <3>1, Zenon DEF SaveAs
    <3> QED BY <1>3, <2>1, <2>2, <3>1, <3>2, MemorySaveBegins
  <2> QED BY <2>3, <2>4
<1>15. CASE CurrentDone
  <2>1. /\ task # None /\ task.stage = "current" /\ power = "on" /\ task' = None /\ call = None
        /\ UNCHANGED <<files, power, program, running>>
    BY <1>15, Zenon DEF CurrentDone, AtStage, Answered
  <2>2. UNCHANGED Values
    BY <1>1, <2>1, UnchangedFiles
  <2>3. CASE reply.status # "Ok"
    <3>1. doubted'
      BY <1>15, <2>3 DEF CurrentDone
    <3> QED BY <1>3, <2>1, <3>1, MemoryWithoutSave DEF Known, SavingCurrent
  <2>4. CASE reply.status = "Ok"
    <3>1. remembered' = program
      BY <1>15, <2>4 DEF CurrentDone
    <3>2. Values[CurrentSlot] = program
      BY <1>1, <2>1, <2>4 DEF MemoryInv, SavingCurrent
    <3> QED BY <1>3, <2>1, <2>2, <3>1, <3>2, MemoryWithoutSave DEF SavingCurrent
  <2> QED BY <2>3, <2>4
<1> QED BY <1>4, <1>5, <1>6, <1>7, <1>8, <1>9, <1>10, <1>11, <1>12, <1>13, <1>14, <1>15, Zenon
        DEF StorageNext, UserStep, Continue

-----------------------------------------------------------------------------
(***************************************************************************)
(* The theorems                                                            *)
(***************************************************************************)
LEMMA StorageStarts == StorageInit => StorageInv
<1> SUFFICES ASSUME StorageInit PROVE StorageInv
  OBVIOUS
<1>1. /\ Init /\ power = "off" /\ program = Default /\ running = FALSE /\ dialog = "none"
      /\ task = None /\ remembered = None /\ bank = [slot \in Users |-> None]
      /\ draft = [program |-> Default, source |-> None] /\ doubted = FALSE
  BY DEF StorageInit
<1>2. call = None /\ mounted = FALSE /\ faults = 0 /\ files \in InitialFiles
  BY <1>1 DEF Init
<1>3. StoreInv
  BY <1>1, InitStore
<1>4. StoreTypes
  <2>1. erased \in BOOLEAN
    BY <1>1, Zenon DEF Init
  <2>2. mounted \in BOOLEAN
    BY <1>2, Zenon
  <2>3. faults \in 0 .. MaxFaults
    BY <1>2, StoreAssumption
  <2>4. \A slot \in Slots, copy \in Copies :
          files[slot][copy] # Missing => files[slot][copy].revision \in 0 .. MaxRevision
    BY <1>3 DEF StoreInv, FilesInv, TypedPair
  <2> QED BY <1>2, <2>1, <2>2, <2>3, <2>4 DEF StoreTypes
<1>5. RamTypes
  <2>1. running \in BOOLEAN /\ doubted \in BOOLEAN
    BY <1>1, Zenon
  <2>2. draft \in [program : Programs, source : Users \cup {None}]
    BY <1>1, Constants
  <2>3. \A slot \in Users : bank[slot] = None
    BY <1>1
  <2> QED BY <1>1, <2>1, <2>2, <2>3, Constants, Zenon DEF RamTypes
<1>6. BankInv /\ TaskInv
  BY <1>1, <1>2 DEF BankInv, TaskInv
<1>7. MemoryInv
  <2>1. Saving = None
    BY <1>2, <1>3, SavingIsCall
  <2> QED BY <1>1, <2>1 DEF MemoryInv, Known, SavingCurrent, DoneIsStored
<1> QED BY <1>3, <1>4, <1>5, <1>6, <1>7 DEF StorageInv, TypeOK

LEMMA StorageStep == StorageInv /\ [StorageNext]_vars => StorageInv'
<1> SUFFICES ASSUME StorageInv, [StorageNext]_vars PROVE StorageInv'
  OBVIOUS
<1>1. [StoreAction]_storeVars
  BY StepOfStore
<1>2. StoreInv /\ StoreTypes
  BY DEF StorageInv, TypeOK
<1>3. StoreInv'
  BY <1>1, <1>2, StoreStep DEF StoreAction
<1>4. StoreTypes'
  BY <1>1, <1>2, StoreTypesKept
<1>5. RamInv'
  BY RamKept
<1>6. MemoryInv'
  BY MemoryKept
<1> QED BY <1>3, <1>4, <1>5, <1>6 DEF StorageInv, TypeOK, RamInv

LEMMA StorageAlways == StorageSpec => []StorageInv
BY StorageStarts, StorageStep, PTL DEF StorageSpec

(* Types of the storage and of what is kept of it in RAM.                  *)
THEOREM StorageTypes == StorageSpec => []TypeOK
<1>1. StorageInv => TypeOK
  BY DEF StorageInv
<1> QED BY <1>1, StorageAlways, PTL

(* The restore, the autosave and the dialog never bring two valid copies   *)
(* of a slot further apart than one revision.                              *)
THEOREM StorageRevisions == StorageSpec => []RevisionsStayApart
<1>1. StorageInv => RevisionsStayApart
  BY DEF StorageInv, StoreInv, FilesInv, RevisionsStayApart
<1> QED BY <1>1, StorageAlways, PTL

(* Used by the controller and whatever it asks in between, the store keeps *)
(* the promises of DurableSlots.                                           *)
THEOREM StorageIsDurable == StorageSpec => ImplementsDurableSlots
<1>1. StorageInit => Durable!SlotsInit
  BY InitStore DEF StorageInit
<1>2. StorageInv /\ [StorageNext]_vars => [Durable!SlotsNext]_(Durable!slots)
  BY StepOfStore, StoreStep DEF StorageInv, StoreAction
<1> QED BY <1>1, <1>2, StorageAlways, PTL
        DEF StorageSpec, ImplementsDurableSlots, Durable!SlotsSpec

(* What the controller remembers as saved is what is stored, except after  *)
(* a fault of the current slot (_currentProgramCrc,                        *)
(* program_storage_controller.cpp:96-159).                                 *)
THEOREM MemoryCorrect == StorageSpec => []RememberedIsStored
<1>1. StorageInv => RememberedIsStored
  <2> SUFFICES ASSUME StorageInv, Idle, ~doubted, mounted
               PROVE  Stored(CurrentSlot) = remembered
    BY DEF RememberedIsStored
  <2>1. Values[CurrentSlot] = remembered
    BY DEF StorageInv, MemoryInv, Known, SavingCurrent, Idle
  <2> QED BY <2>1, Constants DEF Values
<1> QED BY <1>1, StorageAlways, PTL

(* A user's slot changes only by a Save of that slot, to what is played.   *)
THEOREM UserSlotsCorrect == StorageSpec => UserSlotsAreTheUsers
<1> DEFINE OnlyByItsSave ==
      \A slot \in Users :
        Stored(slot)' # Stored(slot) =>
          /\ task # None
          /\ task.kind = "save"
          /\ task.slot = slot
          /\ Stored(slot)' = program
<1>1. StorageInv /\ [StorageNext]_vars => [OnlyByItsSave]_vars
  <2> SUFFICES ASSUME StorageInv, [StorageNext]_vars, NEW slot \in Users,
                      Stored(slot)' # Stored(slot)
               PROVE  /\ task # None /\ task.kind = "save" /\ task.slot = slot
                      /\ Stored(slot)' = program
    OBVIOUS
  <2>1. /\ slot \in Slots /\ slot # CurrentSlot
        /\ Values[slot] = Stored(slot) /\ Values'[slot] = Stored(slot)'
    BY DEF Users, Values
  <2>2. call # None /\ call.slot = slot /\ Values'[slot] = call.program
    BY <2>1, StepOfStore, OnlyItsSave DEF StorageInv, MemoryInv
  <2>3. task # None /\ call.program = program /\ task.stage # "current"
    BY <2>1, <2>2 DEF StorageInv, TaskInv
  <2>4. task.stage = "slot"
    BY <2>3 DEF StorageInv, TypeOK, RamTypes, Tasks
  <2>5. task.kind = "save" /\ call.slot = task.slot
    BY <2>2, <2>4 DEF StorageInv, TaskInv
  <2> QED BY <2>1, <2>2, <2>3, <2>5
<1> QED BY <1>1, StorageAlways, PTL DEF StorageSpec, UserSlotsAreTheUsers
-----------------------------------------------------------------------------
(***************************************************************************)
(* What is kept in RAM follows flash                                       *)
(***************************************************************************)

(* The newer program of a pair carries at least this revision.             *)
AtLeast(pair, revision) ==
  \E copy \in Copies : NewerIn(pair, copy) /\ revision <= pair[copy].revision

(* The revision of a slot's entry in the bank.                             *)
Banked(slot) == IF bank[slot] = None THEN 0 ELSE bank[slot].revision

(* The save of a user's slot has got through, and the bank has not heard.  *)
SlotSaved ==
  /\ task # None
  /\ task.kind = "save"
  /\ \/ task.stage = "current"
     \/ call = None /\ reply.status = "Ok"
     \/ call # None /\ call.phase = "verify" /\ Verified

(* The bank is never ahead of flash, and one behind it before it is told;  *)
(* the draft is what is remembered, or there is neither.                   *)
FollowInv ==
  /\ \A slot \in Users : bank[slot] # None => AtLeast(files[slot], bank[slot].revision)
  /\ SlotSaved => AtLeast(files[task.slot], Banked(task.slot) + 1)
  /\ draft.program = IF power = "on" THEN remembered ELSE Default

LEMMA LevelTypes ==
  ASSUME NEW pair, TypedPair(pair), NEW copy \in Copies, NewerIn(pair, copy)
  PROVE  pair[copy].revision \in 0 .. MaxRevision /\ MaxRevision \in Nat
BY Images, StoreAssumption DEF NewerIn, TypedPair

(* A revision is above zero, and a pair that is ready has its newer copy   *)
(* where the save does not write.                                          *)
LEMMA NewerIsKept ==
  ASSUME NEW pair, TypedPair(pair), NEW copy \in Copies, NEW target \in Copies, NEW revision,
         Ready(pair, target, revision), NewerIn(pair, copy)
  PROVE  /\ copy = Other(target)
         /\ revision = pair[copy].revision + 1
<1>1. \A c \in Copies : IsValid(pair[c]) => pair[c].revision \in Int
  BY Images, StoreAssumption DEF TypedPair
<1>2. copy # target
  <2> SUFFICES ASSUME copy = target PROVE FALSE
    OBVIOUS
  <2>1. IsValid(pair[target]) /\ IsValid(pair[Other(target)])
        /\ pair[target].revision < pair[Other(target)].revision
        /\ pair[target].revision > pair[Other(target)].revision
    BY DEF NewerIn, Ready
  <2>2. Other(target) \in Copies
    BY DEF Other, Copies
  <2> QED BY <1>1, <2>1, <2>2
<1>3. copy = Other(target)
  BY <1>2 DEF Other, Copies
<1> QED BY <1>3 DEF Ready, NewerIn

(* A save cut short leaves the newer program where it was.                 *)
LEMMA TornLevel ==
  ASSUME NEW pair, NEW new, NEW target \in Copies, NEW revision, NEW level,
         TypedPair(pair), Ready(pair, target, revision), AtLeast(pair, level),
         new[target] = Torn, new[Other(target)] = pair[Other(target)]
  PROVE  AtLeast(new, level)
<1>1. PICK copy \in Copies : NewerIn(pair, copy) /\ level <= pair[copy].revision
  BY DEF AtLeast
<1>2. copy = Other(target)
  BY <1>1, NewerIsKept
<1>3. Other(copy) = target /\ new[copy] = pair[copy]
  BY <1>2 DEF Other, Copies
<1>4. NewerIn(new, copy)
  BY <1>1, <1>3, Images DEF NewerIn
<1> QED BY <1>1, <1>3, <1>4 DEF AtLeast

(* A save that is written raises it by one.                                *)
LEMMA WrittenLevel ==
  ASSUME NEW pair, NEW new, NEW target \in Copies, NEW revision \in 1 .. MaxRevision,
         NEW content \in Programs, NEW level \in Nat,
         TypedPair(pair), Ready(pair, target, revision), level = 0 \/ AtLeast(pair, level),
         new[target] = Encode(content, revision), new[Other(target)] = pair[Other(target)]
  PROVE  AtLeast(new, level + 1)
<1>1. IsValid(new[target]) /\ new[target].revision = revision
  BY Images
<1>2. \A c \in Copies : IsValid(pair[c]) => pair[c].revision \in Int
  BY Images, StoreAssumption DEF TypedPair
<1>3. NewerIn(new, target)
  <2>1. IsValid(new[Other(target)]) =>
          revision = new[Other(target)].revision + 1 /\ new[Other(target)].revision \in Int
    BY <1>2 DEF Ready, Other, Copies
  <2> QED BY <1>1, <2>1 DEF NewerIn
<1>4. level + 1 <= revision
  <2>1. CASE level = 0
    BY <2>1, StoreAssumption
  <2>2. CASE AtLeast(pair, level)
    <3>1. PICK copy \in Copies : NewerIn(pair, copy) /\ level <= pair[copy].revision
      BY <2>2 DEF AtLeast
    <3>2. revision = pair[copy].revision + 1 /\ pair[copy].revision \in Int
      BY <1>2, <3>1, NewerIsKept DEF NewerIn
    <3> QED BY <3>1, <3>2
  <2> QED BY <2>1, <2>2
<1> QED BY <1>1, <1>3, <1>4 DEF AtLeast

LEMMA LowerLevel ==
  ASSUME NEW pair, TypedPair(pair), NEW level \in Nat, AtLeast(pair, level + 1)
  PROVE  AtLeast(pair, level)
<1>1. PICK copy \in Copies : NewerIn(pair, copy) /\ level + 1 <= pair[copy].revision
  BY DEF AtLeast
<1>2. pair[copy].revision \in Int
  BY <1>1, LevelTypes
<1>3. level <= pair[copy].revision
  BY <1>1, <1>2
<1> QED BY <1>1, <1>3 DEF AtLeast

LEMMA BankedTypes ==
  ASSUME RamTypes, NEW slot \in Users
  PROVE  /\ Banked(slot) \in Nat
         /\ bank[slot] # None => Banked(slot) = bank[slot].revision
BY StoreAssumption DEF RamTypes, Banked

-----------------------------------------------------------------------------
(* Nothing written, nothing saved and nothing put into the bank.           *)
LEMMA FollowQuiet ==
  ASSUME StorageInv, FollowInv, UNCHANGED <<files, bank>>,
         SlotSaved' => task' # None /\ task'.slot \in Users /\ SlotSaved /\ task'.slot = task.slot,
         draft'.program = IF power' = "on" THEN remembered' ELSE Default
  PROVE  FollowInv'
<1>1. \A slot \in Users : bank'[slot] # None => AtLeast(files'[slot], bank'[slot].revision)
  BY DEF FollowInv
<1>2. SlotSaved' => SlotSaved /\ task' # None /\ task'.slot = task.slot
  OBVIOUS
<1>3. ASSUME SlotSaved'
      PROVE  AtLeast(files[task.slot], Banked(task.slot) + 1)'
  <2>1. files'[task'.slot] = files[task.slot] /\ Banked(task.slot)' = Banked(task.slot)
    BY <1>3 DEF Banked
  <2>2. AtLeast(files[task.slot], Banked(task.slot) + 1)
    BY <1>2, <1>3 DEF FollowInv
  <2> QED BY <2>1, <2>2 DEF AtLeast, NewerIn
<1>4. (SlotSaved => AtLeast(files[task.slot], Banked(task.slot) + 1))'
  BY <1>3
<1> QED BY <1>1, <1>4 DEF FollowInv

(* A save of a user's slot has only begun.                                 *)
LEMMA NotSavedYet ==
  ASSUME NEW kind, NEW slot, NEW target, NEW content, SaveAs(kind, "slot", slot, target, content)
  PROVE  ~SlotSaved'
<1>1. \/ call' = None /\ task' = None
      \/ /\ call' # None /\ call'.phase = "write"
         /\ task' = [kind |-> kind, stage |-> "slot", slot |-> slot]
  BY SaveBegun
<1> QED BY <1>1 DEF SlotSaved

(* A save of the current slot for another reason than a Save.              *)
LEMMA NotASave ==
  ASSUME NEW kind, NEW slot, NEW target, NEW content,
         SaveAs(kind, "current", slot, target, content), kind # "save"
  PROVE  ~SlotSaved'
<1>1. \/ task' = None
      \/ task' = [kind |-> kind, stage |-> "current", slot |-> slot]
  BY SaveBegun
<1> QED BY <1>1 DEF SlotSaved

(* The steps of a save: only one that is written raises the revision of    *)
(* its slot, and none lowers it.                                           *)
LEMMA FlashFollows ==
  ASSUME StorageInv, FollowInv, FlashStep
  PROVE  FollowInv'
<1>1. /\ call # None /\ SaveStep
      /\ UNCHANGED <<power, program, running, dialog, task, remembered, bank, draft, doubted>>
  BY Zenon DEF FlashStep, SaveStep, WriteReturns, WriteFails, Verify, ramVars
<1>2. /\ StoreInv /\ FilesInv /\ call \in Calls /\ RamTypes /\ TaskInv
      /\ call.slot \in Slots /\ call.target \in Copies /\ call.program \in Programs
      /\ call.revision \in 1 .. MaxRevision
  BY <1>1, CallTypes DEF StorageInv, TypeOK, StoreInv, CallInv
<1>3. draft'.program = IF power' = "on" THEN remembered' ELSE Default
  BY <1>1 DEF FollowInv
<1>4. /\ task # None
      /\ task.kind = "save" => task.slot \in Users
      /\ task.stage = "slot" => task.kind = "save" /\ call.slot = task.slot
      /\ task.stage = "current" => call.slot = CurrentSlot
      /\ task.stage \in {"slot", "current"}
  BY <1>1, <1>2 DEF TaskInv, RamTypes, Tasks
<1>5. CASE UNCHANGED files
  <2>1. SlotSaved' => SlotSaved
    <3>1. CASE WriteReturns
      <4>1. call.phase = "write" /\ (Put(Written) \/ Put(Torn))
            /\ call' = [call EXCEPT !.phase = "verify"]
        BY <3>1, Zenon DEF WriteReturns
      <4>2. files'[call.slot][call.target] \in {Written, Torn}
        BY <1>2, <4>1, PutEffect
      <4>3. /\ Ready(files[call.slot], call.target, call.revision)
            /\ Written = Encode(call.program, call.revision)
        BY <1>1, <1>2, <4>1 DEF StoreInv, CallInv, Written
      <4>4. files[call.slot][call.target] # Written
        <5> SUFFICES ASSUME files[call.slot][call.target] = Written PROVE FALSE
          OBVIOUS
        <5> DEFINE pair == files[call.slot]
        <5>1. /\ IsValid(pair[call.target]) /\ pair[call.target].revision = call.revision
          BY <1>2, <4>3, Images
        <5>2. /\ pair[call.target].revision < pair[Other(call.target)].revision
              /\ IsValid(pair[Other(call.target)])
              /\ call.revision = pair[Other(call.target)].revision + 1
          BY <4>3, <5>1 DEF Ready
        <5>3. pair[Other(call.target)].revision \in Int
          BY <1>2, <5>2, Images, StoreAssumption DEF FilesInv, TypedPair, Other, Copies
        <5> QED BY <1>2, <5>1, <5>2, <5>3
      <4>5. ~Verified'
        <5>1. /\ call'.slot = call.slot /\ call'.target = call.target
              /\ call'.program = call.program /\ call'.revision = call.revision
          BY <1>2, <4>1 DEF Calls
        <5> QED BY <1>5, <4>4, <5>1 DEF Verified, Written
      <4>6. call' # None /\ call'.phase = "verify"
        BY <1>2, <4>1, CallTypes DEF Calls
      <4> QED BY <1>1, <4>5, <4>6 DEF SlotSaved
    <3>2. CASE WriteFails
      <4>1. reply'.status # "Ok" /\ call' = None
        BY <3>2 DEF WriteFails, Answer
      <4> QED BY <1>1, <4>1 DEF SlotSaved
    <3>3. CASE Verify
      <4>1. /\ call' = None /\ call.phase = "verify"
            /\ reply'.status = "Ok" => Verified
        BY <3>3 DEF Verify, Answer
      <4> QED BY <1>1, <4>1 DEF SlotSaved
    <3> QED BY <1>1, <3>1, <3>2, <3>3 DEF SaveStep
  <2>2. SlotSaved' => task'.slot \in Users /\ task' # None
    BY <1>1, <1>4 DEF SlotSaved
  <2> QED BY <1>1, <1>3, <1>5, <2>1, <2>2, FollowQuiet
<1>6. CASE call.phase = "write" /\ (Put(Torn) \/ Put(Written))
  <2>1. /\ Writing /\ Ready(files[call.slot], call.target, call.revision)
        /\ TypedPair(files[call.slot])
    BY <1>1, <1>2, <1>6 DEF Writing, StoreInv, CallInv, FilesInv
  <2>2. FilesInv'
    BY <1>2, <1>6, <2>1, PutTorn, PutWritten
  <2>3. /\ \A slot \in Slots \ {call.slot} : files'[slot] = files[slot]
        /\ files'[call.slot][Other(call.target)] = files[call.slot][Other(call.target)]
        /\ Put(Torn) => files'[call.slot][call.target] = Torn
        /\ Put(Written) => files'[call.slot][call.target] = Encode(call.program, call.revision)
    BY <1>2, <1>6, PutEffect DEF Written
  <2>4. ASSUME NEW level \in Nat, AtLeast(files[call.slot], level)
        PROVE  AtLeast(files'[call.slot], level)
    <3>1. CASE Put(Torn)
      BY <1>2, <2>1, <2>3, <2>4, <3>1, TornLevel
    <3>2. CASE Put(Written)
      <4>1. AtLeast(files'[call.slot], level + 1)
        BY <1>2, <2>1, <2>3, <2>4, <3>2, WrittenLevel
      <4>2. TypedPair(files'[call.slot])
        BY <1>2, <2>2 DEF FilesInv
      <4> QED BY <4>1, <4>2, LowerLevel
    <3> QED BY <1>6, <3>1, <3>2
  <2>5. ASSUME NEW slot \in Users, NEW level \in Nat, AtLeast(files[slot], level)
        PROVE  AtLeast(files'[slot], level)
    BY <2>3, <2>4, <2>5 DEF Users
  <2>6. ASSUME NEW slot \in Users, bank'[slot] # None
        PROVE  AtLeast(files'[slot], bank'[slot].revision)
    <3>1. bank[slot].revision \in Nat /\ AtLeast(files[slot], bank[slot].revision)
      BY <1>1, <1>2, <2>6, BankedTypes DEF FollowInv
    <3> QED BY <1>1, <2>5, <3>1
  <2>7. ASSUME SlotSaved' PROVE AtLeast(files'[task.slot], Banked(task.slot) + 1)
    <3>1. task.kind = "save" /\ task.slot \in Users
      BY <1>1, <1>4, <2>7 DEF SlotSaved
    <3>2. Banked(task.slot) \in Nat
      BY <1>2, <3>1, BankedTypes
    <3>3. CASE SlotSaved
      BY <2>5, <3>1, <3>2, <3>3 DEF FollowInv
    <3>4. CASE ~SlotSaved
      <4>1. task.stage = "slot" /\ call.slot = task.slot
        BY <1>4, <3>1, <3>4 DEF SlotSaved
      <4>2. Put(Written)
        <5> SUFFICES ASSUME Put(Torn) PROVE FALSE
          BY <1>6
        <5>1. files'[call.slot][call.target] = Torn
          BY <2>3
        <5>2. CASE WriteReturns
          <6>1. call' = [call EXCEPT !.phase = "verify"]
            BY <5>2, Zenon DEF WriteReturns
          <6>2. /\ call'.slot = call.slot /\ call'.target = call.target
                /\ call'.program = call.program /\ call'.revision = call.revision
                /\ call' # None
            BY <1>2, <6>1, CallTypes DEF Calls
          <6>3. Encode(call.program, call.revision) # Torn
            BY <1>2, Images
          <6>4. ~Verified'
            BY <5>1, <6>2, <6>3 DEF Verified, Written
          <6> QED BY <1>1, <2>7, <4>1, <6>2, <6>4 DEF SlotSaved
        <5>3. CASE WriteFails
          <6>1. reply'.status # "Ok" /\ call' = None
            BY <5>3 DEF WriteFails, Answer
          <6> QED BY <1>1, <2>7, <4>1, <6>1 DEF SlotSaved
        <5>4. CASE Verify
          <6>1. call.phase = "verify"
            BY <5>4, Zenon DEF Verify
          <6> QED BY <1>6, <6>1
        <5> QED BY <1>1, <5>2, <5>3, <5>4 DEF SaveStep
      <4>3. Banked(task.slot) = 0 \/ AtLeast(files[task.slot], Banked(task.slot))
        BY <3>1 DEF Banked, FollowInv
      <4> HIDE DEF FollowInv, SlotSaved
      <4> QED BY <1>2, <2>1, <2>3, <3>2, <4>1, <4>2, <4>3, WrittenLevel
    <3> QED BY <3>3, <3>4
  <2>8. ASSUME SlotSaved' PROVE AtLeast(files[task.slot], Banked(task.slot) + 1)'
    <3>1. files'[task'.slot] = files'[task.slot] /\ Banked(task.slot)' = Banked(task.slot)
      BY <1>1 DEF Banked
    <3>2. AtLeast(files'[task.slot], Banked(task.slot) + 1)
      BY <2>7, <2>8
    <3> QED BY <3>1, <3>2 DEF AtLeast, NewerIn
  <2>9. (SlotSaved => AtLeast(files[task.slot], Banked(task.slot) + 1))'
    BY <2>8
  <2> QED BY <1>3, <2>6, <2>9 DEF FollowInv
<1>7. UNCHANGED files \/ (call.phase = "write" /\ (Put(Torn) \/ Put(Written)))
  BY <1>1, Zenon DEF SaveStep, WriteReturns, WriteFails, Verify
<1> QED BY <1>5, <1>6, <1>7

(* The bank is told of a Save whose slot and whose current slot are        *)
(* written: flash is one ahead, so its entry can still be counted up.      *)
LEMMA ReplaceFollows ==
  ASSUME StorageInv, FollowInv, CurrentDone
  PROVE  FollowInv'
<1>1. /\ task # None /\ call = None /\ task.stage = "current" /\ task' = None
      /\ power = "on" /\ UNCHANGED <<files, power, program>>
  BY Zenon DEF CurrentDone, AtStage, Answered
<1>2. StoreInv /\ FilesInv /\ RamTypes /\ BankInv /\ TaskInv
  BY DEF StorageInv, TypeOK, StoreInv
<1>3. ~SlotSaved'
  BY <1>1 DEF SlotSaved
<1>4. CASE UNCHANGED bank /\ draft'.program = remembered'
  BY <1>1, <1>3, <1>4, FollowQuiet
<1>5. CASE reply.status = "Ok" /\ task.kind = "save"
  <2> DEFINE slot == task.slot
             revision == Banked(slot) + 1
             entry == [program |-> program, revision |-> revision]
  <2>1. slot \in Users
    BY <1>1, <1>2, <1>5 DEF TaskInv
  <2>2. Banked(slot) \in Nat /\ (bank[slot] # None => Banked(slot) = bank[slot].revision)
    BY <1>2, <2>1, BankedTypes
  <2>3. AtLeast(files[slot], revision)
    BY <1>1, <1>5 DEF FollowInv, SlotSaved
  <2>4. Banked(slot) < MaxRevision
    <3>1. PICK copy \in Copies :
            NewerIn(files[slot], copy) /\ revision <= files[slot][copy].revision
      BY <2>3 DEF AtLeast
    <3>2. files[slot][copy].revision \in 0 .. MaxRevision /\ MaxRevision \in Nat
      BY <1>2, <2>1, <3>1, LevelTypes DEF FilesInv, Users
    <3> QED BY <2>2, <3>1, <3>2
  <2>5. remembered' = program /\ Replace(slot)
    BY <1>5 DEF CurrentDone
  <2>6. ~(bank[slot] # None /\ bank[slot].revision = MaxRevision)
    BY <2>2, <2>4, StoreAssumption
  <2>7. /\ draft'.program = program
        /\ bank' = [bank EXCEPT ![slot] = entry]
    BY <2>5, <2>6 DEF Replace, Draft, Banked
  <2>8. entry.revision = revision
    OBVIOUS
  <2> HIDE DEF slot, revision, entry
  <2>9. ASSUME NEW user \in Users, bank'[user] # None
        PROVE  AtLeast(files'[user], bank'[user].revision)
    BY <1>1, <1>2, <2>1, <2>3, <2>7, <2>8, <2>9 DEF FollowInv, BankInv
  <2>10. (SlotSaved => AtLeast(files[task.slot], Banked(task.slot) + 1))'
    BY <1>3
  <2>11. draft'.program = IF power' = "on" THEN remembered' ELSE Default
    BY <1>1, <2>5, <2>7
  <2> QED BY <2>9, <2>10, <2>11 DEF FollowInv
<1>6. CASE ~(reply.status = "Ok" /\ task.kind = "save")
  <2>1. CASE reply.status # "Ok"
    BY <1>1, <1>4, <2>1 DEF CurrentDone, FollowInv
  <2>2. CASE reply.status = "Ok"
    BY <1>1, <1>4, <1>6, <2>2 DEF CurrentDone, Draft
  <2> QED BY <2>1, <2>2
<1> QED BY <1>5, <1>6

(* One step per operation.                                                 *)
LEMMA FollowKept ==
  ASSUME StorageInv, FollowInv, [StorageNext]_vars
  PROVE  FollowInv'
<1>1. /\ StoreInv /\ RamTypes /\ BankInv /\ TaskInv /\ MemoryInv
  BY DEF StorageInv, TypeOK
<1>2. draft.program = IF power = "on" THEN remembered ELSE Default
  BY DEF FollowInv
<1>3. SlotSaved => task # None /\ task.slot \in Users
  BY <1>1 DEF SlotSaved, TaskInv
<1>4. CASE UNCHANGED vars
  <2>1. UNCHANGED <<files, call, reply, power, task, remembered, bank, draft>>
    BY <1>4, Zenon DEF vars, storeVars, ramVars
  <2>2. SlotSaved' <=> SlotSaved
    BY <2>1, Zenon DEF SlotSaved, Verified, Written
  <2> QED BY <1>2, <1>3, <2>1, <2>2, FollowQuiet
<1>5. CASE PowerOn
  <2>1. /\ power = "off" /\ power' = "booting" /\ UNCHANGED <<files, task, bank, draft>>
    BY <1>5, Zenon DEF PowerOn, CallMount, Mount, ramVars
  <2>2. ~SlotSaved'
    BY <1>1, <2>1 DEF TaskInv, SlotSaved
  <2> QED BY <1>2, <2>1, <2>2, FollowQuiet
<1>6. CASE Restore
  <2>1. /\ power = "booting" /\ power' = "on" /\ UNCHANGED <<files, task, bank>>
        /\ program' = Applied(IF reply'.status = "Ok" THEN reply'.program ELSE Default)
        /\ remembered' = program'
        /\ IF reply'.status = "Ok" THEN Draft(program', None) ELSE draft' = draft
    BY <1>6, Zenon DEF Restore
  <2>2. ~SlotSaved' /\ ~running
    BY <1>1, <2>1 DEF TaskInv, SlotSaved, MemoryInv
  <2>3. draft'.program = remembered'
    BY <1>2, <2>1, <2>2 DEF Applied, Draft
  <2> QED BY <2>1, <2>2, <2>3, FollowQuiet
<1>7. CASE PowerOff
  <2>1. /\ power' = "off" /\ task' = None /\ bank' = [slot \in Users |-> None]
        /\ draft'.program = Default
    BY <1>7, Zenon DEF PowerOff, Draft
  <2>2. ~SlotSaved'
    BY <2>1 DEF SlotSaved
  <2> QED BY <2>1, <2>2 DEF FollowInv
<1>8. CASE UserStep
  <2>1. /\ task = None /\ UNCHANGED <<files, power, task, remembered, bank, draft>>
    BY <1>8, Zenon DEF UserStep, Edit, ToggleTransport, SerialRun, CloseDialog, OpenDialog, Idle,
                       storeVars
  <2>2. ~SlotSaved'
    BY <2>1 DEF SlotSaved
  <2> QED BY <1>2, <2>1, <2>2, FollowQuiet
<1>9. ASSUME NEW slot \in Users, RequestSave(slot)
      PROVE  FollowInv'
  <2>1. /\ SaveAs("save", "slot", slot, slot, program)
        /\ UNCHANGED <<power, remembered, bank, draft>>
    BY <1>9, Zenon DEF RequestSave
  <2>2. UNCHANGED files
    BY <2>1, Zenon DEF SaveAs
  <2> QED BY <1>2, <2>1, <2>2, NotSavedYet, FollowQuiet
<1>10. ASSUME NEW slot \in Users, RequestLoad(slot)
       PROVE  FollowInv'
  <2>1. /\ UNCHANGED <<files, power, remembered, bank, draft>>
        /\ task' = IF reply'.status = "Ok" THEN [kind |-> "load", stage |-> "slot", slot |-> slot]
                   ELSE None
    BY <1>10, Zenon DEF RequestLoad
  <2>2. ~SlotSaved'
    BY <2>1 DEF SlotSaved
  <2> QED BY <1>2, <2>1, <2>2, FollowQuiet
<1>11. CASE RequestReset
  <2>1. /\ SaveAs("reset", "current", None, CurrentSlot, Default)
        /\ UNCHANGED <<power, remembered, bank, draft>>
    BY <1>11, Zenon DEF RequestReset, SaveCurrent
  <2>2. UNCHANGED files
    BY <2>1, Zenon DEF SaveAs
  <2> QED BY <1>2, <2>1, <2>2, NotASave, FollowQuiet
<1>12. CASE Sync
  <2>1. /\ SaveAs("sync", "current", None, CurrentSlot, program)
        /\ UNCHANGED <<power, remembered, bank, draft>>
    BY <1>12, Zenon DEF Sync, SaveCurrent
  <2>2. UNCHANGED files
    BY <2>1, Zenon DEF SaveAs
  <2> QED BY <1>2, <2>1, <2>2, NotASave, FollowQuiet
<1>13. CASE SlotDone
  <2>1. /\ power = "on" /\ task # None /\ call = None /\ task.stage = "slot"
        /\ UNCHANGED <<power, remembered, bank, draft>>
    BY <1>13, Zenon DEF SlotDone, AtStage
  <2>2. CASE reply.status # "Ok"
    <3>1. task' = None /\ UNCHANGED files
      BY <1>13, <2>2, Zenon DEF SlotDone, Answered
    <3>2. ~SlotSaved'
      BY <3>1 DEF SlotSaved
    <3> QED BY <1>2, <2>1, <3>1, <3>2, FollowQuiet
  <2>3. CASE reply.status = "Ok"
    <3>1. SaveAs(task.kind, "current", task.slot, CurrentSlot, program')
      BY <1>13, <2>3 DEF SlotDone, SaveCurrent
    <3>2. UNCHANGED files
      BY <3>1, Zenon DEF SaveAs
    <3>3. CASE task.kind = "save"
      <4>1. SlotSaved /\ task.slot \in Users
        BY <1>3, <2>1, <2>3, <3>3 DEF SlotSaved
      <4>2. \/ task' = None
            \/ task' = [kind |-> task.kind, stage |-> "current", slot |-> task.slot]
        BY <3>1, SaveBegun
      <4>3. SlotSaved' => task' # None /\ task'.slot = task.slot
        BY <4>2 DEF SlotSaved
      <4> QED BY <1>2, <2>1, <3>2, <4>1, <4>3, FollowQuiet
    <3>4. CASE task.kind # "save"
      BY <1>2, <2>1, <3>1, <3>2, <3>4, NotASave, FollowQuiet
    <3> QED BY <3>3, <3>4
  <2> QED BY <2>2, <2>3
<1>14. CASE FlashStep
  BY <1>14, FlashFollows
<1>15. CASE CurrentDone
  BY <1>15, ReplaceFollows
<1> QED BY <1>4, <1>5, <1>6, <1>7, <1>8, <1>9, <1>10, <1>11, <1>12, <1>13, <1>14, <1>15, Zenon
        DEF StorageNext, UserStep, Continue

(* The bank's entries are never newer than the files they were saved to,   *)
(* so the bank's own revision cannot run out first, and the draft is what  *)
(* was last saved or restored (ProgramBank::replace and ProgramDraft,      *)
(* saveCurrentProgram, program_storage_controller.cpp).                    *)
THEOREM RamCorrect == StorageSpec => []RamFollowsFlash
<1>1. StorageInit => FollowInv
  <2> SUFFICES ASSUME StorageInit PROVE FollowInv
    OBVIOUS
  <2>1. power = "off" /\ task = None /\ bank = [slot \in Users |-> None] /\ draft.program = Default
    BY DEF StorageInit
  <2> QED BY <2>1 DEF FollowInv, SlotSaved
<1>2. StorageInv /\ FollowInv /\ [StorageNext]_vars => FollowInv'
  BY FollowKept
<1>3. StorageInv /\ FollowInv => RamFollowsFlash
  <2> SUFFICES ASSUME FollowInv PROVE RamFollowsFlash
    OBVIOUS
  <2>1. \A slot \in Users, copy \in Copies : NewerIn(files[slot], copy) <=> Newer(slot, copy)
    BY Zenon DEF NewerIn, Newer, Holds, Revision
  <2>2. \A slot \in Users :
          bank[slot] # None =>
            \E copy \in Copies : Newer(slot, copy) /\ bank[slot].revision <= Revision(slot, copy)
    BY <2>1 DEF FollowInv, AtLeast, Revision
  <2>3. Idle => draft.program = remembered
    BY DEF FollowInv, Idle
  <2> QED BY <2>2, <2>3 DEF RamFollowsFlash
<1> QED BY <1>1, <1>2, <1>3, StorageAlways, PTL DEF StorageSpec

-----------------------------------------------------------------------------
(***************************************************************************)
(* What a load finds, whoever calls the store                              *)
(***************************************************************************)

(* The program load() answers when it cannot read the copies of "failed",  *)
(* or None.                                                                *)
LoadAnswer(slot, failed) ==
  LET selection == Selection(slot, failed)
  IN  IF selection.status = "Ok" THEN Content(slot, selection.copy) ELSE None

(* A load of a mounted store answers exactly that, or fails where there is *)
(* nothing to answer.                                                      *)
AnswersAreGiven(slot) ==
  \A failed \in SUBSET Copies :
    mounted /\ Load(slot, failed) =>
      /\ reply'.status = "Ok" => reply'.program = LoadAnswer(slot, failed)
      /\ reply'.status # "Ok" => LoadAnswer(slot, failed) = None

LEMMA LoadGivesAnswer ==
  ASSUME NEW slot \in Slots
  PROVE  AnswersAreGiven(slot)
<1> SUFFICES ASSUME NEW failed \in SUBSET Copies, mounted, Load(slot, failed)
             PROVE  /\ reply'.status = "Ok" => reply'.program = LoadAnswer(slot, failed)
                    /\ reply'.status # "Ok" => LoadAnswer(slot, failed) = None
  BY DEF AnswersAreGiven
<1> DEFINE selection == Selection(slot, failed)
<1>1. CASE selection.status = "Ok"
  <2>1. reply' = [status |-> "Ok", program |-> Content(slot, selection.copy)]
    BY <1>1 DEF Load
  <2> QED BY <1>1, <2>1 DEF LoadAnswer
<1>2. CASE selection.status # "Ok"
  <2>1. reply'.status # "Ok"
    BY <1>2 DEF Load, Answer
  <2> QED BY <1>2, <2>1 DEF LoadAnswer
<1> QED BY <1>1, <1>2

(* With both copies read a load never meets a conflict: it answers what    *)
(* the slot holds.                                                         *)
LEMMA AnswerIsStored ==
  ASSUME StoreInv, NEW slot \in Slots
  PROVE  LoadAnswer(slot, {}) = Values[slot]
<1> DEFINE pair == files[slot]
           selection == Selection(slot, {})
           copy == selection.copy
<1>1. TypedPair(pair) /\ Apart(pair) /\ {} \in SUBSET Copies
  BY DEF StoreInv, FilesInv
<1>2. Values[slot] = StoredIn(pair)
  BY StoredPairs
<1>3. \A c \in Copies : IsValid(pair[c]) => pair[c].revision \in 0 .. MaxRevision
  BY <1>1, Images DEF TypedPair
<1>4. selection.status # "Conflict"
  BY <1>1, NoConflict
<1>5. CASE selection.status = "Ok"
  <2>1. copy \in Copies /\ IsValid(pair[copy])
    BY <1>1, <1>5, SelectedIsValid
  <2>2. IsValid(pair[Other(copy)]) => pair[Other(copy)].revision < pair[copy].revision
    BY <1>1, <1>5, NewestIsSelected DEF Revision
  <2>3. LoadAnswer(slot, {}) = Decoded(pair[copy])
    BY <1>5 DEF LoadAnswer, Content
  <2> HIDE DEF pair, copy
  <2>4. StoredIn(pair) = Decoded(pair[copy])
    BY <1>3, <2>1, <2>2, StoreAssumption DEF StoredIn, NewerIn, Other, Copies
  <2> QED BY <1>2, <2>3, <2>4
<1>6. CASE selection.status # "Ok"
  <2>1. \A c \in Copies : ~IsValid(pair[c])
    BY <1>1, <1>4, <1>6, NewestIsSelected
  <2>2. LoadAnswer(slot, {}) = None
    BY <1>6 DEF LoadAnswer
  <2> QED BY <1>2, <2>1, <2>2 DEF StoredIn, NewerIn, Copies
<1> QED BY <1>5, <1>6

(* With a copy it cannot read it may answer the program before, or none.   *)
LEMMA AnswerIsKept ==
  ASSUME StoreInv, NEW slot \in Slots, NEW failed \in SUBSET Copies
  PROVE  LoadAnswer(slot, failed) \in {Values[slot], Previous[slot], None}
<1> DEFINE selection == Selection(slot, failed)
<1>1. CASE selection.status = "Ok"
  <2>1. selection.copy \in Copies /\ IsValid(files[slot][selection.copy])
    BY <1>1, SelectedIsValid
  <2>2. LoadAnswer(slot, failed) = Decoded(files[slot][selection.copy])
    BY <1>1 DEF LoadAnswer, Content
  <2>3. TypedPair(files[slot]) /\ Apart(files[slot])
    BY DEF StoreInv, FilesInv
  <2> HIDE DEF selection
  <2>4. Decoded(files[slot][selection.copy]) \in {StoredIn(files[slot]), BeforeIn(files[slot])}
    BY <2>1, <2>3, ValidIsStored
  <2>5. Values[slot] = StoredIn(files[slot]) /\ Previous[slot] = BeforeIn(files[slot])
    BY StoredPairs
  <2> QED BY <2>2, <2>4, <2>5
<1>2. CASE selection.status # "Ok"
  BY <1>2 DEF LoadAnswer
<1> QED BY <1>1, <1>2

(* A save that answered Ok is what the next load answers, and when a copy  *)
(* cannot be read the load answers it, the program saved before it, or an  *)
(* error.                                                                  *)
SavedIsLoaded(slot) ==
  Verify /\ call.slot = slot /\ reply'.status = "Ok" =>
    /\ LoadAnswer(slot, {})' = call.program
    /\ \A failed \in SUBSET Copies :
         LoadAnswer(slot, failed)' \in {call.program, StoredBefore(slot)', None}

(* Nothing but a save of the slot changes what a load answers, whatever    *)
(* fails on the way; and then it answers the program of that save.         *)
OnlySavesAreLoaded(slot) ==
  LoadAnswer(slot, {})' # LoadAnswer(slot, {}) =>
    call # None /\ call.slot = slot /\ LoadAnswer(slot, {})' = call.program

LEMMA AnswersFollow ==
  ASSUME StoreInv, DoneIsStored, [StoreAction]_storeVars, NEW slot \in Slots
  PROVE  AnswersAreGiven(slot) /\ SavedIsLoaded(slot) /\ OnlySavesAreLoaded(slot)
<1>1. StoreInv'
  BY StoreStep DEF StoreAction
<1>2. LoadAnswer(slot, {}) = Values[slot] /\ LoadAnswer(slot, {})' = Values'[slot]
  <2>1. (StoreInv => LoadAnswer(slot, {}) = Values[slot])'
    BY AnswerIsStored, PTL
  <2> QED BY <1>1, <2>1, AnswerIsStored
<1>3. ASSUME Verify, call.slot = slot, reply'.status = "Ok"
      PROVE  /\ LoadAnswer(slot, {})' = call.program
             /\ \A failed \in SUBSET Copies :
                  LoadAnswer(slot, failed)' \in {call.program, StoredBefore(slot)', None}
  <2>1. UNCHANGED files
    BY <1>3, Zenon DEF Verify
  <2>2. Values' = Values
    BY <2>1, UnchangedFiles
  <2>3. Values'[slot] = call.program
    BY <1>3, <2>2, VerifiedIsStored
  <2>4. Previous'[slot] = StoredBefore(slot)'
    BY DEF Previous
  <2>5. ASSUME NEW failed \in SUBSET Copies
        PROVE  LoadAnswer(slot, failed)' \in {call.program, StoredBefore(slot)', None}
    <3>1. (StoreInv => LoadAnswer(slot, failed) \in {Values[slot], Previous[slot], None})'
      BY AnswerIsKept, PTL
    <3> QED BY <1>1, <2>3, <2>4, <3>1
  <2> QED BY <1>2, <2>3, <2>5
<1>4. OnlySavesAreLoaded(slot)
  BY <1>2, OnlyItsSave DEF OnlySavesAreLoaded
<1> QED BY <1>3, <1>4, LoadGivesAnswer DEF SavedIsLoaded

(* The codec, the choice of the copy, the revisions and the verification   *)
(* together (program_slot_store.cpp:50-170, program_codec.cpp): under any  *)
(* caller, every fault and every power cut, loads follow saves.            *)
THEOREM LoadsFollowSaves ==
  Spec =>
    [][\A slot \in Slots :
         AnswersAreGiven(slot) /\ SavedIsLoaded(slot) /\ OnlySavesAreLoaded(slot)]_storeVars
<1>1. Init => StoreInv /\ DoneIsStored
  <2> SUFFICES ASSUME Init PROVE StoreInv /\ DoneIsStored
    OBVIOUS
  <2>1. Saving = None
    BY DEF Init, Saving, SavingOf
  <2> QED BY <2>1, InitStore DEF DoneIsStored
<1>2. StoreInv /\ DoneIsStored /\ [Next]_storeVars => StoreInv' /\ DoneIsStored'
  BY StoreStep, DoneStaysStored DEF StoreAction
<1>3. StoreInv /\ DoneIsStored /\ [Next]_storeVars =>
        [\A slot \in Slots :
           AnswersAreGiven(slot) /\ SavedIsLoaded(slot) /\ OnlySavesAreLoaded(slot)]_storeVars
  BY AnswersFollow DEF StoreAction
<1> QED BY <1>1, <1>2, <1>3, PTL DEF Spec
=============================================================================
