---------------------------- MODULE ProgramCodec ----------------------------
(***************************************************************************)
(* What a file holds of a program (program/program_codec.cpp).  A program  *)
(* gives each field a value; an image carries a revision and, by tag, the  *)
(* values it was written with.  "whole" stands for what decodeProgram asks *)
(* before it looks at a value: magic, version, sizes, CRC, TLV framing, no *)
(* known tag twice.  CRC-32 is taken to tell any two contents apart.       *)
(***************************************************************************)
EXTENDS Integers

CONSTANTS
  Fields,        \* the tags this firmware knows
  Valid,         \* the values isValid() accepts, for each field
  Default,       \* Program{}
  MaxSwing,      \* PROGRAM_MAX_SWING
  LegacySwings   \* what older firmware allowed above it

Programs == {program \in [Fields -> UNION {Valid[field] : field \in Fields}] :
               \A field \in Fields : program[field] \in Valid[field]}

ASSUME CodecAssumption ==
  /\ Default \in Programs
  /\ "swing" \in Fields => MaxSwing \in Valid["swing"] /\ Valid["swing"] \cap LegacySwings = {}

(* encodeProgram, for a program isValid() accepts.                         *)
Encode(program, revision) == [whole |-> TRUE, revision |-> revision, content |-> program]

(* A write that did not get through: no decoder accepts it.                *)
Torn == [whole |-> FALSE, revision |-> 0, content |-> Default]

(* The swing of older firmware is cut down to the largest one of today.    *)
Normalized(field, value) ==
  IF field = "swing" /\ value \in LegacySwings THEN MaxSwing ELSE value

(* decodeProgram answers Ok: unknown tags are skipped, known ones valid.   *)
Decodable(image) ==
  /\ image.whole
  /\ \A field \in Fields :
        field \in DOMAIN image.content =>
          Normalized(field, image.content[field]) \in Valid[field]

(* The program it then returns: a field without a tag keeps its default.   *)
Decoded(image) ==
  [field \in Fields |->
     IF field \in DOMAIN image.content THEN Normalized(field, image.content[field])
     ELSE Default[field]]
=============================================================================
