--------------------------- MODULE UiViewModel_proofs ---------------------------
(***************************************************************************)
(* The view model acts as one register, for every number of words, every   *)
(* content and every number of publications.                               *)
(***************************************************************************)
EXTENDS UiViewModel, TLAPS

(* The parity of a generation alternates.                                  *)
LEMMA Parity ==
  ASSUME NEW n \in Nat
  PROVE  /\ Even(n + 1) <=> ~Even(n)
         /\ n + 1 \in Nat
BY DEF Even

(* Power-on satisfies the invariant.                                       *)
LEMMA InitInvariant == Init => SeqlockInvariant
<1> SUFFICES ASSUME Init PROVE SeqlockInvariant
  OBVIOUS
<1>1. TypeOK
  <2>1. reading \in BOOLEAN
    BY Zenon DEF Init
  <2> QED BY <2>1, ViewModelAssumption DEF Init, TypeOK
<1>2. WriterConsistent
  BY DEF Init, WriterConsistent, Published, Even
<1>3. ReaderConsistent
  BY DEF Init, ReaderConsistent
<1> QED BY <1>1, <1>2, <1>3 DEF SeqlockInvariant

(* Steps of core 0 keep it; only the words already stored matter.          *)
LEMMA PublishKeepsInvariant ==
  ASSUME SeqlockInvariant, Publish
  PROVE  SeqlockInvariant'
<1> USE ViewModelAssumption
<1>1. ASSUME NEW settings \in Settings, BeginPublish(settings)
      PROVE  SeqlockInvariant'
  <2>1. Even(generation) /\ ~Even(generation + 1) /\ generation + 1 \in Nat
    BY <1>1, Parity DEF BeginPublish, SeqlockInvariant, TypeOK, WriterConsistent
  <2>2. TypeOK'
    BY <1>1, <2>1 DEF BeginPublish, SeqlockInvariant, TypeOK, readerVars
  <2>3. WriterConsistent'
    BY <1>1, <2>1 DEF BeginPublish, WriterConsistent
  <2>4. ReaderConsistent'
    BY <1>1, <2>1 DEF BeginPublish, SeqlockInvariant, TypeOK, ReaderConsistent, readerVars
  <2> QED BY <2>2, <2>3, <2>4 DEF SeqlockInvariant
<1>2. CASE StoreWord
  <2>1. writing \in Settings /\ stored + 1 \in Words
    BY <1>2 DEF StoreWord, SeqlockInvariant, TypeOK, Words
  <2>2. words' \in Settings
    BY <1>2, <2>1 DEF StoreWord, SeqlockInvariant, TypeOK, Settings
  <2>3. TypeOK'
    BY <1>2, <2>2 DEF StoreWord, SeqlockInvariant, TypeOK, readerVars
  <2>4. WriterConsistent'
    BY <1>2, <2>1 DEF StoreWord, SeqlockInvariant, TypeOK, WriterConsistent, Settings, Words
  <2>5. ~Even(generation)
    BY <1>2 DEF StoreWord, SeqlockInvariant, WriterConsistent
  <2>6. ReaderConsistent'
    BY <1>2, <2>5 DEF StoreWord, SeqlockInvariant, ReaderConsistent, readerVars
  <2> QED BY <2>3, <2>4, <2>6 DEF SeqlockInvariant
<1>3. CASE EndPublish
  <2>1. /\ writing \in Settings
        /\ ~Even(generation)
        /\ Even(generation + 1)
        /\ generation + 1 \in Nat
    BY <1>3, Parity DEF EndPublish, SeqlockInvariant, TypeOK, WriterConsistent
  <2>2. words = writing
    BY <1>3, <2>1 DEF EndPublish, SeqlockInvariant, TypeOK, WriterConsistent, Settings, Words
  <2>3. TypeOK'
    BY <1>3, <2>1 DEF EndPublish, SeqlockInvariant, TypeOK, readerVars
  <2>4. WriterConsistent'
    BY <1>3, <2>1, <2>2 DEF EndPublish, WriterConsistent, Published
  <2>5. ReaderConsistent'
    BY <1>3, <2>1 DEF EndPublish, SeqlockInvariant, TypeOK, ReaderConsistent, readerVars
  <2> QED BY <2>3, <2>4, <2>5 DEF SeqlockInvariant
<1> QED BY <1>1, <1>2, <1>3 DEF Publish

(* Steps of core 1 keep it and do not touch core 0's state.                *)
LEMMA ReadKeepsInvariant ==
  ASSUME SeqlockInvariant, Read
  PROVE  SeqlockInvariant'
<1> USE ViewModelAssumption
<1>1. UNCHANGED writerVars
  BY DEF Read, BeginRead, LoadWord, EndRead, Retry
<1>2. WriterConsistent'
  BY <1>1 DEF writerVars, SeqlockInvariant, WriterConsistent, Published
<1>3. CASE BeginRead
  <2>1. TypeOK' /\ ReaderConsistent'
    BY <1>3, <1>1 DEF BeginRead, SeqlockInvariant, TypeOK, ReaderConsistent, writerVars
  <2> QED BY <1>2, <2>1 DEF SeqlockInvariant
<1>4. CASE LoadWord
  <2>1. loaded + 1 \in Words /\ words[loaded + 1] \in Contents
    BY <1>4 DEF LoadWord, SeqlockInvariant, TypeOK, Settings, Words
  <2>2. copy' \in Settings
    BY <1>4, <2>1 DEF LoadWord, SeqlockInvariant, TypeOK, Settings
  <2>3. TypeOK'
    BY <1>4, <1>1, <2>2 DEF LoadWord, SeqlockInvariant, TypeOK, writerVars
  <2>4. ReaderConsistent'
    BY <1>4, <1>1, <2>1
       DEF LoadWord, SeqlockInvariant, TypeOK, ReaderConsistent, writerVars, Settings, Words
  <2> QED BY <1>2, <2>3, <2>4 DEF SeqlockInvariant
<1>5. CASE EndRead \/ Retry
  <2>1. TypeOK' /\ ReaderConsistent'
    BY <1>5, <1>1 DEF EndRead, Retry, SeqlockInvariant, TypeOK, ReaderConsistent, writerVars
  <2> QED BY <1>2, <2>1 DEF SeqlockInvariant
<1> QED BY <1>3, <1>4, <1>5 DEF Read

(* The generation and the words are consistent in every reachable state,   *)
(* and so is what a reader has loaded.                                     *)
THEOREM SeqlockCorrect == Spec => []SeqlockInvariant
<1>1. SeqlockInvariant /\ [Next]_vars => SeqlockInvariant'
  <2>1. ASSUME SeqlockInvariant, UNCHANGED vars
        PROVE  SeqlockInvariant'
    BY <2>1 DEF vars, writerVars, readerVars, SeqlockInvariant, TypeOK, WriterConsistent,
                ReaderConsistent, Published
  <2> QED BY <2>1, PublishKeepsInvariant, ReadKeepsInvariant DEF Next
<1> QED BY <1>1, InitInvariant, PTL DEF Spec

-----------------------------------------------------------------------------
(* A reader whose round was undisturbed has copied what was published      *)
(* last.                                                                   *)
LEMMA UndisturbedRead ==
  ASSUME SeqlockInvariant, EndRead
  PROVE  shown' = Published
<1>1. writing = None
  BY DEF EndRead, SeqlockInvariant, WriterConsistent, ReaderConsistent
<1>2. words = Published
  BY <1>1 DEF SeqlockInvariant, WriterConsistent
<1>3. copy = words
  BY DEF EndRead, SeqlockInvariant, TypeOK, ReaderConsistent, Settings, Words
<1> QED BY <1>2, <1>3 DEF EndRead

(* Every step of the two cores is a step of the register or none.          *)
LEMMA StepRefines ==
  ASSUME SeqlockInvariant, [Next]_vars
  PROVE  [Register!Replace \/ Register!TakeOver]_<<Published, shown>>
<1> USE ViewModelAssumption
<1>1. Published' \in Settings \/ UNCHANGED lastPublished
  BY DEF SeqlockInvariant, TypeOK, Next, Publish, Read, BeginPublish, StoreWord, EndPublish,
         BeginRead, LoadWord, EndRead, Retry, vars, writerVars, Published
<1>2. CASE Publish
  <2>1. UNCHANGED shown
    BY <1>2 DEF Publish, BeginPublish, StoreWord, EndPublish, readerVars
  <2> QED BY <1>1, <2>1 DEF Register!Replace, Published
<1>3. CASE EndRead
  BY <1>3, UndisturbedRead DEF Register!TakeOver, EndRead, writerVars, Published
<1>4. CASE BeginRead \/ LoadWord \/ Retry \/ UNCHANGED vars
  BY <1>4 DEF BeginRead, LoadWord, Retry, vars, writerVars, readerVars, Published
<1> QED BY <1>2, <1>3, <1>4 DEF Next, Read

(* The view model implements the register: the display only ever takes     *)
(* over, in one step, the settings published last.                         *)
THEOREM ViewModelRefines == Spec => ActsAsRegister
<1>1. Init => Register!RegisterInit
  BY DEF Init, Register!RegisterInit, Published
<1>2. SeqlockInvariant /\ [Next]_vars
        => [Register!Replace \/ Register!TakeOver]_<<Published, shown>>
  BY StepRefines
<1> QED BY <1>1, <1>2, SeqlockCorrect, PTL DEF Spec, ActsAsRegister, Register!RegisterSpec
=============================================================================
