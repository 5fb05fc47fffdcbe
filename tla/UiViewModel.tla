----------------------------- MODULE UiViewModel -----------------------------
(***************************************************************************)
(* The settings core 0 publishes and core 1 draws                          *)
(* (components/ui_view_model.h).  They are packed into words, each written *)
(* and read by one atomic access in a total order (seq_cst), guarded by a  *)
(* generation that is odd while a publication is under way.  A settings    *)
(* value is here the function from word numbers to word contents; packing  *)
(* keeps every field that sameSettings compares.                           *)
(*                                                                         *)
(* The 32-bit generation would have to go round once within one read to    *)
(* deceive the reader; here it is a natural number.                        *)
(***************************************************************************)
EXTENDS Integers

CONSTANTS
  WordCount,       \* 26 in the code
  Contents,        \* what a word may hold
  MaxGeneration,   \* bound of the model: no publication begins at it
  Blank,           \* the words at power-on
  None             \* the empty std::optional

Words == 1 .. WordCount

Settings == [Words -> Contents]

ASSUME ViewModelAssumption ==
  /\ WordCount \in Nat \ {0}
  /\ MaxGeneration \in Nat
  /\ Blank \in Settings
  /\ None \notin Settings

VARIABLES
  generation,     \* _generation
  words,          \* _packed .. _programStoragePacked
  lastPublished,  \* _lastPublished
  writing,        \* the argument of the publish() under way, or None
  stored,         \* how many of its words are stored
  reading,        \* read() is between its two loads of the generation
  before,         \* local of read()
  loaded,         \* how many words read() has loaded
  copy,           \* the words read() has loaded
  shown           \* what the last read() returned

writerVars == <<generation, words, lastPublished, writing, stored>>
readerVars == <<reading, before, loaded, copy, shown>>
vars == <<writerVars, readerVars>>

Init ==
  /\ generation = 0
  /\ words = Blank
  /\ lastPublished = None
  /\ writing = None
  /\ stored = 0
  /\ reading = FALSE
  /\ before = 0
  /\ loaded = 0
  /\ copy = Blank
  /\ shown = Blank

(* Every variable has its type.                                            *)
TypeOK ==
  /\ generation \in Nat
  /\ words \in Settings
  /\ lastPublished \in Settings \cup {None}
  /\ writing \in Settings \cup {None}
  /\ stored \in 0 .. WordCount
  /\ reading \in BOOLEAN
  /\ before \in Nat
  /\ loaded \in 0 .. WordCount
  /\ copy \in Settings
  /\ shown \in Settings

-----------------------------------------------------------------------------
(***************************************************************************)
(* Core 0: publish().  Settings equal to the last ones are not written.    *)
(***************************************************************************)
Even(n) == n % 2 = 0

BeginPublish(settings) ==
  /\ writing = None
  /\ settings # lastPublished
  /\ generation < MaxGeneration
  /\ generation' = generation + 1
  /\ writing' = settings
  /\ stored' = 0
  /\ UNCHANGED <<words, lastPublished, readerVars>>

StoreWord ==
  /\ writing # None
  /\ stored < WordCount
  /\ words' = [words EXCEPT ![stored + 1] = writing[stored + 1]]
  /\ stored' = stored + 1
  /\ UNCHANGED <<generation, lastPublished, writing, readerVars>>

(* Fault: the publication ends before its last word.                       *)
EndPublishEarly ==
  /\ writing # None
  /\ stored + 1 = WordCount
  /\ generation' = generation + 1
  /\ lastPublished' = writing
  /\ writing' = None
  /\ UNCHANGED <<words, stored, readerVars>>

(* Fault: the generation is left odd.                                      *)
EndPublishOdd ==
  /\ writing # None
  /\ stored = WordCount
  /\ lastPublished' = writing
  /\ writing' = None
  /\ UNCHANGED <<generation, words, stored, readerVars>>

EndPublish ==
  /\ writing # None
  /\ stored = WordCount
  /\ generation' = generation + 1
  /\ lastPublished' = writing
  /\ writing' = None
  /\ UNCHANGED <<words, stored, readerVars>>

-----------------------------------------------------------------------------
(***************************************************************************)
(* Core 1: read(), which starts over until a whole round was undisturbed.  *)
(***************************************************************************)
(* Fault: a publication under way is not noticed.                          *)
BeginReadAlways ==
  /\ ~reading
  /\ before' = generation
  /\ reading' = TRUE
  /\ loaded' = 0
  /\ UNCHANGED <<writerVars, copy, shown>>

BeginRead ==
  /\ ~reading
  /\ Even(generation)
  /\ before' = generation
  /\ reading' = TRUE
  /\ loaded' = 0
  /\ UNCHANGED <<writerVars, copy, shown>>

LoadWord ==
  /\ reading
  /\ loaded < WordCount
  /\ copy' = [copy EXCEPT ![loaded + 1] = words[loaded + 1]]
  /\ loaded' = loaded + 1
  /\ UNCHANGED <<writerVars, reading, before, shown>>

EndRead ==
  /\ reading
  /\ loaded = WordCount
  /\ generation = before
  /\ reading' = FALSE
  /\ shown' = copy
  /\ UNCHANGED <<writerVars, before, loaded, copy>>

Retry ==
  /\ reading
  /\ loaded = WordCount
  /\ generation # before
  /\ reading' = FALSE
  /\ UNCHANGED <<writerVars, before, loaded, copy, shown>>

Publish ==
  \/ \E settings \in Settings : BeginPublish(settings)
  \/ StoreWord
  \/ EndPublish

Read ==
  \/ BeginRead
  \/ LoadWord
  \/ EndRead
  \/ Retry

Next == Publish \/ Read

Spec == Init /\ [][Next]_vars

-----------------------------------------------------------------------------
(* What core 0 has published in full.                                      *)
Published == IF lastPublished = None THEN Blank ELSE lastPublished

(* The generation tells whether a publication is under way; between        *)
(* publications the words are those of the last one, within one they are   *)
(* a mixture known word by word.                                           *)
WriterConsistent ==
  /\ Even(generation) <=> writing = None
  /\ writing = None => words = Published
  /\ writing # None => \A w \in 1 .. stored : words[w] = writing[w]

(* As long as the generation is the one its read began with, the reader    *)
(* has loaded exactly what the words hold now (ui_view_model.h:71-101).    *)
ReaderConsistent ==
  reading =>
    /\ before <= generation
    /\ Even(before)
    /\ generation = before => \A w \in 1 .. loaded : copy[w] = words[w]

SeqlockInvariant == TypeOK /\ WriterConsistent /\ ReaderConsistent

(* Seen from outside, publish() and read() are atomic: the display always  *)
(* takes over, in one step, the settings published last at that moment,    *)
(* never words of two publications and never an older one again.           *)
Register == INSTANCE DisplayRegister
              WITH Values <- Settings, Default <- Blank,
                   value <- Published, display <- shown

ActsAsRegister == Register!RegisterSpec

(* Both cores keep running: publish() and read() are called in loops.      *)
Fairness == WF_vars(StoreWord \/ EndPublish) /\ WF_vars(Read)

SpecFair == Spec /\ Fairness

(* Once core 0 has nothing new to publish, the display comes to show what  *)
(* was published last: a reader that had to retry does so until it succeeds*)
(* and no publication is lost by the skip of equal settings.               *)
DisplayCatchesUp == <>[](writing = None) => <>[](shown = Published)
=============================================================================
