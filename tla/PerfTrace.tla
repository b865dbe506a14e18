------------------------------ MODULE PerfTrace ------------------------------
(***************************************************************************)
(* Performance data from the counters to the files: the library that cores *)
(* record it with (sifive_perf.c), the trace buffer, which may have lost   *)
(* the beginning or single words, and the decoder's PerfConverter.         *)
(*                                                                         *)
(* A word is kept with the line it completes, and expected has the lines   *)
(* that the converter must still write.                                    *)
(***************************************************************************)
EXTENDS PerfConverter, SequencesExt

CONSTANTS
  Masks,       \* counter masks a program may ask for, for all cores
  MarkerCnts,  \* how often it may ask for a marker (0: once)
  Addresses,   \* where records are made
  Functions,   \* functions, with where they are called from
  Values,      \* counter values
  EventOf,     \* what a programmable counter counts
  HighRange,   \* a counter's high word is written modulo this (2^16)
  MaxCalls,    \* bound of the model: records and initialisations
  MaxGaps      \* bound of the model: beginnings and words lost

\* Code is at even addresses.  A converter that looks for a marker would take for
\* one any word that looks like it, also in an address, a mask or an event.
Wides == Nat \X Nat
Markers == {markerValue, funcMarkerValue}
Unmarked == Nat \ Markers
CodeAddress == {a \in Unmarked \X Unmarked : a[2] % 2 = 0 /\ a[2] + 1 \notin Markers}

Lines ==
  [kind : {"Address"}, pc : Wides] \cup [kind : {"FuncEnter", "FuncExit"}, fn : Wides, site : Wides]
  \cup [kind : {"PerfCntr"}, pc : Wides, index : Nat, value : Wides]
  \cup [kind : {"PerfCntrMask"}, mask : Nat] \cup [kind : {"PerfCntrDef"}, index : Nat, value : Wides]
CoreLines == [core : Core, what : Lines]
Words == [core : Core, perf : BOOLEAN, offset : {0, 2, 3}, data : Nat, done : SUBSET CoreLines]

ASSUME LibraryAssumption ==
  /\ \A m \in Masks, c \in Core : m[c] \in 0..2 ^ NumCntrs - 1 /\ m[c] \in Unmarked
  /\ MarkerCnts \subseteq Nat /\ HighRange \in Nat \ {0}
  /\ Addresses \subseteq CodeAddress /\ Functions \subseteq CodeAddress \X CodeAddress
  /\ Values \subseteq Wides /\ Values # {}
  /\ EventOf \in [0..NumCntrs - 1 -> Unmarked \X Unmarked]
  /\ Call \notin Markers
  /\ None \notin CoreLines /\ None \notin Words

VARIABLES
  traceType,   \* "manual" (or timer) or "func"
  enabled,     \* perfTraceOn was called
  mask,        \* per core, the counters to record
  markerCnt,   \* per core, records up to the next marker, and the number to
  reload,      \*   start again with
  infunc,      \* shared by all cores: a function hook is at work
  hook,        \* per core, "out", "passed" (the test of infunc) or "in"
  todo,        \* per core, what the record in work has still to write
  kept,        \* FALSE: the buffer will wrap over what is written now
  inSync,      \* per core, "no" before its first kept marker, "lost" after a lost word
               \*   and where the converter loses its way
  expected,    \* per core, lines to come
  calls, gaps  \* counters of the bounds

libraryVars == <<traceType, enabled, mask, markerCnt, reload, infunc, hook>>
bufferVars == <<kept, inSync, expected, gaps>>
vars == <<readerVars, libraryVars, bufferVars, todo, calls>>

\* The converter reads a recorded trace and cannot tell when a word was written:
\* the cores run on when it is through with the words there are.
Meanwhile == word = None /\ line' = None /\ UNCHANGED <<word, reader, status>>

\* A word of c at a byte of the register, and the lines it completes.
Word(c, offset, data, done) ==
  [core |-> c, perf |-> TRUE, offset |-> offset, data |-> data,
   done |-> {[core |-> c, what |-> l] : l \in done}]

perfMarkerVal == IF traceType = "func" THEN funcMarkerValue ELSE markerValue

\* The loops over a mask are in todo as the counter whose turn comes next, from i
\* on: that of the events of programmable counters, and that of the counters.
EventsFrom(c, i) ==
  LET n == NextIndex(mask[c], i) IN IF n = NumCntrs THEN <<>> ELSE <<[event |-> n]>>

perfEmitCntrs(c, a, i) ==
  LET n == NextIndex(mask[c], i) IN IF n = NumCntrs THEN <<>> ELSE <<[counter |-> n, pc |-> a]>>

EmitEvent(c, i) ==
  <<Word(c, 0, EventOf[i][2], {}),
    Word(c, 0, EventOf[i][1], {[kind |-> "PerfCntrDef", index |-> i, value |-> EventOf[i]]})>>

\* The marker, the mask, and the events.
MaskWord(c) == Word(c, 0, mask[c], {[kind |-> "PerfCntrMask", mask |-> mask[c]]})
perfEmitMarker(c) == <<Word(c, 0, perfMarkerVal, {}), MaskWord(c)>> \o EventsFrom(c, 3)

\* A record begins with a marker when its turn has come.
MarkerIfDue(c) == IF markerCnt[c] = 1 THEN perfEmitMarker(c) ELSE <<>>
CountRecord(c) ==
  markerCnt' = [markerCnt EXCEPT ![c] = CASE @ > 1 -> @ - 1 [] @ = 1 -> reload[c] [] OTHER -> @]

\* An address needs a second word if it has a high part.
EmitAddress(c, a, done) ==
  IF a[1] # 0 THEN <<Word(c, 0, a[2] + 1, {}), Word(c, 0, a[1], done)>>
  ELSE <<Word(c, 0, a[2], done)>>

\* Counters are read when their turn comes.
EmitCntr(c, i, a, v) ==
  LET done == {[kind |-> "PerfCntr", pc |-> a, index |-> i, value |-> v]}
  IN IF v[1] # 0 THEN <<Word(c, 0, v[2], {}), Word(c, 2, v[1] % HighRange, done)>>
     ELSE <<Word(c, 0, v[2], done)>>

FuncLine(enters, fn, site) ==
  {[kind |-> IF enters THEN "FuncEnter" ELSE "FuncExit", fn |-> fn, site |-> site]}

\* What follows the marker of a record: of the timer or a manual call, and of a
\* function hook.
ManualRecord(c, a) == EmitAddress(c, a, {[kind |-> "Address", pc |-> a]}) \o perfEmitCntrs(c, a, 0)

HookSite(c, enters, fn, site) ==
  EmitAddress(c, site, FuncLine(enters, fn, site)) \o perfEmitCntrs(c, fn, 0)
HookRecord(c, enters, fn, site) ==
  (IF enters THEN <<Word(c, 3, Call, {})>> ELSE <<>>)
  \o (EmitAddress(c, fn, {}) \o HookSite(c, enters, fn, site))
-----------------------------------------------------------------------------
Free(c) == todo[c] = <<>> /\ hook[c] = "out"
Counted == calls < MaxCalls /\ calls' = calls + 1

\* perfWriteCntrs, or the timer interrupt.
perfWriteCntrs(c, a) ==
  /\ traceType = "manual" /\ enabled /\ Free(c) /\ Counted
  /\ todo' = [todo EXCEPT ![c] = MarkerIfDue(c) \o ManualRecord(c, a)]
  /\ CountRecord(c)
  /\ Meanwhile /\ UNCHANGED <<bufferVars, traceType, enabled, mask, reload, infunc, hook>>

\* Function hooks.  One that finds infunc set only prints an error.
HookPasses(c) ==
  /\ traceType = "func" /\ enabled /\ Free(c) /\ ~infunc /\ Counted
  /\ hook' = [hook EXCEPT ![c] = "passed"]
  /\ Meanwhile /\ UNCHANGED <<bufferVars, todo, traceType, enabled, mask, markerCnt, reload, infunc>>

HookWrites(c, enters, fn, site) ==
  /\ hook[c] = "passed"
  /\ hook' = [hook EXCEPT ![c] = IF enabled THEN "in" ELSE "out"]
  /\ infunc' = enabled
  /\ IF ~enabled THEN UNCHANGED <<todo, markerCnt>>
     ELSE /\ todo' = [todo EXCEPT ![c] = MarkerIfDue(c) \o HookRecord(c, enters, fn, site)]
          /\ CountRecord(c)
  /\ Meanwhile /\ UNCHANGED <<bufferVars, traceType, enabled, mask, reload, calls>>

HookReturns(c) ==
  /\ hook[c] = "in" /\ todo[c] = <<>>
  /\ infunc' = FALSE /\ hook' = [hook EXCEPT ![c] = "out"]
  /\ Meanwhile /\ UNCHANGED <<bufferVars, todo, calls, traceType, enabled, mask, markerCnt, reload>>

perfTraceOn ==
  /\ ~enabled /\ enabled' = TRUE
  /\ Meanwhile /\ UNCHANGED <<bufferVars, todo, calls, traceType, mask, markerCnt, reload, infunc, hook>>

perfTraceOff ==
  /\ enabled /\ enabled' = FALSE /\ Counted
  /\ Meanwhile /\ UNCHANGED <<bufferVars, todo, traceType, mask, markerCnt, reload, infunc, hook>>

\* All cores are set up (perfManualInit, perfFuncEntryExitInit); the first call
\* switches recording off.
perfTraceInit(type, m, cnt) ==
  /\ \A c \in Core : Free(c)
  /\ Counted
  /\ traceType' = type /\ enabled' = FALSE
  /\ mask' = m /\ markerCnt' = [c \in Core |-> 1]
  /\ reload' = [c \in Core |-> cnt]
  /\ Meanwhile /\ UNCHANGED <<bufferVars, todo, infunc, hook>>
-----------------------------------------------------------------------------
\* What a core writes next: the word at the head of its record, or a turn of one
\* of the loops, a counter with the value it has now.
IsEvent(item) == "event" \in DOMAIN item
IsCntr(item) == "counter" \in DOMAIN item
Turn(c, item, v) ==
  CASE IsEvent(item) -> EmitEvent(c, item.event) \o EventsFrom(c, item.event + 1)
    [] IsCntr(item) -> EmitCntr(c, item.counter, item.pc, v) \o perfEmitCntrs(c, item.pc, item.counter + 1)
    [] OTHER -> <<item>>
Written(c, v) == Turn(c, Head(todo[c]), v) \o Tail(todo[c])

\* Values that look like a marker are told from one only by a converter in step.
Plain(c, v) == inSync[c] = "yes" \/ {v[1], v[2]} \cap {markerValue, funcMarkerValue} = {}

Writing(c, v) ==
  /\ todo[c] # <<>>
  /\ IF IsCntr(Head(todo[c])) THEN Plain(c, v) ELSE v = CHOOSE u \in Values : TRUE
  /\ todo' = [todo EXCEPT ![c] = Tail(Written(c, v))]
  /\ UNCHANGED <<libraryVars, kept, calls>>

\* Behind a mask the converter understands one definition.  It takes the low word of
\* the second for a high one, and from there on reads every word as another.
Misleads(item, m) == IsEvent(item) /\ item.event # NextIndex(m, 3)

SyncAfter(c, w) ==
  CASE kept /\ inSync[c] = "no" /\ w.data = perfMarkerVal -> "yes"
    [] inSync[c] = "yes" /\ Misleads(Head(todo[c]), mask[c]) -> "lost"
    [] OTHER -> inSync[c]

WriteWord(c, v) ==
  /\ Writing(c, v)
  /\ LET w == Head(Written(c, v))
         sync == SyncAfter(c, w)
     IN /\ IF kept THEN TakeWord(w) ELSE Meanwhile
        /\ inSync' = [inSync EXCEPT ![c] = sync]
        /\ expected' = [expected EXCEPT ![c] = IF sync = "yes" THEN @ \o SetToSeq(w.done) ELSE <<>>]
  /\ UNCHANGED gaps

\* The encoder overflows: teStallEnable is off.
LoseWord(c, v) ==
  /\ kept /\ gaps < MaxGaps /\ gaps' = gaps + 1
  /\ Writing(c, v)
  /\ inSync' = [inSync EXCEPT ![c] = "lost"] /\ expected' = [expected EXCEPT ![c] = <<>>]
  /\ Meanwhile

\* What follows is still in the buffer when it is read.
BufferStarts ==
  /\ ~kept /\ kept' = TRUE
  /\ Meanwhile /\ UNCHANGED <<libraryVars, todo, calls, inSync, expected, gaps>>

\* The program prints on another channel, also between two words of a record.
WriteOther(c) ==
  /\ kept /\ Counted
  /\ TakeWord([Word(c, 0, markerValue, {}) EXCEPT !.perf = FALSE])
  /\ UNCHANGED <<libraryVars, todo, kept, inSync, expected, gaps>>

\* The line that is written is no longer expected.
Converter ==
  /\ ProcessITCPerf
  /\ expected' = IF line' # None /\ expected[word.core] # <<>>
                 THEN [expected EXCEPT ![word.core] = Tail(@)] ELSE expected
  /\ UNCHANGED <<libraryVars, todo, calls, kept, inSync, gaps>>

Init ==
  /\ ReaderInit
  /\ traceType \in {"manual", "func"} /\ enabled = FALSE
  /\ mask \in Masks
  /\ markerCnt = [c \in Core |-> 1] /\ reload \in {[c \in Core |-> n] : n \in MarkerCnts}
  /\ infunc = FALSE /\ hook = [c \in Core |-> "out"]
  /\ todo = [c \in Core |-> <<>>] /\ kept \in BOOLEAN /\ gaps = IF kept THEN 0 ELSE 1
  /\ inSync = [c \in Core |-> "no"] /\ expected = [c \in Core |-> <<>>]
  /\ calls = 0

Library(c) ==
  \/ \E a \in Addresses : perfWriteCntrs(c, a)
  \/ HookPasses(c) \/ HookReturns(c) \/ WriteOther(c)
  \/ \E enters \in BOOLEAN, f \in Functions : HookWrites(c, enters, f[1], f[2])
  \/ \E v \in Values : WriteWord(c, v) \/ LoseWord(c, v)

Next ==
  \/ \E c \in Core : Library(c)
  \/ perfTraceOn \/ perfTraceOff \/ BufferStarts
  \/ \E type \in {"manual", "func"}, m \in Masks, cnt \in MarkerCnts : perfTraceInit(type, m, cnt)
  \/ Converter

\* processITCPerf runs until it is through with its word.
Spec == Init /\ [][Next]_vars /\ WF_vars(Converter)
-----------------------------------------------------------------------------
\* Properties.

\* The lines of each core are what it recorded from the first marker on, in that
\* order: a word that ends one record and begins the next is split right, values
\* that look like markers are not taken for them, and cores do not mix, whatever
\* the masks, the kinds of record, and words lost on another core.  It is so up to
\* the first lost word and the first mask with two programmable counters.
LinesAreRecords ==
  [][line' # None /\ inSync[word.core] # "lost" =>
       /\ expected[word.core] # <<>>
       /\ line' = Head(expected[word.core])]_vars

\* When all that was written is read, only a core's last counter is not out, and
\* the converter has its value (on the cores on which it has its way).
OnlyLastHeldBack ==
  word = None =>
    \A c \in Core : inSync[c] = "yes" =>
      \/ expected[c] = <<>>
      \/ /\ Len(expected[c]) = 1 /\ reader[c].pending
         /\ expected[c][1].what.kind = "PerfCntr"
         /\ expected[c][1].what.value = Narrow(reader[c].savedLow32)

\* The converter gets through every word: markers of the two kinds do not send it
\* back and forth, and it fails only where words were lost or it lost its way.
WordsAreConsumed ==
  []<>(word = None \/ (status = "ERR" /\ \E c \in Core : inSync[c] = "lost"))

\* The documentation shows for every counter above 2 how it was programmed: a
\* definition that is written is the event that the library wrote, on a core none
\* of whose words is lost.
DefinitionsAreEvents ==
  [][line' # None /\ gaps = 0 /\ line'.what.kind = "PerfCntrDef" =>
       line'.what.value = EventOf[line'.what.index]]_vars
=============================================================================
