---------------------------- MODULE PerfConverter ----------------------------
(***************************************************************************)
(* How the decoder extracts performance data: processITCPerf, which is     *)
(* given each word that arrives on an ITC channel and keeps, per core,     *)
(* where in a record it is.  A word that ends one record and begins the    *)
(* next is looked at again in the new state: each round of the loop        *)
(* "while (!consumed)" is a step, and word is what it works on.            *)
(***************************************************************************)
EXTENDS Naturals, FiniteSetsExt

CONSTANTS
  Core,
  None,             \* no word, no line
  NumCntrs,         \* counters there can be (32)
  markerValue,      \* what a marker of timer and manual records begins with
  funcMarkerValue   \* the same for records of function calls

ASSUME PerfAssumption ==
  /\ NumCntrs \in Nat /\ NumCntrs > 3
  /\ markerValue \in Nat /\ funcMarkerValue \in Nat /\ markerValue # funcMarkerValue

VARIABLES
  word,    \* the word that is processed, or None
  reader,  \* per core, how far its stream was understood
  line,    \* what the last step wrote to the files, or None
  status   \* "ERR": processITCPerf failed, which ends decoding

readerVars == <<word, reader, line, status>>

\* A word says which core wrote it, whether to the performance channel, at which
\* byte of the register, and what.  done is the line that it completes.
IsFull(w) == w.offset = 0
IsByte(w) == w.offset = 3
Call == 67 \* 'C'

\* States of processITCPerf: those for timer and manual data and those for
\* function data that have the same part in both differ in the first component.
Sync == <<"any", "Sync">>
Error == <<"any", "Error">>
Start(m) == <<m, "Start">>

NewReader == [state |-> Sync, cntrMask |-> 0, index |-> 0, savedLow32 |-> 0,
              pending |-> FALSE, lastAddress |-> <<0, 0>>]

\* The lowest counter of the mask that is not below i; NumCntrs if there is none.
IsSet(mask, i) == (mask \div 2 ^ i) % 2 = 1
NextIndex(mask, i) == Min({n \in i..NumCntrs - 1 : IsSet(mask, n)} \cup {NumCntrs})

\* Values of 64 bits come as two words; an odd low word of an address says so.
Wide(high, low) == <<high, low>>
Narrow(low) == <<0, low>>
IsLow(data) == data % 2 = 1

r == reader[word.core]
In(part) == word # None /\ status = "OK" /\ r.state[2] = part
mode == r.state[1]

Becomes(q) == reader' = [reader EXCEPT ![word.core] = q]
Consumed == word' = None /\ UNCHANGED status
LookAgain == UNCHANGED <<word, status>>
Fails == status' = "ERR" /\ UNCHANGED word
Emit(l) == line' = [core |-> word.core, what |-> l]
Silent == line' = None

At(part) == [r EXCEPT !.state = <<mode, part>>]

\* Mutant: the test of the marker is used here, too.
CountersProgrammable(q) ==
  IF q.cntrMask < 2 ^ 3 THEN [q EXCEPT !.state = Start(mode)]
  ELSE [q EXCEPT !.state = <<mode, "GetCntr">>, !.index = NextIndex(q.cntrMask, 0)]

\* Behind the addresses of a record come its counters.
Counters(q) ==
  IF q.cntrMask = 0 THEN [q EXCEPT !.state = Start(mode)]
  ELSE [q EXCEPT !.state = <<mode, "GetCntr">>, !.index = NextIndex(q.cntrMask, 0)]

\* One counter, or the definition of one, is through.
Advanced(q) ==
  LET i == NextIndex(q.cntrMask, q.index + 1)
  IN [q EXCEPT !.index = i, !.state = IF i = NumCntrs THEN Start(mode) ELSE @]
-----------------------------------------------------------------------------
\* Mutant: one kind of start for both kinds of marker.
SyncStepOneKind ==
  /\ In("Sync") /\ Silent
  /\ IF word.data \in {markerValue, funcMarkerValue}
     THEN Becomes([r EXCEPT !.state = Start("perf")]) /\ LookAgain
     ELSE UNCHANGED reader /\ Consumed

\* Nothing is understood before a marker.
SyncStep ==
  /\ In("Sync") /\ Silent
  /\ IF word.data = markerValue THEN Becomes([r EXCEPT !.state = Start("perf")]) /\ LookAgain
     ELSE IF word.data = funcMarkerValue
     THEN Becomes([r EXCEPT !.state = Start("func")]) /\ LookAgain
     ELSE UNCHANGED reader /\ Consumed

OwnMarker == IF mode = "perf" THEN markerValue ELSE funcMarkerValue
OtherMarker == IF mode = "perf" THEN funcMarkerValue ELSE markerValue

StartMarker ==
  /\ In("Start") /\ Silent
  /\ \/ word.data = OwnMarker /\ Becomes(At("GetMarkerMask")) /\ Consumed
     \/ word.data = OtherMarker /\ Becomes([r EXCEPT !.state = Sync]) /\ LookAgain

NoMarker == word.data \notin {OwnMarker, OtherMarker}

\* A record of the timer or of a manual call begins with an address.
StartAddress ==
  /\ In("Start") /\ mode = "perf" /\ NoMarker /\ Consumed
  /\ IF IsLow(word.data)
     THEN Becomes([At("GetAddrH") EXCEPT !.savedLow32 = word.data - 1]) /\ Silent
     ELSE LET a == Narrow(word.data) IN
          Becomes(Counters([r EXCEPT !.lastAddress = a])) /\ Emit([kind |-> "Address", pc |-> a])

GetAddrH ==
  /\ In("GetAddrH") /\ Consumed
  /\ LET a == Wide(word.data, r.savedLow32) IN
     Becomes(Counters([r EXCEPT !.lastAddress = a])) /\ Emit([kind |-> "Address", pc |-> a])

\* A record of a function begins with a byte if the function was called, and with
\* its address if it returns.  (The library writes no other byte, so nothing is
\* looked at in Error but where decoding has ended.)
StartFunc ==
  /\ In("Start") /\ mode = "func" /\ NoMarker /\ Silent
  /\ IF ~IsByte(word) THEN Becomes(At("ReturnStart")) /\ LookAgain
     ELSE /\ Becomes(IF word.data = Call THEN At("CallStart") ELSE [r EXCEPT !.state = Error])
          /\ Consumed

\* The function's address and where it was called from, low and high words.
Others == [CallStart |-> "CallGetSite", ReturnStart |-> "ReturnGetSite"]
Highs == [CallStart |-> "CallStartH", ReturnStart |-> "ReturnStartH",
          CallGetSite |-> "CallGetSiteH", ReturnGetSite |-> "ReturnGetSiteH"]

FuncAddress(part) ==
  /\ Consumed /\ Silent
  /\ \/ /\ In(part)
        /\ IF IsLow(word.data)
           THEN Becomes([At(Highs[part]) EXCEPT !.savedLow32 = word.data - 1])
           ELSE Becomes([At(Others[part]) EXCEPT !.lastAddress = Narrow(word.data)])
     \/ /\ In(Highs[part])
        /\ Becomes([At(Others[part]) EXCEPT !.lastAddress = Wide(word.data, r.savedLow32)])

Kind(part) == IF part = "CallGetSite" THEN "FuncEnter" ELSE "FuncExit"

FuncSite(part, site) ==
  Becomes(Counters(r)) /\ Emit([kind |-> Kind(part), fn |-> r.lastAddress, site |-> site])

FuncCallSite(part) ==
  /\ Consumed
  /\ \/ /\ In(part)
        /\ IF IsLow(word.data)
           THEN Becomes([At(Highs[part]) EXCEPT !.savedLow32 = word.data - 1]) /\ Silent
           ELSE FuncSite(part, Narrow(word.data))
     \/ In(Highs[part]) /\ FuncSite(part, Wide(word.data, r.savedLow32))
-----------------------------------------------------------------------------
\* Counters.  A full word may be all of a counter, or its low half: it waits for
\* the next word, which is the high half if it is a partial write.
CntrLine(value) ==
  [kind |-> "PerfCntr", pc |-> r.lastAddress, index |-> r.index, value |-> value]

CntrHigh ==
  /\ In("GetCntr") /\ ~IsFull(word) /\ ~(mode = "func" /\ IsByte(word))
  /\ IF r.pending
     THEN /\ Emit(CntrLine(Wide(word.data, r.savedLow32)))
          /\ Becomes(Advanced([r EXCEPT !.pending = FALSE])) /\ Consumed
     ELSE Silent /\ Becomes([r EXCEPT !.state = Error]) /\ Fails

CntrLow ==
  /\ In("GetCntr") /\ IsFull(word)
  /\ LET q == IF r.pending THEN Advanced([r EXCEPT !.pending = FALSE]) ELSE r IN
     /\ IF r.pending THEN Emit(CntrLine(Narrow(r.savedLow32))) ELSE Silent
     /\ IF q.state = Start(mode) THEN Becomes(q) /\ LookAgain
        ELSE Becomes([q EXCEPT !.savedLow32 = word.data, !.pending = TRUE]) /\ Consumed

\* Mutant: a counter that waits is dropped.
CntrByteDrops ==
  /\ In("GetCntr") /\ mode = "func" /\ IsByte(word) /\ Silent
  /\ Becomes([r EXCEPT !.pending = FALSE, !.state = Start(mode)]) /\ LookAgain

\* A byte is the beginning of the next call.
CntrByte ==
  /\ In("GetCntr") /\ mode = "func" /\ IsByte(word)
  /\ IF r.pending THEN Emit(CntrLine(Narrow(r.savedLow32))) ELSE Silent
  /\ Becomes([r EXCEPT !.pending = FALSE, !.state = Start(mode)]) /\ LookAgain

\* The rest of a marker: the mask, and two words for each programmable counter.
GetMarkerMask ==
  /\ In("GetMarkerMask") /\ Consumed
  /\ Emit([kind |-> "PerfCntrMask", mask |-> word.data])
  /\ LET q == [r EXCEPT !.cntrMask = word.data, !.index = NextIndex(word.data, 3)] IN
     Becomes(IF word.data < 2 ^ 3 THEN [q EXCEPT !.index = 3, !.state = Start(mode)]
             ELSE [q EXCEPT !.state = <<mode, "GetCounterDefs">>])

GetCounterDefs ==
  /\ In("GetCounterDefs") /\ Consumed /\ Silent
  /\ Becomes([At("GetCounterDefsH") EXCEPT !.savedLow32 = word.data])

\* The state stays for the next definition, too: its low word is taken for a high one.
GetCounterDefsH ==
  /\ In("GetCounterDefsH") /\ Consumed
  /\ Emit([kind |-> "PerfCntrDef", index |-> r.index, value |-> Wide(word.data, r.savedLow32)])
  /\ Becomes(Advanced(r))

ProcessITCPerf ==
  \/ SyncStep \/ StartMarker \/ StartAddress \/ GetAddrH \/ StartFunc
  \/ \E part \in {"CallStart", "ReturnStart"} : FuncAddress(part)
  \/ \E part \in {"CallGetSite", "ReturnGetSite"} : FuncCallSite(part)
  \/ CntrHigh \/ CntrLow \/ CntrByte
  \/ GetMarkerMask \/ GetCounterDefs \/ GetCounterDefsH

\* A word of another channel is none of the converter's business.
TakeWord(w) ==
  /\ word = None /\ status = "OK" /\ Silent
  /\ word' = IF w.perf THEN w ELSE None
  /\ UNCHANGED <<reader, status>>

ReaderInit ==
  /\ word = None /\ line = None /\ status = "OK"
  /\ reader = [c \in Core |-> NewReader]
=============================================================================
