------------------------------ MODULE CATrace -------------------------------
(***************************************************************************)
(* CATrace and CATraceRec of trace.cpp: the reader of a cycle-accurate     *)
(* trace.  The hardware writes, for every cycle, which pipes finished an   *)
(* instruction and, in a vector trace, which vector operations started or  *)
(* finished; PerWord cycles make a word, WordsPerRec words a record.       *)
(*                                                                         *)
(* An instruction trace is searched bit by bit in the record.  The flags   *)
(* of a vector trace are queued in the ring caTraceQ, because the finish   *)
(* of a vector instruction comes long after its pipe flag, with the flags  *)
(* of other instructions between them: each flag is cleared when the       *)
(* instruction it belongs to is consumed, and packQ closes the holes.      *)
(*                                                                         *)
(* A reader is a record, so that the module that steps it (CycleTrace)     *)
(* can rewind and replace it.  `file` is a sequence of cycles, each the    *)
(* set of its flags.  Two fields are history: `moved`, packQ has moved     *)
(* traceQIn, and `unset`, what the uninitialised slots of the ring held.   *)
(***************************************************************************)
EXTENDS Integers, Sequences, FiniteSetsExt, TLC

CONSTANTS PerWord,      \* cycles in a word
          WordsPerRec,  \* words in a record (32)
          QSize         \* traceQSize (512)

CATraceAssumption == PerWord > 0 /\ WordsPerRec > 0 /\ QSize > PerWord
ASSUME CATraceAssumption

Pipes == {"V0", "V1"}
VectorFlags == {"VISTART", "VIARITH", "VISTORE", "VILOAD"}

(* What ends a vector instruction of each type, in the order consume looks *)
(* for it; every other type has a pipe flag only.                          *)
Finishes == [VECT_ARITH |-> <<"VIARITH">>, VECT_LOAD |-> <<"VILOAD">>,
             VECT_STORE |-> <<"VISTORE">>, VECT_AMO |-> <<"VILOAD">>,
             VECT_AMO_WW |-> <<"VILOAD", "VISTORE">>]
IsVector(iType) == iType \in DOMAIN Finishes

-----------------------------------------------------------------------------
(* The record being read *)

PerRec == PerWord * WordsPerRec
Slots == 0 .. QSize - 1
NoDepth == [k \in VectorFlags |-> 0]

(* The first record gets the pipe 0 flag of its first cycle, which the     *)
(* hardware may have left out.                                             *)
RecordAtPlain(file, next) == [i \in 0 .. PerRec - 1 |-> file[next * PerRec + i + 1]]   \* mutant

RecordAt(file, next) ==
    LET raw == [i \in 0 .. PerRec - 1 |-> file[next * PerRec + i + 1]]
    IN  IF next = 0 THEN [raw EXCEPT ![0] = @ \cup {"V0"}] ELSE raw

(* The loop that looks for the first record of a buffer that has wrapped   *)
(* starts with d = 0: last is 0 in its first turn, which is its only one.  *)
ParseNextCATraceRec(c, file) ==
    IF c.status # "OK" THEN c
    ELSE IF Len(file) < (c.next + 1) * PerRec THEN [c EXCEPT !.status = "EOF"]
    ELSE [c EXCEPT !.data = RecordAt(file, c.next), !.next = @ + 1, !.offset = 0,
                   !.block = IF c.next = 0 THEN 0 ELSE @ + 1]

(* The constructor leaves the slots of the ring as it finds them.          *)
CATraceNew(file, unset) ==
    ParseNextCATraceRec(
        [next |-> 0, data |-> [i \in 0 .. PerRec - 1 |-> {}], offset |-> 0, block |-> 0,
         q |-> [s \in Slots |-> [flags |-> unset, cycle |-> 0, depth |-> NoDepth]],
         in |-> 0, out |-> 0, status |-> "OK",
         moved |-> FALSE, unset |-> unset], file)

Rewind(c, file) ==
    [ParseNextCATraceRec([c EXCEPT !.next = 0], file) EXCEPT !.in = 0, !.out = 0]

-----------------------------------------------------------------------------
(* The ring: the slots from out up to, not including, in *)

After(s) == (s + 1) % QSize
Dist(a, b) == (b - a) % QSize
Slot(a, k) == (a + k) % QSize

RoomQFull(c) == QSize - Dist(c.out, c.in)   \* mutant: no slot kept free

RoomQ(c) == QSize - 1 - Dist(c.out, c.in)

(* The entries with flags left move up to out, in order; if there was a    *)
(* hole, one is kept behind them.                                          *)
PackQ(c) ==
    LET n == Dist(c.out, c.in)
        full == {k \in 0 .. n - 1 : c.q[Slot(c.out, k)].flags # {}}
        m == Cardinality(full)
        nth(k) == CHOOSE i \in full : Cardinality({j \in full : j < i}) = k
        packed == [s \in Slots |->
            LET k == Dist(c.out, s)
            IN  IF k < m THEN c.q[Slot(c.out, nth(k))]
                ELSE IF k \in full THEN [c.q[s] EXCEPT !.flags = {}, !.depth = NoDepth]
                ELSE c.q[s]]
    IN  IF m = n THEN c
        ELSE [c EXCEPT !.q = packed, !.in = Slot(c.out, m + 1),
                       !.moved = @ \/ m + 1 # n]

(* One word, its cycles numbered from t on; only cycles with flags get an  *)
(* entry, but there must be room for all.                                  *)
Added(c, word, t) ==
    LET new == {i \in 0 .. PerWord - 1 : word[i] # {}}
        at(i) == Slot(c.in, Cardinality({j \in new : j < i}))
    IN  IF RoomQ(c) < PerWord THEN [c EXCEPT !.status = "ERR"]
        ELSE [c EXCEPT
                !.q = [s \in Slots |->
                         IF \E i \in new : at(i) = s
                           THEN LET i == CHOOSE i \in new : at(i) = s
                                IN  [flags |-> word[i], cycle |-> t + i, depth |-> NoDepth]
                           ELSE @[s]],
                !.in = Slot(@, Cardinality(new))]

AddQ(c, word, t) == Added(IF RoomQ(c) < PerWord THEN PackQ(c) ELSE c, word, t)

(* consumeCAVector of CATraceRec and parseNextVectorRecord: the next word  *)
(* with a flag goes into the ring.                                         *)
Word(c, w) == [i \in 0 .. PerWord - 1 |-> c.data[w * PerWord + i]]

RECURSIVE ParseNextVectorRecord(_, _)
ParseNextVectorRecord(c, file) ==
    LET left == {w \in c.offset .. WordsPerRec - 1 : \E i \in 0 .. PerWord - 1 : Word(c, w)[i] # {}}
    IN  IF c.status # "OK" THEN c
        ELSE IF left = {} THEN ParseNextVectorRecord(ParseNextCATraceRec(c, file), file)
        ELSE AddQ([c EXCEPT !.offset = Min(left) + 1], Word(c, Min(left)),
                  Min(left) * PerWord + c.block * PerRec)

-----------------------------------------------------------------------------
(* Looking for a flag *)

(* The entries passed count the flag looked for.                           *)
Counted(c, from, n, want) ==
    [c EXCEPT !.q = [s \in Slots |->
        IF Dist(from, s) < n
          THEN [@[s] EXCEPT !.depth = [k \in VectorFlags |-> IF k \in want THEN @[k] + 1 ELSE @[k]]]
          ELSE @[s]]]

(* From slot `from` on; where the ring has no such flag more words are     *)
(* read, and the search goes on at what traceQIn was before: addQ may have *)
(* packed the ring since.                                                  *)
RECURSIVE Search(_, _, _, _)
Search(c, file, from, want) ==
    LET n == Dist(from, c.in)
        hits == {k \in 0 .. n - 1 : c.q[Slot(from, k)].flags \cap want # {}}
    IN  IF c.status # "OK" THEN [ca |-> c, at |-> from]
        ELSE IF hits = {}
          THEN Search(ParseNextVectorRecord(Counted(c, from, n, want), file), file, c.in, want)
        ELSE [ca |-> Counted(c, from, Min(hits) + 1, want), at |-> Slot(from, Min(hits))]

ClearPipe(c, s, flag) ==   \* mutant: the flags of the vector unit stay
    IF flag \in Pipes THEN [c EXCEPT !.q[s].flags = @ \ {flag}] ELSE c

Clear(c, s, flag) == [c EXCEPT !.q[s].flags = @ \ {flag}]

(* What a search has found is cleared.  The oldest instruction of a cycle  *)
(* finishes in pipe 0.  The search for the start of a vector instruction   *)
(* begins in the entry of its pipe flag, that for a finish in the next.    *)
TakePipe(s) ==
    LET pipe == IF "V0" \in s.ca.q[s.at].flags THEN "V0" ELSE "V1"
    IN  [ca |-> IF s.ca.status = "OK" THEN Clear(s.ca, s.at, pipe) ELSE s.ca,
         at |-> s.at, pipe |-> pipe, cycle |-> s.ca.q[s.at].cycle]

ConsumeCAPipe(c, file) == TakePipe(Search(c, file, c.out, Pipes))

(* mutant: the counts are those of the entry where the search ends.        *)
TakeVectorAtEnd(s, type, depth) ==
    IF s.ca.status # "OK" THEN [ca |-> s.ca, at |-> s.at, cycle |-> 0, depth |-> NoDepth]
    ELSE [ca |-> Clear(s.ca, s.at, type), at |-> After(s.at), cycle |-> s.ca.q[s.at].cycle,
          depth |-> s.ca.q[s.at].depth]

(* The counts are those of the entry where the search begins.              *)
TakeVector(s, type, depth) ==
    IF s.ca.status # "OK" THEN [ca |-> s.ca, at |-> s.at, cycle |-> 0, depth |-> NoDepth]
    ELSE [ca |-> Clear(s.ca, s.at, type), at |-> After(s.at), cycle |-> s.ca.q[s.at].cycle,
          depth |-> [depth EXCEPT ![type] = @ + 1]]

FindVector(c, file, from, type) ==
    TakeVector(Search(c, file, from, {type}), type, c.q[from].depth)

ConsumeCAVector(c, file, from, type) ==
    FindVector(IF from = c.in THEN ParseNextVectorRecord(c, file) ELSE c, file, from, type)

(* In an instruction trace: the next pipe bit of the record, two a cycle.  *)
RECURSIVE ConsumeCAInstruction(_, _)
ConsumeCAInstruction(c, file) ==
    LET bit(o) == IF o % 2 = 0 THEN "V0" ELSE "V1"
        left == {o \in c.offset .. 2 * PerRec - 1 : bit(o) \in c.data[o \div 2]}
    IN  IF c.status # "OK" THEN [ca |-> c, pipe |-> "V0", cycle |-> 0]
        ELSE IF left = {} THEN ConsumeCAInstruction(ParseNextCATraceRec(c, file), file)
        ELSE [ca |-> [c EXCEPT !.offset = Min(left) + 1], pipe |-> bit(Min(left)),
              cycle |-> Min(left) \div 2 + c.block * PerRec]

-----------------------------------------------------------------------------
(* consume *)

NoVector == [start |-> 0, finish |-> 0, waiting |-> 0, inProcess |-> NoDepth]

(* traceQOut passes the entries that have no flags left.                   *)
Advanced(c) ==
    LET full == {k \in 0 .. Dist(c.out, c.in) - 1 : c.q[Slot(c.out, k)].flags # {}}
    IN  [c EXCEPT !.out = IF full = {} THEN c.in ELSE Slot(c.out, Min(full))]

(* The start and the finishes of a vector instruction, each searched from  *)
(* where the one before was found; the depths are those of the first       *)
(* finish.                                                                 *)
LastFinish(first, file, iType) ==
    IF Len(Finishes[iType]) = 1 \/ first.ca.status # "OK" THEN first
    ELSE ConsumeCAVector(first.ca, file, first.at, Finishes[iType][2])

FinishPart(start, first, last) ==
    [ca |-> last.ca,
     vector |-> [start |-> start.cycle, finish |-> last.cycle,
                 waiting |-> start.depth["VISTART"], inProcess |-> first.depth]]

FirstFinish(start, first, file, iType) == FinishPart(start, first, LastFinish(first, file, iType))

StartPart(start, file, iType) ==
    IF start.ca.status # "OK" THEN [ca |-> start.ca, vector |-> NoVector]
    ELSE FirstFinish(start, ConsumeCAVector(start.ca, file, start.at, Finishes[iType][1]), file, iType)

VectorPart(p, file, iType) ==
    IF p.ca.status # "OK" \/ ~IsVector(iType) THEN [ca |-> p.ca, vector |-> NoVector]
    ELSE StartPart(ConsumeCAVector(p.ca, file, p.at, "VISTART"), file, iType)

Result(p, v) == [ca |-> IF v.ca.status = "OK" THEN Advanced(v.ca) ELSE v.ca,
                 pipe |-> p.pipe, cycle |-> p.cycle, vector |-> v.vector]

ConsumeVectorTrace(p, file, iType) == Result(p, VectorPart(p, file, iType))

(* The result is of use only when the status of `ca` is OK; a status that  *)
(* is not stays.                                                           *)
Consume(c, file, caType, iType) ==
    IF caType = "CATRACE_INSTRUCTION"
      THEN [vector |-> NoVector] @@ ConsumeCAInstruction(c, file)
      ELSE ConsumeVectorTrace(ConsumeCAPipe(c, file), file, iType)
=============================================================================
