--------------------------- MODULE PerfTraceProofs ---------------------------
(***************************************************************************)
(* What the converter writes are the records of the library, for any       *)
(* masks, values, functions and number of cores.                           *)
(*                                                                         *)
(* The words of a core are a sequence of records.  What a core has still   *)
(* to write of one (todo), together with the word in hand, is the rest of  *)
(* a record from some place on; the converter is at this place too, knows  *)
(* what it needs of the words before, and the lines that are expected are  *)
(* those of the counter that it holds and of the word in hand.             *)
(***************************************************************************)
EXTENDS PerfTrace, Induction, SequenceTheorems, TLAPS

-----------------------------------------------------------------------------
(* Numbers and sequences.                                                  *)

\* The least of some numbers.
LEMMA MinIs ==
  ASSUME NEW S \in SUBSET Nat, S # {}
  PROVE  Min(S) \in S /\ \A n \in S : Min(S) <= n
<1>1. \E n \in S : \A m \in S : n <= m
  BY Least
<1> QED
  BY <1>1 DEF Min

\* A number between a power of two and the next has this bit.
LEMMA BitBetween ==
  ASSUME NEW k \in Nat, NEW b \in Nat, b > 0
  PROVE  /\ k < b => k \div b = 0
         /\ b <= k /\ k < 2 * b => k \div b = 1
<1> DEFINE d == k \div b
           m == k % b
<1>1. d \in Nat /\ m \in 0..b - 1 /\ k = b * d + m
  OBVIOUS
<1> HIDE DEF d, m
<1>2. d >= 1 => b * d >= b
  BY <1>1
<1>3. d >= 2 => b * d >= 2 * b
  BY <1>1
<1>4. d = 0 => b * d = 0
  BY <1>1
<1> QED
  BY <1>1, <1>2, <1>3, <1>4 DEF d

\* The counter whose turn comes next.
LEMMA NextIndexIs ==
  ASSUME NEW k \in Nat, NEW i \in Nat
  PROVE  /\ NextIndex(k, i) \in Nat
         /\ NextIndex(k, i) # NumCntrs =>
              /\ NextIndex(k, i) \in i..NumCntrs - 1 /\ NextIndex(k, i) \in 0..NumCntrs - 1
              /\ NextIndex(k, i) + 1 \in Nat
         /\ NextIndex(k, i) = NumCntrs => \A n \in i..NumCntrs - 1 : ~IsSet(k, n)
         /\ (\A n \in i..NumCntrs - 1 : ~IsSet(k, n)) => NextIndex(k, i) = NumCntrs
<1> USE PerfAssumption
<1> DEFINE S == {n \in i..NumCntrs - 1 : IsSet(k, n)} \cup {NumCntrs}
<1>1. S \in SUBSET Nat /\ S # {}
  OBVIOUS
<1>2. Min(S) \in S /\ \A n \in S : Min(S) <= n
  BY <1>1, MinIs
<1>3. NextIndex(k, i) = Min(S)
  BY DEF NextIndex
<1> QED
  BY <1>2, <1>3

\* There is none exactly if the mask has only bits below.
LEMMA NoneNext ==
  ASSUME NEW k \in 0..2 ^ NumCntrs - 1, NEW i \in 0..NumCntrs
  PROVE  NextIndex(k, i) = NumCntrs <=> k < 2 ^ i
<1> USE PerfAssumption
<1> DEFINE N == NumCntrs - i
           G == {n \in 0..N : (\A j \in i..NumCntrs - 1 : ~IsSet(k, j)) => k < 2 ^ (NumCntrs - n)}
           H == {n \in 0..N : k < 2 ^ i => k < 2 ^ (i + n)}
<1>0. k \in Nat /\ i \in Nat /\ N \in Nat
  BY PowerDoubles
<1>1. 0 \in G
  BY PowerDoubles
<1>2. ASSUME NEW n \in 1..N, n - 1 \in G PROVE n \in G
  <2> DEFINE j == NumCntrs - n
             b == 2 ^ j
  <2>1. j \in i..NumCntrs - 1 /\ j \in Nat /\ NumCntrs - (n - 1) = j + 1
    OBVIOUS
  <2>2. b \in Nat /\ b > 0 /\ 2 ^ (j + 1) = 2 * b
    BY <2>1, PowerDoubles
  <2>3. CASE \A l \in i..NumCntrs - 1 : ~IsSet(k, l)
    <3>1. k < 2 * b
      BY <1>2, <2>1, <2>2, <2>3
    <3>2. ~IsSet(k, j)
      BY <2>1, <2>3
    <3>3. (k \div b) % 2 # 1
      BY <3>2 DEF IsSet
    <3>4. k < b
      <4> HIDE DEF b
      <4> QED
        BY <1>0, <2>2, <3>1, <3>3, BitBetween
    <3> QED
      BY <3>4
  <2> QED
    BY <2>3
<1>3. \A n \in 0..N : n \in G
  <2> HIDE DEF G
  <2> QED
    BY <1>0, <1>1, <1>2, Induct
<1>4. (\A j \in i..NumCntrs - 1 : ~IsSet(k, j)) => k < 2 ^ i
  <2>1. N \in 0..N /\ NumCntrs - N = i
    BY <1>0
  <2> QED
    BY <1>3, <2>1
<1>5. ASSUME k < 2 ^ i, NEW j \in i..NumCntrs - 1 PROVE ~IsSet(k, j)
  <2> DEFINE b == 2 ^ j
  <2>1. j \in Nat /\ b \in Nat /\ b > 0
    BY PowerDoubles
  <2>2. k < b
    <3>1. CASE i = j
      BY <1>5, <3>1
    <3>2. CASE i < j
      <4>1. 2 ^ (i + 1) <= b /\ 2 ^ (i + 1) = 2 * 2 ^ i /\ 2 ^ i \in Nat
        BY <1>0, <2>1, <3>2, PowersGrow, PowerDoubles
      <4> HIDE DEF b
      <4> QED
        BY <1>0, <1>5, <2>1, <4>1
    <3> QED
      BY <3>1, <3>2
  <2>3. k \div b = 0
    <3> HIDE DEF b
    <3> QED
      BY <1>0, <2>1, <2>2, BitBetween
  <2> QED
    <3> DEFINE d == k \div 2 ^ j
    <3>1. d = 0
      BY <2>3
    <3> HIDE DEF d
    <3>2. d % 2 = 0
      BY <3>1
    <3> QED
      BY <3>2 DEF IsSet, d
<1> QED
  BY <1>0, <1>4, <1>5, NextIndexIs

\* A sequence with a first element.
LEMMA ConsIs ==
  ASSUME NEW S, NEW x \in S, NEW s \in Seq(S)
  PROVE  /\ Cons(x, s) \in Seq(S) /\ Cons(x, s) # <<>>
         /\ Head(Cons(x, s)) = x /\ Tail(Cons(x, s)) = s
<1>1. <<x>> \in Seq(S) /\ Len(<<x>>) = 1
  OBVIOUS
<1> DEFINE t == Cons(x, s)
<1>2. /\ t \in Seq(S) /\ Len(t) = 1 + Len(s)
      /\ \A i \in 1..1 + Len(s) : t[i] = IF i <= 1 THEN <<x>>[i] ELSE s[i - 1]
  BY <1>1, ConcatProperties DEF Cons
<1>3. Len(s) \in Nat
  BY LenProperties
<1> HIDE DEF t
<1>4. t # <<>> /\ Head(t) = x
  BY <1>2, <1>3
<1>5. Tail(t) \in Seq(S) /\ Len(Tail(t)) = Len(s) /\ \A i \in 1..Len(s) : Tail(t)[i] = s[i]
  BY <1>2, <1>3, <1>4, HeadTailProperties
<1>6. Tail(t) = s
  BY <1>5, SeqEqual
<1> QED
  BY <1>2, <1>4, <1>6 DEF t

\* Two elements before a sequence.
LEMMA PairIs ==
  ASSUME NEW S, NEW x \in S, NEW y \in S, NEW s \in Seq(S)
  PROVE  <<x, y>> \o s = Cons(x, Cons(y, s))
<1>1. <<x>> \in Seq(S) /\ <<y>> \in Seq(S)
  OBVIOUS
<1>2. <<x>> \o <<y>> = <<x, y>>
  <2>1. /\ <<x>> \o <<y>> \in Seq(S) /\ Len(<<x>> \o <<y>>) = 2
        /\ \A i \in 1..2 : (<<x>> \o <<y>>)[i] = IF i <= 1 THEN <<x>>[i] ELSE <<y>>[i - 1]
    BY <1>1, ConcatProperties
  <2>2. <<x, y>> \in Seq(S) /\ Len(<<x, y>>) = 2
    OBVIOUS
  <2>3. \A i \in 1..2 : (<<x>> \o <<y>>)[i] = <<x, y>>[i]
    BY <2>1
  <2> QED
    BY <2>1, <2>2, <2>3, SeqEqual
<1> QED
  <2> DEFINE p == <<x>>
             q == <<y>>
  <2> HIDE DEF p, q
  <2>1. (p \o q) \o s = p \o (q \o s)
    BY <1>1, ConcatAssociative DEF p, q
  <2> QED
    BY <1>2, <2>1 DEF p, q, Cons

\* The lines of a word, which has none or one.
LEMMA SetToSeqIs ==
  /\ SetToSeq({}) = <<>>
  /\ \A x : SetToSeq({x}) = <<x>>
<1>1. Cardinality({}) = 0 /\ \A x : Cardinality({x}) = 1
  BY FS_EmptySet, FS_Singleton
<1>2. SetToSeq({}) = <<>>
  <2>1. SetToSeq({}) = CHOOSE f \in [1..0 -> {}] : IsInjective(f)
    BY <1>1 DEF SetToSeq
  <2>2. [1..0 -> {}] = {<<>>}
    <3>1. 1..0 = {} /\ <<>> = [i \in {} |-> i]
      OBVIOUS
    <3>2. \A f \in [{} -> {}] : f = [i \in {} |-> i]
      OBVIOUS
    <3>3. [i \in {} |-> i] \in [{} -> {}]
      OBVIOUS
    <3> QED
      BY <3>1, <3>2, <3>3
  <2>3. IsInjective(<<>>)
    BY DEF IsInjective
  <2> QED
    BY <2>1, <2>2, <2>3
<1>3. ASSUME NEW x PROVE SetToSeq({x}) = <<x>>
  <2>1. SetToSeq({x}) = CHOOSE f \in [1..1 -> {x}] : IsInjective(f)
    BY <1>1 DEF SetToSeq
  <2>2. \A f \in [1..1 -> {x}] : f = <<x>>
    OBVIOUS
  <2>3. <<x>> \in [1..1 -> {x}] /\ IsInjective(<<x>>)
    BY DEF IsInjective
  <2> QED
    BY <2>1, <2>2, <2>3
<1> QED
  BY <1>2, <1>3

-----------------------------------------------------------------------------
(* What a record is made of.                                               *)

\* A word of c completes one line at most.
WordsOf(c) ==
  {w \in Words : /\ w.core = c /\ w.perf
                 /\ w.done = {} \/ \E l \in CoreLines : w.done = {l}}
Items(c) ==
  WordsOf(c) \cup [event : 0..NumCntrs - 1] \cup [counter : 0..NumCntrs - 1, pc : Wides]

EventLow(c, n) == Word(c, 0, EventOf[n][2], {})
EventHigh(c, n) ==
  Word(c, 0, EventOf[n][1], {[kind |-> "PerfCntrDef", index |-> n, value |-> EventOf[n]]})
AddressLow(c, a) == Word(c, 0, a[2] + 1, {})
AddressHigh(c, a, done) == Word(c, 0, a[1], done)
AddressOnly(c, a, done) == Word(c, 0, a[2], done)
CntrDone(a, n, v) == {[kind |-> "PerfCntr", pc |-> a, index |-> n, value |-> v]}
CntrLowWord(c, v) == Word(c, 0, v[2], {})
CntrHighWord(c, a, n, v) == Word(c, 2, v[1] % HighRange, CntrDone(a, n, v))
CntrOnlyWord(c, a, n, v) == Word(c, 0, v[2], CntrDone(a, n, v))
AddressDone(a) == {[kind |-> "Address", pc |-> a]}

\* A word is what it was made of.
LEMMA WordIs ==
  ASSUME NEW c \in Core, NEW o \in {0, 2, 3}, NEW d \in Nat, NEW done,
         done = {} \/ \E l \in Lines : done = {l}
  PROVE  /\ Word(c, o, d, done) \in WordsOf(c)
         /\ Word(c, o, d, done).core = c /\ Word(c, o, d, done).perf
         /\ Word(c, o, d, done).offset = o /\ Word(c, o, d, done).data = d
         /\ done = {} => Word(c, o, d, done).done = {}
         /\ \A l : done = {l} => Word(c, o, d, done).done = {[core |-> c, what |-> l]}
         /\ ~IsEvent(Word(c, o, d, done)) /\ ~IsCntr(Word(c, o, d, done))
<1> DEFINE w == Word(c, o, d, done)
           e == {[core |-> c, what |-> l] : l \in done}
<1>1. w = [core |-> c, perf |-> TRUE, offset |-> o, data |-> d, done |-> e]
  BY DEF Word
<1>2. done = {} => e = {}
  OBVIOUS
<1>3. \A l : done = {l} => e = {[core |-> c, what |-> l]}
  OBVIOUS
<1>4. e = {} \/ \E l \in CoreLines : e = {l}
  BY <1>2, <1>3 DEF CoreLines
<1>5. e \in SUBSET CoreLines
  BY <1>4
<1> HIDE DEF e
<1>6. w \in Words
  BY <1>1, <1>5 DEF Words
<1> HIDE DEF w
<1>7. w \in WordsOf(c)
  BY <1>1, <1>4, <1>6 DEF WordsOf
<1>8. ~IsEvent(w) /\ ~IsCntr(w)
  BY <1>1 DEF IsEvent, IsCntr
<1> QED
  BY <1>1, <1>2, <1>3, <1>7, <1>8 DEF w

\* A word that completes a line.
LEMMA WordLine ==
  ASSUME NEW c \in Core, NEW o \in {0, 2, 3}, NEW d \in Nat, NEW l \in Lines
  PROVE  /\ Word(c, o, d, {l}) \in WordsOf(c)
         /\ Word(c, o, d, {l}).offset = o /\ Word(c, o, d, {l}).data = d
         /\ Word(c, o, d, {l}).done = {[core |-> c, what |-> l]}
<1> DEFINE e == {l}
<1>1. e = {} \/ \E x \in Lines : e = {x}
  OBVIOUS
<1>2. Word(c, o, d, {l}).done = {[core |-> c, what |-> x] : x \in {l}}
  BY DEF Word
<1>3. {[core |-> c, what |-> x] : x \in {l}} = {[core |-> c, what |-> l]}
  OBVIOUS
<1> HIDE DEF e
<1>4. Word(c, o, d, e) \in WordsOf(c) /\ Word(c, o, d, e).offset = o /\ Word(c, o, d, e).data = d
  BY <1>1, WordIs
<1> QED
  BY <1>2, <1>3, <1>4 DEF e

\* Words and loops are apart.
LEMMA ItemKinds ==
  ASSUME NEW c
  PROVE  /\ \A w \in WordsOf(c) : ~IsEvent(w) /\ ~IsCntr(w)
         /\ \A n : IsEvent([event |-> n]) /\ ~IsCntr([event |-> n])
         /\ \A n, a : IsCntr([counter |-> n, pc |-> a]) /\ ~IsEvent([counter |-> n, pc |-> a])
<1>1. ASSUME NEW w \in WordsOf(c) PROVE ~IsEvent(w) /\ ~IsCntr(w)
  <2>1. w \in Words
    BY DEF WordsOf
  <2>2. DOMAIN w = {"core", "perf", "offset", "data", "done"}
    BY <2>1 DEF Words
  <2> QED
    BY <2>2 DEF IsEvent, IsCntr
<1>2. ASSUME NEW n PROVE IsEvent([event |-> n]) /\ ~IsCntr([event |-> n])
  BY DEF IsEvent, IsCntr
<1>3. ASSUME NEW n, NEW a PROVE IsCntr([counter |-> n, pc |-> a]) /\ ~IsEvent([counter |-> n, pc |-> a])
  BY DEF IsCntr, IsEvent
<1> QED
  BY <1>1, <1>2, <1>3

-----------------------------------------------------------------------------
(* Types.                                                                  *)

Modes == {"perf", "func"}
Parts == {"Sync", "Error", "Start", "GetMarkerMask", "GetCounterDefs", "GetCounterDefsH",
          "GetAddrH", "CallStart", "CallStartH", "CallGetSite", "CallGetSiteH",
          "ReturnStart", "ReturnStartH", "ReturnGetSite", "ReturnGetSiteH", "GetCntr"}
Reader == [state : ({"any"} \cup Modes) \X Parts, cntrMask : Nat, index : Nat, savedLow32 : Nat,
           pending : BOOLEAN, lastAddress : Wides]

MaskOK(c) == mask[c] \in 0..2 ^ NumCntrs - 1 /\ mask[c] \in Unmarked

LibraryTypes ==
  /\ traceType \in {"manual", "func"} /\ enabled \in BOOLEAN /\ kept \in BOOLEAN
  /\ \A c \in Core : MaskOK(c)
  /\ markerCnt \in [Core -> Nat] /\ reload \in [Core -> Nat]
  /\ hook \in [Core -> {"out", "passed", "in"}]
  /\ inSync \in [Core -> {"yes", "no", "lost"}] /\ expected \in [Core -> Seq(CoreLines)]
  /\ todo = [c \in Core |-> todo[c]]
  /\ \A c \in Core : /\ hook[c] = "passed" => todo[c] = <<>> /\ traceType = "func"
                     /\ ~kept => inSync[c] # "yes"

ReaderTypes ==
  /\ reader \in [Core -> Reader] /\ status \in {"OK", "ERR"}
  /\ word = None \/ (word.core \in Core /\ word \in WordsOf(word.core) /\ kept)

-----------------------------------------------------------------------------
(* Places in a record.                                                     *)

ownMode == IF traceType = "func" THEN "func" ELSE "perf"
Records(c) ==
  IF traceType = "func" THEN {HookRecord(c, b, f[1], f[2]) : b \in BOOLEAN, f \in Functions}
  ELSE {ManualRecord(c, a) : a \in Addresses}

MarkerWord(c) == Word(c, 0, perfMarkerVal, {})

AtMarker(c, t) ==
  \E b \in Records(c) : t = Cons(MarkerWord(c), Cons(MaskWord(c), EventsFrom(c, 3) \o b))
AtMask(c, t) == \E b \in Records(c) : t = Cons(MaskWord(c), EventsFrom(c, 3) \o b)
AtEvent(c, t, n) == \E b \in Records(c) : t = Cons([event |-> n], b)
AtEventLow(c, t, n) ==
  \E b \in Records(c) : t = Cons(EventLow(c, n), Cons(EventHigh(c, n), EventsFrom(c, n + 1) \o b))
AtEventHigh(c, t, n) ==
  \E b \in Records(c) : t = Cons(EventHigh(c, n), EventsFrom(c, n + 1) \o b)

AtAddressHigh(c, t, a) ==
  /\ traceType # "func" /\ a \in Addresses /\ a[1] # 0
  /\ t = Cons(AddressHigh(c, a, AddressDone(a)), perfEmitCntrs(c, a, 0))

AtFn(c, t, b, f) ==
  traceType = "func" /\ t = EmitAddress(c, f[1], {}) \o HookSite(c, b, f[1], f[2])
AtFnHigh(c, t, b, f) ==
  /\ traceType = "func" /\ f[1][1] # 0
  /\ t = Cons(AddressHigh(c, f[1], {}), HookSite(c, b, f[1], f[2]))
AtSite(c, t, b, f) == traceType = "func" /\ t = HookSite(c, b, f[1], f[2])
AtSiteHigh(c, t, b, f) ==
  /\ traceType = "func" /\ f[2][1] # 0
  /\ t = Cons(AddressHigh(c, f[2], FuncLine(b, f[1], f[2])), perfEmitCntrs(c, f[1], 0))

AtCntr(t, n, a) == t = <<[counter |-> n, pc |-> a]>>
AtCntrHigh(c, t, n, a, v) ==
  v[1] # 0 /\ t = Cons(CntrHighWord(c, a, n, v), perfEmitCntrs(c, a, n + 1))
AtCntrLow(c, t, n, a, v) ==
  IF v[1] # 0
  THEN t = Cons(CntrLowWord(c, v), Cons(CntrHighWord(c, a, n, v), perfEmitCntrs(c, a, n + 1)))
  ELSE t = Cons(CntrOnlyWord(c, a, n, v), perfEmitCntrs(c, a, n + 1))

\* The rest of a record that a core has to write.
Shape(c, t) ==
  \/ t = <<>> \/ AtMarker(c, t) \/ AtMask(c, t) \/ t \in Records(c)
  \/ \E n \in 3..NumCntrs - 1 : AtEvent(c, t, n) \/ AtEventHigh(c, t, n)
  \/ \E a \in Addresses : AtAddressHigh(c, t, a)
  \/ \E b \in BOOLEAN, f \in Functions :
       AtFn(c, t, b, f) \/ AtFnHigh(c, t, b, f) \/ AtSite(c, t, b, f) \/ AtSiteHigh(c, t, b, f)
  \/ \E n \in 0..NumCntrs - 1, a \in CodeAddress :
       \/ AtCntr(t, n, a)
       \/ \E v \in Values : AtCntrHigh(c, t, n, a, v) /\ (inSync[c] = "no" => v[1] \notin Markers)

-----------------------------------------------------------------------------
(* The words of addresses, events and counters.                            *)

OneLine(done) == done = {} \/ \E l \in Lines : done = {l}

\* One or two words for an address.
LEMMA AddressIs ==
  ASSUME NEW c \in Core, NEW a \in CodeAddress, NEW done, OneLine(done), NEW s \in Seq(Items(c))
  PROVE  /\ a[1] # 0 => EmitAddress(c, a, done) \o s = Cons(AddressLow(c, a), Cons(AddressHigh(c, a, done), s))
         /\ a[1] = 0 => EmitAddress(c, a, done) \o s = Cons(AddressOnly(c, a, done), s)
         /\ EmitAddress(c, a, done) \o s \in Seq(Items(c))
         /\ Cons(AddressHigh(c, a, done), s) \in Seq(Items(c))
         /\ AddressLow(c, a) \in WordsOf(c) /\ AddressHigh(c, a, done) \in WordsOf(c)
         /\ AddressOnly(c, a, done) \in WordsOf(c)
         /\ AddressLow(c, a).data \notin Markers /\ AddressHigh(c, a, done).data \notin Markers
         /\ AddressOnly(c, a, done).data \notin Markers
<1> USE DEF OneLine
<1>1. /\ a[1] \in Nat /\ a[2] \in Nat /\ a[2] + 1 \in Nat
      /\ a[1] \notin Markers /\ a[2] \notin Markers /\ a[2] + 1 \notin Markers
  BY DEF CodeAddress, Unmarked
<1>2. AddressLow(c, a) \in WordsOf(c) /\ AddressLow(c, a).data = a[2] + 1
  BY <1>1, WordIs DEF AddressLow
<1>3. AddressHigh(c, a, done) \in WordsOf(c) /\ AddressHigh(c, a, done).data = a[1]
  BY <1>1, WordIs DEF AddressHigh
<1>4. AddressOnly(c, a, done) \in WordsOf(c) /\ AddressOnly(c, a, done).data = a[2]
  BY <1>1, WordIs DEF AddressOnly
<1>5. EmitAddress(c, a, done) = IF a[1] # 0 THEN <<AddressLow(c, a), AddressHigh(c, a, done)>>
                                ELSE <<AddressOnly(c, a, done)>>
  BY DEF EmitAddress, AddressLow, AddressHigh, AddressOnly
<1> DEFINE S == Items(c)
           x == AddressLow(c, a)
           y == AddressHigh(c, a, done)
           z == AddressOnly(c, a, done)
<1>6. x \in S /\ y \in S /\ z \in S /\ s \in Seq(S)
  BY <1>2, <1>3, <1>4 DEF Items
<1> HIDE DEF S, x, y, z
<1>7. <<x, y>> \o s = Cons(x, Cons(y, s)) /\ Cons(y, s) \in Seq(S) /\ Cons(z, s) \in Seq(S)
  <2>1. <<x, y>> \o s = Cons(x, Cons(y, s))
    BY <1>6, PairIs
  <2>2. Cons(y, s) \in Seq(S) /\ Cons(z, s) \in Seq(S)
    BY <1>6, ConsIs
  <2> QED
    BY <2>1, <2>2
<1>8. Cons(x, Cons(y, s)) \in Seq(S)
  BY <1>6, <1>7, ConsIs
<1>9. a[1] # 0 => EmitAddress(c, a, done) \o s = Cons(x, Cons(y, s))
  BY <1>5, <1>7 DEF x, y
<1>10. a[1] = 0 => EmitAddress(c, a, done) \o s = Cons(z, s)
  BY <1>5, <1>7 DEF z, Cons
<1>11. EmitAddress(c, a, done) \o s \in Seq(S)
  BY <1>7, <1>8, <1>9, <1>10
<1> QED
  BY <1>1, <1>2, <1>3, <1>4, <1>7, <1>9, <1>10, <1>11 DEF x, y, z, S

\* Two words for an event.
LEMMA EventIs ==
  ASSUME NEW c \in Core, NEW n \in 0..NumCntrs - 1, NEW s \in Seq(Items(c))
  PROVE  /\ EmitEvent(c, n) \o s = Cons(EventLow(c, n), Cons(EventHigh(c, n), s))
         /\ Cons(EventHigh(c, n), s) \in Seq(Items(c))
         /\ EventLow(c, n) \in WordsOf(c) /\ EventHigh(c, n) \in WordsOf(c)
         /\ EventLow(c, n).data = EventOf[n][2] /\ EventHigh(c, n).data = EventOf[n][1]
         /\ EventLow(c, n).data \notin Markers /\ EventHigh(c, n).data \notin Markers
         /\ EventLow(c, n).done = {}
         /\ EventHigh(c, n).done =
              {[core |-> c, what |-> [kind |-> "PerfCntrDef", index |-> n, value |-> EventOf[n]]]}
<1> DEFINE l == [kind |-> "PerfCntrDef", index |-> n, value |-> EventOf[n]]
<1>1. EventOf[n] \in Unmarked \X Unmarked
  BY LibraryAssumption
<1>2. /\ EventOf[n][1] \in Nat /\ EventOf[n][2] \in Nat /\ EventOf[n] \in Wides
      /\ EventOf[n][1] \notin Markers /\ EventOf[n][2] \notin Markers
  BY <1>1 DEF Unmarked, Wides
<1>4. l \in Lines
  <2>1. n \in Nat
    BY PerfAssumption
  <2>2. l \in [kind : {"PerfCntrDef"}, index : Nat, value : Wides]
    BY <1>2, <2>1
  <2> QED
    BY <2>2 DEF Lines
<1>3. EventHigh(c, n) = Word(c, 0, EventOf[n][1], {l})
  BY DEF EventHigh
<1> HIDE DEF l
<1>5. EventLow(c, n) \in WordsOf(c) /\ EventLow(c, n).data = EventOf[n][2] /\ EventLow(c, n).done = {}
  BY <1>2, WordIs DEF EventLow
<1>6. /\ EventHigh(c, n) \in WordsOf(c) /\ EventHigh(c, n).data = EventOf[n][1]
      /\ EventHigh(c, n).done = {[core |-> c, what |-> l]}
  BY <1>2, <1>4, <1>3, WordLine
<1>7. EmitEvent(c, n) = <<EventLow(c, n), EventHigh(c, n)>>
  BY DEF EmitEvent, EventLow, EventHigh
<1> DEFINE S == Items(c)
           x == EventLow(c, n)
           y == EventHigh(c, n)
<1>8. x \in S /\ y \in S /\ s \in Seq(S)
  BY <1>5, <1>6 DEF Items
<1> HIDE DEF S, x, y
<1>9. <<x, y>> \o s = Cons(x, Cons(y, s)) /\ Cons(y, s) \in Seq(S)
  <2>1. <<x, y>> \o s = Cons(x, Cons(y, s))
    BY <1>8, PairIs
  <2>2. Cons(y, s) \in Seq(S)
    BY <1>8, ConsIs
  <2> QED
    BY <2>1, <2>2
<1> QED
  BY <1>2, <1>5, <1>6, <1>7, <1>9 DEF x, y, S, l

\* One or two words for a counter.
LEMMA CntrIs ==
  ASSUME NEW c \in Core, NEW n \in 0..NumCntrs - 1, NEW a \in Wides, NEW v \in Values,
         NEW s \in Seq(Items(c))
  PROVE  /\ v[1] # 0 => EmitCntr(c, n, a, v) \o s = Cons(CntrLowWord(c, v), Cons(CntrHighWord(c, a, n, v), s))
         /\ v[1] = 0 => EmitCntr(c, n, a, v) \o s = Cons(CntrOnlyWord(c, a, n, v), s)
         /\ Cons(CntrHighWord(c, a, n, v), s) \in Seq(Items(c))
         /\ CntrLowWord(c, v) \in WordsOf(c) /\ CntrHighWord(c, a, n, v) \in WordsOf(c)
         /\ CntrOnlyWord(c, a, n, v) \in WordsOf(c)
         /\ CntrLowWord(c, v).data = v[2] /\ CntrOnlyWord(c, a, n, v).data = v[2]
         /\ CntrHighWord(c, a, n, v).data = v[1] % HighRange
         /\ CntrLowWord(c, v).offset = 0 /\ CntrOnlyWord(c, a, n, v).offset = 0
         /\ CntrHighWord(c, a, n, v).offset = 2
         /\ CntrLowWord(c, v).done = {}
         /\ \A w \in {CntrOnlyWord(c, a, n, v), CntrHighWord(c, a, n, v)} :
              w.done = {[core |-> c, what |-> [kind |-> "PerfCntr", pc |-> a, index |-> n, value |-> v]]}
<1> DEFINE l == [kind |-> "PerfCntr", pc |-> a, index |-> n, value |-> v]
<1>1. v \in Wides /\ v[1] \in Nat /\ v[2] \in Nat /\ v[1] % HighRange \in Nat
  BY LibraryAssumption DEF Wides
<1>2. l \in Lines
  <2>1. n \in Nat
    BY PerfAssumption
  <2>2. l \in [kind : {"PerfCntr"}, pc : Wides, index : Nat, value : Wides]
    BY <1>1, <2>1
  <2> QED
    BY <2>2 DEF Lines
<1>3. /\ CntrHighWord(c, a, n, v) = Word(c, 2, v[1] % HighRange, {l})
      /\ CntrOnlyWord(c, a, n, v) = Word(c, 0, v[2], {l})
  BY DEF CntrHighWord, CntrOnlyWord, CntrDone
<1> HIDE DEF l
<1>4. /\ CntrLowWord(c, v) \in WordsOf(c) /\ CntrLowWord(c, v).data = v[2]
      /\ CntrLowWord(c, v).offset = 0 /\ CntrLowWord(c, v).done = {}
  BY <1>1, WordIs DEF CntrLowWord
<1>5. /\ CntrHighWord(c, a, n, v) \in WordsOf(c) /\ CntrHighWord(c, a, n, v).data = v[1] % HighRange
      /\ CntrHighWord(c, a, n, v).offset = 2 /\ CntrHighWord(c, a, n, v).done = {[core |-> c, what |-> l]}
  BY <1>1, <1>2, <1>3, WordLine
<1>6. /\ CntrOnlyWord(c, a, n, v) \in WordsOf(c) /\ CntrOnlyWord(c, a, n, v).data = v[2]
      /\ CntrOnlyWord(c, a, n, v).offset = 0 /\ CntrOnlyWord(c, a, n, v).done = {[core |-> c, what |-> l]}
  BY <1>1, <1>2, <1>3, WordLine
<1>7. EmitCntr(c, n, a, v) = IF v[1] # 0 THEN <<CntrLowWord(c, v), CntrHighWord(c, a, n, v)>>
                             ELSE <<CntrOnlyWord(c, a, n, v)>>
  BY DEF EmitCntr, CntrLowWord, CntrHighWord, CntrOnlyWord, CntrDone
<1> DEFINE S == Items(c)
           x == CntrLowWord(c, v)
           y == CntrHighWord(c, a, n, v)
<1>8. x \in S /\ y \in S /\ s \in Seq(S)
  BY <1>4, <1>5 DEF Items
<1> HIDE DEF S, x, y
<1>9. <<x, y>> \o s = Cons(x, Cons(y, s)) /\ Cons(y, s) \in Seq(S)
  <2>1. <<x, y>> \o s = Cons(x, Cons(y, s))
    BY <1>8, PairIs
  <2>2. Cons(y, s) \in Seq(S)
    BY <1>8, ConsIs
  <2> QED
    BY <2>1, <2>2
<1> DEFINE z == CntrOnlyWord(c, a, n, v)
<1>10. v[1] # 0 => EmitCntr(c, n, a, v) \o s = Cons(x, Cons(y, s))
  BY <1>7, <1>9 DEF x, y
<1>11. v[1] = 0 => EmitCntr(c, n, a, v) \o s = Cons(z, s)
  BY <1>7 DEF Cons
<1> QED
  BY <1>4, <1>5, <1>6, <1>9, <1>10, <1>11 DEF x, y, S, l

\* What a loop has still to do.
LEMMA LoopsAre ==
  ASSUME NEW c \in Core, NEW i \in Nat, NEW a \in Wides, MaskOK(c)
  PROVE  /\ EventsFrom(c, i) \in Seq(Items(c)) /\ perfEmitCntrs(c, a, i) \in Seq(Items(c))
         /\ NextIndex(mask[c], i) = NumCntrs => EventsFrom(c, i) = <<>> /\ perfEmitCntrs(c, a, i) = <<>>
         /\ NextIndex(mask[c], i) # NumCntrs =>
              /\ NextIndex(mask[c], i) \in i..NumCntrs - 1 /\ NextIndex(mask[c], i) \in 0..NumCntrs - 1
              /\ EventsFrom(c, i) = <<[event |-> NextIndex(mask[c], i)]>>
              /\ perfEmitCntrs(c, a, i) = <<[counter |-> NextIndex(mask[c], i), pc |-> a]>>
<1> DEFINE n == NextIndex(mask[c], i)
           S == Items(c)
<1>1. mask[c] \in Nat
  BY PowerDoubles, PerfAssumption DEF MaskOK
<1>2. n # NumCntrs => n \in i..NumCntrs - 1 /\ n \in 0..NumCntrs - 1
  BY <1>1, NextIndexIs
<1>3. /\ EventsFrom(c, i) = IF n = NumCntrs THEN <<>> ELSE <<[event |-> n]>>
      /\ perfEmitCntrs(c, a, i) = IF n = NumCntrs THEN <<>> ELSE <<[counter |-> n, pc |-> a]>>
  BY DEF EventsFrom, perfEmitCntrs
<1> HIDE DEF n
<1>4. n # NumCntrs => [event |-> n] \in S /\ [counter |-> n, pc |-> a] \in S
  BY <1>2 DEF Items
<1> HIDE DEF S
<1>5. \A x \in S : <<x>> \in Seq(S)
  OBVIOUS
<1>6. <<>> \in Seq(S)
  OBVIOUS
<1> QED
  BY <1>2, <1>3, <1>4, <1>5, <1>6 DEF n, S

\* Functions and where they are called from are addresses, their line is one.
LEMMA HookTypes ==
  ASSUME NEW f \in Functions, NEW b \in BOOLEAN
  PROVE  /\ f[1] \in CodeAddress /\ f[2] \in CodeAddress /\ f[1] \in Wides /\ f[2] \in Wides
         /\ OneLine(FuncLine(b, f[1], f[2]))
<1>1. f[1] \in CodeAddress /\ f[2] \in CodeAddress
  BY LibraryAssumption
<1>2. f[1] \in Wides /\ f[2] \in Wides
  BY <1>1 DEF CodeAddress, Unmarked, Wides
<1> DEFINE k == IF b THEN "FuncEnter" ELSE "FuncExit"
           l == [kind |-> k, fn |-> f[1], site |-> f[2]]
<1>3. k \in {"FuncEnter", "FuncExit"}
  OBVIOUS
<1> HIDE DEF k
<1>4. l \in Lines
  BY <1>2, <1>3 DEF Lines
<1>5. FuncLine(b, f[1], f[2]) = {l}
  BY DEF FuncLine, k
<1> QED
  BY <1>1, <1>2, <1>4, <1>5 DEF OneLine

\* An address's line is one.
LEMMA AddressTypes ==
  ASSUME NEW a \in CodeAddress
  PROVE  a \in Wides /\ OneLine(AddressDone(a)) /\ OneLine({})
<1>1. a \in Wides
  BY DEF CodeAddress, Unmarked, Wides
<1>2. [kind |-> "Address", pc |-> a] \in Lines
  BY <1>1 DEF Lines
<1> QED
  BY <1>1, <1>2 DEF OneLine, AddressDone

\* Records are sequences of items.
LEMMA RecordsAre ==
  ASSUME NEW c \in Core, MaskOK(c)
  PROVE  /\ \A b \in Records(c) : b \in Seq(Items(c))
         /\ \A b \in BOOLEAN, f \in Functions : HookSite(c, b, f[1], f[2]) \in Seq(Items(c))
         /\ \A f \in Functions : HookRecord(c, TRUE, f[1], f[2]) =
              Cons(Word(c, 3, Call, {}), EmitAddress(c, f[1], {}) \o HookSite(c, TRUE, f[1], f[2]))
         /\ \A f \in Functions : HookRecord(c, FALSE, f[1], f[2]) =
              EmitAddress(c, f[1], {}) \o HookSite(c, FALSE, f[1], f[2])
         /\ \A b \in BOOLEAN, f \in Functions :
              EmitAddress(c, f[1], {}) \o HookSite(c, b, f[1], f[2]) \in Seq(Items(c))
         /\ Word(c, 3, Call, {}) \in WordsOf(c)
<1>1. ASSUME NEW a \in Wides PROVE perfEmitCntrs(c, a, 0) \in Seq(Items(c))
  BY LoopsAre
<1>2. ASSUME NEW a \in Addresses PROVE ManualRecord(c, a) \in Seq(Items(c))
  <2>1. a \in CodeAddress
    BY LibraryAssumption
  <2> QED
    BY <1>1, <2>1, AddressIs, AddressTypes DEF ManualRecord, AddressDone
<1>3. ASSUME NEW b \in BOOLEAN, NEW f \in Functions
      PROVE  HookSite(c, b, f[1], f[2]) \in Seq(Items(c))
  BY <1>1, HookTypes, AddressIs DEF HookSite
<1>4. ASSUME NEW b \in BOOLEAN, NEW f \in Functions
      PROVE  EmitAddress(c, f[1], {}) \o HookSite(c, b, f[1], f[2]) \in Seq(Items(c))
  BY <1>3, HookTypes, AddressIs DEF OneLine
<1>5. Word(c, 3, Call, {}) \in WordsOf(c)
  BY WordIs DEF Call
<1> DEFINE S == Items(c)
           w == Word(c, 3, Call, {})
<1>6. w \in S
  BY <1>5 DEF Items
<1>7. ASSUME NEW f \in Functions
      PROVE  HookRecord(c, FALSE, f[1], f[2]) = EmitAddress(c, f[1], {}) \o HookSite(c, FALSE, f[1], f[2])
  <2> DEFINE s == EmitAddress(c, f[1], {}) \o HookSite(c, FALSE, f[1], f[2])
  <2>1. s \in Seq(S)
    BY <1>4
  <2>2. HookRecord(c, FALSE, f[1], f[2]) = <<>> \o s
    BY DEF HookRecord
  <2> HIDE DEF s, S
  <2>3. <<>> \o s = s
    BY <2>1, ConcatEmptySeq
  <2> QED
    BY <2>2, <2>3 DEF s
<1>8. ASSUME NEW f \in Functions
      PROVE  HookRecord(c, TRUE, f[1], f[2]) =
               Cons(w, EmitAddress(c, f[1], {}) \o HookSite(c, TRUE, f[1], f[2]))
  BY DEF HookRecord, Cons
<1>9. ASSUME NEW b \in BOOLEAN, NEW f \in Functions
      PROVE  HookRecord(c, b, f[1], f[2]) \in Seq(S)
  <2> DEFINE s == EmitAddress(c, f[1], {}) \o HookSite(c, TRUE, f[1], f[2])
  <2>1. s \in Seq(S)
    BY <1>4
  <2> HIDE DEF S, w, s
  <2>2. Cons(w, s) \in Seq(S)
    BY <2>1, <1>6, ConsIs
  <2>3. HookRecord(c, TRUE, f[1], f[2]) \in Seq(S)
    BY <1>8, <2>2 DEF s
  <2>4. HookRecord(c, FALSE, f[1], f[2]) \in Seq(S)
    BY <1>7, <1>4 DEF S
  <2> QED
    BY <2>3, <2>4
<1>10. \A b \in Records(c) : b \in Seq(Items(c))
  BY <1>2, <1>9 DEF Records
<1> QED
  BY <1>3, <1>4, <1>5, <1>7, <1>8, <1>10

-----------------------------------------------------------------------------
(* A core writes its record word by word.                                  *)

\* The counters have no more than their high word has room for.
CountersFit == \A v \in Values : v[1] < HighRange

RestOf(c, t, v) == Turn(c, Head(t), v) \o Tail(t)

\* A word is written as it is.
LEMMA TurnWord ==
  ASSUME NEW c, NEW w \in WordsOf(c), NEW s \in Seq(Items(c)), NEW v
  PROVE  RestOf(c, Cons(w, s), v) = Cons(w, s)
<1>1. w \in Items(c)
  BY DEF Items
<1>2. Head(Cons(w, s)) = w /\ Tail(Cons(w, s)) = s
  BY <1>1, ConsIs
<1>3. Turn(c, w, v) = <<w>>
  BY ItemKinds DEF Turn
<1> QED
  BY <1>2, <1>3 DEF RestOf, Cons

\* A turn of the loop over the events.
LEMMA TurnEvent ==
  ASSUME NEW c \in Core, MaskOK(c), NEW n \in 0..NumCntrs - 1, NEW b \in Seq(Items(c)), NEW v
  PROVE  /\ RestOf(c, Cons([event |-> n], b), v) =
              Cons(EventLow(c, n), Cons(EventHigh(c, n), EventsFrom(c, n + 1) \o b))
         /\ EventsFrom(c, n + 1) \o b \in Seq(Items(c))
<1> DEFINE S == Items(c)
           x == [event |-> n]
           e == EventsFrom(c, n + 1)
<1>1. x \in S
  BY DEF Items
<1>2. e \in Seq(S)
  <2>1. n + 1 \in Nat
    BY PerfAssumption
  <2>2. <<0, 0>> \in Wides
    BY DEF Wides
  <2> QED
    BY <2>1, <2>2, LoopsAre
<1>3. Head(Cons(x, b)) = x /\ Tail(Cons(x, b)) = b
  BY <1>1, ConsIs
<1>4. Turn(c, x, v) = EmitEvent(c, n) \o e
  <2>1. IsEvent(x) /\ ~IsCntr(x)
    BY ItemKinds
  <2>2. x.event = n
    OBVIOUS
  <2> HIDE DEF x
  <2>3. Turn(c, x, v) = EmitEvent(c, x.event) \o EventsFrom(c, x.event + 1)
    BY <2>1 DEF Turn
  <2> QED
    BY <2>2, <2>3
<1> DEFINE p == EmitEvent(c, n)
<1>5. p = <<EventLow(c, n), EventHigh(c, n)>>
  BY DEF EmitEvent, EventLow, EventHigh
<1>6. EventLow(c, n) \in S /\ EventHigh(c, n) \in S
  <2>1. <<>> \in Seq(S)
    OBVIOUS
  <2> QED
    BY <2>1, EventIs DEF Items
<1>7. p \in Seq(S)
  <2> HIDE DEF p, S
  <2> QED
    BY <1>5, <1>6
<1>8. e \o b \in Seq(S) /\ (p \o e) \o b = p \o (e \o b)
  <2> HIDE DEF p, e, S
  <2> QED
    BY <1>2, <1>7, ConcatAssociative, ConcatProperties DEF S
<1>9. p \o (e \o b) = Cons(EventLow(c, n), Cons(EventHigh(c, n), e \o b))
  BY <1>8, EventIs
<1>10. RestOf(c, Cons(x, b), v) = (p \o e) \o b
  BY <1>3, <1>4 DEF RestOf
<1> QED
  BY <1>8, <1>9, <1>10

\* A turn of the loop over the counters.
LEMMA TurnCntr ==
  ASSUME NEW c \in Core, MaskOK(c), NEW n \in 0..NumCntrs - 1, NEW a \in Wides, NEW v \in Values
  PROVE  /\ AtCntrLow(c, RestOf(c, <<[counter |-> n, pc |-> a]>>, v), n, a, v)
         /\ perfEmitCntrs(c, a, n + 1) \in Seq(Items(c))
<1> DEFINE S == Items(c)
           x == [counter |-> n, pc |-> a]
           k == perfEmitCntrs(c, a, n + 1)
           p == EmitCntr(c, n, a, v)
           u == p \o k
<1>1. k \in Seq(S)
  <2>1. n + 1 \in Nat
    BY PerfAssumption
  <2> QED
    BY <2>1, LoopsAre
<1>2. Head(<<x>>) = x /\ Tail(<<x>>) = <<>>
  OBVIOUS
<1>3. Turn(c, x, v) = u
  <2>1. IsCntr(x) /\ ~IsEvent(x)
    BY ItemKinds
  <2>2. x.counter = n /\ x.pc = a
    OBVIOUS
  <2> HIDE DEF x
  <2> QED
    BY <2>1, <2>2 DEF Turn
<1>4. /\ v[1] # 0 => u = Cons(CntrLowWord(c, v), Cons(CntrHighWord(c, a, n, v), k))
      /\ v[1] = 0 => u = Cons(CntrOnlyWord(c, a, n, v), k)
      /\ Cons(CntrHighWord(c, a, n, v), k) \in Seq(S)
      /\ CntrLowWord(c, v) \in S /\ CntrOnlyWord(c, a, n, v) \in S
  <2>1. WordsOf(c) \subseteq S
    BY DEF Items
  <2> HIDE DEF k
  <2>2. k \in Seq(Items(c))
    BY <1>1
  <2>3. /\ v[1] # 0 => u = Cons(CntrLowWord(c, v), Cons(CntrHighWord(c, a, n, v), k))
        /\ v[1] = 0 => u = Cons(CntrOnlyWord(c, a, n, v), k)
        /\ Cons(CntrHighWord(c, a, n, v), k) \in Seq(S)
    BY <2>2, CntrIs
  <2>4. CntrLowWord(c, v) \in WordsOf(c) /\ CntrOnlyWord(c, a, n, v) \in WordsOf(c)
    BY <2>2, CntrIs
  <2> QED
    BY <2>1, <2>3, <2>4
<1>5. u \in Seq(S)
  <2> DEFINE x1 == CntrLowWord(c, v)
             x2 == CntrOnlyWord(c, a, n, v)
             h == Cons(CntrHighWord(c, a, n, v), k)
  <2>1. x1 \in S /\ x2 \in S /\ h \in Seq(S)
    BY <1>4
  <2>2. v[1] # 0 => u = Cons(x1, h)
    BY <1>4
  <2>3. v[1] = 0 => u = Cons(x2, k)
    BY <1>4
  <2> HIDE DEF S, x1, x2, h, k, u
  <2>4. Cons(x1, h) \in Seq(S) /\ Cons(x2, k) \in Seq(S)
    BY <1>1, <2>1, ConsIs
  <2> QED
    BY <2>2, <2>3, <2>4
<1>6. u \o <<>> = u
  <2> HIDE DEF S, u
  <2> QED
    BY <1>5, ConcatEmptySeq
<1>7. RestOf(c, <<x>>, v) = u
  BY <1>2, <1>3, <1>6 DEF RestOf
<1> QED
  BY <1>1, <1>4, <1>7 DEF AtCntrLow

\* Behind a part of a record come the counters.
LEMMA CntrsShape ==
  ASSUME NEW c \in Core, MaskOK(c), NEW a \in CodeAddress, NEW i \in Nat
  PROVE  Shape(c, perfEmitCntrs(c, a, i)) /\ perfEmitCntrs(c, a, i) \in Seq(Items(c))
<1> DEFINE n == NextIndex(mask[c], i)
           t == perfEmitCntrs(c, a, i)
<1>1. /\ t \in Seq(Items(c)) /\ (n = NumCntrs => t = <<>>)
      /\ n # NumCntrs => n \in 0..NumCntrs - 1 /\ t = <<[counter |-> n, pc |-> a]>>
  BY AddressTypes, LoopsAre
<1> HIDE DEF n, t
<1>2. n # NumCntrs => \E m \in 0..NumCntrs - 1, d \in CodeAddress : AtCntr(t, m, d)
  BY <1>1 DEF AtCntr
<1> QED
  BY <1>1, <1>2 DEF Shape, t

\* Behind a marker's mask come its events, then the record.
LEMMA EventsShape ==
  ASSUME NEW c \in Core, MaskOK(c), NEW b \in Records(c), NEW i \in Nat, i >= 3
  PROVE  LET t == EventsFrom(c, i) \o b
             n == NextIndex(mask[c], i)
         IN /\ t \in Seq(Items(c)) /\ Shape(c, t)
            /\ n = NumCntrs => t = b
            /\ n # NumCntrs => n \in 3..NumCntrs - 1 /\ AtEvent(c, t, n)
<1> DEFINE n == NextIndex(mask[c], i)
           e == EventsFrom(c, i)
           t == e \o b
           S == Items(c)
<1>1. /\ e \in Seq(S) /\ (n = NumCntrs => e = <<>>)
      /\ n # NumCntrs => n \in i..NumCntrs - 1 /\ e = <<[event |-> n]>>
  <2>1. <<0, 0>> \in Wides
    BY DEF Wides
  <2> QED
    BY <2>1, LoopsAre
<1>2. b \in Seq(S)
  BY RecordsAre
<1>3. t \in Seq(S) /\ <<>> \o b = b
  <2> HIDE DEF S, e
  <2> QED
    BY <1>1, <1>2, ConcatProperties, ConcatEmptySeq
<1>4. n # NumCntrs => n \in 3..NumCntrs - 1
  BY <1>1, PerfAssumption
<1> HIDE DEF n, S
<1>5. n # NumCntrs => AtEvent(c, t, n)
  BY <1>1 DEF AtEvent, Cons
<1> HIDE DEF e
<1>6. n = NumCntrs => t = b
  BY <1>1, <1>3
<1> HIDE DEF t
<1>7. Shape(c, t)
  BY <1>4, <1>5, <1>6 DEF Shape
<1> QED
  BY <1>3, <1>4, <1>5, <1>6, <1>7 DEF t, n, e, S

\* t begins with a word, and what follows is the rest of a record.
Begins(c, t, w, s) ==
  w \in WordsOf(c) /\ s \in Seq(Items(c)) /\ t = Cons(w, s) /\ Shape(c, s)

\* What is written of t begins with a word that does not look like a marker,
\* unless it is one.
Writes(c, t, u) ==
  \E w \in WordsOf(c), s \in Seq(Items(c)) :
     /\ u = Cons(w, s) /\ Shape(c, s)
     /\ w.data \in Markers /\ inSync[c] = "no" => AtMarker(c, t) /\ w = MarkerWord(c)

\* A word at the head is what is written.
LEMMA WritesWord ==
  ASSUME NEW c, NEW t, NEW w, NEW s, Begins(c, t, w, s), NEW v,
         w.data \notin Markers \/ (AtMarker(c, t) /\ w = MarkerWord(c)) \/ inSync[c] # "no"
  PROVE  Writes(c, t, RestOf(c, t, v))
<1>1. RestOf(c, t, v) = Cons(w, s)
  BY TurnWord DEF Begins
<1> QED
  BY <1>1 DEF Begins, Writes

\* An address is written, and then what follows it.
LEMMA AddressBegins ==
  ASSUME NEW c \in Core, NEW a \in CodeAddress, NEW done, OneLine(done),
         NEW s \in Seq(Items(c)), Shape(c, s),
         a[1] # 0 => Shape(c, Cons(AddressHigh(c, a, done), s))
  PROVE  \E w, u : Begins(c, EmitAddress(c, a, done) \o s, w, u) /\ w.data \notin Markers
<1>1. CASE a[1] # 0
  <2> DEFINE w == AddressLow(c, a)
             u == Cons(AddressHigh(c, a, done), s)
  <2>1. EmitAddress(c, a, done) \o s = Cons(w, u)
    BY <1>1, AddressIs
  <2>2. u \in Seq(Items(c))
    BY AddressIs
  <2>3. w \in WordsOf(c) /\ w.data \notin Markers
    BY AddressIs
  <2>4. Shape(c, u)
    BY <1>1
  <2> HIDE DEF w, u
  <2> QED
    BY <2>1, <2>2, <2>3, <2>4 DEF Begins
<1>2. CASE a[1] = 0
  <2> DEFINE w == AddressOnly(c, a, done)
  <2>1. EmitAddress(c, a, done) \o s = Cons(w, s)
    BY <1>2, AddressIs
  <2>2. w \in WordsOf(c) /\ w.data \notin Markers
    BY AddressIs
  <2> HIDE DEF w
  <2> QED
    BY <2>1, <2>2 DEF Begins
<1> QED
  BY <1>1, <1>2

\* Behind the high word of an address is what follows the address.
LEMMA HighBegins ==
  ASSUME NEW c \in Core, NEW a \in CodeAddress, NEW done, OneLine(done),
         NEW s \in Seq(Items(c)), Shape(c, s)
  PROVE  \E w, u : Begins(c, Cons(AddressHigh(c, a, done), s), w, u) /\ w.data \notin Markers
<1>1. AddressHigh(c, a, done) \in WordsOf(c) /\ AddressHigh(c, a, done).data \notin Markers
  BY AddressIs
<1> QED
  BY <1>1 DEF Begins

\* The parts of a function's record, one after the other.
LEMMA HookBegins ==
  ASSUME NEW c \in Core, MaskOK(c), NEW t, NEW b \in BOOLEAN, NEW f \in Functions,
         AtFn(c, t, b, f) \/ AtFnHigh(c, t, b, f) \/ AtSite(c, t, b, f) \/ AtSiteHigh(c, t, b, f)
  PROVE  \E w, u : Begins(c, t, w, u) /\ w.data \notin Markers
<1> DEFINE done == FuncLine(b, f[1], f[2])
           k == perfEmitCntrs(c, f[1], 0)
           site == HookSite(c, b, f[1], f[2])
<1>1. /\ f[1] \in CodeAddress /\ f[2] \in CodeAddress /\ OneLine(done) /\ OneLine({})
      /\ traceType = "func"
  BY HookTypes DEF AtFn, AtFnHigh, AtSite, AtSiteHigh, OneLine
<1>2. k \in Seq(Items(c)) /\ Shape(c, k)
  BY <1>1, CntrsShape
<1>3. site \in Seq(Items(c)) /\ site = EmitAddress(c, f[2], done) \o k
  BY RecordsAre DEF HookSite
<1>4. Shape(c, site)
  <2>1. AtSite(c, site, b, f)
    BY <1>1 DEF AtSite
  <2> HIDE DEF site
  <2> QED
    BY <2>1 DEF Shape
<1>5. f[2][1] # 0 => Shape(c, Cons(AddressHigh(c, f[2], done), k))
  <2> DEFINE s == Cons(AddressHigh(c, f[2], done), k)
  <2>1. f[2][1] # 0 => AtSiteHigh(c, s, b, f)
    BY <1>1 DEF AtSiteHigh
  <2> HIDE DEF s
  <2> QED
    BY <2>1 DEF Shape, s
<1>6. f[1][1] # 0 => Shape(c, Cons(AddressHigh(c, f[1], {}), site))
  <2> DEFINE s == Cons(AddressHigh(c, f[1], {}), site)
  <2>1. f[1][1] # 0 => AtFnHigh(c, s, b, f)
    BY <1>1 DEF AtFnHigh
  <2> HIDE DEF s
  <2> QED
    BY <2>1 DEF Shape, s
<1> HIDE DEF done, k, site
<1>7. CASE AtFn(c, t, b, f)
  BY <1>1, <1>3, <1>4, <1>6, <1>7, AddressBegins DEF AtFn, site
<1>8. CASE AtFnHigh(c, t, b, f)
  BY <1>1, <1>3, <1>4, <1>8, HighBegins DEF AtFnHigh, site
<1>9. CASE AtSite(c, t, b, f)
  <2>1. t = EmitAddress(c, f[2], done) \o k
    BY <1>3, <1>9 DEF AtSite, site
  <2> QED
    BY <1>1, <1>2, <1>5, <2>1, AddressBegins
<1>10. CASE AtSiteHigh(c, t, b, f)
  BY <1>1, <1>2, <1>10, HighBegins DEF AtSiteHigh, done, k
<1> QED
  BY <1>7, <1>8, <1>9, <1>10

\* The words of an event and of a counter, without what follows them.
LEMMA EventWords ==
  ASSUME NEW c \in Core, NEW n \in 3..NumCntrs - 1
  PROVE  /\ EventLow(c, n).data = EventOf[n][2] /\ EventHigh(c, n).data = EventOf[n][1]
         /\ EventLow(c, n).data \notin Markers /\ EventHigh(c, n).data \notin Markers
         /\ EventLow(c, n).done = {}
         /\ EventHigh(c, n).done =
              {[core |-> c, what |-> [kind |-> "PerfCntrDef", index |-> n, value |-> EventOf[n]]]}
<1>1. n \in 0..NumCntrs - 1 /\ <<>> \in Seq(Items(c))
  BY PerfAssumption
<1> QED
  BY <1>1, EventIs

\* What a counter is written as.
LEMMA CntrWords ==
  ASSUME NEW c \in Core, NEW n \in 0..NumCntrs - 1, NEW a \in CodeAddress, NEW v \in Values
  PROVE  /\ CntrLowWord(c, v).data = v[2] /\ CntrLowWord(c, v).offset = 0
         /\ CntrLowWord(c, v).done = {}
         /\ CntrOnlyWord(c, a, n, v).data = v[2] /\ CntrOnlyWord(c, a, n, v).offset = 0
         /\ CntrHighWord(c, a, n, v).data = v[1] % HighRange /\ CntrHighWord(c, a, n, v).offset = 2
         /\ \A w \in {CntrOnlyWord(c, a, n, v), CntrHighWord(c, a, n, v)} :
              w.done = {[core |-> c, what |-> [kind |-> "PerfCntr", pc |-> a, index |-> n, value |-> v]]}
<1> DEFINE s == <<>>
<1>1. a \in Wides /\ s \in Seq(Items(c))
  BY AddressTypes
<1> HIDE DEF s
<1>2. /\ CntrLowWord(c, v).data = v[2] /\ CntrLowWord(c, v).offset = 0 /\ CntrLowWord(c, v).done = {}
      /\ CntrOnlyWord(c, a, n, v).data = v[2] /\ CntrOnlyWord(c, a, n, v).offset = 0
  BY <1>1, CntrIs
<1>3. CntrHighWord(c, a, n, v).data = v[1] % HighRange /\ CntrHighWord(c, a, n, v).offset = 2
  BY <1>1, CntrIs
<1>4. \A w \in {CntrOnlyWord(c, a, n, v), CntrHighWord(c, a, n, v)} :
        w.done = {[core |-> c, what |-> [kind |-> "PerfCntr", pc |-> a, index |-> n, value |-> v]]}
  BY <1>1, CntrIs
<1> QED
  BY <1>2, <1>3, <1>4

\* A marker, its mask, and its events.
LEMMA MarkerBegins ==
  ASSUME NEW c \in Core, MaskOK(c), NEW t, AtMarker(c, t)
  PROVE  \E s : Begins(c, t, MarkerWord(c), s) /\ AtMask(c, s)
<1>1. PICK b \in Records(c) : t = Cons(MarkerWord(c), Cons(MaskWord(c), EventsFrom(c, 3) \o b))
  BY DEF AtMarker
<1> DEFINE e == EventsFrom(c, 3) \o b
           s == Cons(MaskWord(c), e)
<1>2. e \in Seq(Items(c)) /\ AtMask(c, s)
  BY EventsShape DEF AtMask
<1>3. MarkerWord(c) \in WordsOf(c) /\ MaskWord(c) \in Items(c)
  <2>1. perfMarkerVal \in Nat /\ mask[c] \in Nat
    BY PerfAssumption DEF perfMarkerVal, MaskOK, Unmarked
  <2>2. [kind |-> "PerfCntrMask", mask |-> mask[c]] \in Lines
    BY <2>1 DEF Lines
  <2> QED
    BY <2>1, <2>2, WordIs, WordLine DEF MarkerWord, MaskWord, Items
<1> HIDE DEF e
<1>4. s \in Seq(Items(c))
  BY <1>2, <1>3, ConsIs
<1>5. Shape(c, s)
  <2> HIDE DEF s
  <2> QED
    BY <1>2 DEF Shape
<1>6. Begins(c, t, MarkerWord(c), s)
  BY <1>1, <1>3, <1>4, <1>5 DEF Begins, e
<1> QED
  BY <1>2, <1>6

\* Behind the marker comes the mask, and then the events or the record.
LEMMA MaskBegins ==
  ASSUME NEW c \in Core, MaskOK(c), NEW t, AtMask(c, t)
  PROVE  \E b \in Records(c) : /\ Begins(c, t, MaskWord(c), EventsFrom(c, 3) \o b)
                               /\ MaskWord(c).data = mask[c] /\ mask[c] \notin Markers
                               /\ MaskWord(c).done =
                                    {[core |-> c, what |-> [kind |-> "PerfCntrMask", mask |-> mask[c]]]}
<1>1. PICK b \in Records(c) : t = Cons(MaskWord(c), EventsFrom(c, 3) \o b)
  BY DEF AtMask
<1>2. EventsFrom(c, 3) \o b \in Seq(Items(c)) /\ Shape(c, EventsFrom(c, 3) \o b)
  BY EventsShape
<1>3. mask[c] \in Nat /\ mask[c] \notin Markers
  BY DEF MaskOK, Unmarked
<1> DEFINE l == [kind |-> "PerfCntrMask", mask |-> mask[c]]
<1>4. l \in Lines
  BY <1>3 DEF Lines
<1> HIDE DEF l
<1>5. /\ MaskWord(c) \in WordsOf(c) /\ MaskWord(c).data = mask[c]
      /\ MaskWord(c).done = {[core |-> c, what |-> l]}
  BY <1>3, <1>4, WordLine DEF MaskWord, l
<1> QED
  BY <1>1, <1>2, <1>3, <1>5 DEF Begins, l

\* The second word of an event, and then the next event or the record.
LEMMA EventHighBegins ==
  ASSUME NEW c \in Core, MaskOK(c), NEW n \in 3..NumCntrs - 1, NEW t, AtEventHigh(c, t, n)
  PROVE  \E b \in Records(c) : Begins(c, t, EventHigh(c, n), EventsFrom(c, n + 1) \o b)
<1>1. PICK b \in Records(c) : t = Cons(EventHigh(c, n), EventsFrom(c, n + 1) \o b)
  BY DEF AtEventHigh
<1>2. n \in 0..NumCntrs - 1 /\ n + 1 \in Nat /\ n + 1 >= 3
  BY PerfAssumption
<1>3. EventsFrom(c, n + 1) \o b \in Seq(Items(c)) /\ Shape(c, EventsFrom(c, n + 1) \o b)
  BY <1>2, EventsShape
<1>4. EventHigh(c, n) \in WordsOf(c)
  BY <1>2, <1>3, EventIs
<1> QED
  BY <1>1, <1>3, <1>4 DEF Begins

\* An event begins with its low word.
LEMMA EventLowBegins ==
  ASSUME NEW c \in Core, MaskOK(c), NEW n \in 3..NumCntrs - 1, NEW t, AtEventLow(c, t, n)
  PROVE  \E s : Begins(c, t, EventLow(c, n), s) /\ AtEventHigh(c, s, n)
<1>1. PICK b \in Records(c) :
        t = Cons(EventLow(c, n), Cons(EventHigh(c, n), EventsFrom(c, n + 1) \o b))
  BY DEF AtEventLow
<1> DEFINE e == EventsFrom(c, n + 1) \o b
           s == Cons(EventHigh(c, n), e)
<1>2. n \in 0..NumCntrs - 1 /\ n + 1 \in Nat /\ n + 1 >= 3
  BY PerfAssumption
<1>3. e \in Seq(Items(c))
  BY <1>2, EventsShape
<1>4. EventLow(c, n) \in WordsOf(c) /\ s \in Seq(Items(c))
  <2> HIDE DEF e
  <2> QED
    BY <1>2, <1>3, EventIs
<1>5. AtEventHigh(c, s, n)
  BY DEF AtEventHigh
<1>6. t = Cons(EventLow(c, n), s)
  BY <1>1
<1> HIDE DEF s
<1>7. Shape(c, s)
  BY <1>5 DEF Shape
<1> QED
  BY <1>4, <1>5, <1>6, <1>7 DEF Begins

\* A counter's words, and behind them the other counters.
LEMMA CntrHighBegins ==
  ASSUME NEW c \in Core, MaskOK(c), NEW n \in 0..NumCntrs - 1, NEW a \in CodeAddress,
         NEW v \in Values, NEW t, AtCntrHigh(c, t, n, a, v)
  PROVE  Begins(c, t, CntrHighWord(c, a, n, v), perfEmitCntrs(c, a, n + 1))
<1> DEFINE k == perfEmitCntrs(c, a, n + 1)
           w == CntrHighWord(c, a, n, v)
<1>1. n + 1 \in Nat /\ a \in Wides
  BY PerfAssumption, AddressTypes
<1>2. k \in Seq(Items(c)) /\ Shape(c, k)
  BY <1>1, CntrsShape
<1>3. w \in WordsOf(c)
  <2> HIDE DEF k
  <2> QED
    BY <1>1, <1>2, CntrIs
<1>4. t = Cons(w, k)
  BY DEF AtCntrHigh
<1> HIDE DEF w, k
<1> QED
  BY <1>2, <1>3, <1>4 DEF Begins, w, k

\* A counter begins with its low word, which may be all of it.
LEMMA CntrLowBegins ==
  ASSUME NEW c \in Core, MaskOK(c), NEW n \in 0..NumCntrs - 1, NEW a \in CodeAddress,
         NEW v \in Values, inSync[c] = "no" => v[1] \notin Markers, NEW t, AtCntrLow(c, t, n, a, v)
  PROVE  /\ v[1] # 0 => \E s : Begins(c, t, CntrLowWord(c, v), s) /\ AtCntrHigh(c, s, n, a, v)
         /\ v[1] = 0 => Begins(c, t, CntrOnlyWord(c, a, n, v), perfEmitCntrs(c, a, n + 1))
<1> DEFINE k == perfEmitCntrs(c, a, n + 1)
           h == Cons(CntrHighWord(c, a, n, v), k)
<1>1. n + 1 \in Nat /\ a \in Wides
  BY PerfAssumption, AddressTypes
<1>2. k \in Seq(Items(c)) /\ Shape(c, k)
  BY <1>1, CntrsShape
<1> HIDE DEF k
<1>3. CntrLowWord(c, v) \in WordsOf(c) /\ CntrOnlyWord(c, a, n, v) \in WordsOf(c)
  BY <1>1, <1>2, CntrIs
<1>4. h \in Seq(Items(c))
  BY <1>1, <1>2, CntrIs
<1>5. v[1] # 0 => AtCntrHigh(c, h, n, a, v)
  BY DEF AtCntrHigh, k
<1>6. /\ v[1] # 0 => t = Cons(CntrLowWord(c, v), h)
      /\ v[1] = 0 => t = Cons(CntrOnlyWord(c, a, n, v), k)
  BY DEF AtCntrLow, k
<1> HIDE DEF h
<1>7. v[1] # 0 => Shape(c, h)
  BY <1>5 DEF Shape
<1> QED
  BY <1>2, <1>3, <1>4, <1>5, <1>6, <1>7 DEF Begins, k

\* A record without marker begins with a word that does not look like one.
LEMMA RecordBegins ==
  ASSUME NEW c \in Core, MaskOK(c), NEW t \in Records(c)
  PROVE  \E w, u : Begins(c, t, w, u) /\ w.data \notin Markers
<1>1. CASE traceType = "func"
  <2>1. PICK b \in BOOLEAN, f \in Functions : t = HookRecord(c, b, f[1], f[2])
    BY <1>1 DEF Records
  <2> DEFINE s == EmitAddress(c, f[1], {}) \o HookSite(c, b, f[1], f[2])
             w == Word(c, 3, Call, {})
  <2>2. AtFn(c, s, b, f)
    BY <1>1 DEF AtFn
  <2>3. s \in Seq(Items(c)) /\ w \in WordsOf(c)
    BY RecordsAre
  <2>4. w.data \notin Markers
    BY LibraryAssumption DEF Call, Word
  <2>5. CASE b
    <3>1. t = Cons(w, s)
      BY <2>1, <2>5, RecordsAre
    <3> HIDE DEF s, w
    <3>2. Shape(c, s)
      BY <2>2 DEF Shape
    <3> QED
      BY <2>3, <2>4, <3>1, <3>2 DEF Begins
  <2>6. CASE ~b
    <3>1. t = s
      BY <2>1, <2>6, RecordsAre
    <3> HIDE DEF s
    <3> QED
      BY <2>2, <3>1, HookBegins
  <2> QED
    BY <2>5, <2>6
<1>2. CASE traceType # "func"
  <2>1. PICK a \in Addresses : t = ManualRecord(c, a)
    BY <1>2 DEF Records
  <2> DEFINE k == perfEmitCntrs(c, a, 0)
             done == AddressDone(a)
             s == Cons(AddressHigh(c, a, done), k)
  <2>2. a \in CodeAddress /\ OneLine(done)
    BY LibraryAssumption, AddressTypes
  <2>3. k \in Seq(Items(c)) /\ Shape(c, k)
    BY <2>2, CntrsShape
  <2>4. a[1] # 0 => AtAddressHigh(c, s, a)
    BY <1>2 DEF AtAddressHigh
  <2>5. t = EmitAddress(c, a, done) \o k
    BY <2>1 DEF ManualRecord, AddressDone
  <2> HIDE DEF s
  <2>6. a[1] # 0 => Shape(c, s)
    BY <2>4 DEF Shape
  <2> HIDE DEF k, done
  <2> QED
    BY <2>2, <2>3, <2>5, <2>6, AddressBegins DEF s
<1> QED
  BY <1>1, <1>2

\* Whatever a core has still to write, it writes a word, and has then to write
\* what follows.
LEMMA ShapeWrites ==
  ASSUME CountersFit, NEW c \in Core, MaskOK(c), NEW t, Shape(c, t), t # <<>>, NEW v \in Values,
         inSync[c] = "no" /\ IsCntr(Head(t)) => v[1] \notin Markers /\ v[2] \notin Markers
  PROVE  Writes(c, t, RestOf(c, t, v))
<1>1. CASE AtMarker(c, t)
  BY <1>1, MarkerBegins, WritesWord
<1>2. CASE AtMask(c, t)
  BY <1>2, MaskBegins, WritesWord
<1>3. CASE t \in Records(c)
  BY <1>3, RecordBegins, WritesWord
<1>4. ASSUME NEW n \in 3..NumCntrs - 1, AtEvent(c, t, n) PROVE Writes(c, t, RestOf(c, t, v))
  <2> DEFINE u == RestOf(c, t, v)
  <2>1. AtEventLow(c, u, n)
    <3>1. PICK b \in Records(c) : t = Cons([event |-> n], b)
      BY <1>4 DEF AtEvent
    <3>2. n \in 0..NumCntrs - 1
      BY PerfAssumption
    <3>3. b \in Seq(Items(c))
      BY RecordsAre
    <3> QED
      BY <3>1, <3>2, <3>3, TurnEvent DEF AtEventLow
  <2> HIDE DEF u
  <2>2. PICK s : Begins(c, u, EventLow(c, n), s)
    BY <2>1, EventLowBegins
  <2>3. EventLow(c, n).data \notin Markers
    BY <2>2, EventWords
  <2> QED
    BY <2>2, <2>3 DEF Begins, Writes, u
<1>5. ASSUME NEW n \in 3..NumCntrs - 1, AtEventHigh(c, t, n) PROVE Writes(c, t, RestOf(c, t, v))
  <2>1. PICK s : Begins(c, t, EventHigh(c, n), s)
    BY <1>5, EventHighBegins
  <2>2. EventHigh(c, n).data \notin Markers
    BY <2>1, EventWords
  <2> QED
    BY <2>1, <2>2, WritesWord
<1>6. ASSUME NEW a \in Addresses, AtAddressHigh(c, t, a) PROVE Writes(c, t, RestOf(c, t, v))
  <2>1. a \in CodeAddress /\ OneLine(AddressDone(a))
    BY LibraryAssumption, AddressTypes
  <2>2. perfEmitCntrs(c, a, 0) \in Seq(Items(c)) /\ Shape(c, perfEmitCntrs(c, a, 0))
    BY <2>1, CntrsShape
  <2> QED
    BY <1>6, <2>1, <2>2, HighBegins, WritesWord DEF AtAddressHigh
<1>7. ASSUME NEW b \in BOOLEAN, NEW f \in Functions,
             AtFn(c, t, b, f) \/ AtFnHigh(c, t, b, f) \/ AtSite(c, t, b, f) \/ AtSiteHigh(c, t, b, f)
      PROVE  Writes(c, t, RestOf(c, t, v))
  BY <1>7, HookBegins, WritesWord
<1>8. ASSUME NEW n \in 0..NumCntrs - 1, NEW a \in CodeAddress, AtCntr(t, n, a)
      PROVE  Writes(c, t, RestOf(c, t, v))
  <2> DEFINE u == RestOf(c, t, v)
  <2>1. AtCntrLow(c, u, n, a, v)
    BY <1>8, AddressTypes, TurnCntr DEF AtCntr
  <2>2. inSync[c] = "no" => v[1] \notin Markers /\ v[2] \notin Markers
    <3>1. Head(t) = [counter |-> n, pc |-> a]
      BY <1>8 DEF AtCntr
    <3> QED
      BY <3>1, ItemKinds
  <2> HIDE DEF u
  <2>3. CASE v[1] # 0
    <3>1. PICK s : Begins(c, u, CntrLowWord(c, v), s)
      BY <2>1, <2>2, <2>3, CntrLowBegins
    <3>2. CntrLowWord(c, v).data = v[2]
      BY CntrWords
    <3> QED
      BY <2>2, <3>1, <3>2 DEF Begins, Writes, u
  <2>4. CASE v[1] = 0
    <3>1. Begins(c, u, CntrOnlyWord(c, a, n, v), perfEmitCntrs(c, a, n + 1))
      BY <2>1, <2>2, <2>4, CntrLowBegins
    <3>2. CntrOnlyWord(c, a, n, v).data = v[2]
      BY CntrWords
    <3> QED
      BY <2>2, <3>1, <3>2 DEF Begins, Writes, u
  <2> QED
    BY <2>3, <2>4
<1>9. ASSUME NEW n \in 0..NumCntrs - 1, NEW a \in CodeAddress, NEW x \in Values,
             AtCntrHigh(c, t, n, a, x), inSync[c] = "no" => x[1] \notin Markers
      PROVE  Writes(c, t, RestOf(c, t, v))
  <2>1. Begins(c, t, CntrHighWord(c, a, n, x), perfEmitCntrs(c, a, n + 1))
    BY <1>9, CntrHighBegins
  <2>2. CntrHighWord(c, a, n, x).data = x[1]
    <3>1. CntrHighWord(c, a, n, x).data = x[1] % HighRange
      BY CntrWords
    <3> QED
      BY <3>1, LibraryAssumption DEF CountersFit, Wides
  <2> QED
    BY <1>9, <2>1, <2>2, WritesWord
<1> QED
  BY <1>1, <1>2, <1>3, <1>4, <1>5, <1>6, <1>7, <1>8, <1>9 DEF Shape

-----------------------------------------------------------------------------
(* The converter follows.                                                  *)

\* The line of the counter whose low word the converter has.
Held(c, q) ==
  [core |-> c, what |-> [kind |-> "PerfCntr", pc |-> q.lastAddress, index |-> q.index,
                         value |-> Narrow(q.savedLow32)]]
Quiet(q, p) == ~q.pending /\ p = <<>>
Holds(c, q, p) == q.pending /\ p = <<Held(c, q)>>

\* The converter is of the kind of the records and knows the mask.
Own(c, q) == q.state[1] = ownMode /\ q.cntrMask = mask[c]

\* A record is through; its last counter may have waited for a high word in vain.
Through(c, q, p) ==
  /\ q.state[1] \in Modes
  /\ \/ q.state[2] = "Start" /\ Quiet(q, p)
     \/ q.state[2] = "GetCntr" /\ Holds(c, q, p) /\ NextIndex(q.cntrMask, q.index + 1) = NumCntrs

Expects(c, q, p, part) == q.state[2] = part /\ Own(c, q) /\ Quiet(q, p)

\* A counter is the next, behind another one or not.
CntrTurn(c, q, p, n, a) ==
  /\ Own(c, q) /\ q.state[2] = "GetCntr" /\ q.lastAddress = a
  /\ \/ q.index = n /\ Quiet(q, p)
     \/ NextIndex(q.cntrMask, q.index + 1) = n /\ Holds(c, q, p)

FnPart(b) == IF b THEN "CallStart" ELSE "ReturnStart"
SitePart(b) == IF b THEN "CallGetSite" ELSE "ReturnGetSite"

\* The converter, in state q, is where t is the rest of a record; p are the lines
\* of words that it has seen.  At the second definition behind a mask it is so for
\* the last time: it is still where high words come.
InMarker(c, q, t, p) ==
  AtMarker(c, t) /\ (Through(c, q, p) \/ (q.state = Sync /\ Quiet(q, p)))
InMask(c, q, t, p) ==
  AtMask(c, t) /\ q.state = <<ownMode, "GetMarkerMask">> /\ Quiet(q, p)
IsFirst(c, n) == n = NextIndex(mask[c], 3)
EventPart(c, n) == IF IsFirst(c, n) THEN "GetCounterDefs" ELSE "GetCounterDefsH"
InEvents(c, q, t, p) ==
  \E n \in 3..NumCntrs - 1 :
     \/ AtEvent(c, t, n) /\ Expects(c, q, p, EventPart(c, n)) /\ q.index = n
     \/ /\ AtEventLow(c, t, n) /\ IsFirst(c, n)
        /\ Expects(c, q, p, "GetCounterDefs") /\ q.index = n
     \/ /\ AtEventHigh(c, t, n) /\ IsFirst(c, n) /\ Expects(c, q, p, "GetCounterDefsH")
        /\ q.index = n /\ q.savedLow32 = EventOf[n][2]
InRecord(c, q, t, p) == t \in Records(c) /\ Own(c, q) /\ Through(c, q, p)
InAddress(c, q, t, p) ==
  \E a \in Addresses :
     AtAddressHigh(c, t, a) /\ Expects(c, q, p, "GetAddrH") /\ q.savedLow32 = a[2]
InHook(c, q, t, p) ==
  \E b \in BOOLEAN, f \in Functions :
     \/ AtFn(c, t, b, f) /\ Expects(c, q, p, FnPart(b))
     \/ AtFnHigh(c, t, b, f) /\ Expects(c, q, p, Highs[FnPart(b)]) /\ q.savedLow32 = f[1][2]
     \/ AtSite(c, t, b, f) /\ Expects(c, q, p, SitePart(b)) /\ q.lastAddress = f[1]
     \/ /\ AtSiteHigh(c, t, b, f) /\ Expects(c, q, p, Highs[SitePart(b)])
        /\ q.lastAddress = f[1] /\ q.savedLow32 = f[2][2]
InCntrs(c, q, t, p) ==
  \E n \in 0..NumCntrs - 1, a \in CodeAddress :
     \/ AtCntr(t, n, a) /\ CntrTurn(c, q, p, n, a)
     \/ \E v \in Values :
          \/ AtCntrLow(c, t, n, a, v) /\ CntrTurn(c, q, p, n, a)
          \/ /\ AtCntrHigh(c, t, n, a, v) /\ Own(c, q) /\ q.state[2] = "GetCntr"
             /\ q.lastAddress = a /\ q.index = n /\ q.pending /\ p = <<>> /\ q.savedLow32 = v[2]
Idle(c, q, t, p) == t = <<>> /\ Through(c, q, p) /\ (markerCnt[c] # 1 => Own(c, q))

Follows(c, q, t, p) ==
  \/ Idle(c, q, t, p) \/ InMarker(c, q, t, p) \/ InMask(c, q, t, p) \/ InEvents(c, q, t, p)
  \/ InRecord(c, q, t, p) \/ InAddress(c, q, t, p) \/ InHook(c, q, t, p) \/ InCntrs(c, q, t, p)

\* No more than one line is behind.
LEMMA FollowsHeld ==
  ASSUME NEW c, NEW q, NEW t, NEW p, Follows(c, q, t, p)
  PROVE  p = <<>> \/ Holds(c, q, p)
<1> USE DEF Through, Quiet, Holds, Expects
<1>1. CASE Idle(c, q, t, p) \/ InMarker(c, q, t, p) \/ InMask(c, q, t, p) \/ InRecord(c, q, t, p)
  BY <1>1 DEF Idle, InMarker, InMask, InRecord
<1>2. CASE InEvents(c, q, t, p) \/ InAddress(c, q, t, p)
  BY <1>2 DEF InEvents, InAddress
<1>3. CASE InHook(c, q, t, p)
  BY <1>3 DEF InHook
<1>4. CASE InCntrs(c, q, t, p)
  BY <1>4 DEF InCntrs, CntrTurn
<1> QED
  BY <1>1, <1>2, <1>3, <1>4 DEF Follows

\* Sequences that begin with the same begin and go on alike.
LEMMA ConsEqual ==
  ASSUME NEW S, NEW x \in S, NEW y \in S, NEW s \in Seq(S), NEW t \in Seq(S), Cons(x, s) = Cons(y, t)
  PROVE  x = y /\ s = t
<1>1. Head(Cons(x, s)) = x /\ Tail(Cons(x, s)) = s
  BY ConsIs
<1>2. Head(Cons(y, t)) = y /\ Tail(Cons(y, t)) = t
  BY ConsIs
<1> QED
  BY <1>1, <1>2

\* The rest of what begins with the word in hand.
LEMMA BeginsWith ==
  ASSUME NEW c, NEW t, NEW w, NEW s, Begins(c, t, w, s)
  PROVE  /\ t # <<>> /\ \A v : RestOf(c, t, v) = t
         /\ \A x \in WordsOf(c), u \in Seq(Items(c)) : t = Cons(x, u) => x = w /\ u = s
<1>1. w \in Items(c) /\ w \in WordsOf(c) /\ s \in Seq(Items(c)) /\ t = Cons(w, s)
  BY DEF Begins, Items
<1>2. t # <<>>
  BY <1>1, ConsIs
<1>3. \A v : RestOf(c, t, v) = t
  BY <1>1, TurnWord
<1>4. ASSUME NEW x \in WordsOf(c), NEW u \in Seq(Items(c)), t = Cons(x, u) PROVE x = w /\ u = s
  <2>1. x \in Items(c)
    BY DEF Items
  <2>2. Cons(w, s) = Cons(x, u)
    BY <1>1, <1>4
  <2> QED
    BY <1>1, <2>1, <2>2, ConsEqual
<1> QED
  BY <1>2, <1>3, <1>4

\* In the middle of a record there is a word, or a turn of a loop.
LEMMA FollowsBegins ==
  ASSUME NEW c \in Core, MaskOK(c), NEW q, NEW t, NEW p, Follows(c, q, t, p), inSync[c] # "no"
  PROVE  \/ Idle(c, q, t, p)
         \/ \E w, s : Begins(c, t, w, s)
         \/ \E n \in 3..NumCntrs - 1 :
              AtEvent(c, t, n) /\ Expects(c, q, p, EventPart(c, n)) /\ q.index = n
         \/ \E n \in 0..NumCntrs - 1, a \in CodeAddress : AtCntr(t, n, a) /\ CntrTurn(c, q, p, n, a)
<1>1. CASE InMarker(c, q, t, p)
  BY <1>1, MarkerBegins DEF InMarker
<1>2. CASE InMask(c, q, t, p)
  BY <1>2, MaskBegins DEF InMask
<1>3. CASE InEvents(c, q, t, p)
  BY <1>3, EventLowBegins, EventHighBegins DEF InEvents
<1>4. CASE InRecord(c, q, t, p)
  BY <1>4, RecordBegins DEF InRecord
<1>5. CASE InAddress(c, q, t, p)
  <2>1. PICK a \in Addresses : AtAddressHigh(c, t, a)
    BY <1>5 DEF InAddress
  <2>2. a \in CodeAddress /\ OneLine(AddressDone(a))
    BY LibraryAssumption, AddressTypes
  <2>3. perfEmitCntrs(c, a, 0) \in Seq(Items(c)) /\ Shape(c, perfEmitCntrs(c, a, 0))
    BY <2>2, CntrsShape
  <2> QED
    BY <2>1, <2>2, <2>3, HighBegins DEF AtAddressHigh
<1>6. CASE InHook(c, q, t, p)
  BY <1>6, HookBegins DEF InHook
<1>7. CASE InCntrs(c, q, t, p)
  BY <1>7, CntrLowBegins, CntrHighBegins DEF InCntrs
<1> QED
  BY <1>1, <1>2, <1>3, <1>4, <1>5, <1>6, <1>7 DEF Follows

\* Writing the next word changes nothing for the converter, but where it loses its way.
LEMMA FollowsRest ==
  ASSUME NEW c \in Core, MaskOK(c), NEW q, NEW t, NEW p, Follows(c, q, t, p), inSync[c] # "no",
         t # <<>>, ~Misleads(Head(t), mask[c]), NEW v \in Values
  PROVE  Follows(c, q, RestOf(c, t, v), p)
<1>1. CASE Idle(c, q, t, p)
  BY <1>1 DEF Idle
<1>2. CASE \E w, s : Begins(c, t, w, s)
  BY <1>2, BeginsWith
<1>3. ASSUME NEW n \in 3..NumCntrs - 1, AtEvent(c, t, n),
             Expects(c, q, p, EventPart(c, n)) /\ q.index = n
      PROVE  Follows(c, q, RestOf(c, t, v), p)
  <2> DEFINE u == RestOf(c, t, v)
  <2>1. PICK b \in Records(c) : t = Cons([event |-> n], b)
    BY <1>3 DEF AtEvent
  <2>2. n \in 0..NumCntrs - 1
    BY PerfAssumption
  <2>3. b \in Seq(Items(c))
    BY RecordsAre
  <2>4. AtEventLow(c, u, n)
    BY <2>1, <2>2, <2>3, TurnEvent DEF AtEventLow
  <2> HIDE DEF u
  <2>5. IsFirst(c, n)
    <3>1. [event |-> n] \in Items(c)
      BY <2>2 DEF Items
    <3>2. Head(t) = [event |-> n]
      BY <2>1, <2>3, <3>1, ConsIs
    <3> QED
      BY <3>2 DEF Misleads, IsEvent, IsFirst
  <2>6. InEvents(c, q, u, p)
    BY <1>3, <2>4, <2>5 DEF InEvents, EventPart
  <2> QED
    BY <2>6 DEF Follows, u
<1>4. ASSUME NEW n \in 0..NumCntrs - 1, NEW a \in CodeAddress, AtCntr(t, n, a), CntrTurn(c, q, p, n, a)
      PROVE  Follows(c, q, RestOf(c, t, v), p)
  <2> DEFINE u == RestOf(c, t, v)
  <2>1. AtCntrLow(c, u, n, a, v)
    BY <1>4, AddressTypes, TurnCntr DEF AtCntr
  <2> HIDE DEF u
  <2>2. InCntrs(c, q, u, p)
    BY <1>4, <2>1 DEF InCntrs
  <2> QED
    BY <2>2 DEF Follows, u
<1> QED
  BY <1>1, <1>2, <1>3, <1>4, FollowsBegins

\* When a core has no more to write, its record is through.
LEMMA FollowsEmpty ==
  ASSUME NEW c \in Core, MaskOK(c), NEW q, NEW p, Follows(c, q, <<>>, p), inSync[c] # "no"
  PROVE  Idle(c, q, <<>>, p)
<1> DEFINE t == <<>>
<1>1. ASSUME NEW w, NEW s, Begins(c, t, w, s) PROVE FALSE
  BY <1>1, BeginsWith
<1>2. ASSUME NEW n \in 3..NumCntrs - 1, AtEvent(c, t, n) PROVE FALSE
  <2>1. PICK b \in Records(c) : t = Cons([event |-> n], b)
    BY <1>2 DEF AtEvent
  <2>2. b \in Seq(Items(c))
    BY RecordsAre
  <2>3. [event |-> n] \in Items(c)
    BY PerfAssumption DEF Items
  <2> QED
    BY <2>1, <2>2, <2>3, ConsIs
<1>3. ASSUME NEW n, NEW a, AtCntr(t, n, a) PROVE FALSE
  BY <1>3 DEF AtCntr
<1> QED
  BY <1>1, <1>2, <1>3, FollowsBegins

-----------------------------------------------------------------------------
(* What follows a part of a record, for the converter.                     *)

\* Behind the addresses the converter turns to the first counter, if there is one.
LEMMA CountersFollow ==
  ASSUME NEW c \in Core, MaskOK(c), NEW a \in CodeAddress, NEW q \in Reader,
         Own(c, q), mode = ownMode, ~q.pending, q.lastAddress = a
  PROVE  Follows(c, Counters(q), perfEmitCntrs(c, a, 0), <<>>)
<1> DEFINE n == NextIndex(mask[c], 0)
           x == Counters(q)
           t == perfEmitCntrs(c, a, 0)
<1>1. mask[c] \in 0..2 ^ NumCntrs - 1 /\ mask[c] \in Nat /\ 0 \in 0..NumCntrs
  BY PerfAssumption DEF MaskOK, Unmarked
<1>2. n = NumCntrs <=> mask[c] = 0
  <2>1. n = NumCntrs <=> mask[c] < 2 ^ 0
    BY <1>1, NoneNext
  <2>2. 2 ^ 0 = 1
    OBVIOUS
  <2> QED
    BY <1>1, <2>1, <2>2
<1>3. a \in Wides
  BY AddressTypes
<1>4. /\ n = NumCntrs => t = <<>>
      /\ n # NumCntrs => n \in 0..NumCntrs - 1 /\ t = <<[counter |-> n, pc |-> a]>>
  BY <1>1, <1>3, LoopsAre
<1>5. /\ x.cntrMask = q.cntrMask /\ ~x.pending /\ x.lastAddress = a
      /\ mask[c] = 0 => x.state = <<ownMode, "Start">>
      /\ mask[c] # 0 => x.state = <<ownMode, "GetCntr">> /\ x.index = n
  BY DEF Counters, Own, Start, Reader
<1> HIDE DEF n, x, t
<1>6. Own(c, x) /\ Quiet(x, <<>>)
  BY <1>5 DEF Own, Quiet
<1>7. CASE n = NumCntrs
  <2>1. Idle(c, x, t, <<>>)
    BY <1>2, <1>4, <1>5, <1>6, <1>7 DEF Idle, Through, ownMode, Modes
  <2> QED
    BY <2>1 DEF Follows, x, t
<1>8. CASE n # NumCntrs
  <2>1. AtCntr(t, n, a) /\ CntrTurn(c, x, <<>>, n, a)
    BY <1>2, <1>4, <1>5, <1>6, <1>8 DEF AtCntr, CntrTurn
  <2>2. InCntrs(c, x, t, <<>>)
    BY <1>4, <1>8, <2>1 DEF InCntrs
  <2> QED
    BY <2>2 DEF Follows, x, t
<1> QED
  BY <1>7, <1>8

\* Behind a counter it turns to the next, or has still to learn that there was no
\* high word.
LEMMA CntrFollows ==
  ASSUME NEW c \in Core, MaskOK(c), NEW a \in CodeAddress, NEW q \in Reader,
         Own(c, q), q.state[2] = "GetCntr", q.lastAddress = a, q.index \in 0..NumCntrs - 1
  PROVE  /\ q.pending => Follows(c, q, perfEmitCntrs(c, a, q.index + 1), <<Held(c, q)>>)
         /\ ~q.pending /\ mode = ownMode =>
              Follows(c, Advanced(q), perfEmitCntrs(c, a, q.index + 1), <<>>)
<1> DEFINE n == NextIndex(mask[c], q.index + 1)
           x == Advanced(q)
           t == perfEmitCntrs(c, a, q.index + 1)
           p == <<Held(c, q)>>
<1>1. a \in Wides /\ q.index + 1 \in Nat
  BY AddressTypes
<1>2. /\ n = NumCntrs => t = <<>>
      /\ n # NumCntrs => n \in 0..NumCntrs - 1 /\ t = <<[counter |-> n, pc |-> a]>>
  BY <1>1, LoopsAre
<1>3. mode = ownMode =>
        /\ x.cntrMask = q.cntrMask /\ x.pending = q.pending /\ x.lastAddress = a
        /\ x.state[1] = q.state[1] /\ x.index = n
        /\ n = NumCntrs => x.state[2] = "Start"
        /\ n # NumCntrs => x.state[2] = "GetCntr"
  BY DEF Advanced, Own, Start, Reader
<1>4. q.cntrMask = mask[c] /\ q.state[1] = ownMode /\ ownMode \in Modes
  BY DEF Own, ownMode, Modes
<1>5. n # NumCntrs => AtCntr(t, n, a)
  BY <1>2 DEF AtCntr
<1>6. CASE q.pending
  <2>1. Holds(c, q, p) /\ NextIndex(q.cntrMask, q.index + 1) = n
    BY <1>4, <1>6 DEF Holds
  <2> HIDE DEF n, t, p
  <2>2. n = NumCntrs => Idle(c, q, t, p)
    BY <1>2, <1>4, <2>1 DEF Idle, Through
  <2>3. n # NumCntrs => CntrTurn(c, q, p, n, a)
    BY <2>1 DEF CntrTurn
  <2>4. n # NumCntrs => InCntrs(c, q, t, p)
    BY <1>2, <1>5, <2>3 DEF InCntrs
  <2>5. Follows(c, q, t, p)
    BY <2>2, <2>4 DEF Follows
  <2> QED
    BY <1>6, <2>5 DEF t, p
<1>7. CASE ~q.pending /\ mode = ownMode
  <2> HIDE DEF n, t, x, p
  <2>1. Own(c, x) /\ Quiet(x, <<>>)
    BY <1>3, <1>4, <1>7 DEF Own, Quiet
  <2>2. n = NumCntrs => Idle(c, x, t, <<>>)
    BY <1>2, <1>3, <1>4, <1>7, <2>1 DEF Idle, Through
  <2>3. n # NumCntrs => CntrTurn(c, x, <<>>, n, a)
    BY <1>3, <1>7, <2>1 DEF CntrTurn
  <2>4. n # NumCntrs => InCntrs(c, x, t, <<>>)
    BY <1>2, <1>5, <2>3 DEF InCntrs
  <2>5. Follows(c, x, t, <<>>)
    BY <2>2, <2>4 DEF Follows
  <2> QED
    BY <1>7, <2>5 DEF x, t
<1> QED
  BY <1>6, <1>7

\* Behind a mask or an event it turns to the next event, or to the record.
LEMMA EventsFollow ==
  ASSUME NEW c \in Core, MaskOK(c), NEW b \in Records(c), NEW i \in Nat, i >= 3, NEW q,
         q.state[1] = ownMode, q.cntrMask = mask[c], ~q.pending,
         NextIndex(mask[c], i) = NumCntrs => q.state[2] = "Start",
         NextIndex(mask[c], i) # NumCntrs =>
           /\ q.state[2] = EventPart(c, NextIndex(mask[c], i))
           /\ q.index = NextIndex(mask[c], i)
  PROVE  Follows(c, q, EventsFrom(c, i) \o b, <<>>)
<1> DEFINE t == EventsFrom(c, i) \o b
           n == NextIndex(mask[c], i)
<1>1. /\ n = NumCntrs => t = b
      /\ n # NumCntrs => n \in 3..NumCntrs - 1 /\ AtEvent(c, t, n)
  BY EventsShape
<1>2. Own(c, q) /\ Quiet(q, <<>>) /\ ownMode \in Modes
  BY DEF Own, Quiet, ownMode, Modes
<1> HIDE DEF t, n
<1>3. n = NumCntrs => InRecord(c, q, t, <<>>)
  BY <1>1, <1>2 DEF InRecord, Through, n
<1>4. n # NumCntrs => InEvents(c, q, t, <<>>)
  BY <1>1, <1>2 DEF InEvents, Expects, n
<1> QED
  BY <1>3, <1>4 DEF Follows, t

-----------------------------------------------------------------------------
(* A round of processITCPerf.                                              *)

\* The step that each part of the state allows.
LEMMA ActionOf ==
  ASSUME ProcessITCPerf
  PROVE  /\ word # None /\ status = "OK"
         /\ r.state[2] = "Sync" => SyncStep
         /\ r.state[2] = "Start" => StartMarker \/ StartAddress \/ StartFunc
         /\ r.state[2] = "GetMarkerMask" => GetMarkerMask
         /\ r.state[2] = "GetCounterDefs" => GetCounterDefs
         /\ r.state[2] = "GetCounterDefsH" => GetCounterDefsH
         /\ r.state[2] = "GetAddrH" => GetAddrH
         /\ r.state[2] = "GetCntr" => CntrHigh \/ CntrLow \/ CntrByte
         /\ \A b \in BOOLEAN :
              /\ r.state[2] \in {FnPart(b), Highs[FnPart(b)]} => FuncAddress(FnPart(b))
              /\ r.state[2] \in {SitePart(b), Highs[SitePart(b)]} => FuncCallSite(SitePart(b))
<1> DEFINE s == r.state[2]
<1>1. SyncStep => In("Sync")
  BY DEF SyncStep
<1>2. StartMarker \/ StartAddress \/ StartFunc => In("Start")
  BY DEF StartMarker, StartAddress, StartFunc
<1>3. GetMarkerMask => In("GetMarkerMask")
  BY DEF GetMarkerMask
<1>4. GetCounterDefs => In("GetCounterDefs")
  BY DEF GetCounterDefs
<1>5. GetCounterDefsH => In("GetCounterDefsH")
  BY DEF GetCounterDefsH
<1>6. GetAddrH => In("GetAddrH")
  BY DEF GetAddrH
<1>7. CntrHigh \/ CntrLow \/ CntrByte => In("GetCntr")
  BY DEF CntrHigh, CntrLow, CntrByte
<1>8. FuncAddress("CallStart") => In("CallStart") \/ In("CallStartH")
  BY DEF FuncAddress, Highs
<1>9. FuncAddress("ReturnStart") => In("ReturnStart") \/ In("ReturnStartH")
  BY DEF FuncAddress, Highs
<1>10. FuncCallSite("CallGetSite") => In("CallGetSite") \/ In("CallGetSiteH")
  BY DEF FuncCallSite, Highs
<1>11. FuncCallSite("ReturnGetSite") => In("ReturnGetSite") \/ In("ReturnGetSiteH")
  BY DEF FuncCallSite, Highs
<1>12. \/ SyncStep \/ StartMarker \/ StartAddress \/ GetAddrH \/ StartFunc
       \/ FuncAddress("CallStart") \/ FuncAddress("ReturnStart")
       \/ FuncCallSite("CallGetSite") \/ FuncCallSite("ReturnGetSite")
       \/ CntrHigh \/ CntrLow \/ CntrByte
       \/ GetMarkerMask \/ GetCounterDefs \/ GetCounterDefsH
  BY DEF ProcessITCPerf
<1>13. \A p : In(p) <=> word # None /\ status = "OK" /\ s = p
  BY DEF In
<1>14. \A b \in BOOLEAN : /\ FnPart(b) \in {"CallStart", "ReturnStart"}
                          /\ SitePart(b) \in {"CallGetSite", "ReturnGetSite"}
  BY DEF FnPart, SitePart
<1>15. /\ Highs["CallStart"] = "CallStartH" /\ Highs["ReturnStart"] = "ReturnStartH"
       /\ Highs["CallGetSite"] = "CallGetSiteH" /\ Highs["ReturnGetSite"] = "ReturnGetSiteH"
  BY DEF Highs
<1> HIDE DEF s
<1>16. word # None /\ status = "OK"
  BY <1>1, <1>2, <1>3, <1>4, <1>5, <1>6, <1>7, <1>8, <1>9, <1>10, <1>11, <1>12, <1>13
<1>17. /\ s = "Sync" => SyncStep
       /\ s = "Start" => StartMarker \/ StartAddress \/ StartFunc
       /\ s = "GetMarkerMask" => GetMarkerMask
       /\ s = "GetCounterDefs" => GetCounterDefs
       /\ s = "GetCounterDefsH" => GetCounterDefsH
       /\ s = "GetAddrH" => GetAddrH
       /\ s = "GetCntr" => CntrHigh \/ CntrLow \/ CntrByte
  BY <1>1, <1>2, <1>3, <1>4, <1>5, <1>6, <1>7, <1>8, <1>9, <1>10, <1>11, <1>12, <1>13
<1>18. /\ s \in {"CallStart", "CallStartH"} => FuncAddress("CallStart")
       /\ s \in {"ReturnStart", "ReturnStartH"} => FuncAddress("ReturnStart")
       /\ s \in {"CallGetSite", "CallGetSiteH"} => FuncCallSite("CallGetSite")
       /\ s \in {"ReturnGetSite", "ReturnGetSiteH"} => FuncCallSite("ReturnGetSite")
  BY <1>1, <1>2, <1>3, <1>4, <1>5, <1>6, <1>7, <1>8, <1>9, <1>10, <1>11, <1>12, <1>13
<1>19. ASSUME NEW b \in BOOLEAN
       PROVE  /\ s \in {FnPart(b), Highs[FnPart(b)]} => FuncAddress(FnPart(b))
              /\ s \in {SitePart(b), Highs[SitePart(b)]} => FuncCallSite(SitePart(b))
  <2>1. CASE FnPart(b) = "CallStart" /\ SitePart(b) = "CallGetSite"
    BY <1>15, <1>18, <2>1
  <2>2. CASE FnPart(b) = "ReturnStart" /\ SitePart(b) = "ReturnGetSite"
    BY <1>15, <1>18, <2>2
  <2> QED
    BY <2>1, <2>2 DEF FnPart, SitePart
<1> QED
  BY <1>16, <1>17, <1>19 DEF s

\* What a step may do to the reader of the word's core, and to no other.
LEMMA ReaderStep ==
  ASSUME ReaderTypes, ProcessITCPerf
  PROVE  /\ word.core \in Core /\ reader' = [reader EXCEPT ![word.core] = reader'[word.core]]
         /\ reader'[word.core] \in Reader /\ r \in Reader
         /\ status' \in {"OK", "ERR"} /\ word' \in {word, None}
         /\ status' # "OK" => word' = word /\ r.state[2] = "GetCntr" /\ ~r.pending /\ ~IsFull(word)
         /\ r.state[2] = "Sync" => line' = None
<1> DEFINE c == word.core
<1>1. word # None /\ status = "OK"
  BY ActionOf
<1>2. c \in Core /\ word \in WordsOf(c) /\ reader \in [Core -> Reader] /\ r \in Reader
  BY <1>1 DEF ReaderTypes, r
<1>3. word \in Words /\ word.data \in Nat
  BY <1>2 DEF WordsOf, Words
<1>4. /\ \A m \in Nat, i \in Nat : NextIndex(m, i) \in Nat
      /\ \A a \in Nat, b \in Nat : Wide(a, b) \in Wides /\ Narrow(a) \in Wides
      /\ IsLow(word.data) => word.data - 1 \in Nat
  <2>1. \A m \in Nat, i \in Nat : NextIndex(m, i) \in Nat
    BY NextIndexIs
  <2>2. \A a \in Nat, b \in Nat : Wide(a, b) \in Wides /\ Narrow(a) \in Wides
    BY DEF Wide, Narrow, Wides
  <2>3. IsLow(word.data) => word.data - 1 \in Nat
    BY <1>3 DEF IsLow
  <2> QED
    BY <2>1, <2>2, <2>3
<1>5. ASSUME NEW x \in Reader, Becomes(x)
      PROVE  reader' = [reader EXCEPT ![c] = reader'[c]] /\ reader'[c] \in Reader
  BY <1>2, <1>5 DEF Becomes
<1>6. ASSUME UNCHANGED reader
      PROVE  reader' = [reader EXCEPT ![c] = reader'[c]] /\ reader'[c] \in Reader
  BY <1>2, <1>6
<1>7. ASSUME NEW q \in Reader, NEW part \in Parts
      PROVE  [q EXCEPT !.state = <<mode, part>>] \in Reader
  <2>1. mode \in {"any"} \cup Modes
    BY <1>2 DEF mode, Reader
  <2> QED
    BY <2>1 DEF Reader
<1> DEFINE Result == /\ reader' = [reader EXCEPT ![c] = reader'[c]] /\ reader'[c] \in Reader
                     /\ status' \in {"OK", "ERR"} /\ word' \in {word, None}
                     /\ status' # "OK" => word' = word /\ r.state[2] = "GetCntr" /\ ~r.pending /\ ~IsFull(word)
                     /\ r.state[2] = "Sync" => line' = None
<1>8. /\ \A q \in Reader : Counters(q) \in Reader /\ Advanced(q) \in Reader
      /\ \A part \in Parts, low \in Nat : [At(part) EXCEPT !.savedLow32 = low] \in Reader
      /\ \A part \in Parts, a \in Wides : [At(part) EXCEPT !.lastAddress = a] \in Reader
      /\ \A part \in Parts : At(part) \in Reader
  <2>1. ASSUME NEW part \in Parts PROVE At(part) \in Reader
    BY <1>2, <1>7 DEF At
  <2>2. ASSUME NEW q \in Reader PROVE Counters(q) \in Reader
    <3>1. [q EXCEPT !.state = <<mode, "Start">>] \in Reader
      BY <1>7 DEF Parts
    <3>2. [q EXCEPT !.state = <<mode, "GetCntr">>] \in Reader
      BY <1>7 DEF Parts
    <3>3. NextIndex(q.cntrMask, 0) \in Nat
      <4>1. q.cntrMask \in Nat /\ 0 \in Nat
        BY DEF Reader
      <4> QED
        BY <4>1, NextIndexIs
    <3>4. [q EXCEPT !.state = <<mode, "GetCntr">>, !.index = NextIndex(q.cntrMask, 0)] \in Reader
      BY <3>2, <3>3 DEF Reader
    <3> QED
      BY <3>1, <3>4 DEF Counters, Start
  <2>3. ASSUME NEW q \in Reader PROVE Advanced(q) \in Reader
    <3> DEFINE i == NextIndex(q.cntrMask, q.index + 1)
    <3>1. i \in Nat
      <4>1. q.cntrMask \in Nat /\ q.index + 1 \in Nat
        BY DEF Reader
      <4> QED
        BY <4>1, NextIndexIs
    <3> HIDE DEF i
    <3>2. [q EXCEPT !.index = i] \in Reader
      BY <3>1 DEF Reader
    <3>3. <<mode, "Start">> \in ({"any"} \cup Modes) \X Parts
      BY <1>2 DEF mode, Reader, Parts
    <3>4. [q EXCEPT !.index = i, !.state = <<mode, "Start">>] \in Reader
      BY <3>1, <3>3 DEF Reader
    <3>5. Advanced(q) = [q EXCEPT !.index = i, !.state = IF i = NumCntrs THEN <<mode, "Start">> ELSE @]
      BY DEF Advanced, i, Start
    <3>6. CASE i = NumCntrs
      BY <3>4, <3>5, <3>6
    <3>7. CASE i # NumCntrs
      BY <3>1, <3>5, <3>7 DEF Reader
    <3> QED
      BY <3>6, <3>7
  <2>4. ASSUME NEW part \in Parts, NEW low \in Nat PROVE [At(part) EXCEPT !.savedLow32 = low] \in Reader
    BY <2>1, <2>4 DEF Reader
  <2>5. ASSUME NEW part \in Parts, NEW a \in Wides PROVE [At(part) EXCEPT !.lastAddress = a] \in Reader
    BY <2>1, <2>5 DEF Reader
  <2> QED
    BY <2>1, <2>2, <2>3, <2>4, <2>5
<1> USE DEF Consumed, LookAgain, Fails
<1>9. CASE SyncStep
  <2>1. \A m \in Modes : [r EXCEPT !.state = Start(m)] \in Reader
    BY <1>2 DEF Start, Reader, Parts
  <2>2. Result
    BY <1>1, <1>5, <1>6, <1>9, <2>1 DEF SyncStep, Silent, Modes
  <2> QED
    BY <1>2, <2>2
<1>10. CASE StartMarker \/ StartAddress \/ StartFunc
  <2>1. r.state[2] = "Start"
    BY <1>10 DEF StartMarker, StartAddress, StartFunc, In
  <2>2. [r EXCEPT !.state = Sync] \in Reader /\ [r EXCEPT !.state = Error] \in Reader
    BY <1>2 DEF Sync, Error, Reader, Parts
  <2>3. At("GetMarkerMask") \in Reader /\ At("ReturnStart") \in Reader /\ At("CallStart") \in Reader
    BY <1>8 DEF Parts
  <2>4. IsLow(word.data) => [At("GetAddrH") EXCEPT !.savedLow32 = word.data - 1] \in Reader
    BY <1>4, <1>8 DEF Parts
  <2>5. Counters([r EXCEPT !.lastAddress = Narrow(word.data)]) \in Reader
    <3>1. [r EXCEPT !.lastAddress = Narrow(word.data)] \in Reader
      BY <1>2, <1>3, <1>4 DEF Reader
    <3> QED
      BY <1>8, <3>1
  <2>6. Result
    <3>1. CASE StartMarker
      BY <1>1, <1>5, <2>1, <2>2, <2>3, <3>1 DEF StartMarker
    <3>2. CASE StartAddress
      BY <1>1, <1>5, <2>1, <2>4, <2>5, <3>2 DEF StartAddress
    <3>3. CASE StartFunc
      <4>1. (IF word.data = Call THEN At("CallStart") ELSE [r EXCEPT !.state = Error]) \in Reader
        BY <2>2, <2>3
      <4> QED
        BY <1>1, <1>5, <2>1, <2>3, <3>3, <4>1 DEF StartFunc
    <3> QED
      BY <1>10, <3>1, <3>2, <3>3
  <2> QED
    BY <1>2, <2>6
<1>11. CASE GetAddrH
  <2>1. [r EXCEPT !.lastAddress = Wide(word.data, r.savedLow32)] \in Reader
    BY <1>2, <1>3, <1>4 DEF Reader
  <2>2. Counters([r EXCEPT !.lastAddress = Wide(word.data, r.savedLow32)]) \in Reader
    BY <1>8, <2>1
  <2>3. Result
    BY <1>1, <1>5, <1>11, <2>2 DEF GetAddrH, In
  <2> QED
    BY <1>2, <2>3
<1>12. ASSUME NEW part \in {"CallStart", "ReturnStart"}, FuncAddress(part) PROVE Result
  <2>1. Highs[part] \in Parts /\ Others[part] \in Parts
    BY DEF Highs, Others, Parts
  <2>2. r.state[2] \in {part, Highs[part]} /\ r.state[2] # "Sync"
    BY <1>12 DEF FuncAddress, In, Highs
  <2>3. IsLow(word.data) => [At(Highs[part]) EXCEPT !.savedLow32 = word.data - 1] \in Reader
    BY <1>4, <1>8, <2>1
  <2>4. [At(Others[part]) EXCEPT !.lastAddress = Narrow(word.data)] \in Reader
    BY <1>3, <1>4, <1>8, <2>1
  <2>5. [At(Others[part]) EXCEPT !.lastAddress = Wide(word.data, r.savedLow32)] \in Reader
    <3>1. r.savedLow32 \in Nat
      BY <1>2 DEF Reader
    <3> QED
      BY <1>3, <1>4, <1>8, <2>1, <3>1
  <2> QED
    BY <1>1, <1>5, <1>12, <2>2, <2>3, <2>4, <2>5 DEF FuncAddress
<1>13. ASSUME NEW part \in {"CallGetSite", "ReturnGetSite"}, FuncCallSite(part) PROVE Result
  <2>1. Highs[part] \in Parts
    BY DEF Highs, Parts
  <2>2. r.state[2] \in {part, Highs[part]} /\ r.state[2] # "Sync"
    BY <1>13 DEF FuncCallSite, In, Highs
  <2>3. IsLow(word.data) => [At(Highs[part]) EXCEPT !.savedLow32 = word.data - 1] \in Reader
    BY <1>4, <1>8, <2>1
  <2>4. Counters(r) \in Reader
    BY <1>2, <1>8
  <2> QED
    BY <1>1, <1>5, <1>13, <2>2, <2>3, <2>4 DEF FuncCallSite, FuncSite
<1>14. CASE CntrHigh \/ CntrLow \/ CntrByte
  <2>1. r.state[2] = "GetCntr"
    BY <1>14 DEF CntrHigh, CntrLow, CntrByte, In
  <2> DEFINE q == [r EXCEPT !.pending = FALSE]
  <2>2. q \in Reader /\ [r EXCEPT !.state = Error] \in Reader
    BY <1>2 DEF Error, Reader, Parts
  <2>3. Advanced(q) \in Reader
    BY <1>8, <2>2
  <2>4. CASE CntrHigh
    <3>1. ~IsFull(word)
      BY <2>4 DEF CntrHigh
    <3>2. Result
      BY <1>1, <1>5, <2>1, <2>2, <2>3, <2>4, <3>1 DEF CntrHigh
    <3> QED
      BY <1>2, <3>2
  <2>5. CASE CntrLow
    <3> DEFINE x == IF r.pending THEN Advanced(q) ELSE r
    <3>1. x \in Reader
      BY <1>2, <2>3
    <3>2. [x EXCEPT !.savedLow32 = word.data, !.pending = TRUE] \in Reader
      <4> HIDE DEF x
      <4> QED
        BY <1>3, <3>1 DEF Reader
    <3>3. Result
      BY <1>1, <1>5, <2>1, <2>5, <3>1, <3>2 DEF CntrLow
    <3> QED
      BY <1>2, <3>3
  <2>6. CASE CntrByte
    <3>1. [r EXCEPT !.pending = FALSE, !.state = Start(mode)] \in Reader
      <4>1. mode \in {"any"} \cup Modes
        BY <1>2 DEF mode, Reader
      <4> QED
        BY <1>2, <4>1 DEF Start, Reader, Parts
    <3>2. Result
      BY <1>1, <1>5, <2>1, <2>6, <3>1 DEF CntrByte
    <3> QED
      BY <1>2, <3>2
  <2> QED
    BY <1>14, <2>4, <2>5, <2>6
<1>15. CASE GetMarkerMask
  <2> DEFINE q == [r EXCEPT !.cntrMask = word.data, !.index = NextIndex(word.data, 3)]
  <2>1. q \in Reader /\ [q EXCEPT !.index = 3] \in Reader
    BY <1>2, <1>3, <1>4 DEF Reader
  <2>2. mode \in {"any"} \cup Modes
    BY <1>2 DEF mode, Reader
  <2>3. /\ [q EXCEPT !.index = 3, !.state = Start(mode)] \in Reader
        /\ [q EXCEPT !.state = <<mode, "GetCounterDefs">>] \in Reader
    <3> HIDE DEF q
    <3> QED
      BY <2>1, <2>2 DEF Start, Reader, Parts
  <2>4. Becomes(IF word.data < 2 ^ 3 THEN [q EXCEPT !.index = 3, !.state = Start(mode)]
                ELSE [q EXCEPT !.state = <<mode, "GetCounterDefs">>])
    BY <1>15 DEF GetMarkerMask
  <2>5. Result
    <3> HIDE DEF q
    <3> QED
      BY <1>1, <1>5, <1>15, <2>3, <2>4 DEF GetMarkerMask, In
  <2> QED
    BY <1>2, <2>5
<1>16. CASE GetCounterDefs
  <2>1. [At("GetCounterDefsH") EXCEPT !.savedLow32 = word.data] \in Reader
    BY <1>3, <1>8 DEF Parts
  <2>2. Result
    BY <1>1, <1>5, <1>16, <2>1 DEF GetCounterDefs, In
  <2> QED
    BY <1>2, <2>2
<1>17. CASE GetCounterDefsH
  <2>1. Advanced(r) \in Reader
    BY <1>2, <1>8
  <2>2. Result
    BY <1>1, <1>5, <1>17, <2>1 DEF GetCounterDefsH, In
  <2> QED
    BY <1>2, <2>2
<1> QED
  BY <1>2, <1>9, <1>10, <1>11, <1>12, <1>13, <1>14, <1>15, <1>16, <1>17 DEF ProcessITCPerf

-----------------------------------------------------------------------------
(* The converter in step, place by place.                                  *)

\* The converter has a word of c, which is in step.
Reading(c) ==
  /\ c \in Core /\ word \in WordsOf(c) /\ word.core = c /\ word # None /\ MaskOK(c)
  /\ ReaderTypes /\ todo[c] \in Seq(Items(c)) /\ inSync[c] = "yes" /\ ProcessITCPerf

\* Of the lines a, all but those of b are out.
Wrote(a, b) == (line' = None /\ b = a) \/ (line' \in CoreLines /\ a = Cons(line', b))

Place(c) == Cons(word, todo[c])

\* After a round the word is used up, and the converter is where the core writes
\* on, or it is kept, and the converter is still there.
Consumes(c, p) ==
  /\ word' = None /\ status' = "OK"
  /\ \E b : Wrote(p \o SetToSeq(word.done), b) /\ Follows(c, reader'[c], todo[c], b)
Again(c, p) ==
  /\ word' = word /\ status' = "OK"
  /\ \E b : Wrote(p, b) /\ Follows(c, reader'[c], Place(c), b)

\* The line of a counter that is held is one of its core's.
LEMMA HeldTyped ==
  ASSUME NEW c \in Core, NEW q \in Reader
  PROVE  Held(c, q) \in CoreLines /\ <<Held(c, q)>> \in Seq(CoreLines)
<1> DEFINE l == [kind |-> "PerfCntr", pc |-> q.lastAddress, index |-> q.index,
                 value |-> Narrow(q.savedLow32)]
<1>1. q.lastAddress \in Wides /\ q.index \in Nat /\ Narrow(q.savedLow32) \in Wides
  BY DEF Reader, Narrow, Wides
<1>2. l \in Lines
  BY <1>1 DEF Lines
<1> HIDE DEF l
<1>3. [core |-> c, what |-> l] \in CoreLines
  BY <1>2 DEF CoreLines
<1>4. Held(c, q) \in CoreLines
  BY <1>3 DEF Held, l
<1> QED
  BY <1>4

\* What is known of a converter that reads.
LEMMA ReadingIs ==
  ASSUME NEW c, Reading(c)
  PROVE  /\ r = reader[c] /\ r \in Reader /\ mode = r.state[1] /\ status = "OK"
         /\ \A x : Becomes(x) => reader'[c] = x
         /\ Held(c, r) \in CoreLines /\ None \notin CoreLines
<1>1. r = reader[c] /\ mode = r.state[1] /\ reader \in [Core -> Reader] /\ c \in Core
  BY DEF Reading, r, mode, ReaderTypes
<1>2. status = "OK"
  BY ActionOf DEF Reading
<1>3. \A x : Becomes(x) => reader'[c] = x
  BY <1>1 DEF Becomes, Reading
<1>5. Held(c, r) \in CoreLines
  BY <1>1, HeldTyped
<1>6. r \in Reader
  BY <1>1
<1> QED
  BY <1>1, <1>2, <1>3, <1>5, <1>6, LibraryAssumption

\* The word is the one at the converter's place.
LEMMA WordInHand ==
  ASSUME NEW c, Reading(c), NEW w, NEW s, Begins(c, Place(c), w, s)
  PROVE  word = w /\ todo[c] = s
BY BeginsWith DEF Reading, Place

\* Lines and those that are left.
LEMMA WroteIs ==
  ASSUME None \notin CoreLines, NEW h \in CoreLines, NEW l \in CoreLines
  PROVE  /\ line' = None /\ word.done = {} => Wrote(<<>> \o SetToSeq(word.done), <<>>)
         /\ line' = None /\ word.done = {l} => Wrote(<<>> \o SetToSeq(word.done), <<l>>)
         /\ line' = l /\ word.done = {l} => Wrote(<<>> \o SetToSeq(word.done), <<>>)
         /\ line' = h /\ word.done = {} => Wrote(<<h>> \o SetToSeq(word.done), <<>>)
         /\ line' = h /\ word.done = {l} => Wrote(<<h>> \o SetToSeq(word.done), <<l>>)
         /\ line' = None => Wrote(<<>>, <<>>)
         /\ line' = h => Wrote(<<h>>, <<>>)
<1>1. SetToSeq({}) = <<>> /\ SetToSeq({l}) = <<l>>
  BY SetToSeqIs
<1>2. <<>> \o <<>> = <<>> /\ <<>> \o <<l>> = <<l>> /\ <<h>> \o <<>> = <<h>>
  OBVIOUS
<1>3. <<h>> = Cons(h, <<>>) /\ <<l>> = Cons(l, <<>>) /\ <<h>> \o <<l>> = Cons(h, <<l>>)
  BY <1>2 DEF Cons
<1> QED
  BY <1>1, <1>2, <1>3 DEF Wrote

\* At the beginning of a record a counter that waited is written.
LEMMA LastWritten ==
  ASSUME NEW c, Reading(c), NEW p, Through(c, r, p), r.state[2] # "Start",
         IsFull(word) \/ (mode = "func" /\ IsByte(word))
  PROVE  /\ word' = word /\ status' = "OK" /\ Wrote(p, <<>>)
         /\ reader'[c].state = <<r.state[1], "Start">> /\ ~reader'[c].pending
         /\ reader'[c].cntrMask = r.cntrMask
<1> DEFINE x == Advanced([r EXCEPT !.pending = FALSE])
           y == [r EXCEPT !.pending = FALSE, !.state = Start(mode)]
<1>1. /\ r.state[2] = "GetCntr" /\ r.pending /\ p = <<Held(c, r)>>
      /\ NextIndex(r.cntrMask, r.index + 1) = NumCntrs
  BY DEF Through, Holds
<1>2. CntrHigh \/ CntrLow \/ CntrByte
  BY <1>1, ActionOf DEF Reading
<1>3. ~CntrHigh
  BY DEF CntrHigh
<1>4. r \in Reader /\ mode = r.state[1] /\ status = "OK"
  BY ReadingIs
<1>5. x.state = Start(mode) /\ ~x.pending /\ x.cntrMask = r.cntrMask
  BY <1>1, <1>4 DEF Advanced, Reader
<1>6. y.state = Start(mode) /\ ~y.pending /\ y.cntrMask = r.cntrMask
  BY <1>4 DEF Reader
<1>7. line' = Held(c, r)
  BY <1>1, <1>2, <1>3 DEF CntrLow, CntrByte, Emit, CntrLine, Held, Reading
<1>8. Wrote(p, <<>>)
  BY <1>1, <1>7, ReadingIs, WroteIs
<1>9. word' = word /\ status' = "OK" /\ (Becomes(x) \/ Becomes(y))
  <2> HIDE DEF y
  <2>1. CASE CntrLow
    BY <1>1, <1>4, <1>5, <2>1 DEF CntrLow, LookAgain
  <2>2. CASE CntrByte
    BY <1>4, <2>2 DEF CntrByte, LookAgain, y
  <2> QED
    BY <1>2, <1>3, <2>1, <2>2
<1> HIDE DEF x, y
<1>10. reader'[c] \in {x, y}
  BY <1>9, ReadingIs
<1> QED
  BY <1>4, <1>5, <1>6, <1>8, <1>9, <1>10 DEF Start

\* A marker is found, also by one that expected the other kind.
LEMMA MarkerStep ==
  ASSUME NEW c, Reading(c), NEW p, InMarker(c, r, Place(c), p)
  PROVE  Consumes(c, p) \/ Again(c, p)
<1> DEFINE x == reader'[c]
<1>1. c \in Core /\ MaskOK(c) /\ None \notin CoreLines /\ r \in Reader /\ mode = r.state[1] /\ status = "OK"
  BY ReadingIs DEF Reading
<1>2. AtMarker(c, Place(c)) /\ (Through(c, r, p) \/ (r.state = Sync /\ Quiet(r, p)))
  BY DEF InMarker
<1>3. word = MarkerWord(c) /\ AtMask(c, todo[c])
  BY <1>1, <1>2, MarkerBegins, WordInHand
<1>4. word.data = perfMarkerVal /\ IsFull(word) /\ word.done = {}
  <2>1. perfMarkerVal \in Nat
    BY PerfAssumption DEF perfMarkerVal
  <2> QED
    BY <1>1, <1>3, <2>1, WordIs DEF MarkerWord, IsFull
<1>5. /\ ownMode = "func" => perfMarkerVal = funcMarkerValue
      /\ ownMode = "perf" => perfMarkerVal = markerValue
      /\ ownMode \in Modes
  BY DEF ownMode, perfMarkerVal, Modes
<1>6. ASSUME word' = word, status' = "OK", Wrote(p, <<>>), ~x.pending,
             x.state = Sync \/ (x.state[1] \in Modes /\ x.state[2] = "Start")
      PROVE  Again(c, p)
  <2>1. InMarker(c, x, Place(c), <<>>)
    BY <1>2, <1>6 DEF InMarker, Through, Quiet
  <2>2. Follows(c, x, Place(c), <<>>)
    BY <2>1 DEF Follows
  <2> QED
    BY <1>6, <2>2 DEF Again
<1>7. CASE r.state = Sync /\ Quiet(r, p)
  <2>1. SyncStep /\ p = <<>> /\ ~r.pending
    BY <1>7, ActionOf DEF Reading, Sync, Quiet
  <2>2. word' = word /\ status' = "OK" /\ line' = None /\ Becomes([r EXCEPT !.state = Start(ownMode)])
    BY <1>1, <1>4, <1>5, <2>1, PerfAssumption DEF SyncStep, LookAgain, Silent, Modes
  <2>3. x = [r EXCEPT !.state = Start(ownMode)]
    BY <2>2, ReadingIs
  <2>4. x.state = <<ownMode, "Start">> /\ ~x.pending
    BY <1>1, <2>1, <2>3 DEF Reader, Start
  <2>5. Wrote(p, <<>>)
    BY <2>1, <2>2 DEF Wrote
  <2> HIDE DEF x
  <2> QED
    BY <1>5, <1>6, <2>2, <2>4, <2>5 DEF x
<1>8. CASE Through(c, r, p) /\ r.state[2] # "Start"
  <2>1. r.state[1] \in Modes
    BY <1>8 DEF Through
  <2> QED
    BY <1>4, <1>6, <1>8, <2>1, LastWritten
<1>9. CASE Through(c, r, p) /\ r.state[2] = "Start"
  <2>1. mode \in Modes /\ ~r.pending /\ p = <<>>
    BY <1>1, <1>9 DEF Through, Quiet, Holds
  <2>2. word.data \in {OwnMarker, OtherMarker}
    BY <1>4, <1>5, <2>1 DEF OwnMarker, OtherMarker, Modes
  <2>3. StartMarker
    BY <1>9, <2>2, ActionOf DEF Reading, StartAddress, StartFunc, NoMarker
  <2>4. CASE word.data = OwnMarker
    <3>1. mode = ownMode /\ word.data # OtherMarker
      BY <1>4, <1>5, <2>1, <2>4, PerfAssumption DEF OwnMarker, OtherMarker, Modes
    <3>2. Becomes(At("GetMarkerMask")) /\ word' = None /\ status' = "OK" /\ line' = None
      BY <1>1, <2>3, <3>1 DEF StartMarker, Consumed, Silent
    <3>3. x = At("GetMarkerMask")
      BY <3>2, ReadingIs
    <3>4. x.state = <<ownMode, "GetMarkerMask">> /\ ~x.pending
      BY <1>1, <2>1, <3>1, <3>3 DEF Reader, At
    <3> HIDE DEF x
    <3>5. InMask(c, x, todo[c], <<>>)
      BY <1>3, <3>4 DEF InMask, Quiet
    <3>6. Follows(c, x, todo[c], <<>>)
      BY <3>5 DEF Follows
    <3>7. Wrote(p \o SetToSeq(word.done), <<>>)
      BY <1>4, <2>1, <3>2, WroteIs, ReadingIs
    <3> QED
      BY <3>2, <3>6, <3>7 DEF Consumes, x
  <2>5. CASE word.data # OwnMarker
    <3>2. Becomes([r EXCEPT !.state = Sync]) /\ word' = word /\ status' = "OK" /\ line' = None
      BY <1>1, <2>3, <2>5 DEF StartMarker, LookAgain, Silent
    <3>3. x = [r EXCEPT !.state = Sync]
      BY <3>2, ReadingIs
    <3>4. x.state = Sync /\ ~x.pending
      BY <1>1, <2>1, <3>3 DEF Reader
    <3>5. Wrote(p, <<>>)
      BY <2>1, <3>2 DEF Wrote
    <3> HIDE DEF x
    <3> QED
      BY <1>6, <3>2, <3>4, <3>5 DEF x
  <2> QED
    BY <2>4, <2>5
<1> QED
  BY <1>2, <1>7, <1>8, <1>9

\* The mask says how many events there are to read.
LEMMA MaskStep ==
  ASSUME NEW c, Reading(c), NEW p, InMask(c, r, Place(c), p)
  PROVE  Consumes(c, p)
<1> DEFINE x == reader'[c]
           l == [kind |-> "PerfCntrMask", mask |-> mask[c]]
           n == NextIndex(mask[c], 3)
<1>1. c \in Core /\ MaskOK(c) /\ None \notin CoreLines /\ r \in Reader /\ mode = r.state[1] /\ status = "OK"
  BY ReadingIs DEF Reading
<1>2. AtMask(c, Place(c)) /\ r.state = <<ownMode, "GetMarkerMask">> /\ ~r.pending /\ p = <<>>
  BY DEF InMask, Quiet
<1>3. PICK b \in Records(c) :
        /\ word = MaskWord(c) /\ todo[c] = EventsFrom(c, 3) \o b /\ MaskWord(c).data = mask[c]
        /\ MaskWord(c).done = {[core |-> c, what |-> l]}
  BY <1>1, <1>2, MaskBegins, WordInHand
<1>4. /\ GetMarkerMask /\ word.data = mask[c] /\ word.done = {[core |-> c, what |-> l]}
      /\ mode = ownMode
  BY <1>1, <1>2, <1>3, ActionOf DEF Reading
<1>5. [core |-> c, what |-> l] \in CoreLines
  <2>1. mask[c] \in Nat
    BY <1>1 DEF MaskOK, Unmarked
  <2>2. l \in Lines
    BY <2>1 DEF Lines
  <2> HIDE DEF l
  <2> QED
    BY <1>1, <2>2 DEF CoreLines
<1>6. word' = None /\ status' = "OK" /\ line' = [core |-> c, what |-> l]
  BY <1>1, <1>4 DEF GetMarkerMask, Consumed, Emit, Reading
<1>7. Wrote(p \o SetToSeq(word.done), <<>>)
  BY <1>1, <1>2, <1>4, <1>5, <1>6, WroteIs
<1>8. n = NumCntrs <=> mask[c] < 2 ^ 3
  <2>1. 3 \in 0..NumCntrs /\ mask[c] \in 0..2 ^ NumCntrs - 1
    BY <1>1, PerfAssumption DEF MaskOK
  <2> QED
    BY <2>1, NoneNext
<1>9. /\ x.state[1] = ownMode /\ x.cntrMask = mask[c] /\ ~x.pending
      /\ n = NumCntrs => x.state[2] = "Start"
      /\ n # NumCntrs => x.state[2] = "GetCounterDefs" /\ x.index = n
  <2> DEFINE q == [r EXCEPT !.cntrMask = mask[c], !.index = n]
             y == IF mask[c] < 2 ^ 3 THEN [q EXCEPT !.index = 3, !.state = Start(mode)]
                  ELSE [q EXCEPT !.state = <<mode, "GetCounterDefs">>]
  <2>1. Becomes(y)
    BY <1>4 DEF GetMarkerMask
  <2>2. x = y
    BY <2>1, ReadingIs
  <2> HIDE DEF n, x
  <2>3. CASE mask[c] < 2 ^ 3
    <3>1. x = [q EXCEPT !.index = 3, !.state = Start(mode)]
      BY <2>2, <2>3
    <3> QED
      BY <1>1, <1>2, <1>4, <1>8, <2>3, <3>1 DEF Start, Reader
  <2>4. CASE ~(mask[c] < 2 ^ 3)
    <3>1. x = [q EXCEPT !.state = <<mode, "GetCounterDefs">>]
      BY <2>2, <2>4
    <3> QED
      BY <1>1, <1>2, <1>4, <1>8, <2>4, <3>1 DEF Reader
  <2> QED
    BY <2>3, <2>4
<1>10. Follows(c, x, todo[c], <<>>)
  <2> HIDE DEF x
  <2>1. Follows(c, x, EventsFrom(c, 3) \o b, <<>>)
    BY <1>1, <1>9, EventsFollow DEF EventPart, IsFirst
  <2> QED
    BY <1>3, <2>1
<1> QED
  BY <1>6, <1>7, <1>10 DEF Consumes

\* The two words of an event.
LEMMA EventStep ==
  ASSUME NEW c, Reading(c), NEW p, InEvents(c, r, Place(c), p)
  PROVE  Consumes(c, p)
<1> DEFINE x == reader'[c]
           t == Place(c)
<1>1. c \in Core /\ MaskOK(c) /\ None \notin CoreLines /\ r \in Reader /\ mode = r.state[1] /\ status = "OK"
  BY ReadingIs DEF Reading
<1>2. ASSUME NEW n \in 3..NumCntrs - 1, AtEvent(c, t, n) PROVE FALSE
  <2>1. PICK b \in Records(c) : t = Cons([event |-> n], b)
    BY <1>2 DEF AtEvent
  <2>2. b \in Seq(Items(c))
    BY <1>1, RecordsAre
  <2>3. [event |-> n] \in Items(c) /\ word \in Items(c)
    BY PerfAssumption DEF Items, Reading
  <2>4. word = [event |-> n]
    <3>1. Cons(word, todo[c]) = Cons([event |-> n], b)
      BY <2>1 DEF Place
    <3> HIDE DEF t
    <3> QED
      BY <2>2, <2>3, <3>1, ConsEqual DEF Reading
  <2> QED
    BY <2>4, ItemKinds DEF Reading
<1>3. ASSUME NEW n \in 3..NumCntrs - 1, AtEventLow(c, t, n), IsFirst(c, n),
             Expects(c, r, p, "GetCounterDefs"), r.index = n
      PROVE  Consumes(c, p)
  <2>1. word = EventLow(c, n) /\ AtEventHigh(c, todo[c], n)
    BY <1>1, <1>3, EventLowBegins, WordInHand
  <2>2. word.data = EventOf[n][2] /\ word.done = {}
    BY <1>1, <2>1, EventWords
  <2>3. GetCounterDefs /\ Own(c, r) /\ ~r.pending /\ p = <<>>
    BY <1>3, ActionOf DEF Reading, Expects, Quiet
  <2>4. word' = None /\ status' = "OK" /\ line' = None
    BY <1>1, <2>3 DEF GetCounterDefs, Consumed, Silent
  <2>5. x = [At("GetCounterDefsH") EXCEPT !.savedLow32 = word.data]
    BY <2>3, ReadingIs DEF GetCounterDefs
  <2>6. /\ x.state = <<ownMode, "GetCounterDefsH">> /\ x.savedLow32 = EventOf[n][2]
        /\ x.cntrMask = mask[c] /\ ~x.pending /\ x.index = n
    BY <1>1, <1>3, <2>2, <2>3, <2>5 DEF At, Own, Reader
  <2>7. Wrote(p \o SetToSeq(word.done), <<>>)
    BY <1>1, <2>2, <2>3, <2>4, WroteIs, ReadingIs
  <2> HIDE DEF x, t
  <2>8. InEvents(c, x, todo[c], <<>>)
    BY <1>3, <2>1, <2>6 DEF InEvents, Expects, Own, Quiet
  <2>9. Follows(c, x, todo[c], <<>>)
    BY <2>8 DEF Follows
  <2> QED
    BY <2>4, <2>7, <2>9 DEF Consumes, x
<1>4. ASSUME NEW n \in 3..NumCntrs - 1, AtEventHigh(c, t, n), IsFirst(c, n),
             Expects(c, r, p, "GetCounterDefsH"), r.index = n, r.savedLow32 = EventOf[n][2]
      PROVE  Consumes(c, p)
  <2> DEFINE l == [kind |-> "PerfCntrDef", index |-> n, value |-> EventOf[n]]
             i == NextIndex(mask[c], n + 1)
  <2>1. PICK b \in Records(c) : word = EventHigh(c, n) /\ todo[c] = EventsFrom(c, n + 1) \o b
    <3>1. PICK b \in Records(c) : Begins(c, Place(c), EventHigh(c, n), EventsFrom(c, n + 1) \o b)
      BY <1>1, <1>4, EventHighBegins
    <3> QED
      BY <3>1, WordInHand
  <2>2. word.data = EventOf[n][1] /\ word.done = {[core |-> c, what |-> l]}
    BY <1>1, <2>1, EventWords
  <2>3. GetCounterDefsH /\ Own(c, r) /\ ~r.pending /\ p = <<>>
    BY <1>4, ActionOf DEF Reading, Expects, Quiet
  <2>4. EventOf[n] \in Wides /\ EventOf[n] = <<EventOf[n][1], EventOf[n][2]>> /\ n \in Nat
    <3>1. EventOf[n] \in Unmarked \X Unmarked
      BY LibraryAssumption, PerfAssumption
    <3> QED
      BY <3>1 DEF Unmarked, Wides
  <2>5. l \in Lines
    <3>1. l \in [kind : {"PerfCntrDef"}, index : Nat, value : Wides]
      BY <2>4
    <3> QED
      BY <3>1 DEF Lines
  <2>6. word' = None /\ status' = "OK" /\ line' = [core |-> c, what |-> l]
    <3>1. Wide(word.data, r.savedLow32) = EventOf[n]
      BY <1>4, <2>2, <2>4 DEF Wide
    <3> QED
      BY <1>1, <1>4, <2>3, <3>1 DEF GetCounterDefsH, Consumed, Emit, Reading
  <2>7. [core |-> c, what |-> l] \in CoreLines
    <3> HIDE DEF l
    <3> QED
      BY <1>1, <2>5 DEF CoreLines
  <2>8. Wrote(p \o SetToSeq(word.done), <<>>)
    BY <1>1, <2>2, <2>3, <2>6, <2>7, WroteIs
  <2>9. x = Advanced(r)
    BY <2>3, ReadingIs DEF GetCounterDefsH
  <2>10. /\ x.state[1] = ownMode /\ x.cntrMask = mask[c] /\ ~x.pending
         /\ i = NumCntrs => x.state[2] = "Start"
         /\ i # NumCntrs => x.state[2] = EventPart(c, i) /\ x.index = i
    <3>1. r.state[2] = "GetCounterDefsH" /\ r.state[1] = ownMode /\ r.cntrMask = mask[c] /\ r.index = n
      BY <1>4, <2>3 DEF Expects, Own
    <3>2. mode = ownMode
      BY <1>1, <2>3 DEF Own
    <3>3. i # NumCntrs => i # n
      <4>1. mask[c] \in Nat /\ n + 1 \in Nat
        BY <1>1, <2>4 DEF MaskOK, Unmarked
      <4>2. i # NumCntrs => i \in n + 1..NumCntrs - 1
        BY <4>1, NextIndexIs
      <4> QED
        BY <2>4, <4>2, PerfAssumption
    <3>4. i # NumCntrs => EventPart(c, i) = "GetCounterDefsH"
      BY <1>4, <3>3 DEF EventPart, IsFirst
    <3> HIDE DEF x
    <3> QED
      BY <1>1, <2>3, <2>9, <3>1, <3>2, <3>4 DEF Advanced, Start, Reader
  <2>11. Follows(c, x, todo[c], <<>>)
    <3>1. n + 1 \in Nat /\ n + 1 >= 3
      BY PerfAssumption
    <3> HIDE DEF x
    <3>2. Follows(c, x, EventsFrom(c, n + 1) \o b, <<>>)
      BY <1>1, <2>10, <3>1, EventsFollow
    <3> QED
      BY <2>1, <3>2
  <2> QED
    BY <2>6, <2>8, <2>11 DEF Consumes
<1> QED
  BY <1>2, <1>3, <1>4 DEF InEvents

LinesOf(c, done) == {[core |-> c, what |-> l] : l \in done}

\* The words of an address, as the converter finds them.
LEMMA AddressInHand ==
  ASSUME NEW c, Reading(c), NEW a \in CodeAddress, NEW done, OneLine(done), NEW s \in Seq(Items(c))
  PROVE  /\ Place(c) = EmitAddress(c, a, done) \o s =>
              /\ IsFull(word) /\ word.data \notin Markers
              /\ a[1] # 0 => /\ IsLow(word.data) /\ word.data - 1 = a[2] /\ word.done = {}
                             /\ todo[c] = Cons(AddressHigh(c, a, done), s)
              /\ a[1] = 0 => /\ ~IsLow(word.data) /\ Narrow(word.data) = a
                             /\ word.done = LinesOf(c, done) /\ todo[c] = s
         /\ Place(c) = Cons(AddressHigh(c, a, done), s) =>
              Wide(word.data, a[2]) = a /\ word.done = LinesOf(c, done) /\ todo[c] = s
<1> DEFINE S == Items(c)
           w == AddressLow(c, a)
           h == AddressHigh(c, a, done)
           o == AddressOnly(c, a, done)
           t == EmitAddress(c, a, done) \o s
<1>1. c \in Core /\ word \in S /\ todo[c] \in Seq(S)
  BY DEF Reading, Items
<1>2. /\ a[1] # 0 => t = Cons(w, Cons(h, s))
      /\ a[1] = 0 => t = Cons(o, s)
  <2>0. c \in Core
    BY <1>1
  <2>1. a[1] # 0 => t = Cons(w, Cons(h, s))
    BY <2>0, AddressIs
  <2>2. a[1] = 0 => t = Cons(o, s)
    BY <2>0, AddressIs
  <2> QED
    BY <2>1, <2>2
<1>3. Cons(h, s) \in Seq(S)
  BY <1>1, AddressIs
<1>4. w \in S /\ h \in S /\ o \in S
  BY <1>1, AddressIs DEF Items
<1>5. w.data \notin Markers /\ o.data \notin Markers
  BY <1>1, AddressIs
<1>6. a[1] \in Nat /\ a[2] \in Nat /\ a[2] % 2 = 0 /\ a = <<a[1], a[2]>>
  BY DEF CodeAddress, Unmarked
<1>7. /\ w.offset = 0 /\ w.data = a[2] + 1 /\ w.done = {}
      /\ h.data = a[1] /\ h.done = LinesOf(c, done)
      /\ o.offset = 0 /\ o.data = a[2] /\ o.done = LinesOf(c, done)
  <2>1. LinesOf(c, {}) = {}
    BY DEF LinesOf
  <2> QED
    BY <2>1 DEF AddressLow, AddressHigh, AddressOnly, Word, LinesOf
<1>8. Place(c) = Cons(word, todo[c])
  BY DEF Place
<1> HIDE DEF S, w, h, o, t
<1>9. ASSUME Place(c) = t, a[1] # 0 PROVE word = w /\ todo[c] = Cons(h, s)
  <2>1. Cons(word, todo[c]) = Cons(w, Cons(h, s))
    BY <1>2, <1>8, <1>9
  <2> QED
    BY <1>1, <1>3, <1>4, <2>1, ConsEqual
<1>10. ASSUME Place(c) = t, a[1] = 0 PROVE word = o /\ todo[c] = s
  <2>1. Cons(word, todo[c]) = Cons(o, s)
    BY <1>2, <1>8, <1>10
  <2>2. s \in Seq(S)
    BY DEF S
  <2> QED
    BY <1>1, <1>4, <2>1, <2>2, ConsEqual
<1>11. ASSUME Place(c) = Cons(h, s) PROVE word = h /\ todo[c] = s
  <2>1. Cons(word, todo[c]) = Cons(h, s)
    BY <1>8, <1>11
  <2>2. s \in Seq(S)
    BY DEF S
  <2> QED
    BY <1>1, <1>4, <2>1, <2>2, ConsEqual
<1>12. /\ IsLow(a[2] + 1) /\ ~IsLow(a[2]) /\ a[2] + 1 - 1 = a[2]
       /\ a[1] = 0 => Narrow(a[2]) = a
       /\ Wide(a[1], a[2]) = a
  BY <1>6 DEF IsLow, Narrow, Wide
<1>13. Place(c) = t => IsFull(word) /\ word.data \notin Markers
  BY <1>5, <1>7, <1>9, <1>10 DEF IsFull
<1>14. Place(c) = t /\ a[1] # 0 =>
         IsLow(word.data) /\ word.data - 1 = a[2] /\ word.done = {} /\ todo[c] = Cons(h, s)
  BY <1>6, <1>7, <1>9, <1>12
<1>15. Place(c) = t /\ a[1] = 0 =>
         ~IsLow(word.data) /\ Narrow(word.data) = a /\ word.done = LinesOf(c, done) /\ todo[c] = s
  BY <1>7, <1>10, <1>12
<1>16. Place(c) = Cons(h, s) => Wide(word.data, a[2]) = a /\ word.done = LinesOf(c, done) /\ todo[c] = s
  BY <1>7, <1>11, <1>12
<1> QED
  BY <1>13, <1>14, <1>15, <1>16 DEF t, h

\* The address of a record is through, with its line.
LEMMA AddressThrough ==
  ASSUME NEW c, Reading(c), NEW a \in CodeAddress, NEW b \in CodeAddress, NEW l \in Lines, NEW q \in Reader,
         Own(c, q), mode = ownMode, ~q.pending, q.lastAddress = a,
         Becomes(Counters(q)), word' = None, status' = "OK",
         Emit(l), word.done = LinesOf(c, {l}), todo[c] = perfEmitCntrs(c, a, 0)
  PROVE  Consumes(c, <<>>)
<1>1. c \in Core /\ MaskOK(c) /\ word.core = c /\ None \notin CoreLines
  BY ReadingIs DEF Reading
<1>2. reader'[c] = Counters(q)
  BY ReadingIs
<1>3. Follows(c, reader'[c], todo[c], <<>>)
  BY <1>1, <1>2, CountersFollow
<1>4. word.done = {[core |-> c, what |-> l]}
  BY DEF LinesOf
<1>5. [core |-> c, what |-> l] \in CoreLines /\ line' = [core |-> c, what |-> l]
  BY <1>1 DEF CoreLines, Emit
<1>6. Wrote(<<>> \o SetToSeq(word.done), <<>>)
  BY <1>1, <1>4, <1>5, WroteIs
<1> QED
  BY <1>3, <1>6 DEF Consumes

\* The address of a manual record.
LEMMA AddressStep ==
  ASSUME NEW c, Reading(c), NEW a \in Addresses, traceType # "func", Own(c, r), ~r.pending,
         \/ /\ Place(c) = ManualRecord(c, a) /\ r.state[2] = "Start"
         \/ /\ AtAddressHigh(c, Place(c), a) /\ r.state[2] = "GetAddrH" /\ r.savedLow32 = a[2]
  PROVE  Consumes(c, <<>>)
<1> DEFINE l == [kind |-> "Address", pc |-> a]
           k == perfEmitCntrs(c, a, 0)
           x == reader'[c]
           q == [r EXCEPT !.lastAddress = a]
<1>1. c \in Core /\ MaskOK(c) /\ None \notin CoreLines /\ r \in Reader /\ mode = r.state[1] /\ status = "OK"
  BY ReadingIs DEF Reading
<1>2. a \in CodeAddress /\ a \in Wides /\ OneLine({l})
  BY LibraryAssumption, AddressTypes DEF AddressDone
<1>3. k \in Seq(Items(c))
  BY <1>1, <1>2, CntrsShape
<1>4. mode = "perf" /\ mode = ownMode
  BY <1>1 DEF Own, ownMode
<1>5. l \in Lines
  BY <1>2 DEF Lines
<1>6. q \in Reader /\ Own(c, q) /\ ~q.pending /\ q.lastAddress = a
  BY <1>1, <1>2 DEF Own, Reader
<1>7. CASE Place(c) = ManualRecord(c, a) /\ r.state[2] = "Start"
  <2>1. Place(c) = EmitAddress(c, a, {l}) \o k
    BY <1>7 DEF ManualRecord
  <2> HIDE DEF k, l
  <2>2. /\ word.data \notin Markers
        /\ a[1] # 0 => /\ IsLow(word.data) /\ word.data - 1 = a[2] /\ word.done = {}
                       /\ todo[c] = Cons(AddressHigh(c, a, {l}), k)
        /\ a[1] = 0 => /\ ~IsLow(word.data) /\ Narrow(word.data) = a
                       /\ word.done = LinesOf(c, {l}) /\ todo[c] = k
    <3> DEFINE d == {l}
    <3>1. OneLine(d) /\ Place(c) = EmitAddress(c, a, d) \o k
      BY <1>2, <2>1 DEF l
    <3> HIDE DEF d
    <3>2. word.data \notin Markers
      BY <1>2, <1>3, <3>1, AddressInHand
    <3>3. a[1] # 0 => /\ IsLow(word.data) /\ word.data - 1 = a[2] /\ word.done = {}
                      /\ todo[c] = Cons(AddressHigh(c, a, d), k)
      BY <1>2, <1>3, <3>1, AddressInHand
    <3>4. a[1] = 0 => /\ ~IsLow(word.data) /\ Narrow(word.data) = a
                      /\ word.done = LinesOf(c, d) /\ todo[c] = k
      BY <1>2, <1>3, <3>1, AddressInHand
    <3> QED
      BY <3>2, <3>3, <3>4 DEF d
  <2>3. StartAddress
    <3>1. StartMarker \/ StartAddress \/ StartFunc
      BY <1>7, ActionOf DEF Reading
    <3>2. ~StartMarker
      BY <1>4, <2>2 DEF StartMarker, OwnMarker, OtherMarker, Markers
    <3>3. ~StartFunc
      BY <1>4 DEF StartFunc
    <3> QED
      BY <3>1, <3>2, <3>3
  <2>4. word' = None /\ status' = "OK"
    BY <1>1, <2>3 DEF StartAddress, Consumed
  <2>5. CASE a[1] # 0
    <3>1. Becomes([At("GetAddrH") EXCEPT !.savedLow32 = a[2]]) /\ line' = None
      BY <2>2, <2>3, <2>5 DEF StartAddress, Silent
    <3>2. x = [At("GetAddrH") EXCEPT !.savedLow32 = a[2]]
      BY <3>1, ReadingIs
    <3>3. x.state[2] = "GetAddrH" /\ Own(c, x) /\ ~x.pending /\ x.savedLow32 = a[2]
      <4>1. /\ x.state = <<ownMode, "GetAddrH">> /\ x.cntrMask = r.cntrMask
            /\ x.pending = r.pending /\ x.savedLow32 = a[2]
        BY <1>1, <1>4, <3>2 DEF At, Reader
      <4> QED
        BY <4>1 DEF Own
    <3>4. AtAddressHigh(c, todo[c], a)
      BY <2>2, <2>5 DEF AtAddressHigh, AddressDone, k, l
    <3> HIDE DEF x
    <3>5. InAddress(c, x, todo[c], <<>>)
      BY <3>3, <3>4 DEF InAddress, Expects, Quiet
    <3>6. Follows(c, x, todo[c], <<>>)
      BY <3>5 DEF Follows
    <3>7. Wrote(<<>> \o SetToSeq(word.done), <<>>)
      BY <1>1, <2>2, <2>5, <3>1, WroteIs, ReadingIs
    <3> QED
      BY <2>4, <3>6, <3>7 DEF Consumes, x
  <2>6. CASE a[1] = 0
    <3>1. Becomes(Counters(q)) /\ Emit(l)
      BY <2>2, <2>3, <2>6 DEF StartAddress, l
    <3> HIDE DEF q
    <3> QED
      BY <1>2, <1>4, <1>5, <1>6, <2>2, <2>4, <2>6, <3>1, AddressThrough DEF k
  <2> QED
    BY <2>5, <2>6
<1>8. CASE AtAddressHigh(c, Place(c), a) /\ r.state[2] = "GetAddrH" /\ r.savedLow32 = a[2]
  <2>1. Place(c) = Cons(AddressHigh(c, a, {l}), k)
    BY <1>8 DEF AtAddressHigh, AddressDone
  <2>2. GetAddrH
    BY <1>8, ActionOf DEF Reading
  <2> HIDE DEF k, l
  <2>3. Wide(word.data, a[2]) = a /\ word.done = LinesOf(c, {l}) /\ todo[c] = k
    BY <1>2, <1>3, <2>1, AddressInHand
  <2>4. Becomes(Counters(q)) /\ Emit(l) /\ word' = None /\ status' = "OK"
    BY <1>1, <1>8, <2>2, <2>3 DEF GetAddrH, Consumed, l
  <2> HIDE DEF q
  <2> QED
    BY <1>2, <1>4, <1>5, <1>6, <2>3, <2>4, AddressThrough DEF k
<1> QED
  BY <1>7, <1>8

\* The address of a function.
LEMMA FnStep ==
  ASSUME NEW c, Reading(c), NEW b \in BOOLEAN, NEW f \in Functions,
         \/ AtFn(c, Place(c), b, f) /\ Expects(c, r, <<>>, FnPart(b))
         \/ /\ AtFnHigh(c, Place(c), b, f) /\ Expects(c, r, <<>>, Highs[FnPart(b)])
            /\ r.savedLow32 = f[1][2]
  PROVE  Consumes(c, <<>>)
<1> DEFINE x == reader'[c]
           a == f[1]
           site == HookSite(c, b, f[1], f[2])
           part == FnPart(b)
           none == {}
<1>1. c \in Core /\ MaskOK(c) /\ None \notin CoreLines /\ r \in Reader /\ mode = r.state[1] /\ status = "OK"
  BY ReadingIs DEF Reading
<1>2. a \in CodeAddress /\ OneLine(none)
  BY HookTypes DEF OneLine
<1>3. site \in Seq(Items(c))
  BY <1>1, RecordsAre
<1>4. part \in {"CallStart", "ReturnStart"} /\ Others[part] = SitePart(b)
  BY DEF FnPart, SitePart, Others
<1>5. Own(c, r) /\ ~r.pending /\ mode = ownMode /\ traceType = "func"
  BY <1>1 DEF Expects, Quiet, Own, AtFn, AtFnHigh
<1>6. r.state[2] \in {part, Highs[part]} /\ FuncAddress(part)
  <2>1. r.state[2] \in {part, Highs[part]}
    BY DEF Expects
  <2> QED
    BY <2>1, ActionOf DEF Reading
<1>7. word' = None /\ status' = "OK" /\ line' = None
  BY <1>1, <1>6 DEF FuncAddress, Consumed, Silent
<1>8. \A q : In(q) <=> r.state[2] = q
  BY <1>1 DEF In, Reading
<1>9. Highs[part] # part
  BY <1>4 DEF Highs
<1>10. ASSUME word.done = {}, todo[c] = site, Becomes([At(Others[part]) EXCEPT !.lastAddress = a])
       PROVE  Consumes(c, <<>>)
  <2>1. x = [At(SitePart(b)) EXCEPT !.lastAddress = a]
    BY <1>4, <1>10, ReadingIs
  <2>2. /\ x.state = <<ownMode, SitePart(b)>> /\ x.cntrMask = r.cntrMask
        /\ x.pending = r.pending /\ x.lastAddress = a
    BY <1>1, <1>5, <2>1 DEF At, Reader
  <2> HIDE DEF x
  <2>3. Expects(c, x, <<>>, SitePart(b))
    BY <1>5, <2>2 DEF Expects, Own, Quiet
  <2>4. AtSite(c, todo[c], b, f)
    BY <1>5, <1>10 DEF AtSite
  <2>5. Follows(c, x, todo[c], <<>>)
    BY <2>2, <2>3, <2>4 DEF Follows, InHook
  <2>6. Wrote(<<>> \o SetToSeq(word.done), <<>>)
    BY <1>1, <1>7, <1>10, WroteIs, ReadingIs
  <2> QED
    BY <1>7, <2>5, <2>6 DEF Consumes, x
<1>11. CASE AtFn(c, Place(c), b, f) /\ Expects(c, r, <<>>, FnPart(b))
  <2>1. Place(c) = EmitAddress(c, a, none) \o site
    BY <1>11 DEF AtFn
  <2>2. /\ IF IsLow(word.data) THEN Becomes([At(Highs[part]) EXCEPT !.savedLow32 = word.data - 1])
           ELSE Becomes([At(Others[part]) EXCEPT !.lastAddress = Narrow(word.data)])
    <3>1. In(part) /\ ~In(Highs[part])
      BY <1>8, <1>9, <1>11 DEF Expects
    <3> QED
      BY <1>6, <3>1 DEF FuncAddress
  <2> HIDE DEF part, site, none, a
  <2>3. a[1] # 0 => /\ IsLow(word.data) /\ word.data - 1 = a[2] /\ word.done = {}
                    /\ todo[c] = Cons(AddressHigh(c, a, none), site)
    <3>1. a[1] # 0 => IsLow(word.data) /\ word.data - 1 = a[2] /\ word.done = {}
      BY <1>2, <1>3, <2>1, AddressInHand
    <3>2. a[1] # 0 => todo[c] = Cons(AddressHigh(c, a, none), site)
      BY <1>2, <1>3, <2>1, AddressInHand
    <3> QED
      BY <3>1, <3>2
  <2>4. a[1] = 0 => /\ ~IsLow(word.data) /\ Narrow(word.data) = a
                    /\ word.done = LinesOf(c, none) /\ todo[c] = site
    <3>1. a[1] = 0 => ~IsLow(word.data) /\ Narrow(word.data) = a
      BY <1>2, <1>3, <2>1, AddressInHand
    <3>2. a[1] = 0 => word.done = LinesOf(c, none) /\ todo[c] = site
      BY <1>2, <1>3, <2>1, AddressInHand
    <3> QED
      BY <3>1, <3>2
  <2>5. CASE a[1] = 0
    <3>1. word.done = {}
      BY <2>4, <2>5 DEF LinesOf, none
    <3> QED
      BY <1>10, <2>2, <2>4, <2>5, <3>1
  <2>6. CASE a[1] # 0
    <3>1. x = [At(Highs[part]) EXCEPT !.savedLow32 = a[2]]
      BY <2>2, <2>3, <2>6, ReadingIs
    <3>2. /\ x.state = <<ownMode, Highs[part]>> /\ x.cntrMask = r.cntrMask
          /\ x.pending = r.pending /\ x.savedLow32 = a[2]
      BY <1>1, <1>5, <3>1 DEF At, Reader
    <3> HIDE DEF x
    <3>3. Expects(c, x, <<>>, Highs[FnPart(b)])
      BY <1>5, <3>2 DEF Expects, Own, Quiet, part
    <3>4. AtFnHigh(c, todo[c], b, f)
      BY <1>5, <2>3, <2>6 DEF AtFnHigh, site, none, a
    <3>5. Follows(c, x, todo[c], <<>>)
      BY <3>2, <3>3, <3>4 DEF Follows, InHook, a
    <3>6. Wrote(<<>> \o SetToSeq(word.done), <<>>)
      BY <1>1, <1>7, <2>3, <2>6, WroteIs, ReadingIs
    <3> QED
      BY <1>7, <3>5, <3>6 DEF Consumes, x
  <2> QED
    BY <2>5, <2>6
<1>12. CASE AtFnHigh(c, Place(c), b, f) /\ Expects(c, r, <<>>, Highs[FnPart(b)]) /\ r.savedLow32 = f[1][2]
  <2>1. Place(c) = Cons(AddressHigh(c, a, none), site)
    BY <1>12 DEF AtFnHigh
  <2>2. Becomes([At(Others[part]) EXCEPT !.lastAddress = Wide(word.data, r.savedLow32)])
    <3>1. ~In(part)
      BY <1>8, <1>9, <1>12 DEF Expects
    <3> QED
      BY <1>6, <3>1 DEF FuncAddress
  <2> HIDE DEF part, site, none, a
  <2>3. Wide(word.data, a[2]) = a /\ word.done = LinesOf(c, none) /\ todo[c] = site
    BY <1>2, <1>3, <2>1, AddressInHand
  <2>4. word.done = {}
    BY <2>3 DEF LinesOf, none
  <2> QED
    BY <1>10, <1>12, <2>2, <2>3, <2>4 DEF a
<1> QED
  BY <1>11, <1>12

\* Where the function was called from, which completes the record's line.
LEMMA SiteStep ==
  ASSUME NEW c, Reading(c), NEW b \in BOOLEAN, NEW f \in Functions, r.lastAddress = f[1],
         \/ AtSite(c, Place(c), b, f) /\ Expects(c, r, <<>>, SitePart(b))
         \/ /\ AtSiteHigh(c, Place(c), b, f) /\ Expects(c, r, <<>>, Highs[SitePart(b)])
            /\ r.savedLow32 = f[2][2]
  PROVE  Consumes(c, <<>>)
<1> DEFINE x == reader'[c]
           a == f[2]
           k == perfEmitCntrs(c, f[1], 0)
           part == SitePart(b)
           l == [kind |-> IF b THEN "FuncEnter" ELSE "FuncExit", fn |-> f[1], site |-> f[2]]
           done == {l}
<1>1. c \in Core /\ MaskOK(c) /\ None \notin CoreLines /\ r \in Reader /\ mode = r.state[1] /\ status = "OK"
  BY ReadingIs DEF Reading
<1>2. a \in CodeAddress /\ f[1] \in CodeAddress /\ f[1] \in Wides /\ f[2] \in Wides
  BY HookTypes
<1>3. k \in Seq(Items(c))
  BY <1>1, <1>2, CntrsShape
<1>4. part \in {"CallGetSite", "ReturnGetSite"} /\ Kind(part) = IF b THEN "FuncEnter" ELSE "FuncExit"
  BY DEF SitePart, Kind
<1>5. Own(c, r) /\ ~r.pending /\ mode = ownMode /\ traceType = "func"
  BY <1>1 DEF Expects, Quiet, Own, AtSite, AtSiteHigh
<1>6. r.state[2] \in {part, Highs[part]} /\ FuncCallSite(part)
  <2>1. r.state[2] \in {part, Highs[part]}
    BY DEF Expects
  <2> QED
    BY <2>1, ActionOf DEF Reading
<1>7. word' = None /\ status' = "OK"
  BY <1>1, <1>6 DEF FuncCallSite, Consumed
<1>8. \A q : In(q) <=> r.state[2] = q
  BY <1>1 DEF In, Reading
<1>9. Highs[part] # part
  BY <1>4 DEF Highs
<1>10. l \in Lines
  <2> DEFINE kind == IF b THEN "FuncEnter" ELSE "FuncExit"
  <2>1. kind \in {"FuncEnter", "FuncExit"}
    OBVIOUS
  <2> HIDE DEF kind
  <2> QED
    BY <1>2, <2>1 DEF Lines
<1>11. OneLine(done) /\ FuncLine(b, f[1], f[2]) = done
  BY <1>10 DEF OneLine, FuncLine
<1>12. ASSUME word.done = LinesOf(c, done), todo[c] = k, FuncSite(part, a)
       PROVE  Consumes(c, <<>>)
  <2>1. Becomes(Counters(r))
    BY <1>12 DEF FuncSite
  <2>2. Emit(l)
    BY <1>4, <1>12 DEF FuncSite
  <2> HIDE DEF l, part
  <2> QED
    BY <1>1, <1>2, <1>5, <1>7, <1>10, <1>12, <2>1, <2>2, AddressThrough
<1>13. CASE AtSite(c, Place(c), b, f) /\ Expects(c, r, <<>>, SitePart(b))
  <2>1. Place(c) = EmitAddress(c, a, done) \o k
    BY <1>11, <1>13 DEF AtSite, HookSite
  <2>2. IF IsLow(word.data)
        THEN Becomes([At(Highs[part]) EXCEPT !.savedLow32 = word.data - 1]) /\ line' = None
        ELSE FuncSite(part, Narrow(word.data))
    <3>1. In(part) /\ ~In(Highs[part])
      BY <1>8, <1>9, <1>13 DEF Expects
    <3> QED
      BY <1>6, <3>1 DEF FuncCallSite, Silent
  <2> HIDE DEF part, k, done, l, a
  <2>3. a[1] # 0 => /\ IsLow(word.data) /\ word.data - 1 = a[2] /\ word.done = {}
                    /\ todo[c] = Cons(AddressHigh(c, a, done), k)
    <3>1. a[1] # 0 => IsLow(word.data) /\ word.data - 1 = a[2] /\ word.done = {}
      BY <1>2, <1>3, <1>11, <2>1, AddressInHand
    <3>2. a[1] # 0 => todo[c] = Cons(AddressHigh(c, a, done), k)
      BY <1>2, <1>3, <1>11, <2>1, AddressInHand
    <3> QED
      BY <3>1, <3>2
  <2>4. a[1] = 0 => /\ ~IsLow(word.data) /\ Narrow(word.data) = a
                    /\ word.done = LinesOf(c, done) /\ todo[c] = k
    <3>1. a[1] = 0 => ~IsLow(word.data) /\ Narrow(word.data) = a
      BY <1>2, <1>3, <1>11, <2>1, AddressInHand
    <3>2. a[1] = 0 => word.done = LinesOf(c, done) /\ todo[c] = k
      BY <1>2, <1>3, <1>11, <2>1, AddressInHand
    <3> QED
      BY <3>1, <3>2
  <2>5. CASE a[1] = 0
    BY <1>12, <2>2, <2>4, <2>5
  <2>6. CASE a[1] # 0
    <3>1. x = [At(Highs[part]) EXCEPT !.savedLow32 = a[2]] /\ line' = None
      BY <2>2, <2>3, <2>6, ReadingIs
    <3>2. /\ x.state = <<ownMode, Highs[part]>> /\ x.cntrMask = r.cntrMask
          /\ x.pending = r.pending /\ x.savedLow32 = a[2] /\ x.lastAddress = r.lastAddress
      BY <1>1, <1>5, <3>1 DEF At, Reader
    <3> HIDE DEF x
    <3>3. Expects(c, x, <<>>, Highs[SitePart(b)])
      BY <1>5, <3>2 DEF Expects, Own, Quiet, part
    <3>4. AtSiteHigh(c, todo[c], b, f)
      BY <1>5, <1>11, <2>3, <2>6 DEF AtSiteHigh, k, a
    <3>5. Follows(c, x, todo[c], <<>>)
      BY <3>2, <3>3, <3>4 DEF Follows, InHook, a
    <3>6. Wrote(<<>> \o SetToSeq(word.done), <<>>)
      BY <1>1, <2>3, <2>6, <3>1, WroteIs, ReadingIs
    <3> QED
      BY <1>7, <3>5, <3>6 DEF Consumes, x
  <2> QED
    BY <2>5, <2>6
<1>14. CASE /\ AtSiteHigh(c, Place(c), b, f) /\ Expects(c, r, <<>>, Highs[SitePart(b)])
            /\ r.savedLow32 = f[2][2]
  <2>1. Place(c) = Cons(AddressHigh(c, a, done), k)
    BY <1>11, <1>14 DEF AtSiteHigh
  <2>2. FuncSite(part, Wide(word.data, r.savedLow32))
    <3>1. ~In(part)
      BY <1>8, <1>9, <1>14 DEF Expects
    <3> QED
      BY <1>6, <3>1 DEF FuncCallSite
  <2> HIDE DEF part, k, done, l, a
  <2>3. Wide(word.data, a[2]) = a /\ word.done = LinesOf(c, done) /\ todo[c] = k
    BY <1>2, <1>3, <1>11, <2>1, AddressInHand
  <2> QED
    BY <1>12, <1>14, <2>2, <2>3 DEF a
<1> QED
  BY <1>13, <1>14

\* A record begins.
LEMMA RecordStep ==
  ASSUME NEW c, Reading(c), NEW p, InRecord(c, r, Place(c), p)
  PROVE  Consumes(c, p) \/ Again(c, p)
<1> DEFINE x == reader'[c]
<1>1. c \in Core /\ MaskOK(c) /\ None \notin CoreLines /\ r \in Reader /\ mode = r.state[1] /\ status = "OK"
  BY ReadingIs DEF Reading
<1>2. Place(c) \in Records(c) /\ Own(c, r) /\ Through(c, r, p) /\ mode = ownMode
  BY <1>1 DEF InRecord, Own
<1>3. CASE r.state[2] # "Start" /\ (IsFull(word) \/ (mode = "func" /\ IsByte(word)))
  <2>1. /\ word' = word /\ status' = "OK" /\ Wrote(p, <<>>)
        /\ x.state = <<r.state[1], "Start">> /\ ~x.pending /\ x.cntrMask = r.cntrMask
    BY <1>2, <1>3, LastWritten
  <2> HIDE DEF x
  <2>2. InRecord(c, x, Place(c), <<>>)
    BY <1>2, <2>1 DEF InRecord, Own, Through, Quiet
  <2>3. Follows(c, x, Place(c), <<>>)
    BY <2>2 DEF Follows
  <2> QED
    BY <2>1, <2>3 DEF Again, x
<1>4. r.state[2] = "Start" => p = <<>> /\ ~r.pending
  BY <1>2 DEF Through, Quiet
<1>5. ASSUME NEW a \in Addresses, traceType # "func", Place(c) = ManualRecord(c, a)
      PROVE  Consumes(c, p) \/ Again(c, p)
  <2>1. IsFull(word)
    <3> DEFINE k == perfEmitCntrs(c, a, 0)
               done == AddressDone(a)
    <3>1. a \in CodeAddress /\ OneLine(done)
      BY LibraryAssumption, AddressTypes
    <3>2. k \in Seq(Items(c))
      BY <1>1, <3>1, CntrsShape
    <3>3. Place(c) = EmitAddress(c, a, done) \o k
      BY <1>5 DEF ManualRecord, AddressDone
    <3> HIDE DEF k, done
    <3> QED
      BY <3>1, <3>2, <3>3, AddressInHand
  <2> QED
    BY <1>2, <1>3, <1>4, <1>5, <2>1, AddressStep
<1>6. ASSUME NEW f \in Functions, traceType = "func",
             Place(c) = EmitAddress(c, f[1], {}) \o HookSite(c, FALSE, f[1], f[2])
      PROVE  Consumes(c, p) \/ Again(c, p)
  <2>1. IsFull(word) /\ word.data \notin Markers
    <3> DEFINE a == f[1]
               s == HookSite(c, FALSE, f[1], f[2])
               none == {}
    <3>1. a \in CodeAddress /\ OneLine(none)
      BY HookTypes DEF OneLine
    <3>2. s \in Seq(Items(c))
      BY <1>1, RecordsAre
    <3>3. Place(c) = EmitAddress(c, a, none) \o s
      BY <1>6
    <3> HIDE DEF a, s, none
    <3> QED
      BY <3>1, <3>2, <3>3, AddressInHand
  <2>2. CASE r.state[2] # "Start"
    BY <1>3, <2>1, <2>2
  <2>3. CASE r.state[2] = "Start"
    <3>1. StartMarker \/ StartAddress \/ StartFunc
      BY <2>3, ActionOf DEF Reading
    <3>2. mode = "func" /\ ~IsByte(word)
      BY <1>2, <1>6, <2>1 DEF ownMode, IsFull, IsByte
    <3>3. StartFunc
      BY <2>1, <3>1, <3>2 DEF StartMarker, StartAddress, OwnMarker, OtherMarker, Markers
    <3>4. Becomes(At("ReturnStart")) /\ word' = word /\ status' = "OK" /\ line' = None
      BY <1>1, <3>2, <3>3 DEF StartFunc, LookAgain, Silent
    <3>5. x = At("ReturnStart")
      BY <3>4, ReadingIs
    <3>6. x.state = <<ownMode, "ReturnStart">> /\ x.cntrMask = r.cntrMask /\ x.pending = r.pending
      BY <1>1, <1>2, <3>5 DEF At, Reader
    <3> HIDE DEF x
    <3>7. Expects(c, x, <<>>, FnPart(FALSE)) /\ AtFn(c, Place(c), FALSE, f)
      BY <1>2, <1>4, <1>6, <2>3, <3>6 DEF Expects, FnPart, Own, Quiet, AtFn
    <3>8. Follows(c, x, Place(c), <<>>)
      BY <3>7 DEF Follows, InHook
    <3>9. Wrote(p, <<>>)
      BY <1>4, <2>3, <3>4 DEF Wrote
    <3> QED
      BY <3>4, <3>8, <3>9 DEF Again, x
  <2> QED
    BY <2>2, <2>3
<1>7. ASSUME NEW f \in Functions, traceType = "func",
             Place(c) = Cons(Word(c, 3, Call, {}), EmitAddress(c, f[1], {}) \o HookSite(c, TRUE, f[1], f[2]))
      PROVE  Consumes(c, p) \/ Again(c, p)
  <2> DEFINE s == EmitAddress(c, f[1], {}) \o HookSite(c, TRUE, f[1], f[2])
             w == Word(c, 3, Call, {})
  <2>1. word = w /\ todo[c] = s
    <3>1. s \in Seq(Items(c))
      BY <1>1, RecordsAre
    <3>2. w \in Items(c) /\ word \in Items(c) /\ todo[c] \in Seq(Items(c))
      BY <1>1, RecordsAre DEF Items, Reading
    <3>3. Cons(word, todo[c]) = Cons(w, s)
      BY <1>7 DEF Place
    <3> HIDE DEF s, w
    <3> QED
      BY <3>1, <3>2, <3>3, ConsEqual
  <2>2. word.offset = 3 /\ word.data = Call /\ word.done = {}
    BY <2>1 DEF Word
  <2>3. mode = "func" /\ IsByte(word) /\ word.data \notin Markers
    BY <1>2, <1>7, <2>2, LibraryAssumption DEF ownMode, IsByte
  <2>4. CASE r.state[2] # "Start"
    BY <1>3, <2>3, <2>4
  <2>5. CASE r.state[2] = "Start"
    <3>1. StartMarker \/ StartAddress \/ StartFunc
      BY <2>5, ActionOf DEF Reading
    <3>3. StartFunc
      BY <2>3, <3>1 DEF StartMarker, StartAddress, OwnMarker, OtherMarker, Markers
    <3>4. Becomes(At("CallStart")) /\ word' = None /\ status' = "OK" /\ line' = None
      BY <1>1, <2>2, <2>3, <3>3 DEF StartFunc, Consumed, Silent
    <3>5. x = At("CallStart")
      BY <3>4, ReadingIs
    <3>6. x.state = <<ownMode, "CallStart">> /\ x.cntrMask = r.cntrMask /\ x.pending = r.pending
      BY <1>1, <1>2, <3>5 DEF At, Reader
    <3>7. AtFn(c, todo[c], TRUE, f)
      BY <1>7, <2>1 DEF AtFn
    <3> HIDE DEF x
    <3>8. Expects(c, x, <<>>, FnPart(TRUE))
      BY <1>2, <1>4, <2>5, <3>6 DEF Expects, FnPart, Own, Quiet
    <3>9. Follows(c, x, todo[c], <<>>)
      BY <3>7, <3>8 DEF Follows, InHook
    <3>10. Wrote(p \o SetToSeq(word.done), <<>>)
      BY <1>1, <1>4, <2>2, <2>5, <3>4, WroteIs, ReadingIs
    <3> QED
      BY <3>4, <3>9, <3>10 DEF Consumes, x
  <2> QED
    BY <2>4, <2>5
<1>8. CASE traceType # "func"
  BY <1>2, <1>5, <1>8 DEF Records
<1>9. CASE traceType = "func"
  <2>1. PICK b \in BOOLEAN, f \in Functions : Place(c) = HookRecord(c, b, f[1], f[2])
    BY <1>2, <1>9 DEF Records
  <2>2. CASE b
    BY <1>1, <1>7, <1>9, <2>1, <2>2, RecordsAre
  <2>3. CASE ~b
    BY <1>1, <1>6, <1>9, <2>1, <2>3, RecordsAre
  <2> QED
    BY <2>2, <2>3
<1> QED
  BY <1>8, <1>9

\* A counter, with the line of the one before.
LEMMA CntrStep ==
  ASSUME CountersFit, NEW c, Reading(c), NEW p, InCntrs(c, r, Place(c), p)
  PROVE  Consumes(c, p)
<1> DEFINE x == reader'[c]
           t == Place(c)
           L(a, n, v) == [kind |-> "PerfCntr", pc |-> a, index |-> n, value |-> v]
<1>1. /\ c \in Core /\ MaskOK(c) /\ None \notin CoreLines /\ r \in Reader /\ mode = r.state[1]
      /\ status = "OK" /\ inSync[c] # "no"
  BY ReadingIs DEF Reading
<1>2. ASSUME NEW n \in 0..NumCntrs - 1, NEW a \in CodeAddress, AtCntr(t, n, a) PROVE FALSE
  <2> DEFINE i == [counter |-> n, pc |-> a]
  <2>1. i \in Items(c) /\ word \in Items(c) /\ todo[c] \in Seq(Items(c)) /\ <<>> \in Seq(Items(c))
    BY AddressTypes DEF Items, Reading
  <2>2. Cons(word, todo[c]) = Cons(i, <<>>)
    <3>1. Cons(i, <<>>) = <<i>>
      BY DEF Cons
    <3> QED
      BY <1>2, <3>1 DEF AtCntr, Place
  <2>3. word = i
    <3> HIDE DEF i
    <3> QED
      BY <2>1, <2>2, ConsEqual
  <2> QED
    BY <2>3, ItemKinds DEF Reading
<1>3. ASSUME NEW n \in 0..NumCntrs - 1, NEW a \in CodeAddress, NEW v \in Values
      PROVE  /\ v \in Wides /\ v = <<v[1], v[2]>> /\ v[1] \in Nat /\ v[2] \in Nat
             /\ L(a, n, v) \in Lines /\ [core |-> c, what |-> L(a, n, v)] \in CoreLines
  <2>1. v \in Wides /\ v = <<v[1], v[2]>> /\ v[1] \in Nat /\ v[2] \in Nat /\ n \in Nat /\ a \in Wides
    BY LibraryAssumption, AddressTypes DEF Wides
  <2>2. L(a, n, v) \in Lines
    BY <2>1 DEF Lines
  <2> DEFINE l == L(a, n, v)
  <2> HIDE DEF l
  <2>3. [core |-> c, what |-> l] \in CoreLines
    BY <1>1, <2>2 DEF CoreLines, l
  <2> QED
    BY <2>1, <2>2, <2>3 DEF l
<1>4. ASSUME NEW n \in 0..NumCntrs - 1, NEW a \in CodeAddress, NEW v \in Values,
             AtCntrLow(c, t, n, a, v), CntrTurn(c, r, p, n, a)
      PROVE  Consumes(c, p)
  <2> DEFINE q == IF r.pending THEN Advanced([r EXCEPT !.pending = FALSE]) ELSE r
             y == [q EXCEPT !.savedLow32 = v[2], !.pending = TRUE]
             done == [core |-> c, what |-> L(a, n, v)]
  <2>1. /\ v[1] # 0 => word = CntrLowWord(c, v) /\ AtCntrHigh(c, todo[c], n, a, v)
        /\ v[1] = 0 => word = CntrOnlyWord(c, a, n, v) /\ todo[c] = perfEmitCntrs(c, a, n + 1)
    BY <1>1, <1>4, CntrLowBegins, WordInHand
  <2>2. /\ IsFull(word) /\ word.data = v[2]
        /\ v[1] # 0 => word.done = {}
        /\ v[1] = 0 => word.done = {done}
    <3>1. CASE v[1] # 0
      BY <1>1, <2>1, <3>1, CntrWords DEF IsFull
    <3>2. CASE v[1] = 0
      BY <1>1, <2>1, <3>2, CntrWords DEF IsFull
    <3> QED
      BY <3>1, <3>2
  <2>3. CntrLow
    <3>1. CntrHigh \/ CntrLow \/ CntrByte
      BY <1>4, ActionOf DEF Reading, CntrTurn
    <3> QED
      BY <2>2, <3>1 DEF CntrHigh, CntrByte, IsFull, IsByte
  <2>4. /\ Own(c, r) /\ mode = ownMode /\ r.state[2] = "GetCntr" /\ r.lastAddress = a
        /\ \/ r.index = n /\ ~r.pending /\ p = <<>>
           \/ NextIndex(r.cntrMask, r.index + 1) = n /\ r.pending /\ p = <<Held(c, r)>>
    BY <1>1, <1>4 DEF CntrTurn, Quiet, Holds, Own
  <2>5. /\ q \in Reader /\ q.state = r.state /\ q.index = n /\ q.cntrMask = mask[c]
        /\ q.lastAddress = a
    <3> DEFINE z == [r EXCEPT !.pending = FALSE]
    <3>1. CASE ~r.pending
      BY <1>1, <2>4, <3>1 DEF Own
    <3>2. CASE r.pending
      <4>1. z \in Reader /\ z.state = r.state /\ z.index = r.index /\ z.cntrMask = r.cntrMask /\ z.lastAddress = a
        BY <1>1, <2>4 DEF Reader
      <4>2. n # NumCntrs /\ n \in Nat /\ NextIndex(z.cntrMask, z.index + 1) = n
        BY <2>4, <3>2, <4>1
      <4> HIDE DEF z
      <4>3. Advanced(z) = [z EXCEPT !.index = n]
        <5>1. z.state = z.state
          OBVIOUS
        <5> QED
          BY <4>1, <4>2 DEF Advanced, Reader
      <4>4. q = Advanced(z)
        BY <3>2 DEF z
      <4> QED
        BY <2>4, <4>1, <4>2, <4>3, <4>4 DEF Own, Reader
    <3> QED
      BY <3>1, <3>2
  <2>6. q.state # Start(mode)
    <3> HIDE DEF q
    <3> QED
      BY <2>4, <2>5 DEF Start
  <2>7. /\ word' = None /\ status' = "OK" /\ Becomes(y)
        /\ r.pending => line' = Held(c, r)
        /\ ~r.pending => line' = None
    <3> HIDE DEF q
    <3>1. Becomes([q EXCEPT !.savedLow32 = word.data, !.pending = TRUE]) /\ Consumed
      BY <2>3, <2>6 DEF CntrLow, q
    <3>2. /\ r.pending => line' = Held(c, r)
          /\ ~r.pending => line' = None
      BY <1>1, <2>3 DEF CntrLow, Emit, Silent, CntrLine, Held, Reading
    <3> QED
      BY <1>1, <2>2, <3>1, <3>2 DEF Consumed
  <2>8. x = y
    BY <2>7, ReadingIs
  <2>9. /\ x \in Reader /\ x.state = r.state /\ x.index = n /\ x.cntrMask = mask[c]
        /\ x.lastAddress = a /\ x.savedLow32 = v[2] /\ x.pending
    <3>1. v[2] \in Nat
      BY <1>3
    <3> HIDE DEF q, x
    <3> QED
      BY <2>5, <2>8, <3>1 DEF Reader
  <2>10. Own(c, x) /\ x.state[2] = "GetCntr"
    BY <2>4, <2>9 DEF Own
  <2> HIDE DEF q, y, x
  <2>11. Held(c, r) \in CoreLines /\ done \in CoreLines
    BY <1>3, ReadingIs
  <2>12. CASE v[1] # 0
    <3>1. InCntrs(c, x, todo[c], <<>>)
      BY <2>1, <2>9, <2>10, <2>12 DEF InCntrs
    <3>2. Follows(c, x, todo[c], <<>>)
      BY <3>1 DEF Follows
    <3> HIDE DEF done
    <3>3. Wrote(p \o SetToSeq(word.done), <<>>)
      BY <1>1, <2>2, <2>4, <2>7, <2>11, <2>12, WroteIs
    <3> QED
      BY <2>7, <3>2, <3>3 DEF Consumes, x
  <2>13. CASE v[1] = 0
    <3>1. Held(c, x) = done
      <4>1. Narrow(v[2]) = v
        BY <1>3, <2>13 DEF Narrow
      <4> QED
        BY <2>9, <4>1 DEF Held
    <3>2. Follows(c, x, todo[c], <<done>>)
      BY <1>1, <2>1, <2>9, <2>10, <2>13, <3>1, CntrFollows
    <3> HIDE DEF done
    <3>3. Wrote(p \o SetToSeq(word.done), <<done>>)
      BY <1>1, <2>2, <2>4, <2>7, <2>11, <2>13, WroteIs
    <3> QED
      BY <2>7, <3>2, <3>3 DEF Consumes, x
  <2> QED
    BY <2>12, <2>13
<1>5. ASSUME NEW n \in 0..NumCntrs - 1, NEW a \in CodeAddress, NEW v \in Values,
             AtCntrHigh(c, t, n, a, v), Own(c, r), r.state[2] = "GetCntr", r.lastAddress = a,
             r.index = n, r.pending, p = <<>>, r.savedLow32 = v[2]
      PROVE  Consumes(c, p)
  <2> DEFINE q == [r EXCEPT !.pending = FALSE]
             done == [core |-> c, what |-> L(a, n, v)]
  <2>1. word = CntrHighWord(c, a, n, v) /\ todo[c] = perfEmitCntrs(c, a, n + 1)
    BY <1>1, <1>5, CntrHighBegins, WordInHand
  <2>2. word.offset = 2 /\ word.data = v[1] % HighRange /\ word.done = {done}
    BY <1>1, <2>1, CntrWords
  <2>3. word.data = v[1]
    <3>1. v[1] \in Nat /\ v[1] < HighRange /\ HighRange \in Nat \ {0}
      BY <1>3, LibraryAssumption DEF CountersFit
    <3> QED
      BY <2>2, <3>1
  <2>4. CntrHigh
    <3>1. CntrHigh \/ CntrLow \/ CntrByte
      BY <1>5, ActionOf DEF Reading
    <3> QED
      BY <2>2, <3>1 DEF CntrLow, CntrByte, IsFull, IsByte
  <2>5. CntrLine(Wide(word.data, r.savedLow32)) = L(a, n, v)
    <3>1. Wide(word.data, r.savedLow32) = v
      BY <1>3, <1>5, <2>3 DEF Wide
    <3> QED
      BY <1>5, <3>1 DEF CntrLine
  <2>6. word' = None /\ status' = "OK" /\ Becomes(Advanced(q)) /\ line' = done
    BY <1>1, <1>5, <2>4, <2>5 DEF CntrHigh, Consumed, Emit, Reading
  <2>7. x = Advanced(q)
    BY <2>6, ReadingIs
  <2>8. /\ q \in Reader /\ Own(c, q) /\ mode = ownMode /\ q.state[2] = "GetCntr" /\ q.lastAddress = a
        /\ q.index = n /\ ~q.pending
    BY <1>1, <1>5 DEF Reader, Own
  <2> HIDE DEF q, x
  <2>9. Follows(c, x, todo[c], <<>>)
    BY <1>1, <2>1, <2>7, <2>8, CntrFollows
  <2>10. done \in CoreLines
    BY <1>3
  <2> HIDE DEF done
  <2>11. Wrote(p \o SetToSeq(word.done), <<>>)
    BY <1>1, <1>5, <2>2, <2>6, <2>10, WroteIs
  <2> QED
    BY <2>6, <2>9, <2>11 DEF Consumes, x
<1> QED
  BY <1>2, <1>4, <1>5 DEF InCntrs

\* A round of processITCPerf for a core in step.
LEMMA Round ==
  ASSUME CountersFit, NEW c, Reading(c), NEW p, Follows(c, r, Place(c), p)
  PROVE  Consumes(c, p) \/ Again(c, p)
<1> DEFINE t == Place(c)
<1>1. t # <<>>
  <2>1. word \in Items(c) /\ todo[c] \in Seq(Items(c))
    BY DEF Reading, Items
  <2> QED
    BY <2>1, ConsIs DEF Place
<1>2. CASE InAddress(c, r, t, p)
  <2>1. PICK a \in Addresses :
          AtAddressHigh(c, t, a) /\ Expects(c, r, p, "GetAddrH") /\ r.savedLow32 = a[2]
    BY <1>2 DEF InAddress
  <2>2. Own(c, r) /\ ~r.pending /\ p = <<>> /\ r.state[2] = "GetAddrH" /\ traceType # "func"
    BY <2>1 DEF Expects, Quiet, AtAddressHigh
  <2> QED
    BY <2>1, <2>2, AddressStep
<1>3. CASE InHook(c, r, t, p)
  <2>1. PICK b \in BOOLEAN, f \in Functions :
          \/ AtFn(c, t, b, f) /\ Expects(c, r, p, FnPart(b))
          \/ AtFnHigh(c, t, b, f) /\ Expects(c, r, p, Highs[FnPart(b)]) /\ r.savedLow32 = f[1][2]
          \/ AtSite(c, t, b, f) /\ Expects(c, r, p, SitePart(b)) /\ r.lastAddress = f[1]
          \/ /\ AtSiteHigh(c, t, b, f) /\ Expects(c, r, p, Highs[SitePart(b)])
             /\ r.lastAddress = f[1] /\ r.savedLow32 = f[2][2]
    BY <1>3 DEF InHook
  <2>2. p = <<>>
    BY <2>1 DEF Expects, Quiet
  <2> QED
    BY <2>1, <2>2, FnStep, SiteStep
<1> QED
  BY <1>1, <1>2, <1>3, MarkerStep, MaskStep, EventStep, RecordStep, CntrStep DEF Follows, Idle

-----------------------------------------------------------------------------
(* The invariant.                                                          *)

InHand(c) == word # None /\ word.core = c
DoneInHand(c) == IF InHand(c) THEN SetToSeq(word.done) ELSE <<>>
Rest(c) == IF InHand(c) THEN Place(c) ELSE todo[c]

\* A core in step, and one of which no marker was kept yet.
InStep(c) == \E p : expected[c] = p \o DoneInHand(c) /\ Follows(c, reader[c], Rest(c), p)
NotYet(c) ==
  /\ expected[c] = <<>> /\ reader[c].state = Sync /\ ~reader[c].pending
  /\ InHand(c) => word.data \notin Markers

CoreOK(c) ==
  /\ todo[c] \in Seq(Items(c)) /\ Shape(c, todo[c])
  /\ inSync[c] = "yes" => InStep(c)
  /\ inSync[c] = "no" => NotYet(c)
  /\ inSync[c] = "lost" => expected[c] = <<>>

\* The converter fails only where words were lost or it lost its way.
FailsLost == status = "ERR" => word # None /\ inSync[word.core] = "lost"

Traced == LibraryTypes /\ ReaderTypes /\ (\A c \in Core : CoreOK(c)) /\ FailsLost

\* Where records are and what is made of them depends on the kind of records and
\* the mask only.
LEMMA SameLibrary ==
  ASSUME UNCHANGED <<traceType, mask>>, NEW c \in Core, inSync'[c] = "no" => inSync[c] = "no"
  PROVE  /\ \A t : Shape(c, t) => Shape(c, t)'
         /\ markerCnt'[c] = markerCnt[c] =>
              \A q, t, p : Follows(c, q, t, p) => Follows(c, q, t, p)'
         /\ \A t \in Records(c) : t \in Records(c)'
         /\ \A t : AtMarker(c, t) => AtMarker(c, t)'
<1>1. traceType' = traceType /\ mask' = mask /\ ownMode' = ownMode /\ perfMarkerVal' = perfMarkerVal
  BY DEF ownMode, perfMarkerVal
<1>2. \A i : EventsFrom(c, i)' = EventsFrom(c, i)
  BY <1>1 DEF EventsFrom
<1>3. \A a, i : perfEmitCntrs(c, a, i)' = perfEmitCntrs(c, a, i)
  BY <1>1 DEF perfEmitCntrs
<1>4. MarkerWord(c)' = MarkerWord(c) /\ MaskWord(c)' = MaskWord(c)
  BY <1>1 DEF MarkerWord, MaskWord, Word
<1>5. \A b, f, s : HookSite(c, b, f, s)' = HookSite(c, b, f, s)
  BY <1>3 DEF HookSite, EmitAddress, FuncLine, Word
<1>6. \A b, f, s : HookRecord(c, b, f, s)' = HookRecord(c, b, f, s)
  BY <1>5 DEF HookRecord, EmitAddress, Word
<1>7. \A a : ManualRecord(c, a)' = ManualRecord(c, a)
  BY <1>3 DEF ManualRecord, EmitAddress, Word
<1>8. \A t : t \in Records(c) <=> t \in Records(c)'
  BY <1>1, <1>6, <1>7 DEF Records
<1>9. \A t : AtMarker(c, t) => AtMarker(c, t)'
  BY <1>2, <1>4, <1>8 DEF AtMarker
<1>10. \A t : AtMask(c, t) => AtMask(c, t)'
  BY <1>2, <1>4, <1>8 DEF AtMask
<1>11. \A t, n : AtEvent(c, t, n) => AtEvent(c, t, n)'
  BY <1>8 DEF AtEvent
<1>12. \A t, n : AtEventLow(c, t, n) => AtEventLow(c, t, n)'
  BY <1>2, <1>8 DEF AtEventLow, EventLow, EventHigh, Word
<1>13. \A t, n : AtEventHigh(c, t, n) => AtEventHigh(c, t, n)'
  BY <1>2, <1>8 DEF AtEventHigh, EventHigh, Word
<1>14. \A t, a : AtAddressHigh(c, t, a) => AtAddressHigh(c, t, a)'
  BY <1>1, <1>3 DEF AtAddressHigh, AddressHigh, AddressDone, Word
<1>15. \A t, b, f : /\ AtFn(c, t, b, f) => AtFn(c, t, b, f)'
                    /\ AtFnHigh(c, t, b, f) => AtFnHigh(c, t, b, f)'
                    /\ AtSite(c, t, b, f) => AtSite(c, t, b, f)'
  BY <1>1, <1>5 DEF AtFn, AtFnHigh, AtSite, EmitAddress, AddressHigh, Word
<1>16. \A t, b, f : AtSiteHigh(c, t, b, f) => AtSiteHigh(c, t, b, f)'
  BY <1>1, <1>3 DEF AtSiteHigh, AddressHigh, FuncLine, Word
<1>17. \A t, n, a, v : /\ AtCntrHigh(c, t, n, a, v) => AtCntrHigh(c, t, n, a, v)'
                       /\ AtCntrLow(c, t, n, a, v) => AtCntrLow(c, t, n, a, v)'
  BY <1>3 DEF AtCntrHigh, AtCntrLow, CntrHighWord, CntrLowWord, CntrOnlyWord, CntrDone, Word
<1>18. ASSUME NEW t, Shape(c, t) PROVE Shape(c, t)'
  BY <1>8, <1>9, <1>10, <1>11, <1>13, <1>14, <1>15, <1>16, <1>17, <1>18 DEF Shape
<1>19. ASSUME markerCnt'[c] = markerCnt[c], NEW q, NEW t, NEW p, Follows(c, q, t, p)
       PROVE  Follows(c, q, t, p)'
  <2>1. Own(c, q) => Own(c, q)'
    BY <1>1 DEF Own
  <2>2. \A part : Expects(c, q, p, part) => Expects(c, q, p, part)'
    BY <2>1 DEF Expects
  <2>3. \A n, a : CntrTurn(c, q, p, n, a) => CntrTurn(c, q, p, n, a)'
    BY <2>1 DEF CntrTurn
  <2>4. CASE Idle(c, q, t, p)
    <3>1. Idle(c, q, t, p)'
      BY <1>19, <2>1, <2>4 DEF Idle
    <3> QED
      BY <3>1 DEF Follows
  <2>5. CASE InMarker(c, q, t, p) \/ InMask(c, q, t, p) \/ InRecord(c, q, t, p)
    <3>1. (InMarker(c, q, t, p) \/ InMask(c, q, t, p) \/ InRecord(c, q, t, p))'
      BY <1>1, <1>8, <1>9, <1>10, <2>1, <2>5 DEF InMarker, InMask, InRecord
    <3> QED
      BY <3>1 DEF Follows
  <2>6. CASE InEvents(c, q, t, p) \/ InAddress(c, q, t, p)
    <3>0. \A n : IsFirst(c, n)' = IsFirst(c, n) /\ EventPart(c, n)' = EventPart(c, n)
      BY <1>1 DEF IsFirst, EventPart
    <3>1. (InEvents(c, q, t, p) \/ InAddress(c, q, t, p))'
      BY <1>11, <1>12, <1>13, <1>14, <2>2, <2>6, <3>0 DEF InEvents, InAddress
    <3> QED
      BY <3>1 DEF Follows
  <2>7. CASE InHook(c, q, t, p)
    <3>1. InHook(c, q, t, p)'
      BY <1>15, <1>16, <2>2, <2>7 DEF InHook
    <3> QED
      BY <3>1 DEF Follows
  <2>8. CASE InCntrs(c, q, t, p)
    <3>1. InCntrs(c, q, t, p)'
      BY <1>17, <2>1, <2>3, <2>8 DEF InCntrs
    <3> QED
      BY <3>1 DEF Follows
  <2> QED
    BY <1>19, <2>4, <2>5, <2>6, <2>7, <2>8 DEF Follows
<1> QED
  BY <1>8, <1>9, <1>18, <1>19

\* A core that has nothing to do with a step.
LEMMA Untouched ==
  ASSUME NEW c \in Core, CoreOK(c), UNCHANGED <<traceType, mask>>,
         markerCnt'[c] = markerCnt[c], todo'[c] = todo[c], inSync'[c] = inSync[c],
         expected'[c] = expected[c], reader'[c] = reader[c],
         word' = word \/ (~InHand(c) /\ ~InHand(c)')
  PROVE  CoreOK(c)'
<1>1. Shape(c, todo[c])'
  BY SameLibrary DEF CoreOK
<1>2. todo'[c] \in Seq(Items(c))
  BY DEF CoreOK
<1>3. (InHand(c)' <=> InHand(c)) /\ (InHand(c) => word' = word)
  BY DEF InHand
<1>4. DoneInHand(c)' = DoneInHand(c) /\ Rest(c)' = Rest(c)
  BY <1>3 DEF DoneInHand, Rest, Place
<1>5. ASSUME inSync[c] = "yes" PROVE InStep(c)'
  <2>1. PICK p : expected[c] = p \o DoneInHand(c) /\ Follows(c, reader[c], Rest(c), p)
    BY <1>5 DEF CoreOK, InStep
  <2>2. Follows(c, reader[c], Rest(c), p)'
    BY <1>4, <2>1, SameLibrary
  <2> QED
    BY <1>4, <2>1, <2>2 DEF InStep
<1>6. ASSUME inSync[c] = "no" PROVE NotYet(c)'
  BY <1>3, <1>6 DEF CoreOK, NotYet
<1> QED
  BY <1>1, <1>2, <1>5, <1>6 DEF CoreOK, Items, WordsOf

\* A core that is in step and has no word in hand.
LEMMA InStepIs ==
  ASSUME NEW c \in Core, CoreOK(c), inSync[c] = "yes", ~InHand(c)
  PROVE  Follows(c, reader[c], todo[c], expected[c])
<1>1. PICK p : expected[c] = p \o <<>> /\ Follows(c, reader[c], todo[c], p)
  BY DEF CoreOK, InStep, DoneInHand, Rest
<1>2. p = <<>> \/ p = <<Held(c, reader[c])>>
  BY <1>1, FollowsHeld DEF Holds
<1>3. p \o <<>> = p
  <2>1. \A h : <<h>> \o <<>> = <<h>>
    OBVIOUS
  <2> QED
    BY <1>2, <2>1
<1> QED
  BY <1>1, <1>3

\* A core begins a record, with a marker if it is due.
LEMMA NewRecord ==
  ASSUME LibraryTypes, ReaderTypes, NEW c \in Core, CoreOK(c), NEW b \in Records(c),
         todo[c] = <<>>, todo'[c] = MarkerIfDue(c) \o b, word = None, word' = None,
         UNCHANGED <<traceType, mask, reader, inSync, expected>>
  PROVE  CoreOK(c)'
<1> DEFINE e == EventsFrom(c, 3)
           S == Items(c)
<1>0. PICK u : u = MarkerIfDue(c) \o b
  OBVIOUS
<1>1. MaskOK(c)
  BY DEF LibraryTypes
<1>2. b \in Seq(S)
  BY <1>1, RecordsAre
<1>3. markerCnt[c] = 1 => AtMarker(c, u)
  <2>1. e \in Seq(S)
    <3>1. 3 \in Nat /\ <<0, 0>> \in Wides
      BY DEF Wides
    <3> QED
      BY <1>1, <3>1, LoopsAre
  <2>2. MarkerWord(c) \in S /\ MaskWord(c) \in S
    <3>1. perfMarkerVal \in Nat /\ mask[c] \in Nat
      BY <1>1, PerfAssumption DEF perfMarkerVal, MaskOK, Unmarked
    <3>2. [kind |-> "PerfCntrMask", mask |-> mask[c]] \in Lines
      BY <3>1 DEF Lines
    <3> QED
      BY <3>1, <3>2, WordIs, WordLine DEF MarkerWord, MaskWord, Items
  <2> DEFINE x == MarkerWord(c)
             y == MaskWord(c)
             m == <<x, y>>
  <2>3. perfEmitMarker(c) = m \o e
    BY DEF perfEmitMarker, MarkerWord
  <2>4. (m \o e) \o b = Cons(x, Cons(y, e \o b))
    <3> HIDE DEF x, y, e, S
    <3>1. m \in Seq(S)
      BY <2>2 DEF x, y
    <3>2. e \o b \in Seq(S)
      BY <1>2, <2>1, ConcatProperties
    <3>0. x \in S /\ y \in S
      BY <2>2 DEF x, y
    <3>3. m \o (e \o b) = Cons(x, Cons(y, e \o b))
      <4> DEFINE z == e \o b
      <4>1. z \in Seq(S)
        BY <3>2
      <4> HIDE DEF z
      <4>2. <<x, y>> \o z = Cons(x, Cons(y, z))
        BY <3>0, <4>1, PairIs
      <4> QED
        BY <4>2 DEF z
    <3> HIDE DEF m
    <3>4. (m \o e) \o b = m \o (e \o b)
      BY <1>2, <2>1, <3>1, ConcatAssociative
    <3> QED
      BY <3>3, <3>4
  <2> QED
    BY <1>0, <2>3, <2>4 DEF AtMarker, MarkerIfDue
<1>4. markerCnt[c] # 1 => u = b
  <2>1. <<>> \o b = b
    <3> HIDE DEF S
    <3> QED
      BY <1>2, ConcatEmptySeq
  <2> QED
    BY <1>0, <2>1 DEF MarkerIfDue
<1> HIDE DEF S
<1>5. todo'[c] = u
  BY <1>0
<1>6. Shape(c, u) /\ u \in Seq(S)
  <2>1. CASE markerCnt[c] = 1
    <3>1. PICK s : Begins(c, u, MarkerWord(c), s)
      BY <1>1, <1>3, <2>1, MarkerBegins
    <3>2. MarkerWord(c) \in S /\ s \in Seq(S) /\ u = Cons(MarkerWord(c), s)
      BY <3>1 DEF Begins, Items, S
    <3>3. u \in Seq(S)
      BY <3>2, ConsIs
    <3> QED
      BY <1>3, <2>1, <3>3 DEF Shape
  <2>2. CASE markerCnt[c] # 1
    BY <1>2, <1>4, <2>2 DEF Shape
  <2> QED
    BY <2>1, <2>2
<1>7. Shape(c, todo[c])'
  BY <1>5, <1>6, SameLibrary
<1>8. ~InHand(c) /\ ~InHand(c)'
  BY DEF InHand
<1>9. ASSUME inSync[c] = "yes" PROVE InStep(c)'
  <2>0. PICK q, p : q = reader[c] /\ p = expected[c]
    OBVIOUS
  <2>1. Follows(c, q, <<>>, p)
    BY <1>8, <1>9, <2>0, InStepIs
  <2>2. Idle(c, q, <<>>, p)
    BY <1>1, <1>9, <2>1, FollowsEmpty
  <2>3. Follows(c, q, u, p)'
    <3>1. CASE markerCnt[c] = 1
      <4>1. AtMarker(c, u)' /\ Through(c, q, p)
        BY <1>3, <2>2, <3>1, SameLibrary DEF Idle
      <4>2. InMarker(c, q, u, p)'
        BY <4>1 DEF InMarker
      <4> QED
        BY <4>2 DEF Follows
    <3>2. CASE markerCnt[c] # 1
      <4>1. u \in Records(c)' /\ Through(c, q, p) /\ Own(c, q)
        BY <1>4, <2>2, <3>2, SameLibrary DEF Idle
      <4>2. Own(c, q)'
        BY <4>1 DEF Own, ownMode
      <4>3. InRecord(c, q, u, p)'
        BY <4>1, <4>2 DEF InRecord
      <4> QED
        BY <4>3 DEF Follows
    <3> QED
      BY <3>1, <3>2
  <2>4. p \o <<>> = p
    <3>1. p = <<>> \/ p = <<Held(c, q)>>
      BY <2>1, FollowsHeld DEF Holds
    <3>2. \A h : <<h>> \o <<>> = <<h>>
      OBVIOUS
    <3> QED
      BY <3>1, <3>2
  <2>5. DoneInHand(c)' = <<>> /\ Rest(c)' = u /\ expected'[c] = p /\ reader'[c] = q
    BY <1>5, <1>8, <2>0 DEF DoneInHand, Rest
  <2> QED
    BY <2>3, <2>4, <2>5 DEF InStep
<1>10. inSync[c] = "no" => NotYet(c)'
  BY <1>8 DEF CoreOK, NotYet
<1> QED
  BY <1>5, <1>6, <1>7, <1>9, <1>10 DEF CoreOK, S, Items, WordsOf

\* The lines of a word, in a sequence.
LEMMA DoneTyped ==
  ASSUME NEW c, NEW w \in WordsOf(c)
  PROVE  SetToSeq(w.done) \in Seq(CoreLines)
<1>1. CASE w.done = {}
  <2>1. SetToSeq(w.done) = <<>>
    BY <1>1, SetToSeqIs
  <2> QED
    BY <2>1
<1>2. ASSUME NEW l \in CoreLines, w.done = {l} PROVE SetToSeq(w.done) \in Seq(CoreLines)
  <2>1. SetToSeq({l}) = <<l>>
    BY SetToSeqIs
  <2>2. <<l>> \in Seq(CoreLines)
    OBVIOUS
  <2> QED
    BY <1>2, <2>1, <2>2
<1> QED
  BY <1>1, <1>2 DEF WordsOf

\* What a core writes next.
Writable(c, v, w, s) ==
  /\ w \in WordsOf(c) /\ s \in Seq(Items(c)) /\ Shape(c, s)
  /\ Head(Written(c, v)) = w /\ Tail(Written(c, v)) = s
  /\ w.data \in Markers /\ inSync[c] = "no" => AtMarker(c, Cons(w, s)) /\ w = MarkerWord(c)
  /\ inSync[c] = "yes" /\ ~Misleads(Head(todo[c]), mask[c]) =>
       Follows(c, reader[c], Cons(w, s), expected[c])

\* There is always a next word, and the converter, if it is in step, awaits it.
LEMMA NextWord ==
  ASSUME CountersFit, LibraryTypes, NEW c \in Core, CoreOK(c), word = None, NEW v \in Values,
         Writing(c, v)
  PROVE  \E w, s : Writable(c, v, w, s) /\ todo' = [todo EXCEPT ![c] = s]
<1>0. PICK t : t = todo[c]
  OBVIOUS
<1> DEFINE u == RestOf(c, t, v)
<1>1. MaskOK(c) /\ Shape(c, t) /\ t # <<>> /\ ~InHand(c)
  BY <1>0 DEF LibraryTypes, CoreOK, Writing, InHand
<1>2. inSync[c] = "no" /\ IsCntr(Head(t)) => v[1] \notin Markers /\ v[2] \notin Markers
  BY <1>0 DEF Writing, Plain, Markers
<1>3. Writes(c, t, u)
  BY <1>1, <1>2, ShapeWrites
<1>4. PICK w \in WordsOf(c), s \in Seq(Items(c)) :
        /\ u = Cons(w, s) /\ Shape(c, s)
        /\ w.data \in Markers /\ inSync[c] = "no" => AtMarker(c, t) /\ w = MarkerWord(c)
  BY <1>3 DEF Writes
<1>5. Head(u) = w /\ Tail(u) = s
  <2>1. w \in Items(c)
    BY DEF Items
  <2> HIDE DEF u
  <2> QED
    BY <1>4, <2>1, ConsIs
<1>6. Written(c, v) = u
  BY <1>0 DEF Written, RestOf
<1>7. AtMarker(c, t) => u = t
  BY <1>1, MarkerBegins, BeginsWith
<1>8. inSync[c] = "yes" /\ ~Misleads(Head(t), mask[c]) => Follows(c, reader[c], u, expected[c])
  BY <1>0, <1>1, InStepIs, FollowsRest
<1>9. todo' = [todo EXCEPT ![c] = s]
  BY <1>5, <1>6 DEF Writing
<1> HIDE DEF u
<1>10. Writable(c, v, w, s)
  BY <1>0, <1>4, <1>5, <1>6, <1>7, <1>8 DEF Writable
<1> QED
  BY <1>9, <1>10

\* Types of what the library changes.
LEMMA WriteTypes ==
  ASSUME LibraryTypes, NEW c \in Core, NEW s, todo' = [todo EXCEPT ![c] = s],
         todo[c] # <<>>, UNCHANGED <<libraryVars, kept>>,
         inSync' \in [Core -> {"yes", "no", "lost"}], expected' \in [Core -> Seq(CoreLines)],
         \A d \in Core : ~kept => inSync'[d] # "yes"
  PROVE  LibraryTypes'
<1>1. todo' = [d \in Core |-> todo'[d]]
  BY DEF LibraryTypes
<1>2. \A d \in Core : hook[d] = "passed" => todo'[d] = <<>> /\ traceType = "func"
  BY DEF LibraryTypes
<1>3. \A d \in Core : MaskOK(d)'
  BY DEF LibraryTypes, MaskOK, libraryVars
<1> QED
  BY <1>1, <1>2, <1>3 DEF LibraryTypes, libraryVars

\* A word is written.
LEMMA WriteWordKeeps ==
  ASSUME CountersFit, Traced, NEW c \in Core, NEW v \in Values, WriteWord(c, v)
  PROVE  Traced' /\ line' = None
<1>1. LibraryTypes /\ ReaderTypes /\ CoreOK(c) /\ FailsLost /\ MaskOK(c) /\ None \notin CoreLines /\ None \notin Words
  BY LibraryAssumption DEF Traced, LibraryTypes
<1>2. word = None /\ line' = None /\ UNCHANGED <<reader, status>> /\ Writing(c, v)
  BY DEF WriteWord, TakeWord, Meanwhile, Silent
<1>3. status = "OK"
  BY <1>1, <1>2 DEF FailsLost, ReaderTypes
<1>4. PICK w, s : Writable(c, v, w, s) /\ todo' = [todo EXCEPT ![c] = s]
  BY <1>1, <1>2, NextWord
<1>5. w \in WordsOf(c) /\ w.core = c /\ w.perf /\ w \in Words /\ Head(Written(c, v)) = w
  BY <1>4 DEF Writable, WordsOf
<1>6. todo'[c] = s /\ todo[c] # <<>> /\ \A d \in Core : d # c => todo'[d] = todo[d]
  BY <1>1, <1>2, <1>4 DEF LibraryTypes, Writing
<1> DEFINE sync == SyncAfter(c, w)
           done == SetToSeq(w.done)
<1>7. /\ word' = IF kept THEN w ELSE None
      /\ inSync' = [inSync EXCEPT ![c] = sync]
      /\ expected' = [expected EXCEPT ![c] = IF sync = "yes" THEN @ \o done ELSE <<>>]
  BY <1>2, <1>5 DEF WriteWord, TakeWord, Meanwhile
<1>7a. /\ sync = "yes" => \/ inSync[c] = "yes" /\ ~Misleads(Head(todo[c]), mask[c])
                          \/ kept /\ inSync[c] = "no" /\ w.data = perfMarkerVal
       /\ sync = "no" => inSync[c] = "no" /\ (kept => w.data # perfMarkerVal)
       /\ sync \in {"yes", "no", "lost"} /\ (~kept => sync # "yes")
  BY <1>1 DEF SyncAfter, LibraryTypes
<1> HIDE DEF sync
<1>8. UNCHANGED <<traceType, mask, markerCnt, libraryVars, kept>>
  BY <1>2 DEF Writing, libraryVars
<1>9. done \in Seq(CoreLines)
  BY <1>5, DoneTyped
<1>10. sync \in {"yes", "no", "lost"} /\ inSync' \in [Core -> {"yes", "no", "lost"}] /\ inSync'[c] = sync
  BY <1>1, <1>7, <1>7a DEF LibraryTypes
<1> HIDE DEF done
<1>11. expected' \in [Core -> Seq(CoreLines)] /\ expected'[c] = IF sync = "yes" THEN expected[c] \o done ELSE <<>>
  <2>1. expected[c] \in Seq(CoreLines) /\ expected \in [Core -> Seq(CoreLines)]
    BY <1>1 DEF LibraryTypes
  <2>2. expected[c] \o done \in Seq(CoreLines)
    BY <1>9, <2>1, ConcatProperties
  <2> QED
    BY <1>7, <2>1, <2>2
<1>12. LibraryTypes'
  <2>1. \A d \in Core : ~kept => inSync'[d] # "yes"
    BY <1>1, <1>7, <1>7a DEF LibraryTypes
  <2> QED
    BY <1>1, <1>4, <1>6, <1>8, <1>10, <1>11, <2>1, WriteTypes
<1>13. ReaderTypes'
  BY <1>1, <1>2, <1>5, <1>7, <1>8 DEF ReaderTypes, WordsOf
<1>14. FailsLost'
  BY <1>2, <1>3 DEF FailsLost
<1>15. \A d \in Core : d # c => CoreOK(d)'
  <2>1. ASSUME NEW d \in Core, d # c PROVE CoreOK(d)'
    <3>1. ~InHand(d) /\ ~InHand(d)'
      BY <1>2, <1>5, <1>7, <2>1 DEF InHand
    <3>2. inSync'[d] = inSync[d] /\ expected'[d] = expected[d]
      BY <1>1, <1>7, <2>1 DEF LibraryTypes
    <3> QED
      BY <1>2, <1>6, <1>8, <2>1, <3>1, <3>2, Untouched DEF Traced
  <2> QED
    BY <2>1
<1>16. inSync'[c] = "no" => inSync[c] = "no"
  BY <1>10, <1>7a
<1>17. Shape(c, todo[c])' /\ todo'[c] \in Seq(Items(c))
  BY <1>4, <1>6, <1>8, <1>16, SameLibrary DEF Writable
<1>18. ASSUME sync = "yes" PROVE InStep(c)'
  <2>0. PICK t, q, p : t = Cons(w, s) /\ q = reader[c] /\ p = IF inSync[c] = "yes" THEN expected[c] ELSE <<>>
    OBVIOUS
  <2>1. kept
    BY <1>18, <1>7a
  <2>2. InHand(c)' /\ DoneInHand(c)' = done /\ Rest(c)' = t
    BY <1>1, <1>5, <1>6, <1>7, <2>0, <2>1 DEF InHand, DoneInHand, Rest, Place, done
  <2>3. expected'[c] = p \o done
    <3>1. inSync[c] # "yes" => inSync[c] = "no" /\ expected[c] = <<>>
      BY <1>1, <1>18, <1>7a DEF CoreOK, NotYet
    <3> QED
      BY <1>11, <1>18, <2>0, <3>1
  <2>4. Follows(c, q, t, p)'
    <3>1. CASE inSync[c] = "yes"
      <4>1. Follows(c, q, t, p)
        BY <1>4, <1>18, <1>7a, <2>0, <3>1 DEF Writable
      <4> QED
        BY <1>8, <1>16, <4>1, SameLibrary
    <3>2. CASE inSync[c] # "yes"
      <4>1. inSync[c] = "no" /\ w.data = perfMarkerVal /\ perfMarkerVal \in Markers /\ p = <<>>
        BY <1>18, <1>7a, <2>0, <3>2 DEF perfMarkerVal, Markers
      <4>2. AtMarker(c, t)
        BY <1>4, <2>0, <4>1 DEF Writable
      <4>3. AtMarker(c, t)'
        BY <1>8, <1>16, <4>2, SameLibrary
      <4>4. q.state = Sync /\ Quiet(q, p)
        BY <1>1, <2>0, <4>1 DEF CoreOK, NotYet, Quiet
      <4>5. InMarker(c, q, t, p)'
        BY <4>3, <4>4 DEF InMarker
      <4> QED
        BY <4>5 DEF Follows
    <3> QED
      BY <3>1, <3>2
  <2> QED
    BY <1>2, <2>0, <2>2, <2>3, <2>4 DEF InStep
<1>19. ASSUME sync = "no" PROVE NotYet(c)'
  <2>1. inSync[c] = "no" /\ (kept => w.data # perfMarkerVal)
    BY <1>19, <1>7a
  <2>2. kept => w.data \notin Markers
    <3>1. ASSUME w.data \in Markers PROVE w.data = perfMarkerVal
      <4>1. w = MarkerWord(c)
        BY <1>4, <2>1, <3>1 DEF Writable
      <4> QED
        BY <4>1 DEF MarkerWord, Word
    <3> QED
      BY <2>1, <3>1
  <2>3. NotYet(c)
    BY <1>1, <2>1 DEF CoreOK
  <2>4. InHand(c)' => word'.data \notin Markers
    BY <1>7, <2>2 DEF InHand
  <2>5. expected'[c] = <<>>
    BY <1>11, <1>19
  <2> QED
    BY <1>2, <2>3, <2>4, <2>5 DEF NotYet
<1>20. sync = "lost" => expected'[c] = <<>>
  BY <1>11
<1>21. CoreOK(c)'
  BY <1>10, <1>17, <1>18, <1>19, <1>20 DEF CoreOK, Items, WordsOf
<1> QED
  BY <1>2, <1>12, <1>13, <1>14, <1>15, <1>21 DEF Traced

\* A word is lost.
LEMMA LoseWordKeeps ==
  ASSUME CountersFit, Traced, NEW c \in Core, NEW v \in Values, LoseWord(c, v)
  PROVE  Traced' /\ line' = None
<1>1. LibraryTypes /\ ReaderTypes /\ CoreOK(c) /\ FailsLost
  BY DEF Traced
<1>2. /\ word = None /\ word' = None /\ line' = None /\ UNCHANGED <<reader, status>> /\ Writing(c, v)
      /\ inSync' = [inSync EXCEPT ![c] = "lost"] /\ expected' = [expected EXCEPT ![c] = <<>>] /\ kept
  BY DEF LoseWord, Meanwhile
<1>3. PICK w, s : Writable(c, v, w, s) /\ todo' = [todo EXCEPT ![c] = s]
  BY <1>1, <1>2, NextWord
<1>4. todo'[c] = s /\ todo[c] # <<>> /\ \A d \in Core : d # c => todo'[d] = todo[d]
  BY <1>1, <1>2, <1>3 DEF LibraryTypes, Writing
<1>5. UNCHANGED <<traceType, mask, markerCnt, libraryVars, kept>>
  BY <1>2 DEF Writing, libraryVars
<1>6. /\ inSync' \in [Core -> {"yes", "no", "lost"}] /\ inSync'[c] = "lost"
      /\ expected' \in [Core -> Seq(CoreLines)] /\ expected'[c] = <<>>
  BY <1>1, <1>2 DEF LibraryTypes
<1>7. LibraryTypes'
  BY <1>1, <1>2, <1>3, <1>4, <1>5, <1>6, WriteTypes
<1>8. ReaderTypes' /\ FailsLost'
  BY <1>1, <1>2 DEF ReaderTypes, FailsLost
<1>9. \A d \in Core : d # c => CoreOK(d)'
  <2>1. ASSUME NEW d \in Core, d # c PROVE CoreOK(d)'
    <3>1. inSync'[d] = inSync[d] /\ expected'[d] = expected[d] /\ word' = word /\ reader'[d] = reader[d]
      BY <1>1, <1>2, <2>1 DEF LibraryTypes
    <3> QED
      BY <1>4, <1>5, <2>1, <3>1, Untouched DEF Traced
  <2> QED
    BY <2>1
<1>10. Shape(c, todo[c])' /\ todo'[c] \in Seq(Items(c))
  BY <1>3, <1>4, <1>5, <1>6, SameLibrary DEF Writable
<1>11. CoreOK(c)'
  BY <1>6, <1>10 DEF CoreOK, Items, WordsOf
<1> QED
  BY <1>2, <1>7, <1>8, <1>9, <1>11 DEF Traced

-----------------------------------------------------------------------------
(* The other steps of the library.                                         *)

\* The beginning.
LEMMA TracedInit ==
  ASSUME Init
  PROVE  Traced
<1>1. LibraryTypes
  <2>1. \A c \in Core : MaskOK(c)
    BY LibraryAssumption DEF Init, MaskOK
  <2>2. reload \in [Core -> Nat] /\ expected \in [Core -> Seq(CoreLines)]
    BY LibraryAssumption DEF Init
  <2> QED
    BY <2>1, <2>2 DEF LibraryTypes, Init
<1>2. ReaderTypes
  <2>1. NewReader \in Reader
    BY DEF NewReader, Reader, Sync, Parts, Wides
  <2> QED
    BY <2>1 DEF ReaderTypes, Init, ReaderInit
<1>3. ASSUME NEW c \in Core PROVE CoreOK(c)
  <2>1. todo[c] = <<>> /\ inSync[c] = "no" /\ expected[c] = <<>> /\ reader[c] = NewReader /\ ~InHand(c)
    BY DEF Init, ReaderInit, InHand
  <2>2. Shape(c, todo[c]) /\ todo[c] \in Seq(Items(c))
    BY <2>1 DEF Shape
  <2> QED
    BY <2>1, <2>2 DEF CoreOK, NotYet, NewReader
<1>4. FailsLost
  BY DEF FailsLost, Init, ReaderInit
<1> QED
  BY <1>1, <1>2, <1>3, <1>4 DEF Traced

\* No word is written, and no record begins.
LEMMA NothingWritten ==
  ASSUME Traced, word = None, word' = None, UNCHANGED <<reader, status>>,
         UNCHANGED <<traceType, mask, markerCnt, reload, todo, inSync, expected>>,
         enabled' \in BOOLEAN, kept' \in BOOLEAN, kept => kept',
         hook' \in [Core -> {"out", "passed", "in"}],
         \A c \in Core : hook'[c] = "passed" => todo[c] = <<>> /\ traceType = "func"
  PROVE  Traced'
<1>1. LibraryTypes'
  <2>1. \A c \in Core : MaskOK(c)'
    BY DEF Traced, LibraryTypes, MaskOK
  <2>2. \A c \in Core : ~kept' => inSync'[c] # "yes"
    BY DEF Traced, LibraryTypes
  <2> QED
    BY <2>1, <2>2 DEF Traced, LibraryTypes
<1>2. ReaderTypes' /\ FailsLost'
  BY DEF Traced, ReaderTypes, FailsLost
<1>3. \A c \in Core : CoreOK(c)'
  BY Untouched DEF Traced
<1> QED
  BY <1>1, <1>2, <1>3 DEF Traced

\* A core begins a record.
LEMMA RecordKeeps ==
  ASSUME Traced, NEW c \in Core, NEW b \in Records(c), todo[c] = <<>>,
         todo' = [todo EXCEPT ![c] = MarkerIfDue(c) \o b], CountRecord(c),
         word = None, word' = None, UNCHANGED <<reader, status>>,
         UNCHANGED <<traceType, enabled, mask, reload, bufferVars>>,
         hook' \in [Core -> {"out", "passed", "in"}],
         \A d \in Core : hook'[d] = "passed" => hook[d] = "passed" /\ d # c
  PROVE  Traced'
<1>1. LibraryTypes /\ ReaderTypes /\ CoreOK(c) /\ UNCHANGED <<kept, inSync, expected>>
  BY DEF Traced, bufferVars
<1> DEFINE m == CASE markerCnt[c] > 1 -> markerCnt[c] - 1 [] markerCnt[c] = 1 -> reload[c]
                  [] OTHER -> markerCnt[c]
           u == MarkerIfDue(c) \o b
<1>2. m \in Nat /\ markerCnt' = [markerCnt EXCEPT ![c] = m]
  <2>1. markerCnt[c] \in Nat /\ reload[c] \in Nat
    BY <1>1 DEF LibraryTypes
  <2>2. m \in Nat
    BY <2>1
  <2> QED
    BY <2>2 DEF CountRecord
<1> HIDE DEF m, u
<1>3. markerCnt' \in [Core -> Nat] /\ \A d \in Core : d # c => markerCnt'[d] = markerCnt[d]
  BY <1>1, <1>2 DEF LibraryTypes
<1>4. /\ todo' = [d \in Core |-> todo'[d]] /\ todo'[c] = u
      /\ \A d \in Core : d # c => todo'[d] = todo[d]
  <2>1. todo = [d \in Core |-> todo[d]] /\ todo' = [todo EXCEPT ![c] = u]
    BY <1>1 DEF LibraryTypes, u
  <2> QED
    BY <2>1
<1>5. LibraryTypes'
  <2>1. \A d \in Core : MaskOK(d)'
    BY <1>1 DEF LibraryTypes, MaskOK
  <2>2. \A d \in Core : hook'[d] = "passed" => todo'[d] = <<>> /\ traceType' = "func"
    BY <1>1, <1>4 DEF LibraryTypes
  <2> QED
    BY <1>1, <1>3, <1>4, <2>1, <2>2 DEF LibraryTypes
<1>6. ReaderTypes' /\ FailsLost'
  BY <1>1 DEF Traced, ReaderTypes, FailsLost
<1>7. CoreOK(c)'
  BY <1>1, <1>4, NewRecord DEF u
<1>8. \A d \in Core : d # c => CoreOK(d)'
  BY <1>1, <1>3, <1>4, Untouched DEF Traced
<1> QED
  BY <1>5, <1>6, <1>7, <1>8 DEF Traced

\* A record of the timer or of a manual call.
LEMMA ManualKeeps ==
  ASSUME Traced, NEW c \in Core, NEW a \in Addresses, perfWriteCntrs(c, a)
  PROVE  Traced' /\ line' = None
<1>1. /\ traceType = "manual" /\ todo[c] = <<>> /\ hook[c] = "out" /\ CountRecord(c)
      /\ todo' = [todo EXCEPT ![c] = MarkerIfDue(c) \o ManualRecord(c, a)]
      /\ word = None /\ word' = None /\ line' = None /\ UNCHANGED <<reader, status>>
      /\ UNCHANGED <<traceType, enabled, mask, reload, bufferVars>> /\ hook' = hook
  BY DEF perfWriteCntrs, Free, Meanwhile
<1>2. ManualRecord(c, a) \in Records(c)
  BY <1>1 DEF Records
<1>3. hook' \in [Core -> {"out", "passed", "in"}]
  BY <1>1 DEF Traced, LibraryTypes
<1>4. \A d \in Core : hook'[d] = "passed" => hook[d] = "passed" /\ d # c
  BY <1>1
<1> QED
  BY <1>1, <1>2, <1>3, <1>4, RecordKeeps

\* A function hook that passed the test of infunc, while recording is on or not.
LEMMA HookKeeps ==
  ASSUME Traced, NEW c \in Core, NEW b \in BOOLEAN, NEW f \in Functions, HookWrites(c, b, f[1], f[2])
  PROVE  Traced' /\ line' = None
<1>1. /\ hook[c] = "passed" /\ hook' = [hook EXCEPT ![c] = IF enabled THEN "in" ELSE "out"]
      /\ word = None /\ word' = None /\ line' = None /\ UNCHANGED <<reader, status>>
      /\ UNCHANGED <<traceType, enabled, mask, reload, bufferVars>>
  BY DEF HookWrites, Meanwhile
<1>2. todo[c] = <<>> /\ traceType = "func" /\ hook \in [Core -> {"out", "passed", "in"}]
  BY <1>1 DEF Traced, LibraryTypes
<1>3. hook' \in [Core -> {"out", "passed", "in"}]
  BY <1>1, <1>2
<1>4. \A d \in Core : hook'[d] = "passed" => hook[d] = "passed" /\ d # c
  BY <1>1, <1>2
<1>5. CASE enabled
  <2>1. HookRecord(c, b, f[1], f[2]) \in Records(c)
    BY <1>2 DEF Records
  <2>2. todo' = [todo EXCEPT ![c] = MarkerIfDue(c) \o HookRecord(c, b, f[1], f[2])] /\ CountRecord(c)
    BY <1>5 DEF HookWrites
  <2>3. Traced'
    BY <1>1, <1>2, <1>3, <1>4, <2>1, <2>2, RecordKeeps
  <2> QED
    BY <1>1, <2>3
<1>6. CASE ~enabled
  <2>1. UNCHANGED <<todo, markerCnt>>
    BY <1>6 DEF HookWrites
  <2>2. \A d \in Core : hook'[d] = "passed" => todo[d] = <<>> /\ traceType = "func"
    BY <1>4 DEF Traced, LibraryTypes
  <2>3. enabled' \in BOOLEAN /\ kept' \in BOOLEAN /\ kept' = kept /\ UNCHANGED <<inSync, expected>>
    BY <1>1 DEF Traced, LibraryTypes, bufferVars
  <2>4. Traced'
    BY <1>1, <1>3, <2>1, <2>2, <2>3, NothingWritten
  <2> QED
    BY <1>1, <2>4
<1> QED
  BY <1>5, <1>6

\* All cores are set up again: what was read so far is not understood less.
LEMMA InitKeeps ==
  ASSUME Traced, NEW type \in {"manual", "func"}, NEW m \in Masks, NEW cnt \in MarkerCnts,
         perfTraceInit(type, m, cnt)
  PROVE  Traced' /\ line' = None
<1>1. /\ \A c \in Core : todo[c] = <<>> /\ hook[c] = "out"
      /\ traceType' = type /\ enabled' = FALSE /\ mask' = m /\ markerCnt' = [c \in Core |-> 1]
      /\ reload' = [c \in Core |-> cnt]
      /\ word = None /\ word' = None /\ line' = None /\ UNCHANGED <<reader, status>>
      /\ UNCHANGED <<todo, hook, kept, inSync, expected>>
  BY DEF perfTraceInit, Free, Meanwhile, bufferVars
<1>2. LibraryTypes'
  <2>1. \A c \in Core : MaskOK(c)'
    BY <1>1, LibraryAssumption DEF MaskOK
  <2>2. reload' \in [Core -> Nat] /\ markerCnt' \in [Core -> Nat]
    BY <1>1, LibraryAssumption
  <2> QED
    BY <1>1, <2>1, <2>2 DEF Traced, LibraryTypes
<1>3. ReaderTypes' /\ FailsLost'
  BY <1>1 DEF Traced, ReaderTypes, FailsLost
<1>4. ASSUME NEW c \in Core PROVE CoreOK(c)'
  <2>1. ~InHand(c) /\ ~InHand(c)' /\ CoreOK(c) /\ MaskOK(c)
    BY <1>1 DEF InHand, Traced, LibraryTypes
  <2>2. todo'[c] = <<>> /\ UNCHANGED <<reader, inSync, expected>> /\ markerCnt'[c] = 1
    BY <1>1
  <2>3. Shape(c, todo[c])'
    BY <2>2 DEF Shape
  <2>4. ASSUME inSync[c] = "yes" PROVE InStep(c)'
    <3>0. PICK q, p : q = reader[c] /\ p = expected[c]
      OBVIOUS
    <3>1. Follows(c, q, <<>>, p)
      BY <1>1, <2>1, <2>4, <3>0, InStepIs
    <3>2. Idle(c, q, <<>>, p)
      BY <2>1, <2>4, <3>1, FollowsEmpty
    <3>3. Idle(c, q, <<>>, p)'
      BY <2>2, <3>2 DEF Idle
    <3>4. p \o <<>> = p
      <4>1. p = <<>> \/ p = <<Held(c, q)>>
        BY <3>1, FollowsHeld DEF Holds
      <4>2. \A h : <<h>> \o <<>> = <<h>>
        OBVIOUS
      <4> QED
        BY <4>1, <4>2
    <3>5. DoneInHand(c)' = <<>> /\ Rest(c)' = <<>> /\ expected'[c] = p /\ reader'[c] = q
      BY <2>1, <2>2, <3>0 DEF DoneInHand, Rest
    <3> QED
      BY <3>3, <3>4, <3>5 DEF InStep, Follows
  <2>5. inSync[c] = "no" => NotYet(c)'
    BY <2>1, <2>2 DEF CoreOK, NotYet
  <2> QED
    BY <2>1, <2>2, <2>3, <2>4, <2>5 DEF CoreOK
<1> QED
  BY <1>1, <1>2, <1>3, <1>4 DEF Traced

\* What a core does keeps the converter where it was.
LEMMA LibraryKeeps ==
  ASSUME CountersFit, Traced, NEW c \in Core, Library(c)
  PROVE  Traced' /\ line' = None
<1>1. ASSUME NEW a \in Addresses, perfWriteCntrs(c, a) PROVE Traced' /\ line' = None
  BY <1>1, ManualKeeps
<1>2. ASSUME NEW b \in BOOLEAN, NEW f \in Functions, HookWrites(c, b, f[1], f[2])
      PROVE  Traced' /\ line' = None
  BY <1>2, HookKeeps
<1>3. ASSUME NEW v \in Values, WriteWord(c, v) \/ LoseWord(c, v) PROVE Traced' /\ line' = None
  BY <1>3, WriteWordKeeps, LoseWordKeeps
<1>4. ASSUME HookPasses(c) \/ HookReturns(c) \/ WriteOther(c) PROVE Traced' /\ line' = None
  <2>1. /\ word = None /\ word' = None /\ line' = None /\ UNCHANGED <<reader, status>>
        /\ UNCHANGED <<traceType, enabled, mask, markerCnt, reload, todo, kept, inSync, expected>>
    <3>1. CASE WriteOther(c)
      <4>1. PICK w : w = [Word(c, 0, markerValue, {}) EXCEPT !.perf = FALSE] /\ TakeWord(w)
        BY <3>1 DEF WriteOther
      <4>2. ~w.perf
        BY <4>1 DEF Word
      <4> QED
        BY <3>1, <4>1, <4>2 DEF WriteOther, TakeWord, Silent, libraryVars
    <3>2. CASE HookPasses(c) \/ HookReturns(c)
      BY <3>2 DEF HookPasses, HookReturns, Meanwhile, bufferVars
    <3> QED
      BY <1>4, <3>1, <3>2
  <2>2. hook' = hook \/ (hook' = [hook EXCEPT ![c] = "passed"] /\ todo[c] = <<>> /\ traceType = "func")
                     \/ hook' = [hook EXCEPT ![c] = "out"]
    BY <1>4 DEF HookPasses, HookReturns, WriteOther, Free, libraryVars
  <2>3. /\ hook \in [Core -> {"out", "passed", "in"}] /\ enabled \in BOOLEAN /\ kept \in BOOLEAN
        /\ \A d \in Core : hook[d] = "passed" => todo[d] = <<>> /\ traceType = "func"
    BY DEF Traced, LibraryTypes
  <2>4. hook' \in [Core -> {"out", "passed", "in"}]
    BY <2>2, <2>3
  <2>5. \A d \in Core : hook'[d] = "passed" => todo[d] = <<>> /\ traceType = "func"
    BY <2>2, <2>3
  <2>6. Traced'
    BY <2>1, <2>3, <2>4, <2>5, NothingWritten
  <2> QED
    BY <2>1, <2>6
<1> QED
  BY <1>1, <1>2, <1>3, <1>4 DEF Library

-----------------------------------------------------------------------------
(* The converter's steps, and the theorems.                                *)

\* What is left of the lines a core expects, when the converter is in step.
Left(a) == IF line' # None /\ a # <<>> THEN Tail(a) ELSE a
HeadIs(a) == line' # None => a # <<>> /\ line' = Head(a)

\* A line less.
LEMMA WroteLeft ==
  ASSUME NEW a, NEW b \in Seq(CoreLines), Wrote(a, b)
  PROVE  HeadIs(a) /\ Left(a) = b
<1>1. CASE line' = None /\ b = a
  BY <1>1 DEF HeadIs, Left
<1>2. CASE line' \in CoreLines /\ a = Cons(line', b)
  <2>1. PICK l \in CoreLines : line' = l /\ a = Cons(l, b)
    BY <1>2
  <2>2. a # <<>> /\ Head(a) = l /\ Tail(a) = b
    BY <2>1, ConsIs
  <2>3. line' # None
    BY <2>1, LibraryAssumption
  <2> QED
    BY <2>1, <2>2, <2>3 DEF HeadIs, Left
<1> QED
  BY <1>1, <1>2 DEF Wrote

\* The lines in hand are behind those of words before.
LEMMA WroteMore ==
  ASSUME NEW p, NEW b \in Seq(CoreLines), NEW d \in Seq(CoreLines), Wrote(p, b)
  PROVE  Wrote(p \o d, b \o d)
<1>1. CASE line' = None /\ b = p
  BY <1>1 DEF Wrote
<1>2. ASSUME NEW l \in CoreLines, line' = l, p = Cons(l, b) PROVE Wrote(p \o d, b \o d)
  <2>1. <<l>> \in Seq(CoreLines)
    OBVIOUS
  <2>2. (<<l>> \o b) \o d = <<l>> \o (b \o d)
    BY <2>1, ConcatAssociative
  <2>3. p \o d = Cons(l, b \o d)
    BY <1>2, <2>2 DEF Cons
  <2> QED
    BY <1>2, <2>3 DEF Wrote
<1> QED
  BY <1>1, <1>2 DEF Wrote

\* The converter works on a word of a core in step.
LEMMA ReadingKeeps ==
  ASSUME CountersFit, Traced, NEW c \in Core, Reading(c), UNCHANGED libraryVars,
         UNCHANGED <<todo, inSync>>, expected'[c] = Left(expected[c])
  PROVE  HeadIs(expected[c]) /\ CoreOK(c)' /\ status' = "OK"
<1>1. CoreOK(c) /\ InHand(c) /\ r = reader[c] /\ UNCHANGED <<traceType, mask, markerCnt>>
  BY ReadingIs DEF Traced, Reading, InHand, libraryVars
<1> DEFINE d == SetToSeq(word.done)
<1>2. PICK p : expected[c] = p \o d /\ Follows(c, r, Place(c), p)
  BY <1>1 DEF CoreOK, InStep, DoneInHand, Rest, Reading
<1>3. d \in Seq(CoreLines)
  BY DoneTyped DEF Reading
<1>4. reader'[c] \in Reader
  BY <1>1, ReaderStep DEF Reading, Traced
<1> HIDE DEF d
<1>5. Shape(c, todo[c])' /\ todo'[c] \in Seq(Items(c)) /\ inSync'[c] = "yes"
  BY <1>1, SameLibrary DEF CoreOK, Reading
<1>6. \A q, t, b : Follows(c, q, t, b) => Follows(c, q, t, b)'
  BY <1>1, SameLibrary
<1>7. \A b : \A t : Follows(c, reader'[c], t, b) => b \in Seq(CoreLines)
  <2>1. PICK q : q = reader'[c]
    OBVIOUS
  <2>2. \A b : \A t : Follows(c, q, t, b) => b = <<>> \/ b = <<Held(c, q)>>
    BY FollowsHeld DEF Holds
  <2>3. <<Held(c, q)>> \in Seq(CoreLines)
    BY <1>4, <2>1, HeldTyped
  <2>4. <<>> \in Seq(CoreLines)
    OBVIOUS
  <2>5. ASSUME NEW b, NEW t, Follows(c, q, t, b) PROVE b \in Seq(CoreLines)
    BY <2>2, <2>3, <2>4, <2>5
  <2> QED
    BY <2>1, <2>5
<1>8. CASE Consumes(c, p)
  <2>1. PICK b : Wrote(p \o d, b) /\ Follows(c, reader'[c], todo[c], b)
    BY <1>8 DEF Consumes, d
  <2>2. b \in Seq(CoreLines)
    BY <1>7, <2>1
  <2>3. HeadIs(expected[c]) /\ expected'[c] = b
    BY <1>2, <2>1, <2>2, WroteLeft
  <2>4. DoneInHand(c)' = <<>> /\ Rest(c)' = todo[c]
    BY <1>8 DEF Consumes, DoneInHand, Rest, InHand
  <2>5. b \o <<>> = b
    BY <2>2, ConcatEmptySeq
  <2>6. PICK q, t : q = reader'[c] /\ t = todo[c]
    OBVIOUS
  <2>7. Follows(c, q, t, b)'
    BY <1>6, <2>1, <2>6
  <2>8. InStep(c)'
    BY <2>3, <2>4, <2>5, <2>6, <2>7 DEF InStep
  <2> QED
    BY <1>5, <1>8, <2>3, <2>8 DEF CoreOK, Consumes, Items, WordsOf
<1>9. CASE Again(c, p)
  <2>1. PICK b : Wrote(p, b) /\ Follows(c, reader'[c], Place(c), b)
    BY <1>9 DEF Again
  <2>2. b \in Seq(CoreLines) /\ b \o d \in Seq(CoreLines)
    BY <1>3, <1>7, <2>1, ConcatProperties
  <2>3. HeadIs(expected[c]) /\ expected'[c] = b \o d
    BY <1>2, <1>3, <2>1, <2>2, WroteMore, WroteLeft
  <2>4. PICK q, t : q = reader'[c] /\ t = Place(c)
    OBVIOUS
  <2>5. DoneInHand(c)' = d /\ Rest(c)' = t
    BY <1>1, <1>9, <2>4 DEF Again, DoneInHand, Rest, InHand, Place, d
  <2>6. Follows(c, q, t, b)'
    BY <1>6, <2>1, <2>4
  <2>7. InStep(c)'
    BY <2>3, <2>4, <2>5, <2>6 DEF InStep
  <2> QED
    BY <1>5, <1>9, <2>3, <2>7 DEF CoreOK, Again, Items, WordsOf
<1> QED
  BY <1>2, <1>8, <1>9, Round DEF Reading

\* The converter works on a word of any core.
LEMMA ConverterKeeps ==
  ASSUME CountersFit, Traced, Converter
  PROVE  /\ Traced'
         /\ line' # None /\ inSync[word.core] # "lost" =>
              expected[word.core] # <<>> /\ line' = Head(expected[word.core])
<1>0. PICK c : c = word.core
  OBVIOUS
<1>1. /\ ProcessITCPerf /\ UNCHANGED <<libraryVars, traceType, mask, markerCnt, todo, kept, inSync>>
      /\ expected' = IF line' # None /\ expected[c] # <<>>
                     THEN [expected EXCEPT ![c] = Tail(@)] ELSE expected
  BY <1>0 DEF Converter, libraryVars
<1>2. LibraryTypes /\ ReaderTypes /\ CoreOK(c) /\ MaskOK(c) /\ c \in Core
  BY <1>0, <1>1, ReaderStep DEF Traced, LibraryTypes
<1>3. /\ word # None /\ status = "OK" /\ word \in WordsOf(c) /\ kept /\ InHand(c)
      /\ r.state[2] = "Sync" => SyncStep
  BY <1>0, <1>1, <1>2, ActionOf DEF ReaderTypes, InHand
<1>4. /\ reader' = [reader EXCEPT ![c] = reader'[c]] /\ reader'[c] \in Reader /\ r = reader[c]
      /\ status' \in {"OK", "ERR"} /\ word' \in {word, None}
      /\ status' # "OK" => word' = word /\ r.state[2] = "GetCntr"
  BY <1>0, <1>1, <1>2, ReaderStep DEF r
<1>5. expected \in [Core -> Seq(CoreLines)]
  BY <1>2 DEF LibraryTypes
<1>6. /\ expected'[c] = Left(expected[c]) /\ expected' \in [Core -> Seq(CoreLines)]
      /\ \A d \in Core : d # c => expected'[d] = expected[d]
  <2>1. PICK e : e = expected[c]
    OBVIOUS
  <2>2. e # <<>> => Tail(e) \in Seq(CoreLines)
    <3>1. e \in Seq(CoreLines)
      BY <1>2, <1>5, <2>1
    <3> QED
      BY <3>1
  <2> QED
    BY <1>1, <1>2, <1>5, <2>1, <2>2 DEF Left
<1>7. LibraryTypes'
  <2>1. \A d \in Core : MaskOK(d)'
    BY <1>1, <1>2 DEF LibraryTypes, MaskOK
  <2> QED
    BY <1>1, <1>2, <1>6, <2>1 DEF LibraryTypes, libraryVars
<1>8. ReaderTypes'
  <2>1. reader' \in [Core -> Reader]
    BY <1>2, <1>4 DEF ReaderTypes
  <2>2. word' = None \/ (word'.core \in Core /\ word' \in WordsOf(word'.core) /\ kept')
    BY <1>0, <1>1, <1>2, <1>3, <1>4
  <2> QED
    BY <1>4, <2>1, <2>2 DEF ReaderTypes, WordsOf
<1>9. ASSUME NEW d \in Core, d # c PROVE CoreOK(d)'
  <2>1. ~InHand(d) /\ ~InHand(d)' /\ reader'[d] = reader[d] /\ CoreOK(d)
    BY <1>0, <1>2, <1>4, <1>9 DEF InHand, Traced, ReaderTypes
  <2> QED
    BY <1>1, <1>6, <1>9, <2>1, Untouched
<1>10. CASE inSync[c] = "yes"
  <2>1. Reading(c)
    BY <1>0, <1>1, <1>2, <1>3, <1>10 DEF Reading, CoreOK
  <2>2. HeadIs(expected[c]) /\ CoreOK(c)' /\ status' = "OK"
    BY <1>1, <1>2, <1>6, <2>1, ReadingKeeps
  <2>3. FailsLost'
    BY <2>2 DEF FailsLost
  <2> QED
    BY <1>0, <1>2, <1>7, <1>8, <1>9, <2>2, <2>3 DEF Traced, HeadIs
<1>11. CASE inSync[c] = "no"
  <2>1. NotYet(c) /\ Shape(c, todo[c]) /\ todo[c] \in Seq(Items(c))
    BY <1>2, <1>11 DEF CoreOK
  <2>2. r.state = Sync /\ expected[c] = <<>> /\ word.data \notin Markers
    BY <1>3, <1>4, <2>1 DEF NotYet
  <2>3. SyncStep
    BY <1>3, <2>2 DEF Sync
  <2>4. UNCHANGED reader /\ word' = None /\ status' = status /\ line' = None
    BY <2>2, <2>3 DEF SyncStep, Markers, Consumed, Silent
  <2>5. expected'[c] = <<>>
    BY <1>1, <2>2
  <2>6. NotYet(c)'
    BY <2>1, <2>4, <2>5 DEF NotYet, InHand
  <2>7. Shape(c, todo[c])' /\ todo'[c] \in Seq(Items(c)) /\ inSync'[c] = "no"
    BY <1>1, <1>2, <1>11, <2>1, SameLibrary
  <2>8. CoreOK(c)' /\ FailsLost'
    BY <1>3, <2>4, <2>6, <2>7 DEF CoreOK, FailsLost, Items, WordsOf
  <2> QED
    BY <1>0, <1>7, <1>8, <1>9, <2>4, <2>8 DEF Traced
<1>12. CASE inSync[c] = "lost"
  <2>1. expected[c] = <<>> /\ Shape(c, todo[c]) /\ todo[c] \in Seq(Items(c))
    BY <1>2, <1>12 DEF CoreOK
  <2>2. expected'[c] = <<>>
    BY <1>1, <2>1
  <2>3. Shape(c, todo[c])' /\ todo'[c] \in Seq(Items(c)) /\ inSync'[c] = "lost"
    BY <1>1, <1>2, <1>12, <2>1, SameLibrary
  <2>4. CoreOK(c)'
    BY <2>2, <2>3 DEF CoreOK, Items, WordsOf
  <2>5. FailsLost'
    BY <1>0, <1>3, <1>4, <2>3 DEF FailsLost
  <2> QED
    BY <1>0, <1>7, <1>8, <1>9, <1>12, <2>4, <2>5 DEF Traced
<1> QED
  BY <1>2, <1>10, <1>11, <1>12 DEF LibraryTypes

\* Every step keeps the invariant, and a line that it writes is the next one that
\* its core expects.
LEMMA TracedNext ==
  ASSUME CountersFit, Traced, [Next]_vars
  PROVE  /\ Traced'
         /\ (line' # None /\ inSync[word.core] # "lost" =>
               expected[word.core] # <<>> /\ line' = Head(expected[word.core])) \/ UNCHANGED vars
<1>1. ASSUME NEW c \in Core, Library(c) PROVE Traced' /\ line' = None
  BY <1>1, LibraryKeeps
<1>2. ASSUME perfTraceOn \/ perfTraceOff \/ BufferStarts PROVE Traced' /\ line' = None
  <2>1. /\ word = None /\ word' = None /\ line' = None /\ UNCHANGED <<reader, status, hook>>
        /\ UNCHANGED <<traceType, mask, markerCnt, reload, todo, inSync, expected>>
        /\ (enabled' = enabled \/ enabled' \in BOOLEAN) /\ (kept' = kept \/ kept' = TRUE)
    BY <1>2 DEF perfTraceOn, perfTraceOff, BufferStarts, Meanwhile, bufferVars, libraryVars
  <2>2. /\ hook \in [Core -> {"out", "passed", "in"}] /\ enabled \in BOOLEAN /\ kept \in BOOLEAN
        /\ \A d \in Core : hook[d] = "passed" => todo[d] = <<>> /\ traceType = "func"
    BY DEF Traced, LibraryTypes
  <2>3. Traced'
    BY <2>1, <2>2, NothingWritten
  <2> QED
    BY <2>1, <2>3
<1>3. ASSUME NEW type \in {"manual", "func"}, NEW m \in Masks, NEW cnt \in MarkerCnts,
             perfTraceInit(type, m, cnt)
      PROVE  Traced' /\ line' = None
  BY <1>3, InitKeeps
<1>4. CASE Converter
  BY <1>4, ConverterKeeps
<1>5. CASE UNCHANGED vars
  <2>1. /\ UNCHANGED <<word, reader, status, traceType, enabled, mask, markerCnt, reload, hook>>
        /\ UNCHANGED <<todo, kept, inSync, expected>>
    BY <1>5 DEF vars, readerVars, libraryVars, bufferVars
  <2>2. LibraryTypes' /\ ReaderTypes' /\ FailsLost'
    BY <2>1 DEF Traced, LibraryTypes, ReaderTypes, FailsLost, MaskOK, WordsOf
  <2>3. \A c \in Core : CoreOK(c)'
    BY <2>1, Untouched DEF Traced
  <2> QED
    BY <1>5, <2>2, <2>3 DEF Traced
<1> QED
  BY <1>1, <1>2, <1>3, <1>4, <1>5 DEF Next

\* All along, the converter is where the words it has seen end, on every core that
\* is in step; on one without a marker yet it waits for one.
THEOREM TracedAlways ==
  ASSUME CountersFit
  PROVE  Spec => []Traced
<1>1. Init => Traced
  BY TracedInit
<1>2. Traced /\ [Next]_vars => Traced'
  BY TracedNext
<1> QED
  BY <1>1, <1>2, PTL DEF Spec

\* Performance data is what was recorded: each line that the converter
\* (processITCPerf) writes for a core is the next of those that the core's calls of
\* sifive_perf.c made from its first kept marker on, whatever the other cores do, up
\* to a lost word or a mask with a second programmable counter.
THEOREM SpecLinesAreRecords ==
  ASSUME CountersFit
  PROVE  Spec => LinesAreRecords
<1>1. Traced /\ [Next]_vars =>
        [line' # None /\ inSync[word.core] # "lost" =>
           /\ expected[word.core] # <<>>
           /\ line' = Head(expected[word.core])]_vars
  BY TracedNext
<1>2. Spec => []Traced
  BY TracedAlways
<1> QED
  BY <1>1, <1>2, PTL DEF Spec, LinesAreRecords

\* Nothing but a core's last counter is held back when all words are read, and the
\* converter has its value, on every core that is in step.
THEOREM SpecOnlyLastHeldBack ==
  ASSUME CountersFit
  PROVE  Spec => []OnlyLastHeldBack
<1>1. Traced => OnlyLastHeldBack
  <2>1. SUFFICES ASSUME Traced, word = None, NEW c \in Core, inSync[c] = "yes"
                 PROVE  \/ expected[c] = <<>>
                        \/ /\ Len(expected[c]) = 1 /\ reader[c].pending
                           /\ expected[c][1].what.kind = "PerfCntr"
                           /\ expected[c][1].what.value = Narrow(reader[c].savedLow32)
    BY DEF OnlyLastHeldBack
  <2>2. Follows(c, reader[c], todo[c], expected[c])
    BY <2>1, InStepIs DEF Traced, InHand
  <2>3. expected[c] = <<>> \/ Holds(c, reader[c], expected[c])
    BY <2>2, FollowsHeld
  <2>4. Len(<<Held(c, reader[c])>>) = 1 /\ <<Held(c, reader[c])>>[1] = Held(c, reader[c])
    OBVIOUS
  <2>5. /\ Held(c, reader[c]).what.kind = "PerfCntr"
        /\ Held(c, reader[c]).what.value = Narrow(reader[c].savedLow32)
    BY DEF Held
  <2> QED
    BY <2>3, <2>4, <2>5 DEF Holds
<1>2. Spec => []Traced
  BY TracedAlways
<1> QED
  BY <1>1, <1>2, PTL

\* The converter fails, which ends decoding, only at a word of a core of which words
\* were lost, or that gave it a second definition behind a mask.
THEOREM SpecFailsLost ==
  ASSUME CountersFit
  PROVE  Spec => []FailsLost
<1>1. Traced => FailsLost
  BY DEF Traced
<1> QED
  BY <1>1, TracedAlways, PTL
=============================================================================
