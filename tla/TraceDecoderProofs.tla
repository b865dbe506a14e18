-------------------------- MODULE TraceDecoderProofs --------------------------
(***************************************************************************)
(* Proofs about TraceDecoder, for every set of cores, program, set of      *)
(* messages and size of the registers.                                     *)
(*                                                                         *)
(* The lemmas say what the operators on one core's record return; the      *)
(* theorems follow from one inductive invariant, IInv.                     *)
(***************************************************************************)
EXTENDS TraceDecoder, TLAPS

-----------------------------------------------------------------------------
(* What the operators of Counts return, for every width of the registers.  *)

\* The fields of a message that setCounts looks at.
CountFields(m) ==
  /\ m.i_cnt \in Nat /\ m.history \in Nat /\ m.count \in Nat
  /\ HistoryFits(m.history)

\* The index of the first outcome lies in the register, below its top bit.
LEMMA FirstHistBitType ==
  ASSUME NEW h \in Nat, HistoryFits(h)
  PROVE  FirstHistBit(h) \in -1..(HistWidth - 2)
<1>1. CASE h = 0
  BY <1>1, CountsAssumption DEF FirstHistBit
<1>2. CASE h # 0
  <2> DEFINE i == CHOOSE j \in 0..(HistWidth - 1) : HighestOne(h, j)
  <2>1. \E j \in 0..(HistWidth - 1) : HighestOne(h, j)
    BY <1>2 DEF HistoryFits
  <2>2. i \in 0..(HistWidth - 1)
    BY <2>1
  <2>3. FirstHistBit(h) = i - 1
    BY <1>2 DEF FirstHistBit
  <2> HIDE DEF i
  <2> QED
    BY <2>2, <2>3, CountsAssumption
<1> QED
  BY <1>1, <1>2

\* "none" means that nothing at all is left, and "i_cnt" that no outcome is.
LEMMA CountTypeMeaning ==
  ASSUME NEW c \in Count
  PROVE  /\ CurrentCountType(c) \in CountType
         /\ CurrentCountType(c) \in {"none", "i_cnt"} <=> ~Outcomes(c)
         /\ CurrentCountType(c) = "none" <=> ~Outcomes(c) /\ c.i_cnt <= 0
BY CountsAssumption DEF Count, CurrentCountType, CountType, Outcomes

\* Resetting leaves no outcome and a count of zero.
LEMMA ResetCountsType ==
  ASSUME NEW c \in Count
  PROVE  /\ ResetCounts(c) \in Count
         /\ ~Outcomes(ResetCounts(c))
         /\ ResetCounts(c).i_cnt = 0
BY CountsAssumption DEF Count, ResetCounts, NoCounts, Outcomes

\* The counts of a message are added to those of a core; a message is refused
\* for its TCODE or its resource code, never for outcomes, when none are left.
LEMMA SetCountsType ==
  ASSUME NEW c \in Count, NEW m, CountFields(m)
  PROVE  /\ SetCounts(c, m).c \in Count
         /\ SetCounts(c, m).ok \in BOOLEAN
         /\ /\ ~Outcomes(c) /\ m.tcode \in TCodesWithCounts
            /\ m.tcode = "RESOURCEFULL" => m.rCode \in {0, 1, 8, 9}
            => SetCounts(c, m).ok
<1> DEFINE d == SetICnt(c, ICntOf(m))
<1>1. /\ ICntOf(m) \in Nat /\ NotTakenOf(m) \in Nat /\ TakenOf(m) \in Nat
      /\ HistoryOf(m) \in Nat /\ HistoryFits(HistoryOf(m))
  BY DEF CountFields, ICntOf, HistoryOf, NotTakenOf, TakenOf, HistoryFits
<1>2. d \in Count /\ (Outcomes(d) <=> Outcomes(c))
  BY <1>1 DEF Count, SetICnt, Outcomes
<1>3. FirstHistBit(HistoryOf(m)) \in -1..(HistWidth - 2)
  BY <1>1, FirstHistBitType
<1> HIDE DEF d
<1>4. /\ SetHistory(d, HistoryOf(m)).c \in Count
      /\ SetHistory(d, HistoryOf(m)).ok = ~Outcomes(d)
  BY <1>1, <1>2, <1>3 DEF Count, SetHistory, Ok, Err
<1>5. /\ SetTakenCount(d, TakenOf(m)).c \in Count
      /\ SetTakenCount(d, TakenOf(m)).ok = ~Outcomes(d)
  BY <1>1, <1>2 DEF Count, SetTakenCount, Ok, Err
<1>6. /\ SetNotTakenCount(d, NotTakenOf(m)).c \in Count
      /\ SetNotTakenCount(d, NotTakenOf(m)).ok = ~Outcomes(d)
  BY <1>1, <1>2 DEF Count, SetNotTakenCount, Ok, Err
<1> QED
  BY <1>2, <1>4, <1>5, <1>6 DEF SetCounts, Ok, Err, d

\* Consuming an outcome that is there leaves counts as they should be.
LEMMA ConsumeType ==
  ASSUME NEW c \in Count, NEW n \in Int
  PROVE  /\ ConsumeICnt(c, n) \in Count
         /\ Outcomes(ConsumeICnt(c, n)) <=> Outcomes(c)
         /\ CurrentCountType(c) = "history" => ConsumeHistory(c) \in Count
         /\ CurrentCountType(c) = "taken" => ConsumeTaken(c) \in Count
         /\ CurrentCountType(c) = "notTaken" => ConsumeNotTaken(c) \in Count
<1>1. /\ ConsumeICnt(c, n) \in Count
      /\ Outcomes(ConsumeICnt(c, n)) <=> Outcomes(c)
  BY DEF Count, ConsumeICnt, Outcomes
<1>2. CurrentCountType(c) = "history" => ConsumeHistory(c) \in Count
  BY CountsAssumption DEF Count, ConsumeHistory, CurrentCountType
<1>3. CurrentCountType(c) = "taken" => ConsumeTaken(c) \in Count
  BY DEF Count, ConsumeTaken, CurrentCountType
<1>4. CurrentCountType(c) = "notTaken" => ConsumeNotTaken(c) \in Count
  BY DEF Count, ConsumeNotTaken, CurrentCountType
<1> QED
  BY <1>1, <1>2, <1>3, <1>4

\* A return stack stays a sequence of addresses no longer than its size, and
\* its top is an address or "unknown".
LEMMA StackType ==
  ASSUME NEW s \in Seq(Nat), Len(s) <= StackSize, NEW a \in Nat
  PROVE  /\ Push(s, a) \in Seq(Nat) /\ Len(Push(s, a)) <= StackSize
         /\ Pop(s) \in Seq(Nat) /\ Len(Pop(s)) <= StackSize
         /\ Top(s) \in Nat \cup {NoAddr}
<1>1. Push(s, a) \in Seq(Nat) /\ Len(Push(s, a)) <= StackSize
  BY CountsAssumption DEF Push
<1>2. Pop(s) \in Seq(Nat) /\ Len(Pop(s)) <= StackSize
  <2>1. CASE s = <<>>
    BY <2>1 DEF Pop
  <2>2. CASE s # <<>>
    BY <2>2, CountsAssumption DEF Pop
  <2> QED
    BY <2>1, <2>2
<1>3. Top(s) \in Nat \cup {NoAddr}
  BY DEF Top
<1> QED
  BY <1>1, <1>2, <1>3

-----------------------------------------------------------------------------
(* What the operators of TraceDecoder return.                              *)

\* A core's record is as declared and its return stack within its size.
CoreOK(k) == k \in CoreState /\ Len(k.stack) <= StackSize

-----------------------------------------------------------------------------
(* Time stamps.                                                            *)

\* The low bits of a time, and what remains without them.
LEMMA LowBits ==
  ASSUME NEW n \in Nat \ {0}, NEW x \in Nat
  PROVE  x % n \in 0..(n - 1) /\ x - (x % n) \in Nat
<1>1. x % n \in 0..(n - 1)
  BY SMT
<1>2. x = n * (x \div n) + (x % n) /\ x \div n \in Nat
  BY SMT
<1>3. \A q \in Nat : n * q \in Nat
  BY SMT
<1> QED
  BY <1>1, <1>2, <1>3, SMT

\* processTS never returns less than the time before.
LEMMA ProcessTSType ==
  ASSUME NEW full \in BOOLEAN, NEW last \in Nat, NEW new \in 0..(TsRange - 1)
  PROVE  ProcessTS(full, last, new) \in Nat /\ ProcessTS(full, last, new) >= last
<1> DEFINE low == last % TsRange
           wraps == last - low
           x == XorOf[low, new]
<1>1. TsRange \in Nat \ {0}
  BY DecoderAssumption
<1>2. low \in 0..(TsRange - 1) /\ wraps \in Nat
  BY <1>1, LowBits
<1>3. x \in 0..(TsRange - 1)
  BY <1>2, DecoderAssumption
<1>4. last = wraps + low
  BY <1>1, <1>2
<1> HIDE DEF low, x
<1>5. ProcessTS(full, last, new)
        = LET ts == IF full THEN wraps + new ELSE IF last # 0 THEN wraps + x ELSE 0
          IN  IF ts < last THEN ts + TsRange ELSE ts
  BY DEF ProcessTS, low, x
<1> HIDE DEF wraps
<1> QED
  BY <1>1, <1>2, <1>3, <1>4, <1>5

\* A time stamp changes the time of a core and nothing else.
LEMMA StampType ==
  ASSUME NEW m \in Message, NEW k, CoreOK(k)
  PROVE  /\ CoreOK(Stamp(m, k))
         /\ Stamp(m, k).lastTime >= k.lastTime
         /\ Stamp(m, k) = [k EXCEPT !.lastTime = Stamp(m, k).lastTime]
<1>1. CASE m.ts = NoTs
  BY <1>1 DEF Stamp, CoreOK, CoreState
<1>2. CASE m.ts # NoTs
  <2>1. m.ts \in 0..(TsRange - 1)
    BY <1>2 DEF Message
  <2>2. (m.tcode \in FullTsTCodes) \in BOOLEAN /\ k.lastTime \in Nat
    BY DEF CoreOK, CoreState
  <2> DEFINE t == ProcessTS(m.tcode \in FullTsTCodes, k.lastTime, m.ts)
  <2>3. t \in Nat /\ t >= k.lastTime
    BY <2>1, <2>2, ProcessTSType
  <2>4. Stamp(m, k) = [k EXCEPT !.lastTime = t]
    BY <1>2 DEF Stamp
  <2> HIDE DEF t
  <2> QED
    BY <2>3, <2>4 DEF CoreOK, CoreState
<1> QED
  BY <1>1, <1>2

-----------------------------------------------------------------------------
(* Messages.                                                               *)

\* The values of message fields, and their exclusive-or.
LEMMA Words ==
  /\ 0 \in Word /\ \A a \in Word : a \in Int
  /\ \A a, b \in Word : XorOf[a, b] \in Word
<1>1. 0 \in Word /\ Word \subseteq Nat
  BY DecoderAssumption
<1>2. \A a, b \in Word : XorOf[a, b] \in Word
  BY DecoderAssumption
<1>3. \A a \in Word : a \in Int
  BY <1>1
<1> QED
  BY <1>1, <1>2, <1>3, Zenon

\* Moving a core to an address, and starting it over there.
LEMMA AtType ==
  ASSUME NEW k, CoreOK(k), NEW a \in Word
  PROVE  /\ CoreOK(At(k, a))
         /\ At(k, a).state = k.state /\ At(k, a).cnt = k.cnt
         /\ At(k, a).lastTime = k.lastTime
BY Words DEF At, CoreOK, CoreState

\* A core that starts over has neither outcomes nor return addresses.
LEMMA SyncAtType ==
  ASSUME NEW k, CoreOK(k), NEW a \in Word
  PROVE  /\ CoreOK(SyncAt(k, a))
         /\ SyncAt(k, a).state = k.state /\ ~Outcomes(SyncAt(k, a).cnt)
         /\ SyncAt(k, a).lastTime = k.lastTime
<1> DEFINE j == At(k, a)
<1>1. CoreOK(j) /\ j.state = k.state /\ j.lastTime = k.lastTime
  BY AtType
<1>2. ResetCounts(j.cnt) \in Count /\ ~Outcomes(ResetCounts(j.cnt))
  BY <1>1, ResetCountsType DEF CoreOK, CoreState
<1>3. SyncAt(k, a) = [j EXCEPT !.cnt = ResetCounts(j.cnt), !.stack = EmptyStack]
  BY DEF SyncAt
<1> HIDE DEF j
<1> DEFINE c == ResetCounts(j.cnt)
           i == [j EXCEPT !.cnt = c, !.stack = EmptyStack]
<1> HIDE DEF c
<1>4. EmptyStack \in Seq(Nat) /\ Len(EmptyStack) <= StackSize
  BY CountsAssumption DEF EmptyStack
<1>5. /\ i \in CoreState /\ i.stack = EmptyStack /\ i.cnt = c
      /\ i.state = j.state /\ i.lastTime = j.lastTime
  BY <1>1, <1>2, <1>4 DEF CoreOK, CoreState, c
<1> QED
  BY <1>1, <1>2, <1>3, <1>4, <1>5 DEF CoreOK, c

\* What both lemmas on messages promise of the record r that m made of k: it
\* is a good one, its time has not gone back, and no outcome has come up.
MessageResult(r, k) ==
  /\ r.ok \in BOOLEAN
  /\ CoreOK(r.k)
  /\ r.k.state = k.state
  /\ r.k.lastTime >= k.lastTime
  /\ Outcomes(r.k.cnt) => Outcomes(k.cnt)

\* In-circuit trace messages (the INCIRCUITTRACE cases of processTraceMessage).
LEMMA ProcessICTType ==
  ASSUME NEW m \in Message, NEW k, CoreOK(k)
  PROVE  MessageResult(ProcessICT(m, k), k)
<1> DEFINE a == IF m.tcode = "INCIRCUITTRACE_WS" THEN m.addr ELSE XorOf[k.lastFaddr, m.addr]
<1>1. a \in Word /\ m.data \in Word
  BY Words DEF Message, CoreOK, CoreState
<1>2. XorOf[a, m.data] \in Word
  BY <1>1, Words
<1> DEFINE b == XorOf[a, m.data]
<1>3. /\ MessageResult(Good(k), k)
      /\ MessageResult(Bad(k), k)
  BY DEF MessageResult, Good, Bad, CoreOK, CoreState
<1> HIDE DEF a
<1>4. MessageResult(Good(At(k, a)), k)
  BY <1>1, AtType DEF MessageResult, Good, CoreOK, CoreState
<1>5. MessageResult(Good([k EXCEPT !.lastFaddr = a]), k)
  BY <1>1 DEF MessageResult, Good, CoreOK, CoreState
<1>6. MessageResult(Good([k EXCEPT !.currentAddress = a, !.lastFaddr = b]), k)
  <2> DEFINE j == [k EXCEPT !.currentAddress = a, !.lastFaddr = b]
  <2>1. a \in Int /\ b \in Word
    BY <1>1, <1>2, Words
  <2> HIDE DEF b
  <2>2. /\ j \in CoreState /\ j.stack = k.stack /\ j.cnt = k.cnt
        /\ j.state = k.state /\ j.lastTime = k.lastTime
    BY <2>1 DEF CoreOK, CoreState
  <2> HIDE DEF j
  <2>3. MessageResult(Good(j), k)
    BY <2>2 DEF MessageResult, Good, CoreOK, CoreState
  <2> QED
    BY <2>3 DEF j
<1> HIDE DEF MessageResult
<1>7. ProcessICT(m, k) \in {Good(k), Bad(k), Good(At(k, a)), Good([k EXCEPT !.lastFaddr = a]),
                            Good([k EXCEPT !.currentAddress = a, !.lastFaddr = b])}
  BY DEF ProcessICT, a
<1> QED
  BY <1>3, <1>4, <1>5, <1>6, <1>7

\* All messages (processTraceMessage).
LEMMA ProcessTraceMessageType ==
  ASSUME NEW m \in Message, NEW k0, CoreOK(k0)
  PROVE  MessageResult(ProcessTraceMessage(m, k0), k0)
<1> DEFINE k == Stamp(m, k0)
           x == XorOf[k.lastFaddr, m.addr]
<1>1. CoreOK(k) /\ k.lastTime >= k0.lastTime /\ k.state = k0.state /\ k.cnt = k0.cnt
  BY StampType DEF CoreOK, CoreState
<1> HIDE DEF k
<1>2. m.addr \in Word /\ x \in Word /\ 0 \in Word
  BY <1>1, Words DEF Message, CoreOK, CoreState
<1>3. MessageResult(Good(k), k0) /\ MessageResult(Bad(k), k0)
  BY <1>1 DEF MessageResult, Good, Bad
<1>4. \A a \in Word : MessageResult(Good(At(k, a)), k0)
  BY <1>1, AtType DEF MessageResult, Good
<1>5. MessageResult(Good(SyncAt(k, m.addr)), k0)
  BY <1>1, <1>2, SyncAtType DEF MessageResult, Good
<1>6. MessageResult(ProcessICT(m, k), k0)
  <2>1. MessageResult(ProcessICT(m, k), k)
    BY <1>1, ProcessICTType
  <2> QED
    BY <1>1, <2>1 DEF MessageResult, CoreOK, CoreState
<1>7. ProcessTraceMessage(m, k0)
        \in {Good(k), Bad(k), Good(At(k, 0)), Good(At(k, x)), Good(SyncAt(k, m.addr)),
             ProcessICT(m, k)}
  BY DEF ProcessTraceMessage, k
<1> HIDE DEF x
<1> QED
  BY <1>2, <1>3, <1>4, <1>5, <1>6, <1>7
-----------------------------------------------------------------------------
(* Instructions.                                                           *)

\* Calls, returns and swaps keep the return stack a stack of its size.
LEMMA StackAfterType ==
  ASSUME NEW s \in Seq(Nat), Len(s) <= StackSize, NEW flag, NEW a \in Nat
  PROVE  StackAfter(s, flag, a) \in Seq(Nat) /\ Len(StackAfter(s, flag, a)) <= StackSize
<1>1. /\ Push(s, a) \in Seq(Nat) /\ Len(Push(s, a)) <= StackSize
      /\ Pop(s) \in Seq(Nat) /\ Len(Pop(s)) <= StackSize
  BY StackType
<1>2. Push(Pop(s), a) \in Seq(Nat) /\ Len(Push(Pop(s), a)) <= StackSize
  BY <1>1, StackType
<1> QED
  BY <1>1, <1>2 DEF StackAfter

\* A conditional branch that has to wait has no outcome left.
LEMMA HistoryBranchType ==
  ASSUME NEW c \in Count, NEW taken
  PROVE  /\ HistoryBranch(c, taken).cnt \in Count
         /\ HistoryBranch(c, taken).br = "unknown" => ~Outcomes(c)
BY ConsumeType, CountTypeMeaning DEF HistoryBranch

\* nextAddr keeps the record of its core in order; the branches it cannot
\* decide are those of a core without outcomes.
LEMMA NextAddrType ==
  ASSUME NEW k, CoreOK(k), k.currentAddress \in DOMAIN Code,
         NEW tt \in {"BTM", "HTM"}, NEW tcode, NEW taken
  PROVE  LET r == NextAddr(k, tt, tcode, taken) IN
         /\ CoreOK(r.k)
         /\ r.k.lastTime = k.lastTime
         /\ r.pc \in Int
         /\ r.type \in {"BTM", "HTM"}
         /\ r.brFlag = "unknown" => ~Outcomes(k.cnt)
<1> DEFINE a    == k.currentAddress
           i    == Code[a]
           next == a + i.size
           tt2  == TypeAfter(tt, i, k.cnt)
           b    == IF i.type \notin BranchTypes THEN [br |-> "none", cnt |-> k.cnt]
                   ELSE IF tt = "HTM" THEN HistoryBranch(k.cnt, taken)
                   ELSE BranchTraceBranch(k.cnt, i, tcode)
           s    == StackAfter(k.stack, CRFlag(i), next)
           cnt  == IF b.br = "unknown" THEN k.cnt ELSE ConsumeICnt(b.cnt, i.size)
           t    == IndirectTarget(tt2, i, k.cnt, k.stack, next)
           pc   == CASE i.type \in {"JAL", "C_JAL", "C_J"} -> a + i.imm
                     [] i.type \in IndirectTypes -> t
                     [] i.type \in {"ECALL", "XRET"} -> NoAddr
                     [] b.br = "taken" -> a + i.imm
                     [] b.br = "unknown" -> NoAddr
                     [] OTHER -> next
           r    == NextAddr(k, tt, tcode, taken)
<1>1. a \in Nat /\ i \in Instruction
  BY DecoderAssumption
<1>2. i.size \in Nat /\ i.imm \in Int
  BY <1>1 DEF Instruction
<1>3. next \in Nat
  BY <1>1, <1>2
<1>4. k.cnt \in Count /\ k.stack \in Seq(Nat) /\ Len(k.stack) <= StackSize
  BY DEF CoreOK, CoreState
<1>5. s \in Seq(Nat) /\ Len(s) <= StackSize
  BY <1>3, <1>4, StackAfterType
<1>6. b.cnt \in Count /\ (b.br = "unknown" => ~Outcomes(k.cnt))
  BY <1>4, HistoryBranchType DEF BranchTraceBranch
<1>7. cnt \in Count
  <2>1. i.size \in Int
    BY <1>2
  <2> HIDE DEF b, i
  <2>2. ConsumeICnt(b.cnt, i.size) \in Count
    BY <1>6, <2>1, ConsumeType
  <2> QED
    BY <1>4, <2>2
<1>8. t \in Int
  <2>1. Top(k.stack) \in Nat \cup {NoAddr}
    BY <1>3, <1>4, StackType
  <2>2. Top(k.stack) \in Int /\ NoAddr \in Int
    BY <2>1 DEF NoAddr
  <2>3. t \in {next, NoAddr, Top(k.stack)}
    BY DEF IndirectTarget
  <2> HIDE DEF t, next
  <2> QED
    BY <1>3, <2>2, <2>3
<1>9. tt2 \in {"BTM", "HTM"}
  BY DEF TypeAfter
<1>10. r = [ok     |-> i.type \notin BranchTypes \/ b.br # "none",
            pc     |-> pc,
            brFlag |-> b.br,
            crFlag |-> CRFlag(i),
            type   |-> tt2,
            k      |-> [k EXCEPT !.stack = s, !.cnt = cnt]]
  BY Zenon DEF NextAddr
<1> HIDE DEF a, i, next, b, s, cnt, t, tt2, r
<1>11. pc \in {a + i.imm, t, NoAddr, next}
  OBVIOUS
<1> HIDE DEF pc
<1>12. pc \in Int
  BY <1>1, <1>2, <1>3, <1>8, <1>11 DEF NoAddr
<1>13. CoreOK(r.k) /\ r.k.lastTime = k.lastTime
  BY <1>5, <1>7, <1>10 DEF CoreOK, CoreState
<1> QED
  BY <1>6, <1>9, <1>10, <1>12, <1>13 DEF r
-----------------------------------------------------------------------------
(* The inductive invariant.                                                *)

\* A core that is retiring a message, or waits for the next one, has used up
\* the outcomes it had; the message fits the history register.
IInv ==
  /\ TypeOK
  /\ currentCore = nm.core
  /\ HistoryFits(nm.history)
  /\ OneMessageInWork
  /\ \A c \in Core : core[c].state \in {"RETIREMESSAGE", "GETNEXTMSG"} => ~Outcomes(core[c].cnt)

\* What the decoder may do with the record k of the current core in a step.
GoodStep(k) ==
  /\ CoreOK(k)
  /\ k.state \in {"GETNEXTINSTRUCTION", "RETIREMESSAGE"} =>
       ~readNewTraceMessage' /\ nm.tcode \in TCodesWithCounts
  /\ k.state \in {"RETIREMESSAGE", "GETNEXTMSG"} => ~Outcomes(k.cnt)

\* The current core changes, the others and the message do not.
LEMMA CoreStep ==
  ASSUME IInv, NEW k, GoodStep(k), Become(k),
         nm' \in Message, nm'.core = nm.core, nm'.tcode = nm.tcode, nm'.history = nm.history,
         currentCore' = currentCore,
         readNewTraceMessage' \in BOOLEAN,
         traceType' \in {"BTM", "HTM"}, status' \in {"OK", "EOF", "ERR"}
  PROVE  IInv'
<1>1. /\ currentCore \in Core /\ core \in [Core -> CoreState]
      /\ core' = [core EXCEPT ![currentCore] = k]
      /\ k \in CoreState /\ Len(k.stack) <= StackSize
  BY DEF IInv, TypeOK, Become, GoodStep, CoreOK
<1>2. /\ core' \in [Core -> CoreState]
      /\ core'[currentCore] = k
      /\ \A c \in Core : c # currentCore => core'[c] = core[c]
  BY <1>1
<1>3. TypeOK'
  BY <1>1, <1>2 DEF IInv, TypeOK
<1>4. currentCore' = nm'.core /\ HistoryFits(nm.history)'
  BY DEF IInv, HistoryFits, HighestOne
<1>5. OneMessageInWork'
  BY <1>1, <1>2, <1>4 DEF IInv, OneMessageInWork, GoodStep
<1>6. \A c \in Core : core'[c].state \in {"RETIREMESSAGE", "GETNEXTMSG"}
                        => ~Outcomes(core'[c].cnt)
  BY <1>1, <1>2 DEF IInv, GoodStep
<1> QED
  BY <1>3, <1>4, <1>5, <1>6 DEF IInv

\* The record of the current core under the invariant.
LEMMA CurrentCore ==
  ASSUME IInv
  PROVE  /\ CoreOK(K) /\ nm \in Message
         /\ K.state \in {"RETIREMESSAGE", "GETNEXTMSG"} => ~Outcomes(K.cnt)
         /\ K.state \in {"GETNEXTINSTRUCTION", "RETIREMESSAGE"} =>
              ~readNewTraceMessage /\ nm.tcode \in TCodesWithCounts
         /\ status \in {"OK", "EOF", "ERR"} /\ traceType \in {"BTM", "HTM"}
         /\ CountFields(nm)
<1>1. currentCore \in Core /\ nm \in Message
  BY DEF IInv, TypeOK
<1>2. CountFields(nm)
  BY <1>1 DEF IInv, CountFields, Message
<1> QED
  BY <1>1, <1>2 DEF IInv, TypeOK, OneMessageInWork, K, CoreOK

\* The same for each way in which a handler ends.
LEMMA FailStep ==
  ASSUME IInv, Fail, UNCHANGED <<nm, currentCore>>, traceType' \in {"BTM", "HTM"}
  PROVE  IInv'
<1> DEFINE k == [K EXCEPT !.state = "ERROR"]
<1>1. GoodStep(k)
  BY CurrentCore DEF GoodStep, CoreOK, CoreState, DecoderState
<1>2. Become(k) /\ status' = "ERR" /\ UNCHANGED readNewTraceMessage
  BY DEF Fail
<1>3. nm \in Message /\ readNewTraceMessage \in BOOLEAN
  BY DEF IInv, TypeOK
<1> HIDE DEF k
<1> QED
  BY <1>1, <1>2, <1>3, CoreStep

\* A handler that is through with its message.
LEMMA FinishStep ==
  ASSUME IInv, UNCHANGED <<nm, currentCore, traceType>>,
         NEW k, CoreOK(k), NEW s \in DecoderState \ {"GETNEXTINSTRUCTION", "RETIREMESSAGE"},
         s = "GETNEXTMSG" => ~Outcomes(k.cnt),
         Finish(k, s)
  PROVE  IInv'
<1> DEFINE j == [k EXCEPT !.state = s]
<1>1. CoreOK(j) /\ j.state = s /\ j.cnt = k.cnt
  BY DEF CoreOK, CoreState
<1>2. Become(j) /\ readNewTraceMessage' = TRUE /\ UNCHANGED status
  BY DEF Finish
<1> HIDE DEF j
<1>3. GoodStep(j)
  BY <1>1 DEF GoodStep
<1>4. nm \in Message /\ traceType \in {"BTM", "HTM"} /\ status \in {"OK", "EOF", "ERR"}
  BY CurrentCore
<1> QED
  BY <1>2, <1>3, <1>4, CoreStep

\* A handler that goes on with the message.
LEMMA ContinueStep ==
  ASSUME IInv, ~readNewTraceMessage, UNCHANGED <<nm, currentCore>>,
         traceType' \in {"BTM", "HTM"},
         NEW k, CoreOK(k), NEW s \in {"GETNEXTINSTRUCTION", "RETIREMESSAGE"},
         nm.tcode \in TCodesWithCounts,
         s = "RETIREMESSAGE" => ~Outcomes(k.cnt),
         Continue(k, s)
  PROVE  IInv'
<1> DEFINE j == [k EXCEPT !.state = s]
<1>1. CoreOK(j) /\ j.state = s /\ j.cnt = k.cnt
  BY DEF CoreOK, CoreState, DecoderState
<1>2. Become(j) /\ readNewTraceMessage' = FALSE /\ UNCHANGED status
  BY DEF Continue
<1> HIDE DEF j
<1>3. GoodStep(j)
  BY <1>1, <1>2 DEF GoodStep
<1>4. nm \in Message /\ status \in {"OK", "EOF", "ERR"}
  BY CurrentCore
<1> QED
  BY <1>2, <1>3, <1>4, CoreStep
-----------------------------------------------------------------------------
(* The steps.                                                              *)

\* Reading a message makes its core the current one; no core is in work then.
LEMMA ReadStepInv ==
  ASSUME IInv, NEW m \in Message, HistoryFits(m.history), Read(m)
  PROVE  IInv'
<1>1. m.core \in Core
  BY DEF Message
<1>2. /\ readNewTraceMessage /\ nm' = m /\ readNewTraceMessage' = FALSE /\ currentCore' = m.core
      /\ status' \in {"OK", "ERR"} /\ traceType' \in {"BTM", "HTM"}
      /\ core' \in {core, [core EXCEPT ![m.core].state = "ERROR"]}
  BY DEF Read, IInv, TypeOK
<1>3. \A c \in Core : core[c].state \notin {"GETNEXTINSTRUCTION", "RETIREMESSAGE"}
  BY <1>2 DEF IInv, OneMessageInWork
<1>4. core \in [Core -> CoreState] /\ \A c \in Core : Len(core[c].stack) <= StackSize
  BY DEF IInv, TypeOK
<1> DEFINE j == [core[m.core] EXCEPT !.state = "ERROR"]
<1>5. CoreOK(j) /\ j.state = "ERROR"
  BY <1>1, <1>4 DEF CoreOK, CoreState, DecoderState
<1>6. core' = core \/ core' = [core EXCEPT ![m.core] = j]
  BY <1>2
<1> HIDE DEF j
<1>7. /\ core' \in [Core -> CoreState]
      /\ \A c \in Core : core'[c] = core[c] \/ core'[c] = j
  BY <1>1, <1>4, <1>5, <1>6 DEF CoreOK
<1>8. TypeOK'
  BY <1>1, <1>2, <1>4, <1>5, <1>7 DEF TypeOK, CoreOK
<1>9. OneMessageInWork'
  BY <1>3, <1>5, <1>7 DEF OneMessageInWork
<1>10. \A c \in Core : core'[c].state \in {"RETIREMESSAGE", "GETNEXTMSG"}
                         => ~Outcomes(core'[c].cnt)
  BY <1>5, <1>7 DEF IInv
<1>11. HistoryFits(nm.history)'
  BY <1>1, <1>2 DEF HistoryFits, HighestOne
<1> QED
  BY <1>2, <1>8, <1>9, <1>10, <1>11 DEF IInv

\* The end of the trace.
LEMMA ReadFailsInv ==
  ASSUME IInv, NEW result \in {"EOF", "ERR"}, ReadFails(result)
  PROVE  IInv'
<1> DEFINE k == [K EXCEPT !.state = IF result = "EOF" THEN "DONE" ELSE "ERROR"]
<1>1. GoodStep(k)
  BY CurrentCore DEF GoodStep, CoreOK, CoreState, DecoderState
<1>2. /\ Become(k) /\ status' = result
      /\ UNCHANGED <<nm, readNewTraceMessage, currentCore, traceType>>
  BY DEF ReadFails
<1>3. nm \in Message /\ readNewTraceMessage \in BOOLEAN /\ traceType \in {"BTM", "HTM"}
  BY DEF IInv, TypeOK
<1> HIDE DEF k
<1> QED
  BY <1>1, <1>2, <1>3, CoreStep

\* Before the first sync.
LEMMA FirstInv ==
  ASSUME IInv, FirstSync \/ FirstSyncICT \/ FirstSkip \/ FirstError \/ FirstRefuse
  PROVE  IInv'
<1> DEFINE r == ProcessTraceMessage(nm, K)
<1>1. MessageResult(r, K)
  BY CurrentCore, ProcessTraceMessageType
<1>2. CoreOK(r.k)
  BY <1>1 DEF MessageResult
<1>3. nm \in Message /\ CoreOK(K) /\ traceType \in {"BTM", "HTM"}
  BY CurrentCore
<1> HIDE DEF r
<1>4. CASE FirstSync
  <2>1. Finish(r.k, "GETMSGWITHCOUNT") /\ UNCHANGED <<nm, currentCore, traceType>>
    BY <1>4 DEF FirstSync, Silent, r
  <2> QED
    BY <1>2, <2>1, FinishStep DEF DecoderState
<1>5. CASE FirstSyncICT
  <2> DEFINE k == [r.k EXCEPT !.currentAddress = IF @ = 0 THEN r.k.lastFaddr ELSE @]
             s == IF nm.cksrc = "CONTROL" /\ nm.ckdf = 0
                  THEN "GETFIRSTSYNCMSG" ELSE "GETMSGWITHCOUNT"
  <2>1. UNCHANGED <<nm, currentCore, traceType>> /\ (Fail \/ Finish(k, s))
    BY <1>5 DEF FirstSyncICT, r
  <2>2. CoreOK(k)
    BY <1>2, Words DEF CoreOK, CoreState
  <2>3. s \in DecoderState \ {"GETNEXTINSTRUCTION", "RETIREMESSAGE"} /\ s # "GETNEXTMSG"
    BY DEF DecoderState
  <2> HIDE DEF k, s
  <2> QED
    BY <1>3, <2>1, <2>2, <2>3, FailStep, FinishStep
<1>6. CASE FirstSkip
  <2> DEFINE k == IF nm.tcode = "DATA_ACQUISITION" THEN r.k
                  ELSE IF nm.ts = 0 THEN K ELSE Stamp(nm, K)
  <2>1. Finish(k, "GETFIRSTSYNCMSG") /\ UNCHANGED <<nm, currentCore, traceType>>
    BY <1>6 DEF FirstSkip, Silent, r
  <2>2. CoreOK(k)
    BY <1>2, <1>3, StampType
  <2> HIDE DEF k
  <2> QED
    BY <2>1, <2>2, FinishStep DEF DecoderState
<1>7. CASE FirstError
  <2> DEFINE k == [K EXCEPT !.lastTime = 0]
  <2>1. Finish(k, "GETFIRSTSYNCMSG") /\ UNCHANGED <<nm, currentCore, traceType>>
    BY <1>7 DEF FirstError, Silent
  <2>2. CoreOK(k)
    BY <1>3 DEF CoreOK, CoreState
  <2> HIDE DEF k
  <2> QED
    BY <2>1, <2>2, FinishStep DEF DecoderState
<1>8. CASE FirstRefuse
  BY <1>3, <1>8, FailStep DEF FirstRefuse, Silent
<1> QED
  BY <1>4, <1>5, <1>6, <1>7, <1>8

\* Between messages: a count-bearing message is taken up, others are retired.
LEMMA TakeCountsInv ==
  ASSUME IInv, ~readNewTraceMessage, NEW base \in Count, TakeCounts(base)
  PROVE  IInv'
<1> DEFINE r == SetCounts(base, nm)
           k == [K EXCEPT !.cnt = r.c]
<1>1. r.c \in Count /\ CoreOK(K) /\ traceType \in {"BTM", "HTM"}
  BY CurrentCore, SetCountsType
<1>2. /\ nm.tcode \in TCodesWithCounts /\ UNCHANGED <<nm, currentCore, traceType>>
      /\ Fail \/ Continue(k, "GETNEXTINSTRUCTION")
  BY DEF TakeCounts, Silent
<1> HIDE DEF r
<1>3. CoreOK(k)
  BY <1>1 DEF CoreOK, CoreState
<1> HIDE DEF k
<1> QED
  BY <1>1, <1>2, <1>3, FailStep, ContinueStep

\* Messages without counts are retired, refused, or report a loss.
LEMMA OtherMessagesInv ==
  ASSUME IInv, K.state \in {"GETMSGWITHCOUNT", "GETNEXTMSG"},
         RetireICT \/ LoseTrace \/ RetireOther \/ Refuse
  PROVE  IInv'
<1> DEFINE r == ProcessTraceMessage(nm, K)
<1>1. MessageResult(r, K) /\ nm \in Message /\ CoreOK(K) /\ traceType \in {"BTM", "HTM"}
  BY CurrentCore, ProcessTraceMessageType
<1>2. CoreOK(r.k) /\ r.k.state = K.state /\ (Outcomes(r.k.cnt) => Outcomes(K.cnt))
  BY <1>1 DEF MessageResult
<1>3. K.state = "GETNEXTMSG" => ~Outcomes(K.cnt)
  BY CurrentCore
<1> HIDE DEF r
<1>4. GoodStep(r.k)
  BY <1>2, <1>3 DEF GoodStep
<1>5. CASE RetireICT
  <2>1. \/ Fail
        \/ Become(r.k) /\ readNewTraceMessage' = TRUE /\ status' \in {status, "ERR"}
    BY <1>5 DEF RetireICT, r
  <2>2. UNCHANGED <<nm, currentCore, traceType>>
    BY <1>5 DEF RetireICT
  <2>3. status \in {"OK", "EOF", "ERR"}
    BY CurrentCore
  <2> QED
    BY <1>1, <1>4, <2>1, <2>2, <2>3, FailStep, CoreStep
<1>6. CASE LoseTrace
  <2> DEFINE a == At(K, 0)
             k == [a EXCEPT !.lastTime = 0, !.state = "GETFIRSTSYNCMSG"]
             m == [nm EXCEPT !.ts = IF @ = NoTs THEN NoTs ELSE 0]
  <2>1. /\ Become(k) /\ nm' = m /\ readNewTraceMessage' = TRUE
        /\ UNCHANGED <<status, currentCore, traceType>>
    BY <1>6 DEF LoseTrace
  <2>2. CoreOK(a)
    BY <1>1, Words, AtType
  <2> HIDE DEF a
  <2>3. GoodStep(k)
    BY <2>2 DEF GoodStep, CoreOK, CoreState, DecoderState
  <2>4. m \in Message /\ m.core = nm.core /\ m.tcode = nm.tcode /\ m.history = nm.history
    <3>1. 0 \in 0..(TsRange - 1)
      <4>1. TsRange \in Nat \ {0}
        BY DecoderAssumption
      <4> QED
        BY <4>1
    <3> QED
      BY <1>1, <3>1 DEF Message
  <2> HIDE DEF k, m
  <2>5. status \in {"OK", "EOF", "ERR"}
    BY CurrentCore
  <2> QED
    BY <1>1, <2>1, <2>3, <2>4, <2>5, CoreStep
<1>7. CASE RetireOther
  <2>1. Finish(r.k, K.state) /\ UNCHANGED <<nm, currentCore, traceType>>
    BY <1>7 DEF RetireOther, Silent, r
  <2> QED
    BY <1>2, <1>3, <2>1, FinishStep DEF DecoderState
<1>8. CASE Refuse
  BY <1>1, <1>8, FailStep DEF Refuse, Silent
<1> QED
  BY <1>5, <1>6, <1>7, <1>8

\* The two states that wait for a message with counts.
LEMMA GetMsgInv ==
  ASSUME IInv, GetMsgWithCount \/ GetNextMsg
  PROVE  IInv'
<1>1. K.cnt \in Count /\ ResetCounts(K.cnt) \in Count
  <2>1. K.cnt \in Count
    BY CurrentCore DEF CoreOK, CoreState
  <2> QED
    BY <2>1, ResetCountsType
<1>2. K.state \in {"GETMSGWITHCOUNT", "GETNEXTMSG"} /\ ~readNewTraceMessage
  BY DEF GetMsgWithCount, GetNextMsg, InState
<1>3. \/ TakeCounts(K.cnt) \/ TakeCounts(ResetCounts(K.cnt))
      \/ RetireICT \/ LoseTrace \/ RetireOther \/ Refuse
  BY DEF GetMsgWithCount, GetNextMsg
<1> QED
  BY <1>1, <1>2, <1>3, TakeCountsInv, OtherMessagesInv

\* Stepping through instructions.
LEMMA CountsExhaustedInv ==
  ASSUME IInv, CountsExhausted \/ NoInstructionThere
  PROVE  IInv'
<1>1. /\ K.state = "GETNEXTINSTRUCTION" /\ ~readNewTraceMessage
      /\ UNCHANGED <<nm, currentCore, traceType>>
  BY DEF CountsExhausted, NoInstructionThere, InState, Silent
<1>2. CoreOK(K) /\ nm.tcode \in TCodesWithCounts /\ traceType \in {"BTM", "HTM"}
  BY <1>1, CurrentCore
<1>3. CASE CountsExhausted
  <2>1. Continue(K, "RETIREMESSAGE") /\ CurrentCountType(K.cnt) = "none"
    BY <1>3 DEF CountsExhausted
  <2>2. ~Outcomes(K.cnt)
    BY <1>2, <2>1, CountTypeMeaning DEF CoreOK, CoreState
  <2> QED
    BY <1>1, <1>2, <2>1, <2>2, ContinueStep
<1>4. CASE NoInstructionThere
  <2>1. Fail
    BY <1>4 DEF NoInstructionThere
  <2> QED
    BY <1>1, <1>2, <2>1, FailStep
<1> QED
  BY <1>3, <1>4

\* An instruction is returned, or waits for the outcome of a branch.
LEMMA NextInstInv ==
  ASSUME IInv, NextInst
  PROVE  IInv'
<1>1. /\ K.state = "GETNEXTINSTRUCTION" /\ ~readNewTraceMessage
      /\ UNCHANGED <<nm, currentCore>> /\ K.currentAddress \in DOMAIN Code
  BY DEF NextInst, InState
<1>2. CoreOK(K) /\ nm.tcode \in TCodesWithCounts /\ traceType \in {"BTM", "HTM"}
  BY <1>1, CurrentCore
<1>3. PICK taken \in HistoryTaken(K.cnt) :
        LET r    == NextAddr(K, traceType, nm.tcode, taken)
            left == CurrentCountType(r.k.cnt) # "none"
        IN \/ Fail /\ UNCHANGED traceType
           \/ r.brFlag = "unknown" /\ Continue(K, "RETIREMESSAGE") /\ traceType' = r.type
           \/ /\ Continue([r.k EXCEPT !.currentAddress = r.pc, !.enterISR = FALSE],
                          IF left THEN "GETNEXTINSTRUCTION" ELSE "RETIREMESSAGE")
              /\ traceType' = r.type
  BY Zenon DEF NextInst
<1> DEFINE r    == NextAddr(K, traceType, nm.tcode, taken)
           left == CurrentCountType(r.k.cnt) # "none"
           k    == [r.k EXCEPT !.currentAddress = r.pc, !.enterISR = FALSE]
           s    == IF left THEN "GETNEXTINSTRUCTION" ELSE "RETIREMESSAGE"
<1>4. /\ CoreOK(r.k) /\ r.pc \in Int /\ r.type \in {"BTM", "HTM"}
      /\ r.brFlag = "unknown" => ~Outcomes(K.cnt)
  BY <1>1, <1>2, NextAddrType
<1>5. \/ Fail /\ UNCHANGED traceType
      \/ r.brFlag = "unknown" /\ Continue(K, "RETIREMESSAGE") /\ traceType' = r.type
      \/ Continue(k, s) /\ traceType' = r.type
  BY <1>3
<1> HIDE DEF r
<1>6. CoreOK(k) /\ k.cnt = r.k.cnt
  BY <1>4 DEF CoreOK, CoreState
<1>7. s \in {"GETNEXTINSTRUCTION", "RETIREMESSAGE"} /\ (s = "RETIREMESSAGE" => ~Outcomes(k.cnt))
  BY <1>4, <1>6, CountTypeMeaning DEF CoreOK, CoreState
<1> HIDE DEF k, s
<1>8. CASE Fail /\ UNCHANGED traceType
  BY <1>1, <1>2, <1>8, FailStep
<1>9. CASE r.brFlag = "unknown" /\ Continue(K, "RETIREMESSAGE") /\ traceType' = r.type
  BY <1>1, <1>2, <1>4, <1>9, ContinueStep
<1>10. CASE Continue(k, s) /\ traceType' = r.type
  BY <1>1, <1>2, <1>4, <1>6, <1>7, <1>10, ContinueStep
<1> QED
  BY <1>5, <1>8, <1>9, <1>10

\* Retiring the message.
LEMMA RetireInv ==
  ASSUME IInv, RetireMessage \/ RetireCorrelation
  PROVE  IInv'
<1>1. /\ K.state = "RETIREMESSAGE" /\ UNCHANGED <<nm, currentCore, traceType>>
  BY DEF RetireMessage, RetireCorrelation, InState, Silent
<1>2. CoreOK(K) /\ nm \in Message /\ ~Outcomes(K.cnt) /\ traceType \in {"BTM", "HTM"}
  BY <1>1, CurrentCore
<1>3. CASE RetireMessage
  <2> DEFINE r == ProcessTraceMessage(nm, K)
             e == r.k.enterISR \/ EntersISR(nm)
             k == [r.k EXCEPT !.enterISR = e]
  <2>1. MessageResult(r, K)
    BY <1>2, ProcessTraceMessageType
  <2>2. Finish(k, "GETNEXTMSG")
    BY <1>3 DEF RetireMessage
  <2> HIDE DEF r
  <2>5. e \in BOOLEAN
    OBVIOUS
  <2> HIDE DEF e
  <2>3. CoreOK(k) /\ k.cnt = r.k.cnt
    BY <2>1, <2>5 DEF MessageResult, CoreOK, CoreState
  <2>4. ~Outcomes(k.cnt)
    BY <1>2, <2>1, <2>3 DEF MessageResult
  <2> HIDE DEF k
  <2> QED
    BY <1>1, <2>2, <2>3, <2>4, FinishStep DEF DecoderState
<1>4. CASE RetireCorrelation
  <2> DEFINE t == Stamp(nm, K)
             k == [t EXCEPT !.state = "GETFIRSTSYNCMSG"]
  <2>1. Become(k) /\ readNewTraceMessage' = TRUE /\ UNCHANGED status
    BY <1>4 DEF RetireCorrelation
  <2>2. CoreOK(t)
    BY <1>2, StampType
  <2> HIDE DEF t
  <2>3. GoodStep(k)
    BY <2>2 DEF GoodStep, CoreOK, CoreState, DecoderState
  <2>4. status \in {"OK", "EOF", "ERR"}
    BY CurrentCore
  <2> HIDE DEF k
  <2> QED
    BY <1>1, <1>2, <2>1, <2>3, <2>4, CoreStep
<1> QED
  BY <1>3, <1>4
-----------------------------------------------------------------------------
(* The theorems.                                                           *)

\* The decoder starts with one message in work, and none of it left.
LEMMA InitInv == Init => IInv
<1> SUFFICES ASSUME Init PROVE IInv
  OBVIOUS
<1>1. NewCore \in CoreState /\ Len(NewCore.stack) <= StackSize
      /\ NewCore.state = "GETFIRSTSYNCMSG"
  <2>1. NoCounts \in Count
    BY CountsAssumption DEF NoCounts, Count
  <2>2. EmptyStack \in Seq(Nat) /\ Len(EmptyStack) <= StackSize
    BY CountsAssumption DEF EmptyStack
  <2>3. 0 \in Word
    BY Words
  <2> QED
    BY <2>1, <2>2, <2>3 DEF NewCore, CoreState, DecoderState
<1>2. NoMsg \in Message /\ NoMsg.core = 0 /\ HistoryFits(NoMsg.history)
  <2>1. 0 \in Word /\ 0 \in Core
    BY DecoderAssumption
  <2> QED
    BY <2>1 DEF NoMsg, Message, HistoryFits, TCode, ICTReason, NoTs
<1>3. TypeOK
  BY <1>1, <1>2, DecoderAssumption DEF Init, TypeOK
<1> QED
  BY <1>1, <1>2, <1>3 DEF Init, IInv, OneMessageInWork

\* Every step keeps the invariant.
LEMMA NextInv == IInv /\ [Next]_vars => IInv'
<1> SUFFICES ASSUME IInv, [Next]_vars PROVE IInv'
  OBVIOUS
<1>1. ASSUME NEW m \in Msgs, Read(m) PROVE IInv'
  BY <1>1, ReadStepInv, DecoderAssumption
<1>2. ASSUME NEW result \in {"EOF", "ERR"}, ReadFails(result) PROVE IInv'
  BY <1>2, ReadFailsInv
<1>3. CASE Decode
  BY <1>3, FirstInv, GetMsgInv, CountsExhaustedInv, NextInstInv, RetireInv DEF Decode
<1>4. CASE UNCHANGED vars
  BY <1>4 DEF vars, IInv, TypeOK, OneMessageInWork, HistoryFits, HighestOne
<1> QED
  BY <1>1, <1>2, <1>3, <1>4 DEF Next

\* The invariant holds of every behaviour of the decoder.
LEMMA Invariance == Spec => []IInv
BY InitInv, NextInv, PTL DEF Spec

\* The state of the decoder is always what its declarations say; its return
\* stacks never exceed their size.
THEOREM TypeCorrect == Spec => []TypeOK
<1>1. IInv => TypeOK
  BY DEF IInv
<1> QED
  BY <1>1, Invariance, PTL

\* Whatever messages come in whatever order from however many cores, only the
\* core of the one shared message is in work, and with a message with counts:
\* the error branches of the retire state are dead code.
THEOREM OneMessage == Spec => []OneMessageInWork
<1>1. IInv => OneMessageInWork
  BY DEF IInv
<1> QED
  BY <1>1, Invariance, PTL

\* No branch outcome is ever left when a core asks for a message: setHistory,
\* setTakenCount and setNotTakenCount never find "counts still left".
THEOREM OutcomesAreUsedUp == Spec => []OutcomesUsedUp
<1>1. IInv => OutcomesUsedUp
  BY DEF IInv, OutcomesUsedUp
<1> QED
  BY <1>1, Invariance, PTL
-----------------------------------------------------------------------------
(* Time.                                                                   *)

\* The formula of TimeNeverGoesBack, for one step.
TimeStep ==
  \A c \in Core : core'[c].lastTime < core[c].lastTime =>
    c = currentCore /\ nm.tcode = "ERROR" /\ core'[c].lastTime = 0

\* It holds when it holds of the record that the current core becomes.
LEMMA TimeOfBecome ==
  ASSUME IInv, NEW k, k.lastTime \in Nat, Become(k),
         k.lastTime >= K.lastTime \/ (nm.tcode = "ERROR" /\ k.lastTime = 0)
  PROVE  TimeStep
<1>1. currentCore \in Core /\ core \in [Core -> CoreState]
  BY DEF IInv, TypeOK
<1>2. core'[currentCore] = k /\ \A c \in Core : c # currentCore => core'[c] = core[c]
  BY <1>1 DEF Become
<1>3. \A c \in Core : core[c].lastTime \in Nat
  BY <1>1 DEF CoreState
<1> QED
  BY <1>1, <1>2, <1>3 DEF TimeStep, K

\* Failing, and staying with the time, keep it.
LEMMA TimeOfHandlers ==
  ASSUME IInv
  PROVE  /\ Fail => TimeStep
         /\ \A k, s : CoreOK(k) /\ Finish(k, s) /\ k.lastTime >= K.lastTime => TimeStep
         /\ \A k, s : CoreOK(k) /\ Continue(k, s) /\ k.lastTime = K.lastTime => TimeStep
<1>1. CoreOK(K) /\ K.lastTime \in Nat
  BY CurrentCore DEF CoreOK, CoreState
<1>2. ASSUME NEW k, CoreOK(k), NEW s, Become([k EXCEPT !.state = s]), k.lastTime >= K.lastTime
      PROVE  TimeStep
  <2> DEFINE j == [k EXCEPT !.state = s]
  <2>1. j.lastTime = k.lastTime /\ k.lastTime \in Nat
    BY <1>2 DEF CoreOK, CoreState
  <2>2. Become(j)
    BY <1>2
  <2> HIDE DEF j
  <2> QED
    BY <1>2, <2>1, <2>2, TimeOfBecome
<1>3. K.lastTime >= K.lastTime
  BY <1>1
<1> QED
  BY <1>1, <1>2, <1>3 DEF Fail, Finish, Continue

\* Time before the first sync.
LEMMA TimeOfFirst ==
  ASSUME IInv, FirstSync \/ FirstSyncICT \/ FirstSkip \/ FirstError \/ FirstRefuse
  PROVE  TimeStep
<1> DEFINE r == ProcessTraceMessage(nm, K)
<1>1. CoreOK(K) /\ nm \in Message /\ K.lastTime \in Nat
  BY CurrentCore DEF CoreOK, CoreState
<1>2. CoreOK(r.k) /\ r.k.lastTime >= K.lastTime
  BY <1>1, ProcessTraceMessageType DEF MessageResult
<1> HIDE DEF r
<1>3. CASE FirstSync
  BY <1>2, <1>3, TimeOfHandlers DEF FirstSync, r
<1>4. CASE FirstSyncICT
  <2> DEFINE k == [r.k EXCEPT !.currentAddress = IF @ = 0 THEN r.k.lastFaddr ELSE @]
             s == IF nm.cksrc = "CONTROL" /\ nm.ckdf = 0
                  THEN "GETFIRSTSYNCMSG" ELSE "GETMSGWITHCOUNT"
  <2>1. Fail \/ Finish(k, s)
    BY <1>4 DEF FirstSyncICT, r
  <2>2. CoreOK(k) /\ k.lastTime = r.k.lastTime
    BY <1>2, Words DEF CoreOK, CoreState
  <2> HIDE DEF k, s
  <2> QED
    BY <1>2, <2>1, <2>2, TimeOfHandlers
<1>5. CASE FirstSkip
  <2> DEFINE k == IF nm.tcode = "DATA_ACQUISITION" THEN r.k
                  ELSE IF nm.ts = 0 THEN K ELSE Stamp(nm, K)
  <2>1. Finish(k, "GETFIRSTSYNCMSG")
    BY <1>5 DEF FirstSkip, r
  <2>2. CoreOK(k) /\ k.lastTime >= K.lastTime
    BY <1>1, <1>2, StampType
  <2> HIDE DEF k
  <2> QED
    BY <2>1, <2>2, TimeOfHandlers
<1>6. CASE FirstError
  <2> DEFINE k == [K EXCEPT !.lastTime = 0]
             j == [k EXCEPT !.state = "GETFIRSTSYNCMSG"]
  <2>1. Become(j) /\ nm.tcode = "ERROR"
    BY <1>6 DEF FirstError, Finish
  <2>2. j.lastTime = 0
    BY <1>1 DEF CoreOK, CoreState
  <2> HIDE DEF j
  <2> QED
    BY <2>1, <2>2, TimeOfBecome
<1>7. CASE FirstRefuse
  BY <1>7, TimeOfHandlers DEF FirstRefuse
<1> QED
  BY <1>3, <1>4, <1>5, <1>6, <1>7

\* Time between messages.
LEMMA TimeOfGetMsg ==
  ASSUME IInv, GetMsgWithCount \/ GetNextMsg
  PROVE  TimeStep
<1> DEFINE r == ProcessTraceMessage(nm, K)
<1>1. CoreOK(K) /\ nm \in Message /\ K.lastTime \in Nat /\ K.cnt \in Count /\ CountFields(nm)
  BY CurrentCore DEF CoreOK, CoreState
<1>2. CoreOK(r.k) /\ r.k.lastTime >= K.lastTime /\ r.k.lastTime \in Nat
  BY <1>1, ProcessTraceMessageType DEF MessageResult, CoreOK, CoreState
<1> HIDE DEF r
<1>3. ASSUME NEW base \in Count, TakeCounts(base) PROVE TimeStep
  <2> DEFINE t == SetCounts(base, nm)
             k == [K EXCEPT !.cnt = t.c]
  <2>1. t.c \in Count
    BY <1>1, SetCountsType
  <2>2. Fail \/ Continue(k, "GETNEXTINSTRUCTION")
    BY <1>3 DEF TakeCounts
  <2> HIDE DEF t
  <2>3. CoreOK(k) /\ k.lastTime = K.lastTime
    BY <1>1, <2>1 DEF CoreOK, CoreState
  <2> HIDE DEF k
  <2> QED
    BY <2>2, <2>3, TimeOfHandlers
<1>4. CASE RetireICT
  <2>1. Fail \/ Become(r.k)
    BY <1>4 DEF RetireICT, r
  <2> QED
    BY <1>2, <2>1, TimeOfHandlers, TimeOfBecome
<1>5. CASE LoseTrace
  <2> DEFINE a == At(K, 0)
             k == [a EXCEPT !.lastTime = 0, !.state = "GETFIRSTSYNCMSG"]
  <2>1. Become(k) /\ nm.tcode = "ERROR"
    BY <1>5 DEF LoseTrace
  <2>2. CoreOK(a)
    BY <1>1, Words, AtType
  <2> HIDE DEF a
  <2>3. k.lastTime = 0
    BY <2>2 DEF CoreOK, CoreState
  <2> HIDE DEF k
  <2> QED
    BY <2>1, <2>3, TimeOfBecome
<1>6. CASE RetireOther
  BY <1>2, <1>6, TimeOfHandlers DEF RetireOther, r
<1>7. CASE Refuse
  BY <1>7, TimeOfHandlers DEF Refuse
<1>8. K.cnt \in Count /\ ResetCounts(K.cnt) \in Count
  BY <1>1, ResetCountsType
<1> QED
  BY <1>3, <1>4, <1>5, <1>6, <1>7, <1>8 DEF GetMsgWithCount, GetNextMsg

\* Time while instructions are returned.
LEMMA TimeOfInstructions ==
  ASSUME IInv, CountsExhausted \/ NoInstructionThere \/ NextInst
  PROVE  TimeStep
<1>1. CoreOK(K) /\ traceType \in {"BTM", "HTM"}
  BY CurrentCore
<1>2. CASE CountsExhausted
  BY <1>1, <1>2, TimeOfHandlers DEF CountsExhausted
<1>3. CASE NoInstructionThere
  BY <1>3, TimeOfHandlers DEF NoInstructionThere
<1>4. CASE NextInst
  <2>1. PICK taken \in HistoryTaken(K.cnt) :
          LET r    == NextAddr(K, traceType, nm.tcode, taken)
              left == CurrentCountType(r.k.cnt) # "none"
          IN \/ Fail \/ Continue(K, "RETIREMESSAGE")
             \/ Continue([r.k EXCEPT !.currentAddress = r.pc, !.enterISR = FALSE],
                         IF left THEN "GETNEXTINSTRUCTION" ELSE "RETIREMESSAGE")
    BY <1>4, Zenon DEF NextInst
  <2> DEFINE r == NextAddr(K, traceType, nm.tcode, taken)
             k == [r.k EXCEPT !.currentAddress = r.pc, !.enterISR = FALSE]
  <2>2. K.currentAddress \in DOMAIN Code
    BY <1>4 DEF NextInst
  <2>3. CoreOK(r.k) /\ r.pc \in Int /\ r.k.lastTime = K.lastTime
    BY <1>1, <2>2, NextAddrType
  <2>4. Fail \/ Continue(K, "RETIREMESSAGE") \/ \E s : Continue(k, s)
    BY <2>1
  <2> HIDE DEF r
  <2>5. CoreOK(k) /\ k.lastTime = K.lastTime
    BY <2>3 DEF CoreOK, CoreState
  <2> HIDE DEF k
  <2> QED
    BY <1>1, <2>4, <2>5, TimeOfHandlers
<1> QED
  BY <1>2, <1>3, <1>4

\* Time when the message is retired.
LEMMA TimeOfRetire ==
  ASSUME IInv, RetireMessage \/ RetireCorrelation
  PROVE  TimeStep
<1>1. CoreOK(K) /\ nm \in Message
  BY CurrentCore
<1>2. CASE RetireMessage
  <2> DEFINE r == ProcessTraceMessage(nm, K)
             e == r.k.enterISR \/ EntersISR(nm)
             k == [r.k EXCEPT !.enterISR = e]
  <2>1. CoreOK(r.k) /\ r.k.lastTime >= K.lastTime
    BY <1>1, ProcessTraceMessageType DEF MessageResult
  <2>2. Finish(k, "GETNEXTMSG")
    BY <1>2 DEF RetireMessage
  <2>3. e \in BOOLEAN
    OBVIOUS
  <2> HIDE DEF r, e
  <2>4. CoreOK(k) /\ k.lastTime = r.k.lastTime
    BY <2>1, <2>3 DEF CoreOK, CoreState
  <2> HIDE DEF k
  <2> QED
    BY <2>1, <2>2, <2>4, TimeOfHandlers
<1>3. CASE RetireCorrelation
  <2> DEFINE t == Stamp(nm, K)
             k == [t EXCEPT !.state = "GETFIRSTSYNCMSG"]
  <2>1. Become(k)
    BY <1>3 DEF RetireCorrelation
  <2>2. CoreOK(t) /\ t.lastTime >= K.lastTime
    BY <1>1, StampType
  <2> HIDE DEF t
  <2>3. k.lastTime = t.lastTime /\ k.lastTime \in Nat
    BY <2>2 DEF CoreOK, CoreState
  <2> HIDE DEF k
  <2> QED
    BY <2>1, <2>2, <2>3, TimeOfBecome
<1> QED
  BY <1>2, <1>3

\* The time of a core never goes back, whatever the width of the target's
\* counter and whatever wraps it went through, unless messages were lost.
THEOREM TimeIsMonotonic == Spec => TimeNeverGoesBack
<1>1. ASSUME IInv, [Next]_vars PROVE TimeStep
  <2>1. \A c \in Core : core[c].lastTime \in Nat
    BY <1>1 DEF IInv, TypeOK, CoreState
  <2>2. ASSUME NEW m \in Msgs, Read(m) PROVE TimeStep
    <3>1. \A c \in Core : core'[c].lastTime = core[c].lastTime
      <4>1. core \in [Core -> CoreState]
        BY <1>1 DEF IInv, TypeOK
      <4> DEFINE j == [core[m.core] EXCEPT !.state = "ERROR"]
      <4>2. core' = core \/ core' = [core EXCEPT ![m.core] = j]
        BY <2>2 DEF Read
      <4>3. j.lastTime = core[m.core].lastTime
        <5>1. m.core \in Core
          BY <2>2, DecoderAssumption DEF Message
        <5> QED
          BY <4>1, <5>1 DEF CoreState
      <4> HIDE DEF j
      <4> QED
        BY <4>1, <4>2, <4>3 DEF CoreState
    <3> QED
      BY <2>1, <3>1 DEF TimeStep
  <2>3. ASSUME NEW result \in {"EOF", "ERR"}, ReadFails(result) PROVE TimeStep
    <3>1. \A c \in Core : core'[c].lastTime = core[c].lastTime
      BY <1>1, <2>3 DEF IInv, TypeOK, CoreState, ReadFails, Become, K
    <3> QED
      BY <2>1, <3>1 DEF TimeStep
  <2>4. CASE Decode
    BY <1>1, <2>4, TimeOfFirst, TimeOfGetMsg, TimeOfInstructions, TimeOfRetire DEF Decode
  <2>5. CASE UNCHANGED vars
    BY <2>1, <2>5 DEF vars, TimeStep
  <2> QED
    BY <1>1, <2>2, <2>3, <2>4, <2>5 DEF Next
<1>2. IInv /\ [Next]_vars => [TimeStep]_vars
  BY <1>1
<1> QED
  BY <1>2, Invariance, PTL DEF Spec, TimeNeverGoesBack, TimeStep
-----------------------------------------------------------------------------
(* What a retired message leaves behind.                                   *)

\* k waits at a branch of a history trace whose outcome is still to come.
Waits(k) ==
  /\ traceType = "HTM"
  /\ CurrentCountType(k.cnt) = "i_cnt"
  /\ k.currentAddress \in DOMAIN Code
  /\ Code[k.currentAddress].type \in BranchTypes

RetiresClean ==
  \A c \in Core : core[c].state = "RETIREMESSAGE" =>
    CurrentCountType(core[c].cnt) = "none" \/ Waits(core[c])

\* A message leaves the counts of its core alone or resets them.
LEMMA ProcessTraceMessageCounts ==
  ASSUME NEW m \in Message, NEW k0, CoreOK(k0)
  PROVE  ProcessTraceMessage(m, k0).k.cnt \in {k0.cnt, ResetCounts(k0.cnt)}
<1> DEFINE k == Stamp(m, k0)
<1>1. CoreOK(k) /\ k.cnt = k0.cnt
  BY StampType DEF CoreOK, CoreState
<1> HIDE DEF k
<1>2. \A a : At(k, a).cnt = k.cnt
  BY <1>1 DEF At, CoreOK, CoreState
<1>3. \A a : SyncAt(k, a).cnt = ResetCounts(k.cnt)
  <2> TAKE a
  <2> DEFINE j == At(k, a)
  <2>1. j.cnt = k.cnt /\ SyncAt(k, a) = [j EXCEPT !.cnt = ResetCounts(@), !.stack = EmptyStack]
    BY <1>2 DEF SyncAt
  <2>2. j = [k EXCEPT !.lastFaddr = a, !.currentAddress = a]
    BY DEF At
  <2>3. DOMAIN j = DOMAIN k /\ "cnt" \in DOMAIN k
    BY <1>1, <2>2 DEF CoreOK, CoreState
  <2> HIDE DEF j
  <2> QED
    BY <2>1, <2>3
<1>4. ProcessICT(m, k).k.cnt = k.cnt
  <2> DEFINE a == IF m.tcode = "INCIRCUITTRACE_WS" THEN m.addr ELSE XorOf[k.lastFaddr, m.addr]
             j == [k EXCEPT !.lastFaddr = a]
             l == [k EXCEPT !.currentAddress = a, !.lastFaddr = XorOf[a, m.data]]
  <2>1. ProcessICT(m, k).k \in {k, At(k, a), j, l}
    BY DEF ProcessICT, Good, Bad, a
  <2>2. j.cnt = k.cnt /\ l.cnt = k.cnt
    BY <1>1 DEF CoreOK, CoreState
  <2> HIDE DEF a, j, l
  <2> QED
    BY <1>2, <2>1, <2>2
<1> DEFINE x == XorOf[k.lastFaddr, m.addr]
<1>5. ProcessTraceMessage(m, k0)
        \in {Good(k), Bad(k), Good(At(k, 0)), Good(At(k, x)), Good(SyncAt(k, m.addr)),
             ProcessICT(m, k)}
  BY DEF ProcessTraceMessage, k
<1> HIDE DEF x
<1>6. ProcessTraceMessage(m, k0).k
        \in {k, At(k, 0), At(k, x), SyncAt(k, m.addr), ProcessICT(m, k).k}
  BY <1>5 DEF Good, Bad
<1> QED
  BY <1>1, <1>2, <1>3, <1>4, <1>6

\* Only these steps leave a core that is retiring a message.
LEMMA WhoRetires ==
  ASSUME IInv, IInv', Next, NEW c \in Core, core'[c].state = "RETIREMESSAGE"
  PROVE  c = currentCore /\ (CountsExhausted \/ NextInst)
<1>1. c = currentCore' /\ readNewTraceMessage' = FALSE
  BY DEF IInv, OneMessageInWork, TypeOK
<1>2. currentCore \in Core /\ core \in [Core -> CoreState] /\ K \in CoreState
  BY DEF IInv, TypeOK, K
<1>3. ASSUME NEW k, Become(k), currentCore' = currentCore
      PROVE  k.state = "RETIREMESSAGE"
  BY <1>1, <1>2, <1>3 DEF Become
<1>4. ASSUME Fail, currentCore' = currentCore PROVE FALSE
  <2> DEFINE k == [K EXCEPT !.state = "ERROR"]
  <2>1. Become(k)
    BY <1>4 DEF Fail
  <2>2. k.state = "ERROR"
    BY <1>2 DEF CoreState
  <2> HIDE DEF k
  <2> QED
    BY <1>3, <1>4, <2>1, <2>2
<1>5. ASSUME NEW m \in Msgs, Read(m) PROVE FALSE
  <2>1. readNewTraceMessage /\ core' \in {core, [core EXCEPT ![m.core].state = "ERROR"]}
        /\ m.core \in Core
    <3>1. readNewTraceMessage /\ core' \in {core, [core EXCEPT ![m.core].state = "ERROR"]}
      BY <1>5 DEF Read
    <3>2. m \in Message
      BY DecoderAssumption
    <3>3. m.core \in Core
      BY <3>2 DEF Message
    <3> QED
      BY <3>1, <3>3
  <2>2. core[c].state # "RETIREMESSAGE"
    BY <2>1 DEF IInv, OneMessageInWork
  <2>3. core'[c].state \in {core[c].state, "ERROR"}
    BY <1>2, <2>1 DEF CoreState
  <2> QED
    BY <2>2, <2>3
<1>6. ASSUME NEW result \in {"EOF", "ERR"}, ReadFails(result) PROVE FALSE
  BY <1>1, <1>6 DEF ReadFails
<1>7. CASE FirstSync \/ FirstSyncICT \/ FirstSkip \/ FirstError \/ FirstRefuse
  <2>1. currentCore' = currentCore /\ (Fail \/ readNewTraceMessage' = TRUE)
    BY <1>7
      DEF FirstSync, FirstSyncICT, FirstSkip, FirstError, FirstRefuse, Finish, Silent
  <2> QED
    BY <1>1, <1>4, <2>1
<1>8. ASSUME NEW base, TakeCounts(base) PROVE FALSE
  <2> DEFINE j == [K EXCEPT !.cnt = SetCounts(base, nm).c]
             k == [j EXCEPT !.state = "GETNEXTINSTRUCTION"]
  <2>1. currentCore' = currentCore /\ (Fail \/ Become(k))
    BY <1>8 DEF TakeCounts, Continue, Silent
  <2>2. k.state = "GETNEXTINSTRUCTION"
    BY <1>2 DEF CoreState
  <2> HIDE DEF k
  <2> QED
    BY <1>3, <1>4, <2>1, <2>2
<1>9. CASE GetMsgWithCount \/ GetNextMsg
  <2>1. currentCore' = currentCore
        /\ \/ \E base : TakeCounts(base)
           \/ Fail \/ readNewTraceMessage' = TRUE
    BY <1>9
      DEF GetMsgWithCount, GetNextMsg, TakeCounts, RetireICT, LoseTrace, RetireOther, Refuse,
          Finish, Silent
  <2> QED
    BY <1>1, <1>4, <1>8, <2>1
<1>10. CASE NoInstructionThere
  BY <1>4, <1>10 DEF NoInstructionThere, Silent
<1>11. CASE RetireMessage \/ RetireCorrelation
  <2>1. readNewTraceMessage' = TRUE
    BY <1>11 DEF RetireMessage, RetireCorrelation, Finish
  <2> QED
    BY <1>1, <2>1
<1>12. CASE CountsExhausted
  BY <1>1, <1>12 DEF CountsExhausted, Silent
<1>13. CASE NextInst
  <2>1. UNCHANGED <<nm, currentCore>>
    BY <1>13, Zenon DEF NextInst
  <2> QED
    BY <1>1, <1>13, <2>1
<1> QED
  BY <1>5, <1>6, <1>7, <1>9, <1>10, <1>11, <1>12, <1>13 DEF Next, Decode

\* A branch that has to wait has only an instruction count left, and it is one
\* of a history trace, which it stays.
LEMMA NextAddrWaits ==
  ASSUME NEW k, NEW tt, NEW tcode, NEW taken,
         NextAddr(k, tt, tcode, taken).brFlag = "unknown"
  PROVE  /\ Code[k.currentAddress].type \in BranchTypes
         /\ tt = "HTM" /\ NextAddr(k, tt, tcode, taken).type = "HTM"
         /\ CurrentCountType(k.cnt) = "i_cnt"
<1> DEFINE i    == Code[k.currentAddress]
           b    == IF i.type \notin BranchTypes THEN [br |-> "none", cnt |-> k.cnt]
                   ELSE IF tt = "HTM" THEN HistoryBranch(k.cnt, taken)
                   ELSE BranchTraceBranch(k.cnt, i, tcode)
<1>1. /\ NextAddr(k, tt, tcode, taken).brFlag = b.br
      /\ NextAddr(k, tt, tcode, taken).type = TypeAfter(tt, i, k.cnt)
  BY DEF NextAddr
<1>2. i.type \in BranchTypes /\ tt = "HTM"
  BY <1>1 DEF BranchTraceBranch
<1>3. HistoryBranch(k.cnt, taken).br = "unknown"
  BY <1>1, <1>2
<1>4. CurrentCountType(k.cnt) = "i_cnt"
  BY <1>3 DEF HistoryBranch
<1>5. TypeAfter(tt, i, k.cnt) = "HTM"
  BY <1>2 DEF TypeAfter
<1> QED
  BY <1>1, <1>2, <1>4, <1>5

\* A core gets to retire a message with no count left, or waiting at a branch.
LEMMA RetiresCleanStep ==
  ASSUME IInv, IInv', RetiresClean, [Next]_vars
  PROVE  RetiresClean'
<1>1. CASE UNCHANGED vars
  BY <1>1 DEF vars, RetiresClean, Waits
<1>2. CASE Next
  <2> SUFFICES ASSUME NEW c \in Core, core'[c].state = "RETIREMESSAGE"
               PROVE  CurrentCountType(core'[c].cnt) = "none" \/ Waits(core[c])'
    BY DEF RetiresClean
  <2>1. c = currentCore /\ (CountsExhausted \/ NextInst)
    BY <1>2, WhoRetires
  <2>2. core \in [Core -> CoreState] /\ K \in CoreState /\ CoreOK(K)
        /\ traceType \in {"BTM", "HTM"}
    BY CurrentCore DEF IInv, TypeOK, K
  <2>3. CASE CountsExhausted
    <3> DEFINE k == [K EXCEPT !.state = "RETIREMESSAGE"]
    <3>1. Become(k) /\ CurrentCountType(K.cnt) = "none"
      BY <2>3 DEF CountsExhausted, Continue
    <3>2. k.cnt = K.cnt
      BY <2>2 DEF CoreState
    <3> HIDE DEF k
    <3> QED
      BY <2>1, <2>2, <3>1, <3>2 DEF Become
  <2>4. CASE NextInst
    <3>1. K.currentAddress \in DOMAIN Code
      BY <2>4 DEF NextInst
    <3>2. PICK taken \in HistoryTaken(K.cnt) :
            LET r    == NextAddr(K, traceType, nm.tcode, taken)
                left == CurrentCountType(r.k.cnt) # "none"
            IN \/ Fail
               \/ r.brFlag = "unknown" /\ Continue(K, "RETIREMESSAGE") /\ traceType' = r.type
               \/ Continue([r.k EXCEPT !.currentAddress = r.pc, !.enterISR = FALSE],
                           IF left THEN "GETNEXTINSTRUCTION" ELSE "RETIREMESSAGE")
      BY <2>4, Zenon DEF NextInst
    <3> DEFINE r    == NextAddr(K, traceType, nm.tcode, taken)
               left == CurrentCountType(r.k.cnt) # "none"
               j    == [r.k EXCEPT !.currentAddress = r.pc, !.enterISR = FALSE]
               k    == [j EXCEPT !.state = IF left THEN "GETNEXTINSTRUCTION"
                                           ELSE "RETIREMESSAGE"]
               w    == [K EXCEPT !.state = "RETIREMESSAGE"]
    <3>3. \/ Become([K EXCEPT !.state = "ERROR"])
          \/ r.brFlag = "unknown" /\ Become(w) /\ traceType' = r.type
          \/ Become(k)
      BY <3>2 DEF Fail, Continue
    <3>4. CoreOK(r.k)
      BY <2>2, <3>1, NextAddrType
    <3>5. r.brFlag = "unknown" =>
            /\ Code[K.currentAddress].type \in BranchTypes
            /\ r.type = "HTM" /\ CurrentCountType(K.cnt) = "i_cnt"
      BY NextAddrWaits
    <3> HIDE DEF r
    <3>6. /\ k.cnt = r.k.cnt
          /\ k.state = IF left THEN "GETNEXTINSTRUCTION" ELSE "RETIREMESSAGE"
      BY <3>4 DEF CoreOK, CoreState
    <3>7. w.cnt = K.cnt /\ w.currentAddress = K.currentAddress
      BY <2>2 DEF CoreState
    <3>8. [K EXCEPT !.state = "ERROR"].state = "ERROR"
      BY <2>2 DEF CoreState
    <3>9. ASSUME NEW x, Become(x) PROVE core'[c] = x
      BY <2>1, <2>2, <3>9 DEF Become, IInv, TypeOK
    <3>10. CASE Become([K EXCEPT !.state = "ERROR"])
      BY <3>8, <3>9, <3>10
    <3> HIDE DEF k, w
    <3>11. CASE Become(k)
      BY <3>6, <3>9, <3>11
    <3>12. CASE r.brFlag = "unknown" /\ Become(w) /\ traceType' = r.type
      BY <3>1, <3>5, <3>7, <3>9, <3>12 DEF Waits
    <3> QED
      BY <3>3, <3>10, <3>11, <3>12
  <2> QED
    BY <2>1, <2>3, <2>4
<1> QED
  BY <1>1, <1>2

\* The formula of LeftoverIsABranch, for one step.
LeftoverStep ==
  \A c \in Core :
    /\ core[c].state = "RETIREMESSAGE"
    /\ core'[c].state = "GETNEXTMSG"
    /\ CurrentCountType(core'[c].cnt) # "none"
    => /\ traceType = "HTM"
       /\ CurrentCountType(core'[c].cnt) = "i_cnt"
       /\ core[c].currentAddress \in DOMAIN Code
       /\ Code[core[c].currentAddress].type \in BranchTypes

\* A retired message leaves no count behind but that of a branch, in a history
\* trace, that waits for its outcome, whatever messages come in whatever order.
THEOREM OnlyABranchIsLeftOver == Spec => LeftoverIsABranch
<1>1. ASSUME IInv, RetiresClean, [Next]_vars PROVE LeftoverStep
  <2> SUFFICES ASSUME NEW c \in Core, core[c].state = "RETIREMESSAGE",
                      core'[c].state = "GETNEXTMSG",
                      CurrentCountType(core'[c].cnt) # "none"
               PROVE  Waits(core[c]) /\ core'[c].cnt = core[c].cnt
    BY DEF LeftoverStep, Waits
  <2>1. core \in [Core -> CoreState] /\ c = currentCore /\ ~readNewTraceMessage
        /\ core[c] = K /\ K.state = "RETIREMESSAGE" /\ CoreOK(K) /\ nm \in Message
    BY <1>1, CurrentCore DEF IInv, TypeOK, OneMessageInWork, K
  <2>2. RetireMessage \/ RetireCorrelation
    BY <1>1, <2>1
      DEF Next, Decode, Read, ReadFails, FirstSync, FirstSyncICT, FirstSkip, FirstError,
          FirstRefuse, GetMsgWithCount, GetNextMsg, CountsExhausted, NoInstructionThere, NextInst,
          InState, vars
  <2>3. ASSUME NEW k, Become(k) PROVE core'[c] = k
    BY <2>1, <2>3 DEF Become
  <2>4. ~RetireCorrelation
    <3> DEFINE k == [Stamp(nm, K) EXCEPT !.state = "GETFIRSTSYNCMSG"]
    <3>1. RetireCorrelation => Become(k)
      BY DEF RetireCorrelation
    <3>2. k.state = "GETFIRSTSYNCMSG"
      BY <2>1, StampType DEF CoreOK, CoreState
    <3> HIDE DEF k
    <3> QED
      BY <2>3, <3>1, <3>2
  <2>5. RetireMessage
    BY <2>2, <2>4
  <2> DEFINE r == ProcessTraceMessage(nm, K)
             e == r.k.enterISR \/ EntersISR(nm)
             j == [r.k EXCEPT !.enterISR = e]
             k == [j EXCEPT !.state = "GETNEXTMSG"]
  <2>6. Become(k)
    BY <2>5 DEF RetireMessage, Finish
  <2>7. CoreOK(r.k) /\ r.k.cnt \in {K.cnt, ResetCounts(K.cnt)}
    BY <2>1, ProcessTraceMessageType, ProcessTraceMessageCounts DEF MessageResult
  <2> HIDE DEF r
  <2>8. k.cnt = r.k.cnt
    BY <2>7 DEF CoreOK, CoreState
  <2> HIDE DEF k
  <2>9. core'[c].cnt = r.k.cnt
    BY <2>3, <2>6, <2>8
  <2>10. CurrentCountType(ResetCounts(K.cnt)) = "none"
    <3>1. K.cnt \in Count
      BY <2>1 DEF CoreOK, CoreState
    <3>2. /\ ResetCounts(K.cnt) \in Count /\ ~Outcomes(ResetCounts(K.cnt))
          /\ ResetCounts(K.cnt).i_cnt = 0
      BY <3>1, ResetCountsType
    <3> QED
      BY <3>2, CountTypeMeaning
  <2>11. core'[c].cnt = K.cnt
    BY <2>7, <2>9, <2>10
  <2> QED
    BY <1>1, <2>1, <2>11 DEF RetiresClean
<1>2. Init => RetiresClean
  BY DEF Init, RetiresClean, NewCore
<1>3. IInv /\ IInv' /\ RetiresClean /\ [Next]_vars => RetiresClean'
  BY RetiresCleanStep
<1>4. IInv /\ RetiresClean /\ [Next]_vars => [LeftoverStep]_vars
  BY <1>1
<1> QED
  BY <1>2, <1>3, <1>4, Invariance, PTL DEF Spec, LeftoverIsABranch, LeftoverStep
=============================================================================
