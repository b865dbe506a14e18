-------------------------- MODULE TraceSystemProofs --------------------------
(***************************************************************************)
(* The decoder returns what the cores executed: proofs about TraceSystem,  *)
(* for every program, number of cores and size of the registers.           *)
(*                                                                         *)
(* The invariant follows the instructions that the decoder has still to    *)
(* return.  A path is a sequence of points: each has the address of an     *)
(* instruction, the return stack before it, whether it is a branch that is *)
(* taken, and how many half-words and branches come before it.  The        *)
(* decoder stands at the first point, the core at the last.                *)
(*                                                                         *)
(* SysInv says for each core that such a path exists, that the counts of   *)
(* decoder and encoder together are those of the path (Accounted), that    *)
(* the decoder can follow it without a message but for its last step       *)
(* (Guided), and that the message in work tells that step (EndsPath).  The *)
(* sections take the decoder along a path (StepAlong), the messages to the *)
(* decoder (ReadKeeps), and the cores one point further (RunsFurther).     *)
(***************************************************************************)
EXTENDS TraceSystem, TraceDecoderProofs, Induction, SequenceTheorems

Point == [at: Int, calls: Seq(Nat), taken: BOOLEAN, size: Int, br: Int]

Ins(p) == Code[p.at]
IsBranch(p) == Ins(p).type \in BranchTypes
Returning(p) == CRFlag(Ins(p)) \in {"isReturn", "isSwap"}

\* q is the point after p, at whatever address.
Follows(p, q) ==
  /\ p.at \in DOMAIN Code
  /\ q.calls = StackAfter(p.calls, CRFlag(Ins(p)), p.at + Ins(p).size)
  /\ Len(q.calls) <= StackSize
  /\ q.size = p.size + Ins(p).size
  /\ q.br = p.br + IF IsBranch(p) THEN 1 ELSE 0

\* Where instruction p leads can be told without a message.
Known(mode, p, a) ==
  \/ Ins(p).type = "OTHER" /\ a = p.at + Ins(p).size
  \/ Ins(p).type \in {"JAL", "C_JAL", "C_J"} /\ a = p.at + Ins(p).imm
  \/ /\ IsBranch(p) /\ (mode = "BTM" => ~p.taken)
     /\ a = p.at + IF p.taken THEN Ins(p).imm ELSE Ins(p).size
  \/ /\ Ins(p).type \in IndirectTypes
     /\ IF mode = "HTM" THEN Returning(p) /\ p.calls # <<>> /\ a = Head(p.calls)
        ELSE ~Returning(p) /\ a = p.at + Ins(p).size

\* tr is a path along the instructions q.
Path(q, tr) ==
  /\ tr \in [1..Len(q) + 1 -> Point]
  /\ \A j \in 1..Len(q) : q[j].address = tr[j].at /\ Follows(tr[j], tr[j + 1])

Guided(tr, n) == \A j \in 1..n : Known(traceMode, tr[j], tr[j + 1].at)

\* The outcomes in counts c: how many, and the j-th of them.
NumOut(c) == IF c.histBit >= 0 THEN c.histBit + 1 ELSE IF c.taken > 0 THEN c.taken ELSE c.notTaken
Bit(h, i) == (h \div 2^i) % 2 = 1
OutcomeOf(c, j) == IF c.histBit >= 0 THEN Bit(c.history, c.histBit + 1 - j) ELSE c.taken > 0

OneKind(c) ==
  /\ c.histBit >= 0 => c.taken = 0 /\ c.notTaken = 0
  /\ c.taken > 0 => c.notTaken = 0
  /\ c.histBit < HistMax

\* Outcomes of the path are first those of the counts, then the encoder's.
Outcome(c, hist, j) == IF j <= NumOut(c) THEN OutcomeOf(c, j) ELSE hist[j - NumOut(c)]

\* Counts and outcomes, those of the decoder and those that the encoder has yet
\* to send, are those of the path.
Accounted(c, t, tr, n) ==
  /\ c.i_cnt + t.i_cnt = tr[n + 1].size - tr[1].size
  /\ OneKind(c)
  /\ traceMode = "BTM" => ~Outcomes(c) /\ t.hist = <<>>
  /\ traceMode = "HTM" =>
       /\ NumOut(c) + Len(t.hist) = tr[n + 1].br - tr[1].br
       /\ \A j \in 1..n : IsBranch(tr[j]) =>
            tr[j].taken = Outcome(c, t.hist, tr[j].br - tr[1].br + 1)

\* What was executed, and what an encoder keeps.
Entry == [address: DOMAIN Code, isr: BOOLEAN]
Encoder ==
  [pc: Int, trap: BOOLEAN, mode: {"on", "off", "lost"}, i_cnt: Nat, hist: Seq(BOOLEAN),
   ref: Word, calls: Seq(DOMAIN Code), run: Seq(Entry)]

TargetOK(t) ==
  /\ t \in Encoder
  /\ Len(t.hist) < HistMax /\ Len(t.calls) <= StackSize
  /\ t.mode = "on" => t.pc \in DOMAIN Code

\* Core k, with the instructions P to return, waits for a message of target t.
RestPath(k, P, t, tr) ==
  LET q == P \o t.run
      n == Len(q)
  IN /\ Path(q, tr) /\ Guided(tr, n) /\ Accounted(k.cnt, t, tr, n)
     /\ tr[1].at = k.currentAddress /\ tr[1].calls = k.stack
     /\ tr[n + 1].at = t.pc /\ tr[n + 1].calls = t.calls

AtRest(k, P, t) ==
  /\ t.mode = "on" /\ k.lastFaddr = t.ref
  /\ ~Outcomes(k.cnt)
  /\ k.state = "GETNEXTMSG" \/ (k.state = "GETMSGWITHCOUNT" /\ k.cnt.i_cnt = 0)
  /\ \E tr : RestPath(k, P, t, tr)

IndirectTCodes == {"INDIRECT_BRANCH", "INDIRECTBRANCHHISTORY"}
SyncingTCodes == {"SYNC", "DIRECT_BRANCH_WS", "INDIRECT_BRANCH_WS", "INDIRECTBRANCHHISTORY_WS"}

\* What message m, sent by a core that is now target t, says of the end of a path.
EndsPath(k, m, P, t, tr) ==
  LET n == Len(P)
      here == tr[n + 1].at = t.pc /\ (P = <<>> => k.currentAddress = t.pc)
  IN \/ /\ m.tcode = "DIRECT_BRANCH" /\ traceMode = "BTM" /\ t.mode = "on"
        /\ P # <<>> => /\ IsBranch(tr[n]) /\ tr[n].taken
                       /\ tr[n + 1].at = tr[n].at + Ins(tr[n]).imm
        /\ here /\ tr[n + 1].calls = t.calls /\ t.ref = k.lastFaddr /\ t.i_cnt = 0
     \/ /\ m.tcode = "RESOURCEFULL" /\ traceMode = "HTM" /\ t.mode = "on"
        /\ Guided(tr, n)
        /\ here /\ tr[n + 1].calls = t.calls /\ t.ref = k.lastFaddr
        /\ \/ m.rCode = 0 /\ t.i_cnt = 0
           \/ m.rCode \in {1, 8, 9} /\ t.hist = <<>> /\ (P # <<>> => IsBranch(tr[n]))
     \/ /\ m.tcode \in IndirectTCodes /\ t.mode = "on"
        /\ tr[n + 1].calls = t.calls /\ XorOf[k.lastFaddr, m.addr] = t.pc /\ t.ref = t.pc
        /\ t.i_cnt = 0 /\ t.hist = <<>>
     \/ /\ m.tcode \in SyncingTCodes /\ t.mode = "on"
        /\ m.addr = t.pc /\ t.ref = t.pc /\ t.calls = <<>>
        /\ t.i_cnt = 0 /\ t.hist = <<>>
     \/ /\ m.tcode = "CORRELATION" /\ t.mode = "off"
        /\ t.i_cnt = 0 /\ t.hist = <<>>

\* Core k works on message m, after which its target is t; P is to be returned.
WorkPath(k, m, P, t, tr) ==
  /\ Path(P, tr) /\ Guided(tr, Len(P) - 1) /\ Accounted(k.cnt, t, tr, Len(P))
  /\ P # <<>> => tr[1].at = k.currentAddress
  /\ tr[1].calls = k.stack
  /\ EndsPath(k, m, P, t, tr)

InWork(k, m, P, t) ==
  /\ t.run = <<>>
  /\ ~ShowsHistory(m) => ~Outcomes(k.cnt)
  /\ \E tr : WorkPath(k, m, P, t, tr)

Unsynced(k) == k.state = "GETFIRSTSYNCMSG"
Waiting(k) == k.state \in {"GETMSGWITHCOUNT", "GETNEXTMSG"}

\* Message m lets the decoder start at the core that is now target t.
Starts(m, t) ==
  /\ m.tcode = "SYNC" /\ t.mode = "on"
  /\ m.addr = t.pc /\ t.ref = t.pc /\ t.calls = <<>>
  /\ t.i_cnt = 0 /\ t.hist = <<>> /\ t.run = <<>>

\* Core k is about to take m, which leaves P to be returned.
Incoming(k, m, P, t) ==
  \/ LET r == SetCounts(IF k.state = "GETNEXTMSG" THEN k.cnt ELSE ResetCounts(k.cnt), m)
     IN Waiting(k) /\ r.ok /\ InWork([k EXCEPT !.cnt = r.c], m, P, t)
  \/ Unsynced(k) /\ P = <<>> /\ Starts(m, t)

\* What encoders send: one kind of messages in each mode, without time stamps.
Sent(m) ==
  /\ m \in Message /\ HistoryFits(m.history) /\ m.ts = NoTs
  /\ \/ m.tcode = "ERROR"
     \/ /\ m.tcode \in TCodesWithCounts
        /\ IF traceMode = "HTM" THEN m.tcode = "SYNC" \/ ShowsHistory(m) ELSE ~ShowsHistory(m)

\* No message of core c is under way.
Rests(c) ==
  \/ AtRest(core[c], pending[c], target[c])
  \/ target[c].mode = "off" /\ Unsynced(core[c]) /\ pending[c] = <<>>
  \/ target[c].mode = "lost" /\ Waiting(core[c])

\* What the decoder holds back of core c waits for a branch outcome.
HeldBack(c) ==
  pending[c] # <<>> =>
    /\ core[c].state = "GETNEXTMSG" /\ traceType = "HTM"
    /\ core[c].currentAddress = Head(pending[c]).address
    /\ Code[core[c].currentAddress].type \in BranchTypes
    /\ CurrentCountType(core[c].cnt) = "i_cnt"

\* A restart after a loss: an error message, then a sync.
Restarts(e, c) == e.msg.core = c /\ e.covers = <<>> /\ Sent(e.msg) /\ Starts(e.msg, target[c])

\* The first message of the channel is of core c.
Arriving(c) ==
  LET e == Head(channel) IN
  /\ channel # <<>> /\ e.msg.core = c /\ Sent(e.msg)
  /\ \/ /\ e.msg.tcode = "ERROR" /\ e.covers = <<>> /\ Waiting(core[c])
        /\ Len(channel) = 2 /\ Restarts(channel[2], c)
     \/ Len(channel) = 1 /\ Incoming(core[c], e.msg, pending[c] \o e.covers, target[c])

WaitsForOutcome(k) ==
  /\ traceType = "HTM" /\ CurrentCountType(k.cnt) = "i_cnt" /\ Code[k.currentAddress].type \in BranchTypes

\* The decoder works on a message of core c.
Working(c) ==
  LET k == core[c] IN
  /\ nm.core = c /\ Sent(nm)
  /\ traceMode = "HTM" /\ nm.tcode \notin {"SYNC", "ERROR"} => traceType = "HTM"
  /\ \/ /\ nm.tcode = "ERROR" /\ pending[c] = <<>> /\ Waiting(k)
        /\ Len(channel) = 1 /\ Restarts(Head(channel), c)
     \/ /\ channel = <<>>
        /\ \/ Incoming(k, nm, pending[c], target[c])
           \/ /\ InWork(k, nm, pending[c], target[c])
              /\ \/ k.state = "GETNEXTINSTRUCTION"
                 \/ k.state = "RETIREMESSAGE" /\ (pending[c] # <<>> => WaitsForOutcome(k))

Busy(c) ==
  \/ readNewTraceMessage /\ channel # <<>> /\ Head(channel).msg.core = c
  \/ ~readNewTraceMessage /\ nm.core = c

SysInv ==
  /\ IInv
  /\ status = "OK" /\ traceMode \in {"BTM", "HTM"}
  /\ traceMode = "BTM" => traceType = "BTM"
  /\ target \in [Core -> Encoder] /\ pending \in [Core -> Seq(Entry)]
  /\ channel \in Seq([msg: Message, covers: Seq(Entry)])
  /\ \A c \in Core :
       /\ TargetOK(target[c])
       /\ IF ~Busy(c) THEN Rests(c) /\ HeldBack(c)
          ELSE IF readNewTraceMessage THEN Arriving(c) /\ HeldBack(c)
          ELSE Working(c)

-----------------------------------------------------------------------------
(* The history register.                                                   *)

\* Of two numbers between which a register lies there is but one.
LEMMA HighestOneIsOne ==
  ASSUME NEW h \in Nat, NEW i \in Nat, NEW k \in Nat, HighestOne(h, i), HighestOne(h, k)
  PROVE  i = k
<1>1. ASSUME NEW x \in Nat, NEW y \in Nat, x < y, HighestOne(h, x), HighestOne(h, y) PROVE FALSE
  <2> DEFINE a == 2^(x + 1)
             b == 2^y
  <2>1. a <= b
    BY <1>1, PowersGrow
  <2>2. h < a /\ b <= h
    BY <1>1 DEF HighestOne
  <2>3. a \in Int /\ b \in Int
    OBVIOUS
  <2> HIDE DEF a, b
  <2> QED
    BY <2>1, <2>2, <2>3
<1> QED
  BY <1>1

\* A register with n outcomes below its stop bit says how many, and bit n - j is
\* the j-th of them.
LEMMA RegisterOf ==
  ASSUME NEW hist \in Seq(BOOLEAN), Len(hist) < HistWidth
  PROVE  LET h == HistoryRegister(hist)
             n == Len(hist)
         IN /\ h \in Nat /\ h # 0 /\ HighestOne(h, n)
            /\ \A j \in 1..n : Bit(h, n - j) = hist[j]
<1> DEFINE n == Len(hist)
           One(j) == IF hist[j] THEN 1 ELSE 0
           Is(f) == f = [i \in 0..n |-> IF i = 0 THEN 1 ELSE 2 * f[i - 1] + One(i)]
           bit == CHOOSE f : Is(f)
           step == [i \in 1..n |-> [x \in Nat |-> 2 * x + One(i)]]
<1>1. n \in Nat /\ \A j \in 1..n : hist[j] \in BOOLEAN
  OBVIOUS
<1>2. \A j \in 1..n : One(j) \in 0..1 /\ (hist[j] <=> One(j) = 1)
  BY <1>1
<1> HIDE DEF One
<1>3. step \in Steps(n, Nat)
  <2>1. \A i \in 1..n, x \in Nat : 2 * x + One(i) \in Nat
    BY <1>2
  <2> QED
    BY <2>1 DEF Steps
<1>4. \A i \in 1..n, x \in Nat : step[i][x] = 2 * x + One(i)
  OBVIOUS
<1>5. HistoryRegister(hist) = bit[n]
  BY DEF HistoryRegister, One
<1> HIDE DEF n, step
<1>6. PICK g \in [0..n -> Nat] : g[0] = 1 /\ \A i \in 1..n : g[i] = step[i][g[i - 1]]
  <2>1. Walks(n, Nat, 1, step) # {}
    BY <1>1, <1>3, Iterates
  <2> QED
    BY <2>1 DEF Walks
<1>7. Is(g)
  <2>1. \A i \in 0..n : i # 0 => i \in 1..n /\ i - 1 \in 0..n
    BY <1>1
  <2>2. \A i \in 0..n : g[i] = IF i = 0 THEN 1 ELSE 2 * g[i - 1] + One(i)
    BY <1>4, <1>6, <2>1
  <2> QED
    BY <1>6, <2>2
<1>8. Is(bit)
  <2> HIDE DEF Is
  <2> QED
    BY <1>7
<1> HIDE DEF bit
<1>9. /\ \A i \in 0..n : bit[i] = IF i = 0 THEN 1 ELSE 2 * bit[i - 1] + One(i)
      /\ DOMAIN bit = 0..n
  BY <1>8
<1> HIDE DEF Is
<1>10. bit[0] = 1 /\ \A i \in 1..n : bit[i] = 2 * bit[i - 1] + One(i)
  BY <1>1, <1>9
<1>11. \A i \in 0..n : bit[i] \in Nat /\ HighestOne(bit[i], i)
  <2> DEFINE G == {i \in 0..n : bit[i] \in Nat /\ HighestOne(bit[i], i)}
  <2>1. 0 \in G
    <3>1. 2^0 = 1 /\ 2^(0 + 1) = 2
      OBVIOUS
    <3> QED
      BY <1>1, <1>10, <3>1 DEF HighestOne
  <2>2. ASSUME NEW i \in 1..n, i - 1 \in G PROVE i \in G
    <3> DEFINE a == bit[i - 1]
               b == bit[i]
               x == 2^(i - 1)
               y == 2^i
               z == 2^(i + 1)
    <3>1. i - 1 \in Nat /\ i \in Nat /\ i - 1 + 1 = i /\ i \in 0..n
      BY <1>1
    <3>2. x \in Nat /\ y = 2 * x /\ y \in Nat /\ z = 2 * y
      BY <3>1, PowerDoubles
    <3>3. a \in Nat /\ x <= a /\ a < y
      BY <2>2, <3>1 DEF HighestOne
    <3>4. b = 2 * a + One(i) /\ One(i) \in 0..1
      BY <1>2, <1>10
    <3> HIDE DEF a, b, x, y, z
    <3>5. b \in Nat /\ y <= b /\ b < z
      BY <3>2, <3>3, <3>4
    <3>6. bit[i] \in Nat /\ HighestOne(bit[i], i)
      BY <3>5 DEF HighestOne, b, y, z
    <3> QED
      BY <3>1, <3>6
  <2> HIDE DEF G
  <2>3. \A i \in 1..n : i - 1 \in G => i \in G
    BY <2>2
  <2>4. \A i \in 0..n : i \in G
    BY <1>1, <2>1, <2>3, Induct
  <2> QED
    BY <2>4 DEF G
<1>12. ASSUME NEW j \in 1..n
       PROVE  Bit(bit[n], n - j) = hist[j]
  <2> DEFINE N == n - j
             Near(m) == /\ 2^m * bit[j] <= bit[j + m]
                        /\ bit[j + m] < 2^m * (bit[j] + 1)
             G == {m \in 0..N : Near(m)}
  <2>1. N \in Nat /\ j \in 0..n /\ bit[j] \in Nat
    BY <1>1, <1>11
  <2>2. 0 \in G
    <3>1. 2^0 = 1 /\ j + 0 = j
      OBVIOUS
    <3> QED
      BY <2>1, <3>1
  <2>3. ASSUME NEW m \in 1..N, m - 1 \in G PROVE m \in G
    <3> DEFINE x == 2^(m - 1)
               y == 2^m
               a == bit[j + (m - 1)]
               b == bit[j + m]
               e == bit[j]
    <3>1. /\ m - 1 \in Nat /\ m - 1 + 1 = m /\ j + m \in 1..n /\ j + (m - 1) \in 0..n
          /\ j + m - 1 = j + (m - 1) /\ m \in 0..N
      BY <1>1
    <3>2. x \in Nat /\ y = 2 * x
      BY <3>1, PowerDoubles
    <3>3. a \in Nat /\ e \in Nat /\ b = 2 * a + One(j + m) /\ One(j + m) \in 0..1
      BY <1>2, <1>10, <1>11, <2>1, <3>1
    <3>4. x * e <= a /\ a < x * (e + 1)
      BY <2>3
    <3> HIDE DEF x, y, a, b, e
    <3>5. 2 * (x * e) <= b /\ b < 2 * (x * (e + 1))
      <4>1. x * e \in Nat /\ x * (e + 1) \in Nat
        BY <3>2, <3>3
      <4> QED
        BY <3>3, <3>4, <4>1
    <3>6. y * e = 2 * (x * e) /\ y * (e + 1) = 2 * (x * (e + 1))
      BY <3>2, <3>3
    <3>7. Near(m)
      BY <3>5, <3>6 DEF y, b, e
    <3> QED
      BY <3>1, <3>7
  <2>5. j + N = n
    BY <1>1
  <2> HIDE DEF G, N
  <2>4. N \in G
    <3>1. \A m \in 1..N : m - 1 \in G => m \in G
      BY <2>3
    <3>2. \A m \in 0..N : m \in G
      BY <2>1, <2>2, <3>1, Induct
    <3> QED
      BY <2>1, <3>2
  <2>6. 2^N * bit[j] <= bit[n] /\ bit[n] < 2^N * (bit[j] + 1)
    BY <2>4, <2>5 DEF G
  <2> DEFINE p == 2^N
             x == bit[j]
             y == bit[n]
  <2>7. p \in Nat /\ p > 0 /\ x \in Nat /\ y \in Nat
    BY <1>1, <1>11, <2>1, PowerDoubles
  <2> HIDE DEF p, x, y
  <2>8. p * x <= y /\ y < p * (x + 1)
    BY <2>6 DEF p, x, y
  <2>9. y \div p = x
    BY <2>7, <2>8
  <2>10. x = 2 * bit[j - 1] + One(j) /\ bit[j - 1] \in Nat /\ One(j) \in 0..1
    <3>1. j - 1 \in 0..n
      BY <1>1
    <3> QED
      BY <1>2, <1>10, <1>11, <3>1 DEF x
  <2>11. x % 2 = One(j)
    BY <2>10
  <2>12. (y \div p) % 2 = 1 <=> hist[j]
    BY <1>2, <2>9, <2>11
  <2> QED
    BY <1>1, <2>12 DEF Bit, p, y, N
<1>13. bit[n] # 0
  <2>1. n \in 0..n
    BY <1>1
  <2>2. 2^n > 0 /\ 2^n <= bit[n] /\ 2^n \in Nat
    BY <1>1, <1>11, <2>1, PowerDoubles DEF HighestOne
  <2> QED
    BY <2>2
<1>14. n \in 0..n
  BY <1>1
<1> QED
  BY <1>5, <1>11, <1>12, <1>13, <1>14 DEF n

\* What the decoder makes of it.
LEMMA RegisterRead ==
  ASSUME NEW hist \in Seq(BOOLEAN), Len(hist) < HistWidth
  PROVE  LET h == HistoryRegister(hist)
         IN /\ h \in Nat /\ h # 0 /\ HistoryFits(h) /\ FirstHistBit(h) = Len(hist) - 1
            /\ \A j \in 1..Len(hist) : Bit(h, Len(hist) - j) = hist[j]
<1> DEFINE h == HistoryRegister(hist)
           n == Len(hist)
           i == CHOOSE i \in 0..(HistWidth - 1) : HighestOne(h, i)
<1>1. h \in Nat /\ h # 0 /\ HighestOne(h, n) /\ \A j \in 1..n : Bit(h, n - j) = hist[j]
  BY RegisterOf
<1>2. n \in 0..(HistWidth - 1) /\ n \in Nat
  BY CountsAssumption
<1>3. FirstHistBit(h) = i - 1
  BY <1>1 DEF FirstHistBit
<1> HIDE DEF h, n
<1>4. i \in 0..(HistWidth - 1) /\ HighestOne(h, i)
  BY <1>1, <1>2
<1> HIDE DEF i
<1>5. i \in Nat
  BY <1>4
<1>6. i = n
  BY <1>1, <1>2, <1>4, <1>5, HighestOneIsOne
<1>7. HistoryFits(h)
  BY <1>1, <1>2 DEF HistoryFits
<1> QED
  BY <1>1, <1>3, <1>6, <1>7 DEF h, n

-----------------------------------------------------------------------------
(* Outcomes in the counts.                                                 *)

\* Sizes of registers.
LEMMA Sizes ==
  /\ HistMax \in Nat /\ HistMax > 0 /\ HistMax < HistWidth /\ HistMax < IntBits
  /\ HistWidth \in Nat /\ IntBits \in Nat /\ StackSize \in Nat
  /\ ICntMax \in Nat /\ CallDepth \in Nat
BY SystemAssumption, CountsAssumption

\* A branch takes the first outcome out of the counts.
LEMMA OutcomeConsumed ==
  ASSUME NEW c \in Count, OneKind(c), Outcomes(c), NEW taken \in HistoryTaken(c)
  PROVE  LET r == HistoryBranch(c, taken)
         IN /\ r.br = IF OutcomeOf(c, 1) THEN "taken" ELSE "notTaken"
            /\ r.cnt \in Count /\ OneKind(r.cnt) /\ r.cnt.i_cnt = c.i_cnt
            /\ NumOut(c) \in Nat /\ NumOut(r.cnt) = NumOut(c) - 1
            /\ \A j \in 1..NumOut(r.cnt) : OutcomeOf(r.cnt, j) = OutcomeOf(c, j + 1)
<1> DEFINE r == HistoryBranch(c, taken)
<1>1. /\ c.i_cnt \in Int /\ c.history \in Nat /\ c.histBit \in Int /\ c.histBit >= -1
      /\ c.histBit <= HistWidth - 2 /\ c.taken \in Nat /\ c.notTaken \in Nat
  BY Sizes DEF Count
<1>2. CASE c.histBit >= 0
  <2>1. taken = Bit(c.history, c.histBit)
    <3>1. c.histBit < IntBits - 1
      BY <1>1, Sizes DEF OneKind
    <3>2. ~(c.histBit < 0)
      BY <1>1, <1>2
    <3>3. HistoryTaken(c) = {(c.history \div 2^c.histBit) % 2 = 1}
      BY <3>1, <3>2, Zenon DEF HistoryTaken
    <3> QED
      BY <3>3, Zenon DEF Bit
  <2>2. c.histBit + 1 - 1 = c.histBit
    BY <1>1
  <2>3. taken = OutcomeOf(c, 1)
    BY <1>2, <2>1, <2>2 DEF OutcomeOf
  <2>4. r = [br |-> IF taken THEN "taken" ELSE "notTaken", cnt |-> [c EXCEPT !.histBit = @ - 1]]
    BY <1>2 DEF HistoryBranch, CurrentCountType, ConsumeHistory
  <2>5. /\ r.cnt.histBit = c.histBit - 1 /\ r.cnt.taken = c.taken /\ r.cnt.notTaken = c.notTaken
        /\ r.cnt.history = c.history /\ r.cnt.i_cnt = c.i_cnt /\ r.cnt \in Count
    <3>1. r.cnt = [c EXCEPT !.histBit = c.histBit - 1]
      BY <2>4
    <3>2. c.histBit - 1 \in -1..(HistWidth - 2)
      BY <1>1, <1>2, Sizes
    <3> QED
      BY <3>1, <3>2 DEF Count
  <2>6. r.br = IF taken THEN "taken" ELSE "notTaken"
    BY <2>4
  <2> HIDE DEF r
  <2>7. OneKind(r.cnt)
    BY <1>1, <1>2, <2>5, Sizes DEF OneKind
  <2>8. NumOut(c) = c.histBit + 1 /\ NumOut(r.cnt) = c.histBit
    BY <1>1, <1>2, <2>5 DEF NumOut, OneKind
  <2>9. ASSUME NEW j \in 1..NumOut(r.cnt) PROVE OutcomeOf(r.cnt, j) = OutcomeOf(c, j + 1)
    <3>1. r.cnt.histBit >= 0 /\ r.cnt.histBit + 1 - j = c.histBit + 1 - (j + 1)
      BY <1>1, <2>5, <2>8
    <3> QED
      BY <1>2, <2>5, <3>1 DEF OutcomeOf
  <2> QED
    BY <1>1, <1>2, <2>3, <2>5, <2>6, <2>7, <2>8, <2>9 DEF r
<1>3. CASE ~(c.histBit >= 0) /\ c.taken > 0
  <2>1. r = [br |-> "taken", cnt |-> [c EXCEPT !.taken = @ - 1]]
    BY <1>3 DEF HistoryBranch, CurrentCountType, ConsumeTaken
  <2>2. /\ r.cnt.histBit = c.histBit /\ r.cnt.taken = c.taken - 1 /\ r.cnt.notTaken = c.notTaken
        /\ r.cnt.i_cnt = c.i_cnt /\ r.cnt \in Count /\ r.br = "taken"
    BY <1>1, <1>3, <2>1 DEF Count
  <2> HIDE DEF r
  <2>3. OneKind(r.cnt) /\ c.notTaken = 0
    BY <1>1, <1>3, <2>2, Sizes DEF OneKind
  <2>4. NumOut(c) = c.taken /\ NumOut(r.cnt) = c.taken - 1
    BY <1>1, <1>3, <2>2, <2>3 DEF NumOut
  <2>5. OutcomeOf(c, 1) = TRUE
    BY <1>3 DEF OutcomeOf
  <2>6. ASSUME NEW j \in 1..NumOut(r.cnt) PROVE OutcomeOf(r.cnt, j) = OutcomeOf(c, j + 1)
    <3>1. r.cnt.taken > 0
      BY <1>1, <2>2, <2>4
    <3> QED
      BY <1>3, <2>2, <3>1 DEF OutcomeOf
  <2> QED
    BY <1>1, <2>2, <2>3, <2>4, <2>5, <2>6 DEF r
<1>4. CASE ~(c.histBit >= 0) /\ ~(c.taken > 0)
  <2>1. c.notTaken > 0
    BY <1>1, <1>4 DEF Outcomes
  <2>2. r = [br |-> "notTaken", cnt |-> [c EXCEPT !.notTaken = @ - 1]]
    BY <1>4, <2>1 DEF HistoryBranch, CurrentCountType, ConsumeNotTaken
  <2>3. /\ r.cnt.histBit = c.histBit /\ r.cnt.notTaken = c.notTaken - 1 /\ r.cnt.taken = c.taken
        /\ r.cnt.i_cnt = c.i_cnt /\ r.cnt \in Count /\ r.br = "notTaken"
    BY <1>1, <2>1, <2>2 DEF Count
  <2> HIDE DEF r
  <2>4. OneKind(r.cnt)
    BY <1>1, <1>4, <2>3, Sizes DEF OneKind
  <2>5. NumOut(c) = c.notTaken /\ NumOut(r.cnt) = c.notTaken - 1
    BY <1>1, <1>4, <2>3 DEF NumOut
  <2>6. \A j : OutcomeOf(c, j) = FALSE /\ OutcomeOf(r.cnt, j) = FALSE
    BY <1>4, <2>3 DEF OutcomeOf
  <2> QED
    BY <1>1, <2>3, <2>4, <2>5, <2>6 DEF r
<1> QED
  BY <1>2, <1>3, <1>4

\* Counts without outcomes.
LEMMA NoOutcomes ==
  ASSUME NEW c \in Count
  PROVE  /\ Outcomes(c) \/ (NumOut(c) = 0 /\ OneKind(c) /\ c.histBit < 0 /\ c.taken = 0 /\ c.notTaken = 0)
         /\ Outcomes(c) => NumOut(c) > 0
         /\ NumOut(c) \in Nat
<1>1. /\ c.histBit \in Int /\ c.histBit >= -1 /\ c.taken \in Nat /\ c.notTaken \in Nat
  BY Sizes DEF Count
<1> QED
  BY <1>1, Sizes DEF Outcomes, NumOut, OneKind

\* Message m reports n half-words and the outcomes hist.
Reports(m, n, hist) ==
  /\ m.tcode \in TCodesWithCounts
  /\ m.tcode = "RESOURCEFULL" => m.rCode \in {0, 1, 8, 9}
  /\ ICntOf(m) = n
  /\ \/ hist = <<>> /\ HistoryOf(m) = 0 /\ TakenOf(m) = 0 /\ NotTakenOf(m) = 0
     \/ HistoryOf(m) = HistoryRegister(hist)
     \/ /\ HistoryOf(m) = 0 /\ TakenOf(m) = Len(hist) /\ hist # <<>>
        /\ \A j \in 1..Len(hist) : hist[j] = TRUE
     \/ /\ HistoryOf(m) = 0 /\ TakenOf(m) = 0 /\ NotTakenOf(m) = Len(hist) /\ hist # <<>>
        /\ \A j \in 1..Len(hist) : hist[j] = FALSE

\* Counts c with n more half-words and outcomes hist.
Reported(c, d, n, hist) ==
  /\ d \in Count /\ OneKind(d) /\ d.i_cnt = c.i_cnt + n
  /\ NumOut(d) = Len(hist) /\ \A j \in 1..Len(hist) : OutcomeOf(d, j) = hist[j]

\* The decoder adds them to counts that have no outcomes.
LEMMA CountsReported ==
  ASSUME NEW c \in Count, ~Outcomes(c), NEW n \in Nat,
         NEW hist \in Seq(BOOLEAN), Len(hist) <= HistMax,
         NEW m, Reports(m, n, hist)
  PROVE  SetCounts(c, m).ok /\ Reported(c, SetCounts(c, m).c, n, hist)
<1> DEFINE d == [c EXCEPT !.i_cnt = @ + n]
           r == SetCounts(c, m)
           l == Len(hist)
<1>1. /\ c.i_cnt \in Int /\ c.histBit = -1 /\ c.taken = 0 /\ c.notTaken = 0 /\ c.history \in Nat
  BY NoOutcomes DEF Count
<1>2. /\ d.i_cnt = c.i_cnt + n /\ d.histBit = -1 /\ d.taken = 0 /\ d.notTaken = 0 /\ d \in Count
  BY <1>1 DEF Count
<1>3. ~Outcomes(d)
  BY <1>2 DEF Outcomes
<1>4. r = IF HistoryOf(m) # 0 THEN SetHistory(d, HistoryOf(m))
          ELSE IF TakenOf(m) # 0 THEN SetTakenCount(d, TakenOf(m))
          ELSE IF NotTakenOf(m) # 0 THEN SetNotTakenCount(d, NotTakenOf(m))
          ELSE Ok(d)
  BY DEF Reports, SetCounts, SetICnt, TCodesWithCounts, TCodesWithoutCounts
<1>5. l \in Nat /\ l <= HistMax /\ l < HistWidth
  BY Sizes
<1> HIDE DEF d, r
<1>6. CASE hist = <<>> /\ HistoryOf(m) = 0 /\ TakenOf(m) = 0 /\ NotTakenOf(m) = 0
  <2>1. r = [ok |-> TRUE, c |-> d] /\ l = 0
    BY <1>4, <1>6 DEF Ok
  <2>2. NumOut(d) = 0 /\ OneKind(d)
    BY <1>2, <1>3, NoOutcomes
  <2> QED
    BY <1>2, <2>1, <2>2 DEF r, Reported
<1>7. CASE HistoryOf(m) = HistoryRegister(hist)
  <2> DEFINE h == HistoryRegister(hist)
  <2>1. /\ h \in Nat /\ h # 0 /\ FirstHistBit(h) = l - 1
        /\ \A j \in 1..l : Bit(h, l - j) = hist[j]
    BY <1>5, RegisterRead
  <2> HIDE DEF h, l
  <2>2. r = [ok |-> TRUE, c |-> [d EXCEPT !.history = h, !.histBit = FirstHistBit(h)]]
    BY <1>3, <1>4, <1>7, <2>1 DEF SetHistory, Ok, h
  <2>3. /\ r.c.history = h /\ r.c.histBit = l - 1 /\ r.c.i_cnt = d.i_cnt /\ r.c.taken = 0
        /\ r.c.notTaken = 0 /\ r.c \in Count /\ r.ok
    <3>1. l - 1 \in -1..(HistWidth - 2)
      BY <1>5, Sizes
    <3>2. r.ok /\ r.c = [d EXCEPT !.history = h, !.histBit = l - 1]
      BY <2>1, <2>2
    <3> QED
      BY <1>2, <2>1, <3>1, <3>2 DEF Count
  <2>4. NumOut(r.c) = l /\ OneKind(r.c)
    BY <1>5, <2>3, Sizes DEF NumOut, OneKind
  <2>5. ASSUME NEW j \in 1..l PROVE OutcomeOf(r.c, j) = hist[j]
    <3>1. r.c.histBit >= 0 /\ r.c.histBit + 1 - j = l - j
      BY <1>5, <2>3
    <3> QED
      BY <2>1, <2>3, <3>1 DEF OutcomeOf
  <2> QED
    BY <1>2, <2>3, <2>4, <2>5 DEF r, Reported, l
<1>8. CASE /\ HistoryOf(m) = 0 /\ TakenOf(m) = Len(hist) /\ hist # <<>>
           /\ \A j \in 1..Len(hist) : hist[j] = TRUE
  <2>1. l > 0
    BY <1>5, <1>8
  <2>2. r = [ok |-> TRUE, c |-> [d EXCEPT !.taken = l]]
    BY <1>3, <1>4, <1>5, <1>8, <2>1 DEF SetTakenCount, Ok
  <2>3. /\ r.c.histBit = -1 /\ r.c.i_cnt = d.i_cnt /\ r.c.taken = l
        /\ r.c.notTaken = 0 /\ r.c \in Count /\ r.ok
    BY <1>2, <1>5, <2>2 DEF Count
  <2>4. NumOut(r.c) = l /\ OneKind(r.c)
    BY <1>5, <2>1, <2>3, Sizes DEF NumOut, OneKind
  <2>5. \A j : OutcomeOf(r.c, j) = TRUE
    BY <2>1, <2>3 DEF OutcomeOf
  <2> QED
    BY <1>2, <1>8, <2>3, <2>4, <2>5 DEF r, Reported
<1>9. CASE /\ HistoryOf(m) = 0 /\ TakenOf(m) = 0 /\ NotTakenOf(m) = Len(hist) /\ hist # <<>>
           /\ \A j \in 1..Len(hist) : hist[j] = FALSE
  <2>1. l > 0
    BY <1>5, <1>9
  <2>2. r = [ok |-> TRUE, c |-> [d EXCEPT !.notTaken = l]]
    BY <1>3, <1>4, <1>5, <1>9, <2>1 DEF SetNotTakenCount, Ok
  <2>3. /\ r.c.histBit = -1 /\ r.c.i_cnt = d.i_cnt /\ r.c.taken = 0
        /\ r.c.notTaken = l /\ r.c \in Count /\ r.ok
    BY <1>2, <1>5, <2>2 DEF Count
  <2>4. NumOut(r.c) = l /\ OneKind(r.c)
    BY <1>5, <2>1, <2>3, Sizes DEF NumOut, OneKind
  <2>5. \A j : OutcomeOf(r.c, j) = FALSE
    BY <2>1, <2>3 DEF OutcomeOf
  <2> QED
    BY <1>2, <1>9, <2>3, <2>4, <2>5 DEF r, Reported
<1> QED
  BY <1>6, <1>7, <1>8, <1>9 DEF Reports

-----------------------------------------------------------------------------
(* Paths.                                                                  *)

\* The instructions of a path.
LEMMA PathPoint ==
  ASSUME NEW q, Len(q) \in Nat, NEW tr, Path(q, tr), NEW j \in 1..Len(q)
  PROVE  /\ tr[j] \in Point /\ tr[j + 1] \in Point /\ Follows(tr[j], tr[j + 1])
         /\ tr[j].at \in DOMAIN Code /\ tr[j].at \in Nat /\ tr[j].at # NoAddr
         /\ Ins(tr[j]) \in Instruction /\ Ins(tr[j]).size \in {1, 2}
         /\ q[j].address = tr[j].at
<1>1. j \in 1..Len(q) + 1 /\ j + 1 \in 1..Len(q) + 1
  OBVIOUS
<1>2. tr[j] \in Point /\ tr[j + 1] \in Point /\ Follows(tr[j], tr[j + 1]) /\ q[j].address = tr[j].at
  BY <1>1 DEF Path
<1>3. tr[j].at \in DOMAIN Code
  BY <1>2 DEF Follows
<1>4. tr[j].at \in Nat /\ Ins(tr[j]) \in Instruction
  BY <1>3, DecoderAssumption DEF Ins
<1>5. Ins(tr[j]).size \in {1, 2}
  BY <1>4 DEF Instruction
<1>6. tr[j].at # NoAddr
  BY <1>4 DEF NoAddr
<1> QED
  BY <1>2, <1>3, <1>4, <1>5, <1>6

\* Sizes and numbers of branches grow along a path.
LEMMA PathGrows ==
  ASSUME NEW q, Len(q) \in Nat, NEW tr, Path(q, tr),
         NEW i \in 1..Len(q) + 1, NEW j \in 1..Len(q) + 1, i <= j
  PROVE  /\ tr[i] \in Point /\ tr[j] \in Point
         /\ tr[j].size >= tr[i].size + (j - i) /\ tr[j].br >= tr[i].br
<1> DEFINE n == Len(q)
           N == n + 1 - i
           Beyond(m) == tr[i + m].size >= tr[i].size + m /\ tr[i + m].br >= tr[i].br
           G == {m \in 0..N : Beyond(m)}
<1>1. n \in Nat /\ N \in Nat
  OBVIOUS
<1>2. \A m \in 0..N : i + m \in 1..n + 1 /\ tr[i + m] \in Point
  BY <1>1 DEF Path
<1>3. \A m \in 0..N : tr[i + m].size \in Int /\ tr[i + m].br \in Int
  BY <1>2 DEF Point
<1>4. i + 0 = i /\ tr[i].size \in Int /\ tr[i].br \in Int /\ tr[i] \in Point
  <2>1. i + 0 = i /\ 0 \in 0..N
    BY <1>1
  <2> QED
    BY <1>2, <1>3, <2>1
<1>5. 0 \in G
  BY <1>1, <1>4
<1>6. ASSUME NEW m \in 1..N, m - 1 \in G PROVE m \in G
  <2> DEFINE p == tr[i + (m - 1)]
             r == tr[i + m]
  <2>1. i + (m - 1) \in 1..n /\ i + (m - 1) + 1 = i + m /\ m - 1 \in 0..N /\ m \in 0..N
    BY <1>1
  <2>2. Follows(p, r) /\ Ins(p).size \in {1, 2}
    BY <1>1, <2>1, PathPoint
  <2>3. p.size \in Int /\ r.size \in Int /\ p.br \in Int /\ r.br \in Int
    BY <1>3, <2>1
  <2>4. r.size = p.size + Ins(p).size /\ r.br \in {p.br, p.br + 1}
    BY <2>2, <2>3 DEF Follows
  <2>5. p.size >= tr[i].size + (m - 1) /\ p.br >= tr[i].br
    BY <1>6
  <2> HIDE DEF p, r
  <2>6. r.size >= tr[i].size + m /\ r.br >= tr[i].br
    <3>1. m \in Int
      BY <1>1
    <3>2. r.size >= p.size + 1 /\ r.br >= p.br
      BY <2>2, <2>3, <2>4
    <3>3. \A a, b, c \in Int : a >= c + (m - 1) /\ b >= a + 1 => b >= c + m
      BY <3>1
    <3>4. \A a, b, c \in Int : a >= c /\ b >= a => b >= c
      OBVIOUS
    <3>5. r.size >= tr[i].size + m
      BY <1>4, <2>3, <2>5, <3>2, <3>3
    <3>6. r.br >= tr[i].br
      BY <1>4, <2>3, <2>5, <3>2, <3>4
    <3> QED
      BY <3>5, <3>6
  <2> QED
    BY <2>1, <2>6 DEF r
<1> HIDE DEF N, G
<1>7. \A m \in 1..N : m - 1 \in G => m \in G
  BY <1>6
<1>8. \A m \in 0..N : m \in G
  BY <1>1, <1>5, <1>7, Induct
<1>9. j - i \in 0..N /\ i + (j - i) = j
  BY <1>1 DEF N
<1> QED
  BY <1>2, <1>4, <1>8, <1>9 DEF G

\* The counts of a core in work are used up when its instructions are.
LEMMA Exhausted ==
  ASSUME traceMode \in {"BTM", "HTM"},
         NEW k, k.cnt \in Count, NEW m, NEW P \in Seq(Entry), NEW t, TargetOK(t),
         NEW tr, WorkPath(k, m, P, t, tr)
  PROVE  CurrentCountType(k.cnt) = "none" <=> P = <<>>
<1> DEFINE n == Len(P)
           c == k.cnt
<1>1. n \in Nat /\ (P # <<>> => n >= 1) /\ (P = <<>> => n = 0)
  BY EmptySeq, LenProperties
<1>2. Path(P, tr) /\ Accounted(c, t, tr, n) /\ EndsPath(k, m, P, t, tr)
  BY DEF WorkPath
<1>3. 1 \in 1..n + 1 /\ n + 1 \in 1..n + 1 /\ 1 <= n + 1
  BY <1>1
<1>4. /\ tr[1] \in Point /\ tr[n + 1] \in Point
      /\ tr[n + 1].size >= tr[1].size + (n + 1 - 1) /\ tr[n + 1].br >= tr[1].br
  BY <1>1, <1>2, <1>3, PathGrows
<1>5. tr[1].size \in Int /\ tr[n + 1].size \in Int /\ tr[1].br \in Int /\ tr[n + 1].br \in Int
  BY <1>4 DEF Point
<1>6. t.i_cnt \in Nat /\ t.hist \in Seq(BOOLEAN) /\ Len(t.hist) \in Nat
  BY LenProperties DEF TargetOK, Encoder
<1>7. c.i_cnt \in Int /\ c.i_cnt + t.i_cnt = tr[n + 1].size - tr[1].size
  BY <1>2 DEF Accounted, Count
<1>8. CurrentCountType(c) = "none" <=> ~Outcomes(c) /\ c.i_cnt <= 0
  BY CountTypeMeaning
<1>9. NumOut(c) \in Nat /\ (Outcomes(c) => NumOut(c) > 0)
  BY NoOutcomes
<1>10. CASE P = <<>>
  <2>1. c.i_cnt <= 0
    BY <1>1, <1>5, <1>6, <1>7, <1>10
  <2>2. ~Outcomes(c)
    <3>1. CASE traceMode = "BTM"
      BY <1>2, <3>1 DEF Accounted
    <3>2. CASE traceMode = "HTM"
      <4>1. NumOut(c) + Len(t.hist) = tr[n + 1].br - tr[1].br
        BY <1>2, <3>2 DEF Accounted
      <4>2. NumOut(c) = 0
        BY <1>1, <1>5, <1>6, <1>9, <1>10, <4>1
      <4> QED
        BY <1>9, <4>2
    <3> QED
      BY <3>1, <3>2
  <2> QED
    BY <1>8, <1>10, <2>1, <2>2
<1>11. CASE P # <<>>
  <2>1. CASE t.i_cnt = 0
    <3>1. c.i_cnt > 0
      BY <1>1, <1>4, <1>5, <1>7, <1>11, <2>1
    <3> QED
      BY <1>7, <1>8, <1>11, <3>1
  <2>2. CASE traceMode = "HTM" /\ t.hist = <<>> /\ IsBranch(tr[n])
    <3>1. n \in 1..n /\ 1 \in 1..n /\ n \in 1..n + 1
      BY <1>1, <1>11
    <3>2. Follows(tr[n], tr[n + 1]) /\ tr[n] \in Point
      BY <1>1, <1>2, <3>1, PathPoint
    <3>3. tr[n + 1].br = tr[n].br + 1 /\ tr[n].br \in Int
      BY <2>2, <3>2 DEF Follows, Point
    <3>4. tr[n].br >= tr[1].br
      BY <1>1, <1>2, <1>3, <3>1, PathGrows
    <3>5. NumOut(c) + Len(t.hist) = tr[n + 1].br - tr[1].br
      BY <1>2, <2>2 DEF Accounted
    <3>6. Len(t.hist) = 0
      BY <2>2, EmptySeq
    <3>7. NumOut(c) > 0
      <4> DEFINE x == NumOut(c)
                 y == tr[n + 1].br
                 z == tr[1].br
                 w == tr[n].br
      <4>1. x \in Nat /\ y \in Int /\ z \in Int /\ w \in Int
        BY <1>5, <1>9, <3>3
      <4>2. y = w + 1 /\ w >= z /\ x + 0 = y - z
        BY <3>3, <3>4, <3>5, <3>6
      <4> HIDE DEF x, y, z, w
      <4>3. x > 0
        BY <4>1, <4>2
      <4> QED
        BY <4>3 DEF x
    <3>8. Outcomes(c)
      BY <3>7, NoOutcomes
    <3> QED
      BY <1>8, <1>11, <3>8
  <2>3. t.i_cnt = 0 \/ (traceMode = "HTM" /\ t.hist = <<>> /\ IsBranch(tr[n]))
    BY <1>2, <1>11 DEF EndsPath
  <2> QED
    BY <2>1, <2>2, <2>3
<1> QED
  BY <1>10, <1>11

\* A path without its first point.
After(tr, n) == [j \in 1..n |-> tr[j + 1]]

\* A path without its first instruction is a path, with the same end.
LEMMA PathTail ==
  ASSUME NEW P \in Seq(Entry), P # <<>>, NEW tr, Path(P, tr)
  PROVE  LET n == Len(P)
             u == After(tr, n)
         IN /\ n \in Nat /\ n >= 1 /\ Tail(P) \in Seq(Entry) /\ Len(Tail(P)) = n - 1
            /\ Tail(P) # <<>> <=> n > 1
            /\ Path(Tail(P), u)
            /\ \A j \in 1..n : u[j] = tr[j + 1]
            /\ Guided(tr, n - 1) => Guided(u, n - 2)
            /\ Guided(tr, n) => Guided(u, n - 1)
<1> DEFINE n == Len(P)
           u == After(tr, n)
           q == Tail(P)
<1>1. /\ n \in Nat /\ n >= 1 /\ q \in Seq(Entry) /\ Len(q) = n - 1
      /\ \A j \in 1..n - 1 : q[j] = P[j + 1]
  BY EmptySeq, LenProperties, HeadTailProperties
<1>2. q # <<>> <=> n > 1
  <2>1. q = <<>> => Len(q) = 0
    BY EmptySeq
  <2>2. Len(q) = 0 => q = <<>>
    BY <1>1, EmptySeq
  <2> HIDE DEF n, q
  <2> QED
    BY <1>1, <2>1, <2>2
<1>3. \A j \in 1..n : u[j] = tr[j + 1]
  BY DEF After
<1>4. tr \in [1..n + 1 -> Point] /\ \A j \in 1..n : P[j].address = tr[j].at /\ Follows(tr[j], tr[j + 1])
  BY DEF Path
<1> HIDE DEF n, q
<1>5. u \in [1..n -> Point]
  BY <1>1, <1>4 DEF After
<1>6. ASSUME NEW j \in 1..n - 1 PROVE q[j].address = u[j].at /\ Follows(u[j], u[j + 1])
  <2>1. j \in 1..n /\ j + 1 \in 1..n
    BY <1>1
  <2> QED
    BY <1>1, <1>3, <1>4, <2>1
<1>7. Path(q, u)
  <2>1. n - 1 + 1 = n
    BY <1>1
  <2> QED
    BY <1>1, <1>5, <1>6, <2>1 DEF Path
<1>8. ASSUME NEW l \in Nat, l <= n, Guided(tr, l) PROVE Guided(u, l - 1)
  <2> SUFFICES ASSUME NEW j \in 1..l - 1 PROVE Known(traceMode, u[j], u[j + 1].at)
    BY DEF Guided
  <2>1. j + 1 \in 1..l /\ j \in 1..n /\ j + 1 \in 1..n
    BY <1>1, <1>8
  <2>2. Known(traceMode, tr[j + 1], tr[j + 1 + 1].at)
    BY <1>8, <2>1 DEF Guided
  <2> QED
    BY <1>3, <2>1, <2>2
<1>9. n - 1 \in Nat /\ n - 1 <= n /\ n <= n /\ n - 1 - 1 = n - 2
  BY <1>1
<1>10. (Guided(tr, n - 1) => Guided(u, n - 2)) /\ (Guided(tr, n) => Guided(u, n - 1))
  BY <1>1, <1>8, <1>9
<1> QED
  BY <1>1, <1>2, <1>3, <1>7, <1>10 DEF n, q

\* Counts d are counts c after instruction p was taken out of them.
Consumed(d, c, p) ==
  /\ d \in Count /\ OneKind(d) /\ d.i_cnt = c.i_cnt - Ins(p).size
  /\ traceMode = "BTM" => ~Outcomes(d)
  /\ traceMode = "HTM" =>
       IF IsBranch(p)
       THEN NumOut(c) > 0 /\ NumOut(d) = NumOut(c) - 1
            /\ \A j \in 1..NumOut(d) : OutcomeOf(d, j) = OutcomeOf(c, j + 1)
       ELSE NumOut(d) = NumOut(c) /\ \A j \in 1..NumOut(d) : OutcomeOf(d, j) = OutcomeOf(c, j)

\* Counts that have given the first instruction its share account for the rest.
LEMMA AccountedTail ==
  ASSUME traceMode \in {"BTM", "HTM"}, NEW t, TargetOK(t),
         NEW P \in Seq(Entry), P # <<>>, NEW tr, Path(P, tr),
         NEW c \in Count, Accounted(c, t, tr, Len(P)), NEW d, Consumed(d, c, tr[1])
  PROVE  Accounted(d, t, After(tr, Len(P)), Len(P) - 1)
<1> DEFINE n == Len(P)
           u == After(tr, n)
           p == tr[1]
           q == tr[2]
           e == tr[n + 1]
<1>1. n \in Nat /\ n >= 1 /\ \A j \in 1..n : u[j] = tr[j + 1]
  BY PathTail
<1>2. 1 \in 1..n /\ n \in 1..n /\ 1 + 1 = 2 /\ n - 1 + 1 = n
  BY <1>1
<1>3. u[1] = q /\ u[n] = e
  BY <1>1, <1>2
<1>4. /\ p \in Point /\ q \in Point /\ Follows(p, q) /\ Ins(p).size \in {1, 2}
  BY <1>1, <1>2, PathPoint
<1>5. e \in Point
  <2>1. n + 1 \in 1..n + 1
    BY <1>1
  <2> QED
    BY <2>1 DEF Path
<1>6. /\ p.size \in Int /\ q.size \in Int /\ e.size \in Int
      /\ p.br \in Int /\ q.br \in Int /\ e.br \in Int
  BY <1>4, <1>5 DEF Point
<1>7. q.size = p.size + Ins(p).size /\ q.br = p.br + IF IsBranch(p) THEN 1 ELSE 0
  BY <1>4 DEF Follows
<1>8. /\ c.i_cnt \in Int /\ d \in Count /\ d.i_cnt = c.i_cnt - Ins(p).size /\ t.i_cnt \in Int
      /\ c.i_cnt + t.i_cnt = e.size - p.size
  BY DEF Consumed, Accounted, Count, TargetOK, Encoder
<1>9. NumOut(c) \in Nat /\ NumOut(d) \in Nat /\ Len(t.hist) \in Nat
  BY <1>8, NoOutcomes, LenProperties DEF TargetOK, Encoder
<1>10. d.i_cnt + t.i_cnt = e.size - q.size
  <2> DEFINE a == c.i_cnt
             b == t.i_cnt
             s == Ins(p).size
             x == p.size
             y == q.size
             z == e.size
             w == d.i_cnt
  <2>1. /\ a \in Int /\ b \in Int /\ s \in Int /\ x \in Int /\ y \in Int /\ z \in Int
        /\ w = a - s /\ a + b = z - x /\ y = x + s
    BY <1>4, <1>6, <1>7, <1>8
  <2> HIDE DEF a, b, s, x, y, z, w
  <2>2. w + b = z - y
    BY <2>1
  <2> QED
    BY <2>2 DEF w, b, y, z
<1> HIDE DEF u, n, p, q, e
<1>11. CASE traceMode = "BTM"
  <2>1. ~Outcomes(d) /\ t.hist = <<>> /\ OneKind(d)
    BY <1>11 DEF Accounted, Consumed, p
  <2> QED
    BY <1>2, <1>3, <1>10, <1>11, <2>1 DEF Accounted, u, n
<1>12. CASE traceMode = "HTM"
  <2> DEFINE N == NumOut(c)
             M == NumOut(d)
             l == Len(t.hist)
  <2>1. N + l = e.br - p.br /\ OneKind(d)
    BY <1>12 DEF Accounted, Consumed, p, e, n
  <2>2. M = N - (IF IsBranch(p) THEN 1 ELSE 0) /\ (IsBranch(p) => N > 0)
    BY <1>9, <1>12 DEF Consumed, p
  <2>3. \A j \in 1..M : OutcomeOf(d, j) = OutcomeOf(c, IF IsBranch(p) THEN j + 1 ELSE j)
    BY <1>12 DEF Consumed, p
  <2>4. N \in Nat /\ M \in Nat /\ l \in Nat
    BY <1>9
  <2> HIDE DEF N, M, l
  <2>5. M + l = e.br - q.br
    <3> DEFINE x == p.br
               y == q.br
               z == e.br
               s == IF IsBranch(p) THEN 1 ELSE 0
    <3>1. x \in Int /\ y \in Int /\ z \in Int /\ s \in Int /\ y = x + s /\ N + l = z - x /\ M = N - s
      BY <1>6, <1>7, <2>1, <2>2
    <3> HIDE DEF x, y, z, s
    <3>2. M + l = z - y
      BY <2>4, <3>1
    <3> QED
      BY <3>2 DEF y, z
  <2>6. ASSUME NEW j \in 1..n - 1, IsBranch(u[j])
        PROVE  u[j].taken = Outcome(d, t.hist, u[j].br - q.br + 1)
    <3>1. j \in 1..n /\ j + 1 \in 1..n /\ u[j] = tr[j + 1] /\ j + 1 \in 2..n + 1 /\ 2 \in 1..n + 1
          /\ j + 1 \in 1..n + 1 /\ 2 <= j + 1
      BY <1>1
    <3> DEFINE b == tr[j + 1]
               x == b.br
               y == q.br
               z == p.br
    <3>2. b \in Point /\ b.br >= q.br
      BY <1>1, <3>1, PathGrows DEF n, q
    <3>3. x \in Int /\ y \in Int /\ z \in Int /\ x >= y /\ y = z + IF IsBranch(p) THEN 1 ELSE 0
      BY <1>6, <1>7, <3>2 DEF Point
    <3>4. b.taken = Outcome(c, t.hist, x - z + 1)
      BY <1>12, <2>6, <3>1 DEF Accounted, p, n
    <3> HIDE DEF x, y, z
    <3>5. Outcome(d, t.hist, x - y + 1) = Outcome(c, t.hist, x - z + 1)
      <4>1. x - y + 1 <= M <=> x - z + 1 <= N
        BY <2>2, <2>4, <3>3
      <4>2. CASE x - y + 1 <= M
        <5>1. x - y + 1 \in 1..M /\ x - z + 1 = IF IsBranch(p) THEN (x - y + 1) + 1 ELSE x - y + 1
          BY <2>4, <3>3, <4>2
        <5>2. OutcomeOf(d, x - y + 1) = OutcomeOf(c, x - z + 1)
          BY <2>3, <5>1
        <5> QED
          BY <4>1, <4>2, <5>2 DEF Outcome, N, M
      <4>3. CASE ~(x - y + 1 <= M)
        <5>1. (x - y + 1) - M = (x - z + 1) - N
          BY <2>2, <2>4, <3>3
        <5> DEFINE v == x - y + 1
                   w == x - z + 1
        <5>4. \A cnt, h, o : ~(o <= NumOut(cnt)) => Outcome(cnt, h, o) = h[o - NumOut(cnt)]
          BY DEF Outcome
        <5>5. ~(v <= NumOut(d)) /\ ~(w <= NumOut(c))
          BY <4>1, <4>3 DEF N, M
        <5> HIDE DEF v, w
        <5>6. Outcome(d, t.hist, v) = t.hist[v - M] /\ Outcome(c, t.hist, w) = t.hist[w - N]
          BY <5>4, <5>5, Zenon DEF N, M
        <5>2. Outcome(d, t.hist, x - y + 1) = t.hist[(x - y + 1) - M]
          BY <5>6, Zenon DEF v
        <5>3. Outcome(c, t.hist, x - z + 1) = t.hist[(x - z + 1) - N]
          BY <5>6, Zenon DEF w
        <5> QED
          BY <5>1, <5>2, <5>3
      <4> QED
        BY <4>2, <4>3
    <3> QED
      BY <3>1, <3>4, <3>5 DEF x, y
  <2> QED
    BY <1>2, <1>3, <1>10, <1>12, <2>1, <2>5, <2>6 DEF Accounted, u, n, M, l
<1> QED
  BY <1>11, <1>12

-----------------------------------------------------------------------------
(* The decoder steps along a path.                                         *)

\* The first point of a path, from which the decoder steps on.
LEMMA FirstPoint ==
  ASSUME NEW P \in Seq(Entry), P # <<>>, NEW tr, Path(P, tr)
  PROVE  LET n == Len(P) IN
         /\ n \in Nat /\ n >= 1
         /\ tr[1] \in Point /\ tr[2] \in Point /\ tr[n + 1] \in Point /\ Follows(tr[1], tr[2])
         /\ tr[1].at \in DOMAIN Code /\ tr[1].at \in Nat
         /\ Ins(tr[1]) \in Instruction /\ Ins(tr[1]).size \in {1, 2} /\ Ins(tr[1]).imm \in Int
         /\ Head(P).address = tr[1].at
         /\ tr[n + 1].size >= tr[2].size + (n - 1) /\ tr[n + 1].br >= tr[2].br
<1> DEFINE n == Len(P)
<1>1. n \in Nat /\ n >= 1 /\ Head(P) = P[1]
  BY EmptySeq, LenProperties, HeadTailProperties
<1>2. 1 \in 1..n /\ 2 \in 1..n + 1 /\ n + 1 \in 1..n + 1 /\ 2 <= n + 1 /\ 1 + 1 = 2
  BY <1>1
<1>3. /\ tr[1] \in Point /\ tr[2] \in Point /\ Follows(tr[1], tr[2])
      /\ tr[1].at \in DOMAIN Code /\ tr[1].at \in Nat
      /\ Ins(tr[1]) \in Instruction /\ Ins(tr[1]).size \in {1, 2} /\ P[1].address = tr[1].at
  BY <1>1, <1>2, PathPoint
<1>4. /\ tr[n + 1] \in Point /\ tr[n + 1].size >= tr[2].size + (n + 1 - 2)
      /\ tr[n + 1].br >= tr[2].br
  BY <1>1, <1>2, PathGrows
<1>5. n + 1 - 2 = n - 1
  BY <1>1
<1>6. Ins(tr[1]).imm \in Int
  BY <1>3 DEF Instruction
<1> QED
  BY <1>1, <1>3, <1>4, <1>5, <1>6

\* The counts reach to the end of the first instruction, and beyond it when more follow.
LEMMA CountReaches ==
  ASSUME NEW t, TargetOK(t), NEW P \in Seq(Entry), P # <<>>, NEW tr, Path(P, tr),
         NEW c \in Count, Accounted(c, t, tr, Len(P)), t.i_cnt = 0
  PROVE  /\ c.i_cnt >= Ins(tr[1]).size
         /\ Len(P) > 1 => c.i_cnt > Ins(tr[1]).size
<1> DEFINE n == Len(P)
           x == tr[1].size
           y == tr[2].size
           z == tr[n + 1].size
           s == Ins(tr[1]).size
           a == c.i_cnt
<1>1. n \in Nat /\ n >= 1 /\ x \in Int /\ y \in Int /\ z \in Int /\ s \in Int /\ z >= y + (n - 1)
  <2>1. /\ n \in Nat /\ n >= 1 /\ tr[1] \in Point /\ tr[2] \in Point /\ tr[n + 1] \in Point
        /\ s \in {1, 2} /\ z >= y + (n - 1)
    BY FirstPoint
  <2> HIDE DEF n, s
  <2>2. x \in Int /\ y \in Int /\ z \in Int
    BY <2>1 DEF Point
  <2>3. s \in Int
    BY <2>1
  <2> QED
    BY <2>1, <2>2, <2>3
<1>2. y = x + s
  BY FirstPoint DEF Follows
<1>3. a + 0 = z - x /\ a \in Int
  BY DEF Accounted, Count
<1> HIDE DEF n, x, y, z, s, a
<1>4. a >= s /\ (n > 1 => a > s)
  BY <1>1, <1>2, <1>3
<1> QED
  BY <1>4 DEF a, s, n

\* The first outcome is that of the first branch; when the encoder keeps none,
\* a branch of the path has one.
LEMMA FirstOutcome ==
  ASSUME traceMode = "HTM", NEW t, TargetOK(t),
         NEW P \in Seq(Entry), P # <<>>, NEW tr, Path(P, tr),
         NEW c \in Count, Accounted(c, t, tr, Len(P)), IsBranch(tr[1])
  PROVE  /\ Outcomes(c) => tr[1].taken = OutcomeOf(c, 1)
         /\ t.hist = <<>> => Outcomes(c)
<1> DEFINE n == Len(P)
           x == tr[1].br
           y == tr[2].br
           z == tr[n + 1].br
           N == NumOut(c)
           l == Len(t.hist)
<1>1. n \in Nat /\ n >= 1 /\ x \in Int /\ y \in Int /\ z \in Int /\ z >= y
  BY FirstPoint DEF Point
<1>2. y = x + 1
  BY FirstPoint DEF Follows
<1>3. N \in Nat /\ l \in Nat /\ (Outcomes(c) => N > 0) /\ (N > 0 => Outcomes(c))
  <2>1. N \in Nat /\ (Outcomes(c) => N > 0) /\ (N > 0 => Outcomes(c))
    BY NoOutcomes
  <2> QED
    BY <2>1, LenProperties DEF TargetOK, Encoder
<1>4. N + l = z - x /\ tr[1].taken = Outcome(c, t.hist, x - x + 1)
  <2>1. 1 \in 1..n
    BY <1>1
  <2> QED
    BY <2>1 DEF Accounted
<1>5. t.hist = <<>> => l = 0
  BY EmptySeq
<1> HIDE DEF n, x, y, z, N, l
<1>6. t.hist = <<>> => N > 0
  BY <1>1, <1>2, <1>3, <1>4, <1>5
<1>7. x - x + 1 = 1
  BY <1>1
<1>8. Outcomes(c) => 1 <= NumOut(c)
  BY <1>3 DEF N
<1>9. Outcomes(c) => tr[1].taken = OutcomeOf(c, 1)
  <2>1. tr[1].taken = Outcome(c, t.hist, 1)
    BY <1>4, <1>7
  <2> QED
    BY <1>8, <2>1, Zenon DEF Outcome
<1> QED
  BY <1>3, <1>6, <1>9

\* Without outcomes, here or to come, there is no branch.
LEMMA NoBranch ==
  ASSUME traceMode = "HTM", NEW t, TargetOK(t), t.hist = <<>>,
         NEW P \in Seq(Entry), P # <<>>, NEW tr, Path(P, tr),
         NEW c \in Count, Accounted(c, t, tr, Len(P)), ~Outcomes(c)
  PROVE  ~IsBranch(tr[1])
BY FirstOutcome

\* What nextAddr does with a branch.
BranchOf(k, tt, tcode, taken) ==
  LET i == Code[k.currentAddress] IN
  IF i.type \notin BranchTypes THEN [br |-> "none", cnt |-> k.cnt]
  ELSE IF tt = "HTM" THEN HistoryBranch(k.cnt, taken)
  ELSE BranchTraceBranch(k.cnt, i, tcode)

\* nextAddr, one kind of instruction at a time.
LEMMA NextAddrIs ==
  ASSUME NEW k, CoreOK(k), NEW tt, NEW tcode, NEW taken, k.currentAddress \in DOMAIN Code
  PROVE  LET r == NextAddr(k, tt, tcode, taken)
             a == k.currentAddress
             i == Code[a]
             b == BranchOf(k, tt, tcode, taken)
         IN /\ r.ok <=> i.type \notin BranchTypes \/ b.br # "none"
            /\ r.brFlag = b.br
            /\ r.type = TypeAfter(tt, i, k.cnt)
            /\ r.k.cnt = IF b.br = "unknown" THEN k.cnt ELSE ConsumeICnt(b.cnt, i.size)
            /\ r.k.stack = StackAfter(k.stack, CRFlag(i), a + i.size)
            /\ r.k.lastFaddr = k.lastFaddr
            /\ i.type = "OTHER" => r.pc = a + i.size
            /\ i.type \in {"JAL", "C_JAL", "C_J"} => r.pc = a + i.imm
            /\ i.type \in IndirectTypes =>
                 r.pc = IndirectTarget(r.type, i, k.cnt, k.stack, a + i.size)
            /\ i.type \in BranchTypes /\ b.br = "taken" => r.pc = a + i.imm
            /\ i.type \in BranchTypes /\ b.br = "notTaken" => r.pc = a + i.size
<1> DEFINE r == NextAddr(k, tt, tcode, taken)
           a == k.currentAddress
           i == Code[a]
           next == a + i.size
           tt2 == TypeAfter(tt, i, k.cnt)
           b == BranchOf(k, tt, tcode, taken)
           t == IndirectTarget(tt2, i, k.cnt, k.stack, next)
           pc == CASE i.type \in {"JAL", "C_JAL", "C_J"} -> a + i.imm
                   [] i.type \in IndirectTypes -> t
                   [] i.type \in {"ECALL", "XRET"} -> NoAddr
                   [] b.br = "taken" -> a + i.imm
                   [] b.br = "unknown" -> NoAddr
                   [] OTHER -> next
           s == StackAfter(k.stack, CRFlag(i), next)
           cnt == IF b.br = "unknown" THEN k.cnt ELSE ConsumeICnt(b.cnt, i.size)
<1>1. r = [ok     |-> i.type \notin BranchTypes \/ b.br # "none",
           pc     |-> pc,
           brFlag |-> b.br,
           crFlag |-> CRFlag(i),
           type   |-> tt2,
           k      |-> [k EXCEPT !.stack = s, !.cnt = cnt]]
  BY Zenon DEF NextAddr, BranchOf
<1>2. i.type \notin BranchTypes => b.br = "none"
  BY DEF BranchOf
<1> HIDE DEF r, a, i, next, tt2, b, t, s, cnt
<1>3. i.type = "OTHER" => i.type \notin BranchTypes
  BY DEF BranchTypes
<1>4. /\ i.type = "OTHER" => pc = next
      /\ i.type \in {"JAL", "C_JAL", "C_J"} => pc = a + i.imm
      /\ i.type \in IndirectTypes => pc = t
      /\ i.type \in BranchTypes /\ b.br = "taken" => pc = a + i.imm
      /\ i.type \in BranchTypes /\ b.br = "notTaken" => pc = next
  BY <1>2, <1>3 DEF IndirectTypes, BranchTypes
<1> HIDE DEF pc
<1>5. /\ r.k.cnt = cnt /\ r.k.stack = s /\ r.k.lastFaddr = k.lastFaddr
  BY <1>1 DEF CoreOK, CoreState
<1>6. /\ r.ok <=> i.type \notin BranchTypes \/ b.br # "none"
      /\ r.brFlag = b.br /\ r.type = tt2 /\ r.pc = pc
  BY <1>1
<1> QED
  BY <1>4, <1>5, <1>6, Zenon DEF r, a, i, next, tt2, b, t, s, cnt

\* The instruction count is apart from the outcomes.
LEMMA CountConsumed ==
  ASSUME NEW d \in Count, NEW s \in Int
  PROVE  LET e == ConsumeICnt(d, s) IN
         /\ e \in Count /\ e.i_cnt = d.i_cnt - s
         /\ NumOut(e) = NumOut(d) /\ (OneKind(e) <=> OneKind(d)) /\ (Outcomes(e) <=> Outcomes(d))
         /\ \A j : OutcomeOf(e, j) = OutcomeOf(d, j)
<1> DEFINE e == ConsumeICnt(d, s)
<1>1. /\ e \in Count /\ e.i_cnt = d.i_cnt - s /\ e.histBit = d.histBit /\ e.history = d.history
      /\ e.taken = d.taken /\ e.notTaken = d.notTaken
  BY DEF ConsumeICnt, Count
<1> HIDE DEF e
<1> QED
  BY <1>1 DEF NumOut, OneKind, Outcomes, OutcomeOf, e

\* An instruction that is no branch takes its size out of the counts.
LEMMA PlainConsumed ==
  ASSUME traceMode \in {"BTM", "HTM"}, NEW c \in Count, OneKind(c),
         traceMode = "BTM" => ~Outcomes(c),
         NEW p, ~IsBranch(p), Ins(p).size \in Int
  PROVE  Consumed(ConsumeICnt(c, Ins(p).size), c, p)
<1> DEFINE e == ConsumeICnt(c, Ins(p).size)
<1>1. /\ e \in Count /\ e.i_cnt = c.i_cnt - Ins(p).size
      /\ NumOut(e) = NumOut(c) /\ (OneKind(e) <=> OneKind(c)) /\ (Outcomes(e) <=> Outcomes(c))
      /\ \A j : OutcomeOf(e, j) = OutcomeOf(c, j)
  BY CountConsumed
<1> HIDE DEF e
<1>2. Consumed(e, c, p)
  BY <1>1 DEF Consumed
<1> QED
  BY <1>2 DEF e

\* In a branch trace a branch takes its size out of the counts, too.
LEMMA BranchConsumedBTM ==
  ASSUME traceMode = "BTM", NEW c \in Count, OneKind(c), ~Outcomes(c), NEW p, Ins(p).size \in Int
  PROVE  Consumed(ConsumeICnt(c, Ins(p).size), c, p)
<1> DEFINE e == ConsumeICnt(c, Ins(p).size)
<1>1. /\ e \in Count /\ e.i_cnt = c.i_cnt - Ins(p).size
      /\ (OneKind(e) <=> OneKind(c)) /\ (Outcomes(e) <=> Outcomes(c))
  BY CountConsumed
<1> HIDE DEF e
<1>2. Consumed(e, c, p)
  BY <1>1 DEF Consumed
<1> QED
  BY <1>2 DEF e

\* In a history trace it takes its outcome, too.
LEMMA BranchConsumedHTM ==
  ASSUME traceMode = "HTM", NEW c \in Count, OneKind(c), Outcomes(c),
         NEW taken \in HistoryTaken(c), NEW p, IsBranch(p), Ins(p).size \in Int
  PROVE  LET b == HistoryBranch(c, taken) IN
         /\ b.br = IF OutcomeOf(c, 1) THEN "taken" ELSE "notTaken"
         /\ Consumed(ConsumeICnt(b.cnt, Ins(p).size), c, p)
<1> DEFINE b == HistoryBranch(c, taken)
           d == b.cnt
           e == ConsumeICnt(d, Ins(p).size)
<1>1. /\ b.br = IF OutcomeOf(c, 1) THEN "taken" ELSE "notTaken"
      /\ d \in Count /\ OneKind(d) /\ d.i_cnt = c.i_cnt
      /\ NumOut(c) \in Nat /\ NumOut(d) = NumOut(c) - 1
      /\ \A j \in 1..NumOut(d) : OutcomeOf(d, j) = OutcomeOf(c, j + 1)
  BY OutcomeConsumed
<1>2. NumOut(c) > 0
  BY NoOutcomes
<1> HIDE DEF d, b
<1>3. /\ e \in Count /\ e.i_cnt = d.i_cnt - Ins(p).size
      /\ NumOut(e) = NumOut(d) /\ (OneKind(e) <=> OneKind(d))
      /\ \A j : OutcomeOf(e, j) = OutcomeOf(d, j)
  BY <1>1, CountConsumed
<1> HIDE DEF e
<1>4. \A j \in 1..NumOut(e) : OutcomeOf(e, j) = OutcomeOf(c, j + 1)
  BY <1>1, <1>3
<1>5. e \in Count /\ OneKind(e) /\ e.i_cnt = c.i_cnt - Ins(p).size /\ NumOut(e) = NumOut(c) - 1
  BY <1>1, <1>3
<1>6. Consumed(e, c, p)
  BY <1>2, <1>4, <1>5 DEF Consumed
<1> QED
  BY <1>1, <1>6 DEF e, d, b

\* The decoder's idea of the trace fits the encoders' when it works on m.
ModeFits(tt, m) ==
  /\ traceMode \in {"BTM", "HTM"} /\ tt \in {"BTM", "HTM"}
  /\ traceMode = "BTM" => tt = "BTM"
  /\ traceMode = "HTM" /\ m.tcode # "SYNC" => tt = "HTM"

\* What the end of a path says of the counts left to the encoder.
LEMMA EndCounts ==
  ASSUME NEW k, NEW m, NEW P, NEW t, NEW tr, EndsPath(k, m, P, t, tr)
  PROVE  /\ t.i_cnt = 0 \/ (m.tcode = "RESOURCEFULL" /\ traceMode = "HTM")
         /\ m.tcode \notin {"DIRECT_BRANCH", "RESOURCEFULL"} => t.i_cnt = 0 /\ t.hist = <<>>
         /\ m.tcode = "RESOURCEFULL" => traceMode = "HTM" /\ Guided(tr, Len(P))
         /\ m.tcode = "DIRECT_BRANCH" =>
              /\ traceMode = "BTM"
              /\ P # <<>> => /\ IsBranch(tr[Len(P)]) /\ tr[Len(P)].taken
                             /\ tr[Len(P) + 1].at = tr[Len(P)].at + Ins(tr[Len(P)]).imm
BY DEF EndsPath, IndirectTCodes, SyncingTCodes

\* The decoder takes a branch as the core did, or waits for its outcome.
LEMMA BranchAlong ==
  ASSUME NEW k, CoreOK(k), NEW m, NEW tt, ModeFits(tt, m), NEW P \in Seq(Entry), P # <<>>,
         NEW t, TargetOK(t), NEW tr, WorkPath(k, m, P, t, tr), IsBranch(tr[1]),
         ~ShowsHistory(m) => ~Outcomes(k.cnt), NEW taken \in HistoryTaken(k.cnt)
  PROVE  LET b == BranchOf(k, tt, m.tcode, taken) IN
         /\ b.br \in {"taken", "notTaken", "unknown"}
         /\ b.br = "unknown" => tt = "HTM" /\ CurrentCountType(k.cnt) = "i_cnt"
         /\ b.br # "unknown" => Consumed(ConsumeICnt(b.cnt, Ins(tr[1]).size), k.cnt, tr[1])
         /\ b.br # "unknown" /\ traceMode = "HTM" =>
              b.br = IF tr[1].taken THEN "taken" ELSE "notTaken"
         /\ traceMode = "BTM" /\ Len(P) > 1 => b.br = "notTaken"
         /\ m.tcode = "DIRECT_BRANCH" /\ Len(P) = 1 => b.br = "taken"
<1> DEFINE b == BranchOf(k, tt, m.tcode, taken)
           c == k.cnt
           p == tr[1]
           n == Len(P)
<1>1. c \in Count
  BY DEF CoreOK, CoreState
<1>2. Path(P, tr) /\ Accounted(c, t, tr, n) /\ EndsPath(k, m, P, t, tr) /\ p.at = k.currentAddress
  BY DEF WorkPath
<1>3. n \in Nat /\ n >= 1 /\ Ins(p).size \in {1, 2} /\ Ins(p).size \in Int
  BY <1>2, FirstPoint
<1>4. OneKind(c) /\ (traceMode = "BTM" => ~Outcomes(c))
  BY <1>2 DEF Accounted
<1>5. CurrentCountType(c) # "none"
  BY <1>1, Exhausted DEF ModeFits
<1>6. Code[k.currentAddress] = Ins(p)
  BY <1>2 DEF Ins
<1>7. CASE traceMode = "BTM"
  <2>1. b = BranchTraceBranch(c, Ins(p), m.tcode)
    BY <1>6, <1>7 DEF BranchOf, ModeFits, IsBranch
  <2>2. b.br = (IF c.i_cnt <= Ins(p).size /\ m.tcode \in {"DIRECT_BRANCH", "DIRECT_BRANCH_WS"}
                THEN "taken" ELSE "notTaken") /\ b.cnt = c
    BY <2>1 DEF BranchTraceBranch
  <2>3. t.i_cnt = 0
    BY <1>2, <1>7, EndCounts
  <2>4. n > 1 => c.i_cnt > Ins(p).size
    BY <1>1, <1>2, <2>3, CountReaches
  <2>5. c.i_cnt \in Int
    BY <1>1 DEF Count
  <2>6. n = 1 => c.i_cnt <= Ins(p).size
    <3> DEFINE x == p.size
               y == tr[2].size
               s == Ins(p).size
               a == c.i_cnt
    <3>1. p \in Point /\ tr[2] \in Point /\ Follows(p, tr[2])
      BY <1>2, FirstPoint
    <3>2. x \in Int /\ y \in Int /\ y = x + s
      BY <3>1 DEF Point, Follows
    <3>3. n = 1 => a + 0 = y - x
      <4>1. a + 0 = tr[n + 1].size - x
        BY <1>2, <2>3 DEF Accounted
      <4>2. n = 1 => n + 1 = 2
        OBVIOUS
      <4> QED
        BY <4>1, <4>2
    <3>4. s \in Int /\ a \in Int
      BY <1>3, <2>5
    <3> HIDE DEF x, y, s, a, n
    <3>5. n = 1 => a <= s
      BY <3>2, <3>3, <3>4
    <3> QED
      BY <3>5 DEF a, s
  <2>7. Consumed(ConsumeICnt(c, Ins(p).size), c, p)
    BY <1>1, <1>3, <1>4, <1>7, BranchConsumedBTM
  <2>8. n > 1 => b.br = "notTaken"
    BY <1>3, <2>2, <2>4, <2>5
  <2>9. m.tcode = "DIRECT_BRANCH" /\ n = 1 => b.br = "taken"
    BY <2>2, <2>6
  <2> HIDE DEF b, c, p, n
  <2>10. b.br \in {"taken", "notTaken"}
    BY <2>2
  <2> QED
    BY <1>7, <2>2, <2>7, <2>8, <2>9, <2>10 DEF b, c, p, n
<1>8. CASE traceMode = "HTM" /\ tt = "HTM" /\ Outcomes(c)
  <2>1. b = HistoryBranch(c, taken)
    BY <1>6, <1>8 DEF BranchOf, IsBranch
  <2>2. /\ b.br = IF OutcomeOf(c, 1) THEN "taken" ELSE "notTaken"
        /\ Consumed(ConsumeICnt(b.cnt, Ins(p).size), c, p)
    BY <1>1, <1>3, <1>4, <1>8, <2>1, BranchConsumedHTM
  <2>3. p.taken = OutcomeOf(c, 1)
    BY <1>1, <1>2, <1>8, FirstOutcome
  <2>4. m.tcode # "DIRECT_BRANCH"
    BY <1>2, <1>8, EndCounts
  <2> HIDE DEF b, c, p, n
  <2>5. b.br \in {"taken", "notTaken"} /\ b.br = IF p.taken THEN "taken" ELSE "notTaken"
    BY <2>2, <2>3
  <2> QED
    BY <1>8, <2>2, <2>4, <2>5 DEF b, c, p, n
<1>9. CASE traceMode = "HTM" /\ tt = "HTM" /\ ~Outcomes(c)
  <2>1. CurrentCountType(c) = "i_cnt"
    BY <1>1, <1>5, <1>9, CountTypeMeaning
  <2>2. b = [br |-> "unknown", cnt |-> c]
    BY <1>6, <1>9, <2>1 DEF BranchOf, IsBranch, HistoryBranch
  <2>3. m.tcode # "DIRECT_BRANCH"
    BY <1>2, <1>9, EndCounts
  <2> QED
    BY <1>9, <2>1, <2>2, <2>3
<1>10. CASE traceMode = "HTM" /\ tt # "HTM"
  <2>1. m.tcode = "SYNC"
    BY <1>10 DEF ModeFits
  <2>2. ~Outcomes(c) /\ t.hist = <<>>
    BY <1>2, <2>1, EndCounts DEF ShowsHistory, HistoryTCodes
  <2> QED
    BY <1>1, <1>2, <1>10, <2>2, NoBranch
<1> QED
  BY <1>7, <1>8, <1>9, <1>10 DEF ModeFits

\* The address after the last instruction matters to some messages only.
Leads(m, P) == Len(P) > 1 \/ m.tcode \in {"DIRECT_BRANCH", "RESOURCEFULL"}

\* nextAddr goes from the first point of a path to the second.
Along(r, c, tt, m, P, tr) ==
  /\ r.ok
  /\ r.type \in {"BTM", "HTM"} /\ (traceMode = "BTM" => r.type = "BTM") /\ (tt = "HTM" => r.type = "HTM")
  /\ r.brFlag = "unknown" => tt = "HTM" /\ IsBranch(tr[1]) /\ CurrentCountType(c) = "i_cnt"
  /\ r.brFlag # "unknown" => /\ Consumed(r.k.cnt, c, tr[1]) /\ r.k.stack = tr[2].calls
                             /\ Leads(m, P) => r.pc = tr[2].at

\* One instruction further: the decoder finds its address on the path, and what is
\* left of the counts is for the rest of it.
LEMMA StepAlong ==
  ASSUME NEW k, CoreOK(k), NEW m, NEW tt, ModeFits(tt, m), NEW P \in Seq(Entry), P # <<>>,
         NEW t, TargetOK(t), NEW tr, WorkPath(k, m, P, t, tr),
         ~ShowsHistory(m) => ~Outcomes(k.cnt), NEW taken \in HistoryTaken(k.cnt)
  PROVE  Along(NextAddr(k, tt, m.tcode, taken), k.cnt, tt, m, P, tr)
<1> DEFINE r == NextAddr(k, tt, m.tcode, taken)
           b == BranchOf(k, tt, m.tcode, taken)
           c == k.cnt
           p == tr[1]
           q == tr[2]
           i == Ins(p)
           n == Len(P)
<1>1. c \in Count
  BY DEF CoreOK, CoreState
<1>2. /\ Path(P, tr) /\ Guided(tr, n - 1) /\ Accounted(c, t, tr, n) /\ EndsPath(k, m, P, t, tr)
      /\ p.at = k.currentAddress /\ p.calls = k.stack
  BY DEF WorkPath
<1>3. /\ n \in Nat /\ n >= 1 /\ i.size \in {1, 2} /\ i.size \in Int /\ i \in Instruction
      /\ p.at \in DOMAIN Code /\ Follows(p, q)
  BY <1>2, FirstPoint
<1>4. OneKind(c) /\ (traceMode = "BTM" => ~Outcomes(c))
  BY <1>2 DEF Accounted
<1>5. /\ r.ok <=> i.type \notin BranchTypes \/ b.br # "none"
      /\ r.brFlag = b.br
      /\ r.type = TypeAfter(tt, i, c)
      /\ r.k.cnt = IF b.br = "unknown" THEN c ELSE ConsumeICnt(b.cnt, i.size)
      /\ r.k.stack = StackAfter(p.calls, CRFlag(i), p.at + i.size)
      /\ i.type = "OTHER" => r.pc = p.at + i.size
      /\ i.type \in {"JAL", "C_JAL", "C_J"} => r.pc = p.at + i.imm
      /\ i.type \in IndirectTypes => r.pc = IndirectTarget(r.type, i, c, p.calls, p.at + i.size)
      /\ i.type \in BranchTypes /\ b.br = "taken" => r.pc = p.at + i.imm
      /\ i.type \in BranchTypes /\ b.br = "notTaken" => r.pc = p.at + i.size
  BY <1>2, <1>3, NextAddrIs DEF Ins
<1>6. r.k.stack = q.calls
  BY <1>3, <1>5 DEF Follows
<1>7. n > 1 \/ m.tcode = "RESOURCEFULL" => Known(traceMode, p, q.at)
  <2>1. n > 1 => 1 \in 1..n - 1 /\ 1 + 1 = 2
    BY <1>3
  <2>2. 1 \in 1..n /\ 1 + 1 = 2
    BY <1>3
  <2>3. m.tcode = "RESOURCEFULL" => Guided(tr, n)
    BY <1>2, EndCounts
  <2> QED
    BY <1>2, <2>1, <2>2, <2>3 DEF Guided
<1>8. ModeFits(tt, m) /\ TypeAfter(tt, i, c) \in {tt, "HTM"}
  BY DEF TypeAfter
<1>9. n = 1 /\ m.tcode = "DIRECT_BRANCH" => IsBranch(p) /\ p.taken /\ q.at = p.at + i.imm
  <2>1. n = 1 => n + 1 = 2
    OBVIOUS
  <2> QED
    BY <1>2, <2>1, EndCounts
<1>10. i.type \notin BranchTypes => b = [br |-> "none", cnt |-> c]
  BY <1>2 DEF BranchOf, Ins
<1>11. i.type \notin BranchTypes => Consumed(ConsumeICnt(c, i.size), c, p)
  BY <1>1, <1>3, <1>4, <1>8, PlainConsumed DEF ModeFits, IsBranch
<1>12. Leads(m, P) => n > 1 \/ m.tcode = "RESOURCEFULL" \/ (n = 1 /\ m.tcode = "DIRECT_BRANCH")
  <2>1. n = 1 \/ n > 1
    <3>1. n \in Nat /\ n >= 1
      BY <1>3
    <3> HIDE DEF n
    <3> QED
      BY <3>1
  <2>2. Leads(m, P) => n > 1 \/ m.tcode \in {"DIRECT_BRANCH", "RESOURCEFULL"}
    BY DEF Leads
  <2> HIDE DEF n
  <2> QED
    BY <2>1, <2>2
<1>13. CASE i.type \in BranchTypes
  <2>1. /\ b.br \in {"taken", "notTaken", "unknown"}
        /\ b.br = "unknown" => tt = "HTM" /\ CurrentCountType(c) = "i_cnt"
        /\ b.br # "unknown" => Consumed(ConsumeICnt(b.cnt, i.size), c, p)
        /\ b.br # "unknown" /\ traceMode = "HTM" => b.br = IF p.taken THEN "taken" ELSE "notTaken"
        /\ traceMode = "BTM" /\ n > 1 => b.br = "notTaken"
        /\ m.tcode = "DIRECT_BRANCH" /\ n = 1 => b.br = "taken"
    BY <1>13, BranchAlong DEF IsBranch
  <2>2. r.type = tt
    BY <1>5, <1>13 DEF TypeAfter, BranchTypes, IndirectTypes
  <2>3. i.type \in BranchTypes => i.type = "BRANCH"
    BY DEF BranchTypes
  <2>4. Known(traceMode, p, q.at) =>
          /\ traceMode = "BTM" => ~p.taken
          /\ q.at = p.at + IF p.taken THEN i.imm ELSE i.size
    BY <1>13, <2>3 DEF Known, IndirectTypes
  <2>5. m.tcode = "RESOURCEFULL" => traceMode = "HTM"
    BY <1>2, EndCounts
  <2> HIDE DEF r, b, c, p, q, i, n
  <2>6. ASSUME b.br # "unknown", n > 1 \/ m.tcode = "RESOURCEFULL" PROVE r.pc = q.at
    <3>1. CASE traceMode = "HTM"
      BY <1>5, <1>7, <1>13, <2>1, <2>4, <2>6, <3>1
    <3>2. CASE traceMode = "BTM"
      BY <1>5, <1>7, <1>13, <2>1, <2>4, <2>5, <2>6, <3>2
    <3> QED
      BY <1>8, <3>1, <3>2 DEF ModeFits
  <2>7. ASSUME n = 1 /\ m.tcode = "DIRECT_BRANCH" PROVE r.pc = q.at
    BY <1>5, <1>9, <1>13, <2>1, <2>7
  <2>8. b.br # "unknown" /\ Leads(m, P) => r.pc = q.at
    BY <1>12, <2>6, <2>7
  <2> QED
    BY <1>5, <1>6, <1>8, <1>13, <2>1, <2>2, <2>8 DEF Along, ModeFits, IsBranch, r, b, c, p, q, i, n
<1>14. CASE i.type \in {"OTHER", "JAL", "C_JAL", "C_J"}
  <2>1. i.type \notin BranchTypes /\ i.type \notin IndirectTypes
    BY <1>14 DEF BranchTypes, IndirectTypes
  <2>2. r.type = tt
    BY <1>5, <2>1 DEF TypeAfter
  <2>3. Known(traceMode, p, q.at) => r.pc = q.at
    BY <1>5, <1>14, <2>1 DEF Known, IsBranch
  <2>4. Leads(m, P) => r.pc = q.at
    BY <1>7, <1>9, <1>12, <2>1, <2>3 DEF IsBranch
  <2>5. b.br = "none" /\ b.cnt = c
    BY <1>10, <2>1
  <2> HIDE DEF r, b, c, p, q, i, n
  <2> QED
    BY <1>5, <1>6, <1>8, <1>11, <2>1, <2>2, <2>4, <2>5 DEF Along, ModeFits, r, b, c, p, q, i, n
<1>15. CASE i.type \in IndirectTypes
  <2>1. i.type \notin BranchTypes /\ i.type \notin {"OTHER", "JAL", "C_JAL", "C_J"}
    BY <1>15 DEF BranchTypes, IndirectTypes
  <2>2. b.br = "none" /\ b.cnt = c
    BY <1>10, <2>1
  <2>3. Known(traceMode, p, q.at) =>
          IF traceMode = "HTM" THEN Returning(p) /\ p.calls # <<>> /\ q.at = Head(p.calls)
          ELSE ~Returning(p) /\ q.at = p.at + i.size
    BY <2>1 DEF Known, IsBranch
  <2>4. t.i_cnt = 0 => c.i_cnt >= i.size /\ (n > 1 => c.i_cnt > i.size)
    BY <1>1, <1>2, CountReaches
  <2>5. t.i_cnt = 0 /\ n = 1 => c.i_cnt = i.size
    <3> DEFINE x == p.size
               y == q.size
               s == i.size
               a == c.i_cnt
    <3>1. p \in Point /\ q \in Point
      BY <1>2, FirstPoint
    <3>2. x \in Int /\ y \in Int /\ y = x + s /\ a \in Int
      BY <1>1, <1>3, <3>1 DEF Point, Follows, Count
    <3>3. t.i_cnt = 0 /\ n = 1 => a + 0 = y - x
      <4>1. t.i_cnt = 0 => a + 0 = tr[n + 1].size - x
        BY <1>2 DEF Accounted
      <4>2. n = 1 => n + 1 = 2
        OBVIOUS
      <4> QED
        BY <4>1, <4>2
    <3>4. s \in Int
      BY <1>3
    <3> HIDE DEF x, y, s, a, n
    <3>5. t.i_cnt = 0 /\ n = 1 => a = s
      BY <3>2, <3>3, <3>4
    <3> QED
      BY <3>5 DEF a, s
  <2>6. CASE traceMode = "BTM"
    <3>1. tt = "BTM" /\ t.i_cnt = 0
      BY <1>2, <1>8, <2>6, EndCounts DEF ModeFits
    <3>2. c.i_cnt > i.size => ~Returning(p)
      <4>1. c.i_cnt > i.size => n > 1
        <5> DEFINE x == c.i_cnt
                   y == i.size
        <5>1. x \in Int /\ y \in Int /\ (n = 1 => x = y) /\ n \in Nat /\ n >= 1
          BY <1>1, <1>3, <2>5, <3>1 DEF Count
        <5> HIDE DEF x, y, n
        <5>2. x > y => n > 1
          BY <5>1
        <5> QED
          BY <5>2 DEF x, y
      <4> QED
        BY <1>7, <2>3, <2>6, <4>1
    <3>3. r.type = "BTM"
      BY <1>5, <3>1, <3>2 DEF TypeAfter, Returning
    <3>4. n > 1 => r.pc = q.at
      <4>1. n > 1 => c.i_cnt > i.size /\ q.at = p.at + i.size
        BY <1>7, <2>3, <2>4, <2>6, <3>1
      <4> QED
        BY <1>5, <1>15, <3>3, <4>1 DEF IndirectTarget
    <3>5. m.tcode # "RESOURCEFULL"
      BY <1>2, <2>6, EndCounts
    <3>6. Leads(m, P) => r.pc = q.at
      BY <1>9, <1>12, <2>1, <3>4, <3>5 DEF IsBranch
    <3> HIDE DEF r, b, c, p, q, i, n
    <3> QED
      BY <1>5, <1>6, <1>11, <2>1, <2>2, <2>6, <3>1, <3>3, <3>6 DEF Along, r, b, c, p, q, i, n
  <2>7. CASE traceMode = "HTM"
    <3>1. m.tcode # "DIRECT_BRANCH"
      BY <1>2, <2>7, EndCounts
    <3>2. r.type \in {"BTM", "HTM"} /\ (tt = "HTM" => r.type = "HTM")
      BY <1>5, <1>8 DEF ModeFits
    <3>3. ASSUME n > 1 \/ m.tcode = "RESOURCEFULL" PROVE r.type = "HTM" /\ r.pc = q.at
      <4>1. Returning(p) /\ p.calls # <<>> /\ q.at = Head(p.calls)
        BY <1>7, <2>3, <2>7, <3>3
      <4>2. r.type = "HTM"
        <5>1. CASE tt = "HTM"
          BY <3>2, <5>1
        <5>2. CASE tt # "HTM"
          <6>1. m.tcode = "SYNC"
            BY <2>7, <5>2 DEF ModeFits
          <6>2. t.i_cnt = 0 /\ n > 1
            BY <1>2, <3>3, <6>1, EndCounts
          <6>3. c.i_cnt > i.size
            BY <2>4, <6>2
          <6> QED
            BY <1>5, <1>15, <4>1, <6>3 DEF TypeAfter, Returning
        <5> QED
          BY <5>1, <5>2
      <4> QED
        BY <1>5, <1>15, <4>1, <4>2 DEF IndirectTarget, Returning, Top
    <3>4. Leads(m, P) => r.pc = q.at
      BY <1>12, <3>1, <3>3
    <3> HIDE DEF r, b, c, p, q, i, n
    <3> QED
      BY <1>5, <1>6, <1>11, <2>1, <2>2, <2>7, <3>2, <3>4 DEF Along, r, b, c, p, q, i, n
  <2> QED
    BY <2>6, <2>7 DEF ModeFits
<1>16. CASE i.type \in {"ECALL", "XRET"}
  <2>1. i.type \notin BranchTypes /\ i.type \notin IndirectTypes
        /\ i.type \notin {"OTHER", "JAL", "C_JAL", "C_J"}
    BY <1>16 DEF BranchTypes, IndirectTypes
  <2>2. ~Known(traceMode, p, q.at)
    BY <2>1 DEF Known, IsBranch
  <2>3. ~Leads(m, P)
    BY <1>7, <1>9, <1>12, <2>1, <2>2 DEF IsBranch
  <2>4. b.br = "none" /\ b.cnt = c
    BY <1>10, <2>1
  <2>5. r.type = tt
    BY <1>5, <2>1 DEF TypeAfter
  <2> HIDE DEF r, b, c, p, q, i, n
  <2> QED
    BY <1>5, <1>6, <1>8, <1>11, <2>1, <2>3, <2>4, <2>5 DEF Along, ModeFits, r, b, c, p, q, i, n
<1>17. i.type \in BranchTypes \cup IndirectTypes \cup {"OTHER", "JAL", "C_JAL", "C_J"} \cup {"ECALL", "XRET"}
  BY <1>3 DEF Instruction, InstType
<1> QED
  BY <1>13, <1>14, <1>15, <1>16, <1>17

\* What is left of a path still ends as the message says.
LEMMA EndsTail ==
  ASSUME NEW k, NEW m, NEW P \in Seq(Entry), P # <<>>, NEW t,
         NEW tr, Path(P, tr), EndsPath(k, m, P, t, tr),
         NEW j, j.lastFaddr = k.lastFaddr, Leads(m, P) => j.currentAddress = tr[2].at
  PROVE  EndsPath(j, m, Tail(P), t, After(tr, Len(P)))
<1> DEFINE n == Len(P)
           q == Tail(P)
           u == After(tr, n)
<1>1. /\ n \in Nat /\ n >= 1 /\ Len(q) = n - 1 /\ (q # <<>> <=> n > 1)
      /\ \A l \in 1..n : u[l] = tr[l + 1]
      /\ Guided(tr, n) => Guided(u, n - 1)
  BY PathTail
<1>2. u[n] = tr[n + 1] /\ n - 1 + 1 = n /\ Len(q) + 1 = n
  BY <1>1
<1>3. q # <<>> => u[n - 1] = tr[n]
  <2>1. n > 1 => n - 1 \in 1..n /\ n - 1 + 1 = n
    BY <1>1
  <2> QED
    BY <1>1, <2>1
<1>4. q = <<>> /\ m.tcode \in {"DIRECT_BRANCH", "RESOURCEFULL"} => j.currentAddress = tr[n + 1].at
  <2>1. q = <<>> => n + 1 = 2
    BY <1>1
  <2> QED
    BY <2>1 DEF Leads
<1> HIDE DEF n, q, u
<1>5. EndsPath(k, m, P, t, tr) <=>
      \/ /\ m.tcode = "DIRECT_BRANCH" /\ traceMode = "BTM" /\ t.mode = "on"
         /\ P # <<>> => /\ IsBranch(tr[n]) /\ tr[n].taken
                        /\ tr[n + 1].at = tr[n].at + Ins(tr[n]).imm
         /\ tr[n + 1].at = t.pc /\ (P = <<>> => k.currentAddress = t.pc)
         /\ tr[n + 1].calls = t.calls /\ t.ref = k.lastFaddr /\ t.i_cnt = 0
      \/ /\ m.tcode = "RESOURCEFULL" /\ traceMode = "HTM" /\ t.mode = "on"
         /\ Guided(tr, n)
         /\ tr[n + 1].at = t.pc /\ (P = <<>> => k.currentAddress = t.pc)
         /\ tr[n + 1].calls = t.calls /\ t.ref = k.lastFaddr
         /\ \/ m.rCode = 0 /\ t.i_cnt = 0
            \/ m.rCode \in {1, 8, 9} /\ t.hist = <<>> /\ (P # <<>> => IsBranch(tr[n]))
      \/ /\ m.tcode \in IndirectTCodes /\ t.mode = "on"
         /\ tr[n + 1].calls = t.calls /\ XorOf[k.lastFaddr, m.addr] = t.pc /\ t.ref = t.pc
         /\ t.i_cnt = 0 /\ t.hist = <<>>
      \/ /\ m.tcode \in SyncingTCodes /\ t.mode = "on"
         /\ m.addr = t.pc /\ t.ref = t.pc /\ t.calls = <<>>
         /\ t.i_cnt = 0 /\ t.hist = <<>>
      \/ /\ m.tcode = "CORRELATION" /\ t.mode = "off"
         /\ t.i_cnt = 0 /\ t.hist = <<>>
  BY DEF EndsPath, n
<1>6. EndsPath(j, m, q, t, u) <=>
      \/ /\ m.tcode = "DIRECT_BRANCH" /\ traceMode = "BTM" /\ t.mode = "on"
         /\ q # <<>> => /\ IsBranch(u[n - 1]) /\ u[n - 1].taken
                        /\ u[n].at = u[n - 1].at + Ins(u[n - 1]).imm
         /\ u[n].at = t.pc /\ (q = <<>> => j.currentAddress = t.pc)
         /\ u[n].calls = t.calls /\ t.ref = j.lastFaddr /\ t.i_cnt = 0
      \/ /\ m.tcode = "RESOURCEFULL" /\ traceMode = "HTM" /\ t.mode = "on"
         /\ Guided(u, n - 1)
         /\ u[n].at = t.pc /\ (q = <<>> => j.currentAddress = t.pc)
         /\ u[n].calls = t.calls /\ t.ref = j.lastFaddr
         /\ \/ m.rCode = 0 /\ t.i_cnt = 0
            \/ m.rCode \in {1, 8, 9} /\ t.hist = <<>> /\ (q # <<>> => IsBranch(u[n - 1]))
      \/ /\ m.tcode \in IndirectTCodes /\ t.mode = "on"
         /\ u[n].calls = t.calls /\ XorOf[j.lastFaddr, m.addr] = t.pc /\ t.ref = t.pc
         /\ t.i_cnt = 0 /\ t.hist = <<>>
      \/ /\ m.tcode \in SyncingTCodes /\ t.mode = "on"
         /\ m.addr = t.pc /\ t.ref = t.pc /\ t.calls = <<>>
         /\ t.i_cnt = 0 /\ t.hist = <<>>
      \/ /\ m.tcode = "CORRELATION" /\ t.mode = "off"
         /\ t.i_cnt = 0 /\ t.hist = <<>>
  <2>1. Len(q) = n - 1
    BY <1>1
  <2>2. u[Len(q) + 1] = u[n] /\ u[Len(q)] = u[n - 1]
    BY <1>2, <2>1
  <2> QED
    BY <1>2, <2>1, <2>2 DEF EndsPath
<1>7. EndsPath(j, m, q, t, u)
  BY <1>1, <1>2, <1>3, <1>4, <1>5, <1>6
<1> QED
  BY <1>7 DEF q, u, n

\* The result r of nextAddr leads on along the instructions P, or waits at a branch.
GoesOn(r, k, tt, m, P, t) ==
  /\ r.ok
  /\ r.type \in {"BTM", "HTM"} /\ (traceMode = "BTM" => r.type = "BTM")
  /\ tt = "HTM" => r.type = "HTM"
  /\ k.currentAddress \in DOMAIN Code /\ Head(P).address = k.currentAddress
  /\ r.brFlag = "unknown" =>
       /\ tt = "HTM" /\ CurrentCountType(k.cnt) = "i_cnt"
       /\ Code[k.currentAddress].type \in BranchTypes
  /\ r.brFlag # "unknown" =>
       /\ InWork([r.k EXCEPT !.currentAddress = r.pc, !.enterISR = FALSE], m, Tail(P), t)
       /\ CurrentCountType(r.k.cnt) # "none" <=> Tail(P) # <<>>
       /\ CurrentCountType(r.k.cnt) # "none" => r.pc # NoAddr

\* The decoder is at the next instruction of the path.
LEMMA WorkGoesOn ==
  ASSUME NEW k, CoreOK(k), NEW m, NEW tt, ModeFits(tt, m), NEW P \in Seq(Entry), P # <<>>,
         NEW t, TargetOK(t), InWork(k, m, P, t),
         NEW taken \in HistoryTaken(k.cnt)
  PROVE  GoesOn(NextAddr(k, tt, m.tcode, taken), k, tt, m, P, t)
<1>1. PICK tr : WorkPath(k, m, P, t, tr)
  BY DEF InWork
<1> DEFINE c == k.cnt
           n == Len(P)
           q == Tail(P)
           u == After(tr, n)
           r == NextAddr(k, tt, m.tcode, taken)
           j == [r.k EXCEPT !.currentAddress = r.pc, !.enterISR = FALSE]
<1>2. /\ Path(P, tr) /\ Guided(tr, n - 1) /\ Accounted(c, t, tr, n) /\ EndsPath(k, m, P, t, tr)
      /\ tr[1].at = k.currentAddress /\ tr[1].calls = k.stack
  BY <1>1 DEF WorkPath
<1>3. Along(r, c, tt, m, P, tr)
  BY <1>1, StepAlong DEF InWork
<1>4. tr[1].at \in DOMAIN Code /\ Head(P).address = tr[1].at
  BY <1>2, FirstPoint
<1>5. CoreOK(r.k) /\ r.k.lastFaddr = k.lastFaddr
  <2>1. tt \in {"BTM", "HTM"} /\ k.currentAddress \in DOMAIN Code
    BY <1>2, <1>4 DEF ModeFits
  <2>2. CoreOK(r.k)
    BY <2>1, NextAddrType
  <2>3. r.k.lastFaddr = k.lastFaddr
    BY <2>1, NextAddrIs
  <2> QED
    BY <2>2, <2>3
<1>6. ASSUME r.brFlag # "unknown"
      PROVE  /\ InWork(j, m, q, t)
             /\ CurrentCountType(r.k.cnt) # "none" <=> q # <<>>
             /\ CurrentCountType(r.k.cnt) # "none" => r.pc # NoAddr
  <2>1. Consumed(r.k.cnt, c, tr[1]) /\ r.k.stack = tr[2].calls /\ (Leads(m, P) => r.pc = tr[2].at)
    BY <1>3, <1>6 DEF Along
  <2>2. /\ n \in Nat /\ n >= 1 /\ q \in Seq(Entry) /\ Len(q) = n - 1 /\ (q # <<>> <=> n > 1)
        /\ Path(q, u) /\ (\A l \in 1..n : u[l] = tr[l + 1])
        /\ Guided(tr, n - 1) => Guided(u, n - 2)
    BY <1>2, PathTail
  <2>3. j.cnt = r.k.cnt /\ j.stack = r.k.stack /\ j.lastFaddr = k.lastFaddr /\ j.currentAddress = r.pc
    BY <1>5 DEF CoreOK, CoreState
  <2>4. c \in Count /\ r.k.cnt \in Count
    BY <1>5 DEF CoreOK, CoreState
  <2>5. Accounted(j.cnt, t, u, Len(q))
    BY <1>2, <2>1, <2>2, <2>3, <2>4, AccountedTail DEF ModeFits
  <2>6. EndsPath(j, m, q, t, u)
    BY <1>2, <2>1, <2>3, EndsTail
  <2>7. u[1] = tr[2]
    <3>1. 1 \in 1..n /\ 1 + 1 = 2
      BY <2>2
    <3> QED
      BY <2>2, <3>1
  <2>8. q # <<>> => r.pc = tr[2].at
    BY <2>1, <2>2 DEF Leads
  <2>9. Guided(u, Len(q) - 1)
    <3>1. n - 1 - 1 = n - 2
      BY <2>2
    <3> QED
      BY <1>2, <2>2, <3>1
  <2>10. WorkPath(j, m, q, t, u)
    <3> HIDE DEF u, q, j, n
    <3> QED
      BY <2>1, <2>2, <2>3, <2>5, <2>6, <2>7, <2>8, <2>9 DEF WorkPath
  <2>11. ~ShowsHistory(m) => ~Outcomes(j.cnt)
    <3>1. ~ShowsHistory(m) => ~Outcomes(c)
      BY DEF InWork
    <3>2. ASSUME ~Outcomes(c) PROVE ~Outcomes(r.k.cnt)
      <4>1. CASE traceMode = "BTM"
        BY <2>1, <4>1 DEF Consumed
      <4>2. CASE traceMode = "HTM"
        <5>1. NumOut(c) = 0
          BY <2>4, <3>2, NoOutcomes
        <5>2. NumOut(r.k.cnt) = 0
          BY <2>1, <4>2, <5>1 DEF Consumed
        <5> QED
          BY <2>4, <5>2, NoOutcomes
      <4> QED
        BY <4>1, <4>2 DEF ModeFits
    <3> QED
      BY <2>3, <3>1, <3>2
  <2>12. InWork(j, m, q, t)
    BY <2>10, <2>11 DEF InWork
  <2>13. CurrentCountType(r.k.cnt) # "none" <=> q # <<>>
    <3> HIDE DEF u, q, j
    <3> QED
      BY <2>2, <2>3, <2>4, <2>10, Exhausted DEF ModeFits
  <2>14. q # <<>> => r.pc # NoAddr
    <3>1. q # <<>> => 2 \in 1..n
      BY <2>2
    <3>2. q # <<>> => tr[2].at # NoAddr
      BY <1>2, <2>2, <3>1, PathPoint
    <3> QED
      BY <2>8, <3>2
  <2> QED
    BY <2>12, <2>13, <2>14
<1>7. r.brFlag = "unknown" => /\ tt = "HTM" /\ CurrentCountType(c) = "i_cnt"
                              /\ Code[k.currentAddress].type \in BranchTypes
  BY <1>2, <1>3 DEF Along, IsBranch, Ins
<1> HIDE DEF j, q, c, r
<1>8. GoesOn(r, k, tt, m, P, t)
  BY <1>2, <1>3, <1>4, <1>6, <1>7 DEF Along, GoesOn, j, q, c
<1> QED
  BY <1>8 DEF r

-----------------------------------------------------------------------------
(* The decoder's steps.                                                    *)

\* What the invariant says of a core in the next state, from its values there.
LEMMA RestsNext ==
  ASSUME NEW c, UNCHANGED traceMode,
         \/ AtRest(core'[c], pending'[c], target'[c])
         \/ target'[c].mode = "off" /\ core'[c].state = "GETFIRSTSYNCMSG" /\ pending'[c] = <<>>
         \/ target'[c].mode = "lost" /\ core'[c].state \in {"GETMSGWITHCOUNT", "GETNEXTMSG"}
  PROVE  Rests(c)'
BY DEF Rests, Unsynced, Waiting, AtRest, RestPath, Guided, Accounted

\* A core of which nothing is under way stays as it is when nothing of it changes.
LEMMA RestsStays ==
  ASSUME NEW c, UNCHANGED traceMode, core'[c] = core[c], pending'[c] = pending[c],
         target'[c] = target[c], traceType = "HTM" => traceType' = "HTM",
         Rests(c), HeldBack(c)
  PROVE  Rests(c)' /\ HeldBack(c)'
<1>1. Rests(c)'
  BY RestsNext DEF Rests, Unsynced, Waiting
<1>2. HeldBack(c)'
  BY DEF HeldBack
<1> QED
  BY <1>1, <1>2

\* The core whose message the decoder works on.
LEMMA CoreInWork ==
  ASSUME SysInv, ~readNewTraceMessage
  PROVE  /\ currentCore \in Core /\ nm.core = currentCore /\ Working(currentCore)
         /\ \A d \in Core \ {currentCore} : Rests(d) /\ HeldBack(d)
         /\ CoreOK(K) /\ K \in CoreState /\ K.cnt \in Count
         /\ TargetOK(target[currentCore]) /\ pending[currentCore] \in Seq(Entry)
         /\ pending \in [Core -> Seq(Entry)] /\ core \in [Core -> CoreState]
         /\ status = "OK" /\ nm \in Message /\ traceMode \in {"BTM", "HTM"}
<1>1. currentCore \in Core /\ nm.core = currentCore /\ core \in [Core -> CoreState] /\ nm \in Message
  BY DEF SysInv, IInv, TypeOK
<1>2. \A d \in Core : Busy(d) <=> d = currentCore
  BY <1>1 DEF Busy
<1>3. CoreOK(K) /\ K \in CoreState /\ K.cnt \in Count
  BY CurrentCore DEF SysInv, CoreOK, CoreState
<1>4. Working(currentCore) /\ \A d \in Core \ {currentCore} : Rests(d) /\ HeldBack(d)
  BY <1>1, <1>2 DEF SysInv
<1>5. TargetOK(target[currentCore]) /\ pending[currentCore] \in Seq(Entry)
  BY <1>1 DEF SysInv
<1> QED
  BY <1>1, <1>3, <1>4, <1>5 DEF SysInv

\* A step of the decoder concerns that core only.
LEMMA DecoderFrame ==
  ASSUME SysInv, IInv', ~readNewTraceMessage, status' = "OK",
         NEW k, core' = [core EXCEPT ![currentCore] = k],
         NEW Q \in Seq(Entry), pending' = [pending EXCEPT ![currentCore] = Q],
         UNCHANGED <<currentCore, traceMode, target, channel>>,
         traceMode = "BTM" => traceType' = "BTM", traceType = "HTM" => traceType' = "HTM",
         ~readNewTraceMessage' => Working(currentCore)',
         readNewTraceMessage' =>
           /\ HeldBack(currentCore)'
           /\ IF channel = <<>> THEN Rests(currentCore)'
              ELSE Head(channel).msg.core = currentCore /\ Arriving(currentCore)'
  PROVE  SysInv'
<1>1. /\ currentCore \in Core /\ nm.core = currentCore
      /\ \A d \in Core \ {currentCore} : Rests(d) /\ HeldBack(d)
      /\ pending \in [Core -> Seq(Entry)] /\ core \in [Core -> CoreState]
  BY CoreInWork
<1>2. nm'.core = currentCore /\ readNewTraceMessage' \in BOOLEAN
  BY DEF IInv, TypeOK
<1>3. pending' \in [Core -> Seq(Entry)]
  BY <1>1
<1>4. ASSUME NEW d \in Core
      PROVE  Busy(d)' <=> d = currentCore /\ (~readNewTraceMessage' \/ channel # <<>>)
  BY <1>2 DEF Busy
<1>5. ASSUME NEW d \in Core, d # currentCore PROVE Rests(d)' /\ HeldBack(d)'
  <2>1. core'[d] = core[d] /\ pending'[d] = pending[d] /\ target'[d] = target[d]
    BY <1>1, <1>5
  <2> QED
    BY <1>1, <1>5, <2>1, RestsStays
<1>6. ASSUME NEW d \in Core
      PROVE  /\ TargetOK(target[d])'
             /\ IF ~Busy(d)' THEN Rests(d)' /\ HeldBack(d)'
                ELSE IF readNewTraceMessage' THEN Arriving(d)' /\ HeldBack(d)'
                ELSE Working(d)'
  <2>1. TargetOK(target[d])'
    BY DEF SysInv, TargetOK
  <2>2. CASE d # currentCore
    BY <1>4, <1>5, <2>1, <2>2
  <2>3. CASE d = currentCore
    BY <1>2, <1>4, <2>1, <2>3
  <2> QED
    BY <2>2, <2>3
<1>7. /\ traceMode' \in {"BTM", "HTM"} /\ (traceMode' = "BTM" => traceType' = "BTM")
      /\ target' \in [Core -> Encoder]
      /\ channel' \in Seq([msg: Message, covers: Seq(Entry)])
  BY DEF SysInv
<1> QED
  BY <1>3, <1>6, <1>7 DEF SysInv

\* What is known of the decoder alone is kept.
LEMMA DecodeIInv ==
  ASSUME SysInv, DecodeStep
  PROVE  IInv'
BY NextInv DEF SysInv, DecodeStep, Next

\* What is still to be done depends on four fields of the core.
LEMMA InWorkSame ==
  ASSUME NEW k, NEW m, NEW P, NEW t, InWork(k, m, P, t),
         NEW j, j.cnt = k.cnt, j.stack = k.stack, j.currentAddress = k.currentAddress,
         j.lastFaddr = k.lastFaddr
  PROVE  InWork(j, m, P, t)
BY DEF InWork, WorkPath, EndsPath

\* What makes the decoder work on its message in the next state.
LEMMA WorkingNext ==
  ASSUME NEW c, UNCHANGED <<nm, channel, traceMode, target>>, nm.core = c, Sent(nm), channel = <<>>,
         traceMode = "HTM" /\ nm.tcode \notin {"SYNC", "ERROR"} => traceType' = "HTM",
         InWork(core'[c], nm, pending'[c], target[c]),
         \/ core'[c].state = "GETNEXTINSTRUCTION"
         \/ /\ core'[c].state = "RETIREMESSAGE"
            /\ pending'[c] # <<>> => /\ traceType' = "HTM"
                                     /\ CurrentCountType(core'[c].cnt) = "i_cnt"
                                     /\ Code[core'[c].currentAddress].type \in BranchTypes
  PROVE  Working(c)'
<1>1. Sent(nm)'
  BY DEF Sent
<1>2. InWork(core[c], nm, pending[c], target[c])'
  <2>1. /\ target[c].run = <<>>
        /\ ~ShowsHistory(nm) => ~Outcomes(core'[c].cnt)
    BY DEF InWork
  <2>2. PICK tr : WorkPath(core'[c], nm, pending'[c], target[c], tr)
    BY DEF InWork
  <2>3. EndsPath(core[c], nm, pending[c], target[c], tr)'
    BY <2>2 DEF WorkPath, EndsPath, Guided
  <2>4. Guided(tr, Len(pending[c]) - 1)' /\ Accounted(core[c].cnt, target[c], tr, Len(pending[c]))'
    BY <2>2 DEF WorkPath, Guided, Accounted
  <2>5. WorkPath(core[c], nm, pending[c], target[c], tr)'
    BY <2>2, <2>3, <2>4 DEF WorkPath
  <2> QED
    BY <2>1, <2>5 DEF InWork
<1> QED
  BY <1>1, <1>2 DEF Working, WaitsForOutcome

\* A core that steps through instructions, or retires, is on the path of its message.
LEMMA OnThePath ==
  ASSUME SysInv, ~readNewTraceMessage, K.state \in {"GETNEXTINSTRUCTION", "RETIREMESSAGE"}
  PROVE  /\ InWork(K, nm, pending[currentCore], target[currentCore])
         /\ channel = <<>> /\ nm.core = currentCore /\ Sent(nm)
         /\ traceMode = "HTM" /\ nm.tcode \notin {"SYNC", "ERROR"} => traceType = "HTM"
         /\ nm.tcode \in TCodesWithCounts
         /\ ModeFits(traceType, nm)
         /\ K.state = "RETIREMESSAGE" =>
              ~Outcomes(K.cnt) /\ (pending[currentCore] # <<>> => WaitsForOutcome(K))
         /\ CurrentCountType(K.cnt) = "none" <=> pending[currentCore] = <<>>
<1>1. Working(currentCore)
  BY CoreInWork
<1>2. ~Waiting(K) /\ ~Unsynced(K)
  BY DEF Waiting, Unsynced
<1>3. /\ InWork(K, nm, pending[currentCore], target[currentCore])
      /\ channel = <<>> /\ nm.core = currentCore /\ Sent(nm)
      /\ traceMode = "HTM" /\ nm.tcode \notin {"SYNC", "ERROR"} => traceType = "HTM"
      /\ K.state = "RETIREMESSAGE" => (pending[currentCore] # <<>> => WaitsForOutcome(K))
  BY <1>1, <1>2 DEF Working, Incoming, K
<1>4. nm.tcode \in TCodesWithCounts /\ traceType \in {"BTM", "HTM"}
      /\ (K.state = "RETIREMESSAGE" => ~Outcomes(K.cnt))
  BY CurrentCore DEF SysInv
<1>5. ModeFits(traceType, nm)
  <2>1. nm.tcode # "ERROR"
    BY <1>4 DEF TCodesWithCounts
  <2> QED
    BY <1>3, <1>4, <2>1 DEF ModeFits, SysInv
<1>6. CurrentCountType(K.cnt) = "none" <=> pending[currentCore] = <<>>
  <2>1. PICK tr : WorkPath(K, nm, pending[currentCore], target[currentCore], tr)
    BY <1>3 DEF InWork
  <2> QED
    BY <2>1, CoreInWork, Exhausted
<1> QED
  BY <1>3, <1>4, <1>5, <1>6

\* The instruction returned is the one that was executed.
StreamStep == Returns => /\ pending[currentCore] # <<>>
                         /\ instInfo'.address = Head(pending[currentCore]).address

\* An instruction is returned.
LEMMA NextInstKeeps ==
  ASSUME SysInv, DecodeStep, NextInst
  PROVE  SysInv' /\ StreamStep
<1> DEFINE c == currentCore
           P == pending[c]
           t == target[c]
<1>1. /\ status = "OK" /\ ~readNewTraceMessage /\ K.state = "GETNEXTINSTRUCTION"
      /\ CurrentCountType(K.cnt) # "none" /\ UNCHANGED <<nm, currentCore>>
  BY DEF NextInst, InState
<1>2. /\ CoreOK(K) /\ K \in CoreState /\ c \in Core /\ TargetOK(t) /\ P \in Seq(Entry) /\ nm \in Message
      /\ pending \in [Core -> Seq(Entry)] /\ core \in [Core -> CoreState]
  BY <1>1, CoreInWork
<1>3. /\ InWork(K, nm, P, t) /\ ModeFits(traceType, nm) /\ P # <<>> /\ channel = <<>>
      /\ nm.core = c /\ Sent(nm)
      /\ traceMode = "HTM" /\ nm.tcode \notin {"SYNC", "ERROR"} => traceType = "HTM"
  BY <1>1, OnThePath
<1>4. PICK taken \in HistoryTaken(K.cnt) :
       LET r    == NextAddr(K, traceType, nm.tcode, taken)
           left == CurrentCountType(r.k.cnt) # "none"
       IN \/ /\ ~r.ok \/ (r.pc = NoAddr /\ r.brFlag # "unknown" /\ left)
             /\ Fail /\ UNCHANGED traceType
          \/ /\ r.ok /\ r.brFlag = "unknown"
             /\ Continue(K, "RETIREMESSAGE")
             /\ instInfo' = NoOutput /\ traceType' = r.type
          \/ /\ r.ok /\ r.brFlag # "unknown" /\ ~(r.pc = NoAddr /\ left)
             /\ Continue([r.k EXCEPT !.currentAddress = r.pc, !.enterISR = FALSE],
                         IF left THEN "GETNEXTINSTRUCTION" ELSE "RETIREMESSAGE")
             /\ instInfo' = [event |-> FALSE, core |-> currentCore, address |-> K.currentAddress,
                             crFlag |-> r.crFlag, isr |-> K.enterISR,
                             brFlag |-> r.brFlag, timestamp |-> K.lastTime]
             /\ traceType' = r.type
  BY DEF NextInst
<1> DEFINE r == NextAddr(K, traceType, nm.tcode, taken)
           j == [r.k EXCEPT !.currentAddress = r.pc, !.enterISR = FALSE]
           left == CurrentCountType(r.k.cnt) # "none"
<1>5. /\ r.ok
      /\ r.type \in {"BTM", "HTM"} /\ (traceMode = "BTM" => r.type = "BTM")
      /\ traceType = "HTM" => r.type = "HTM"
      /\ K.currentAddress \in DOMAIN Code /\ Head(P).address = K.currentAddress
      /\ r.brFlag = "unknown" =>
           /\ traceType = "HTM" /\ CurrentCountType(K.cnt) = "i_cnt"
           /\ Code[K.currentAddress].type \in BranchTypes
      /\ r.brFlag # "unknown" =>
           /\ InWork(j, nm, Tail(P), t)
           /\ left <=> Tail(P) # <<>>
           /\ left => r.pc # NoAddr
  <2>1. GoesOn(r, K, traceType, nm, P, t)
    <3> HIDE DEF P, t
    <3> QED
      BY <1>2, <1>3, WorkGoesOn
  <2> HIDE DEF r
  <2> QED
    BY <2>1 DEF GoesOn
<1>6. CoreOK(r.k)
  BY <1>2, <1>5, NextAddrType DEF ModeFits, SysInv, IInv, TypeOK
<1> HIDE DEF r
<1>7. /\ IInv' /\ UNCHANGED <<traceMode, target, channel>>
      /\ pending' = IF Returns /\ P # <<>> THEN [pending EXCEPT ![c] = Tail(@)] ELSE pending
  BY DecodeIInv DEF DecodeStep
<1>8. CASE r.brFlag = "unknown"
  <2> DEFINE k == [K EXCEPT !.state = "RETIREMESSAGE"]
  <2>1. Continue(K, "RETIREMESSAGE") /\ instInfo' = NoOutput /\ traceType' = r.type
    BY <1>4, <1>5, <1>8 DEF r
  <2>2. /\ core' = [core EXCEPT ![c] = k] /\ UNCHANGED <<readNewTraceMessage, status>>
    BY <2>1 DEF Continue, Become
  <2>3. ~Returns /\ pending' = [pending EXCEPT ![c] = P] /\ StreamStep
    <3>1. ~Returns
      BY <2>1 DEF Returns
    <3> QED
      BY <1>2, <1>7, <3>1 DEF StreamStep
  <2>4. core'[c] = k /\ pending'[c] = P
    BY <1>2, <2>2, <2>3
  <2>5. /\ k.state = "RETIREMESSAGE" /\ k.cnt = K.cnt /\ k.stack = K.stack
        /\ k.currentAddress = K.currentAddress /\ k.lastFaddr = K.lastFaddr
    BY <1>2 DEF CoreState
  <2> HIDE DEF k, P, t
  <2>6. InWork(k, nm, P, t)
    BY <1>3, <2>5, InWorkSame
  <2>7. Working(c)'
    BY <1>1, <1>3, <1>5, <1>7, <1>8, <2>1, <2>4, <2>5, <2>6, WorkingNext DEF t
  <2>8. SysInv'
    BY <1>1, <1>2, <1>5, <1>7, <2>1, <2>2, <2>3, <2>7, DecoderFrame
  <2> QED
    BY <2>3, <2>8
<1>9. CASE r.brFlag # "unknown"
  <2> DEFINE s == IF left THEN "GETNEXTINSTRUCTION" ELSE "RETIREMESSAGE"
             k == [j EXCEPT !.state = s]
  <2>1. /\ Continue(j, s) /\ traceType' = r.type
        /\ instInfo' = [event |-> FALSE, core |-> currentCore, address |-> K.currentAddress,
                        crFlag |-> r.crFlag, isr |-> K.enterISR,
                        brFlag |-> r.brFlag, timestamp |-> K.lastTime]
    BY <1>4, <1>5, <1>9 DEF r
  <2>2. /\ core' = [core EXCEPT ![c] = k] /\ UNCHANGED <<readNewTraceMessage, status>>
    BY <2>1 DEF Continue, Become
  <2>3. instInfo'.event = FALSE /\ instInfo'.address = K.currentAddress
    BY <2>1
  <2>4. instInfo' # NoOutput
    <3>1. DOMAIN instInfo' # {}
      BY <2>1
    <3>2. DOMAIN NoOutput = {}
      BY DEF NoOutput
    <3> QED
      BY <3>1, <3>2
  <2>5. Returns /\ StreamStep /\ pending' = [pending EXCEPT ![c] = Tail(P)]
    <3>1. Returns
      BY <2>3, <2>4 DEF Returns
    <3>2. StreamStep
      BY <1>3, <1>5, <2>3 DEF StreamStep
    <3> QED
      BY <1>2, <1>3, <1>7, <3>1, <3>2
  <2>6. Tail(P) \in Seq(Entry)
    BY <1>2, <1>3, HeadTailProperties
  <2>7. core'[c] = k /\ pending'[c] = Tail(P)
    BY <1>2, <2>2, <2>5
  <2>8. /\ k.state = s /\ k.cnt = j.cnt /\ k.stack = j.stack
        /\ k.currentAddress = j.currentAddress /\ k.lastFaddr = j.lastFaddr
    BY <1>6 DEF CoreOK, CoreState
  <2> HIDE DEF k, j, P, t
  <2>9. InWork(k, nm, Tail(P), t)
    BY <1>5, <1>9, <2>8, InWorkSame
  <2>10. s = "GETNEXTINSTRUCTION" \/ (s = "RETIREMESSAGE" /\ Tail(P) = <<>>)
    BY <1>5, <1>9
  <2>11. traceMode = "HTM" /\ nm.tcode \notin {"SYNC", "ERROR"} => traceType' = "HTM"
    BY <1>3, <1>5, <2>1
  <2>12. Working(c)'
    <3> HIDE DEF s
    <3> QED
      BY <1>1, <1>3, <1>7, <2>7, <2>8, <2>9, <2>10, <2>11, WorkingNext DEF t
  <2>13. SysInv'
    BY <1>1, <1>5, <1>7, <2>1, <2>2, <2>5, <2>6, <2>12, DecoderFrame
  <2> QED
    BY <2>5, <2>13
<1> QED
  BY <1>8, <1>9

\* A step that returns no instruction.
LEMMA NothingReturned ==
  ASSUME SysInv, DecodeStep, instInfo' = NoOutput
  PROVE  StreamStep /\ pending' = [pending EXCEPT ![currentCore] = pending[currentCore]]
<1>1. ~Returns
  BY DEF Returns
<1>2. pending' = pending /\ pending \in [Core -> Seq(Entry)]
  BY <1>1 DEF DecodeStep, SysInv
<1> QED
  BY <1>1, <1>2 DEF StreamStep

\* The counts of the message are used up.
LEMMA CountsExhaustedKeeps ==
  ASSUME SysInv, DecodeStep, CountsExhausted
  PROVE  SysInv' /\ StreamStep
<1> DEFINE c == currentCore
           P == pending[c]
           t == target[c]
           k == [K EXCEPT !.state = "RETIREMESSAGE"]
<1>1. /\ status = "OK" /\ ~readNewTraceMessage /\ K.state = "GETNEXTINSTRUCTION"
      /\ CurrentCountType(K.cnt) = "none" /\ UNCHANGED <<nm, currentCore, traceType>>
      /\ core' = [core EXCEPT ![c] = k] /\ UNCHANGED <<readNewTraceMessage, status>>
      /\ instInfo' = NoOutput
  BY DEF CountsExhausted, InState, Continue, Become, Silent
<1>2. /\ K \in CoreState /\ c \in Core /\ P \in Seq(Entry)
      /\ pending \in [Core -> Seq(Entry)] /\ core \in [Core -> CoreState]
  BY <1>1, CoreInWork
<1>3. /\ InWork(K, nm, P, t) /\ P = <<>> /\ channel = <<>> /\ nm.core = c /\ Sent(nm)
      /\ traceMode = "HTM" /\ nm.tcode \notin {"SYNC", "ERROR"} => traceType = "HTM"
  BY <1>1, OnThePath
<1>4. /\ IInv' /\ UNCHANGED <<traceMode, target, channel>>
      /\ StreamStep /\ pending' = [pending EXCEPT ![c] = P]
  BY <1>1, DecodeIInv, NothingReturned DEF DecodeStep
<1>5. core'[c] = k /\ pending'[c] = P
  BY <1>1, <1>2, <1>4
<1>6. /\ k.state = "RETIREMESSAGE" /\ k.cnt = K.cnt /\ k.stack = K.stack
      /\ k.currentAddress = K.currentAddress /\ k.lastFaddr = K.lastFaddr
  BY <1>2 DEF CoreState
<1> HIDE DEF k, P, t
<1>7. InWork(k, nm, P, t)
  BY <1>3, <1>6, InWorkSame
<1>8. Working(c)'
  BY <1>1, <1>3, <1>4, <1>5, <1>6, <1>7, WorkingNext DEF t
<1>9. SysInv'
  BY <1>1, <1>2, <1>4, <1>8, DecoderFrame DEF SysInv
<1> QED
  BY <1>4, <1>9

\* The decoder always finds an instruction where it looks for one.
LEMMA NoInstructionNever ==
  ASSUME SysInv
  PROVE  ~NoInstructionThere
<1> SUFFICES ASSUME NoInstructionThere PROVE FALSE
  OBVIOUS
<1> DEFINE P == pending[currentCore]
           t == target[currentCore]
<1>1. /\ ~readNewTraceMessage /\ K.state = "GETNEXTINSTRUCTION"
      /\ CurrentCountType(K.cnt) # "none" /\ K.currentAddress \notin DOMAIN Code
  BY DEF NoInstructionThere, InState
<1>2. InWork(K, nm, P, t) /\ P # <<>> /\ P \in Seq(Entry)
  BY <1>1, OnThePath, CoreInWork
<1>3. PICK tr : WorkPath(K, nm, P, t, tr)
  BY <1>2 DEF InWork
<1>4. tr[1].at \in DOMAIN Code /\ tr[1].at = K.currentAddress
  BY <1>2, <1>3, FirstPoint DEF WorkPath
<1> QED
  BY <1>1, <1>4

\* The decoder is where the core is.
LEMMA AtRestHere ==
  ASSUME traceMode \in {"BTM", "HTM"}, NEW t, TargetOK(t), t.mode = "on", t.run = <<>>, t.hist = <<>>,
         NEW k, k.lastFaddr = t.ref, k.currentAddress = t.pc, k.stack = t.calls,
         k.cnt \in Count, ~Outcomes(k.cnt), k.cnt.i_cnt + t.i_cnt = 0,
         k.state = "GETNEXTMSG" \/ (k.state = "GETMSGWITHCOUNT" /\ k.cnt.i_cnt = 0)
  PROVE  AtRest(k, <<>>, t)
<1> DEFINE p == [at |-> t.pc, calls |-> t.calls, taken |-> FALSE, size |-> 0, br |-> 0]
           tr == [j \in 1..1 |-> p]
<1>1. <<>> \o t.run = <<>> /\ Len(<<>>) = 0
  OBVIOUS
<1>2. p \in Point
  <2>1. t.pc \in Int /\ t.calls \in Seq(DOMAIN Code) /\ DOMAIN Code \subseteq Nat
    BY DecoderAssumption DEF TargetOK, Encoder
  <2>2. t.calls \in Seq(Nat)
    BY <2>1
  <2> QED
    BY <2>1, <2>2 DEF Point
<1>3. p.at = t.pc /\ p.calls = t.calls /\ p.size - p.size = 0 /\ p.br - p.br = 0
  OBVIOUS
<1> HIDE DEF p
<1>4. tr[1] = p /\ tr \in [1..1 -> Point]
  BY <1>2
<1> HIDE DEF tr
<1>5. Path(<<>>, tr) /\ Guided(tr, 0)
  BY <1>1, <1>4 DEF Path, Guided
<1>6. Accounted(k.cnt, t, tr, 0)
  <2>1. OneKind(k.cnt) /\ NumOut(k.cnt) = 0
    BY NoOutcomes
  <2>2. tr[0 + 1] = p
    BY <1>4
  <2>3. Len(t.hist) = 0
    BY EmptySeq
  <2> QED
    BY <1>3, <1>4, <2>1, <2>2, <2>3 DEF Accounted
<1>7. RestPath(k, <<>>, t, tr)
  <2>1. tr[0 + 1] = p
    BY <1>4
  <2> QED
    BY <1>1, <1>3, <1>4, <1>5, <1>6, <2>1 DEF RestPath
<1> QED
  BY <1>7 DEF AtRest

\* Whoever waits for an outcome, the encoder has it: with no outcomes to come,
\* no instruction waits.
LEMMA NothingWaits ==
  ASSUME SysInv, NEW k, CoreOK(k), ~Outcomes(k.cnt), NEW m, NEW P \in Seq(Entry),
         NEW t, TargetOK(t), t.hist = <<>> \/ traceMode = "BTM",
         NEW tr, WorkPath(k, m, P, t, tr), P # <<>> => WaitsForOutcome(k)
  PROVE  P = <<>>
<1> SUFFICES ASSUME P # <<>> PROVE FALSE
  OBVIOUS
<1>1. k.cnt \in Count
  BY DEF CoreOK, CoreState
<1>2. traceMode = "HTM"
  BY DEF WaitsForOutcome, SysInv
<1>3. Path(P, tr) /\ Accounted(k.cnt, t, tr, Len(P)) /\ tr[1].at = k.currentAddress
  BY DEF WorkPath
<1>4. IsBranch(tr[1])
  BY <1>3 DEF WaitsForOutcome, IsBranch, Ins
<1> QED
  BY <1>1, <1>2, <1>3, <1>4, NoBranch

\* The counts are used up when nothing is to be returned.
LEMMA NothingLeft ==
  ASSUME traceMode \in {"BTM", "HTM"}, NEW k, k.cnt \in Count, NEW m, NEW t, TargetOK(t),
         NEW tr, WorkPath(k, m, <<>>, t, tr)
  PROVE  k.cnt.i_cnt + t.i_cnt = 0 /\ t.hist = <<>> /\ tr[1].calls = k.stack
<1>1. Len(<<>>) = 0 /\ 0 + 1 = 1
  OBVIOUS
<1>2. Path(<<>>, tr) /\ Accounted(k.cnt, t, tr, 0) /\ tr[1].calls = k.stack
  BY <1>1 DEF WorkPath
<1>3. tr[1] \in Point
  BY <1>1, <1>2 DEF Path
<1>4. tr[1].size \in Int /\ tr[1].br \in Int
  BY <1>3 DEF Point
<1>5. k.cnt.i_cnt + t.i_cnt = 0
  BY <1>1, <1>2, <1>4 DEF Accounted
<1>6. t.hist \in Seq(BOOLEAN) /\ NumOut(k.cnt) \in Nat
  BY NoOutcomes DEF TargetOK, Encoder
<1>7. Len(t.hist) = 0 => t.hist = <<>>
  BY <1>6, EmptySeq
<1>8. CASE traceMode = "BTM"
  BY <1>2, <1>5, <1>8 DEF Accounted
<1>9. CASE traceMode = "HTM"
  <2>1. NumOut(k.cnt) + Len(t.hist) = 0
    BY <1>1, <1>2, <1>4, <1>9 DEF Accounted
  <2>2. Len(t.hist) \in Nat
    BY <1>6, LenProperties
  <2>3. Len(t.hist) = 0
    BY <1>6, <2>1, <2>2
  <2> QED
    BY <1>2, <1>5, <1>7, <2>3
<1> QED
  BY <1>8, <1>9

\* Core j is core k after a message without a time stamp was retired.
Processed(j, m, k) ==
  /\ m.tcode \in {"DIRECT_BRANCH", "RESOURCEFULL"} => j = k
  /\ m.tcode \in IndirectTCodes =>
       /\ j.lastFaddr = XorOf[k.lastFaddr, m.addr] /\ j.currentAddress = XorOf[k.lastFaddr, m.addr]
       /\ j.cnt = k.cnt /\ j.stack = k.stack
  /\ m.tcode \in SyncingTCodes =>
       /\ j.lastFaddr = m.addr /\ j.currentAddress = m.addr
       /\ j.cnt = ResetCounts(k.cnt) /\ j.stack = <<>>

\* What handling a message that has been gone through makes of the core.
LEMMA Retired ==
  ASSUME NEW m, m.ts = NoTs, NEW k, CoreOK(k)
  PROVE  Processed(ProcessTraceMessage(m, k).k, m, k)
<1>1. Stamp(m, k) = k
  BY DEF Stamp
<1>2. \A a : LET j == At(k, a) IN
        j.lastFaddr = a /\ j.currentAddress = a /\ j.cnt = k.cnt /\ j.stack = k.stack
  BY DEF At, CoreOK, CoreState
<1>3. \A a : LET j == SyncAt(k, a) IN
        j.lastFaddr = a /\ j.currentAddress = a /\ j.cnt = ResetCounts(k.cnt) /\ j.stack = <<>>
  <2> SUFFICES ASSUME NEW a
               PROVE  LET j == SyncAt(k, a) IN
                      /\ j.lastFaddr = a /\ j.currentAddress = a
                      /\ j.cnt = ResetCounts(k.cnt) /\ j.stack = <<>>
    OBVIOUS
  <2> DEFINE l == At(k, a)
             j == [l EXCEPT !.cnt = ResetCounts(l.cnt), !.stack = <<>>]
  <2>1. l.lastFaddr = a /\ l.currentAddress = a /\ l.cnt = k.cnt
    BY <1>2
  <2>2. DOMAIN l = DOMAIN k /\ {"cnt", "stack", "lastFaddr", "currentAddress"} \subseteq DOMAIN k
    BY DEF At, CoreOK, CoreState
  <2>3. SyncAt(k, a) = j
    BY DEF SyncAt, EmptyStack
  <2> HIDE DEF l
  <2>4. /\ j.lastFaddr = a /\ j.currentAddress = a
        /\ j.cnt = ResetCounts(k.cnt) /\ j.stack = <<>>
    BY <2>1, <2>2
  <2> QED
    BY <2>3, <2>4
<1>4. m.tcode \in {"DIRECT_BRANCH", "RESOURCEFULL"} => ProcessTraceMessage(m, k) = Good(k)
  BY <1>1 DEF ProcessTraceMessage
<1>5. m.tcode \in IndirectTCodes =>
        ProcessTraceMessage(m, k) = Good(At(k, XorOf[k.lastFaddr, m.addr]))
  BY <1>1 DEF ProcessTraceMessage, IndirectTCodes
<1>6. m.tcode \in SyncingTCodes => ProcessTraceMessage(m, k) = Good(SyncAt(k, m.addr))
  BY <1>1 DEF ProcessTraceMessage, SyncingTCodes
<1>7. \A j : Good(j).k = j
  BY DEF Good
<1> DEFINE j == ProcessTraceMessage(m, k).k
<1>8. /\ m.tcode \in {"DIRECT_BRANCH", "RESOURCEFULL"} => j = k
      /\ m.tcode \in IndirectTCodes => j = At(k, XorOf[k.lastFaddr, m.addr])
      /\ m.tcode \in SyncingTCodes => j = SyncAt(k, m.addr)
  BY <1>4, <1>5, <1>6, <1>7
<1> HIDE DEF j
<1>9. Processed(j, m, k)
  <2>1. m.tcode \in IndirectTCodes =>
          /\ j.lastFaddr = XorOf[k.lastFaddr, m.addr] /\ j.currentAddress = XorOf[k.lastFaddr, m.addr]
          /\ j.cnt = k.cnt /\ j.stack = k.stack
    BY <1>2, <1>8
  <2>2. m.tcode \in SyncingTCodes =>
          /\ j.lastFaddr = m.addr /\ j.currentAddress = m.addr
          /\ j.cnt = ResetCounts(k.cnt) /\ j.stack = <<>>
    BY <1>3, <1>8
  <2> QED
    BY <1>8, <2>1, <2>2 DEF Processed
<1> QED
  BY <1>9 DEF j

\* With its message retired the decoder is at rest.
LEMMA RetireRests ==
  ASSUME SysInv, NEW k, CoreOK(k), ~Outcomes(k.cnt),
         NEW m, Sent(m), m.tcode \in TCodesWithCounts \ {"CORRELATION"},
         NEW P \in Seq(Entry), NEW t, TargetOK(t), InWork(k, m, P, t),
         P # <<>> => WaitsForOutcome(k),
         NEW x, Processed(x, m, k),
         NEW j, j.cnt = x.cnt, j.stack = x.stack, j.currentAddress = x.currentAddress,
         j.lastFaddr = x.lastFaddr, j.state = "GETNEXTMSG"
  PROVE  /\ AtRest(j, P, t)
         /\ P # <<>> => /\ j.currentAddress = k.currentAddress /\ j.cnt = k.cnt
                        /\ Head(P).address = k.currentAddress
<1>1. PICK tr : WorkPath(k, m, P, t, tr)
  BY DEF InWork
<1>2. /\ Path(P, tr) /\ Guided(tr, Len(P) - 1) /\ Accounted(k.cnt, t, tr, Len(P))
      /\ EndsPath(k, m, P, t, tr)
      /\ P # <<>> => tr[1].at = k.currentAddress
      /\ tr[1].calls = k.stack
  BY <1>1 DEF WorkPath
<1>3. t.run = <<>> /\ t \in Encoder
  BY DEF InWork, TargetOK
<1>4. k.cnt \in Count /\ traceMode \in {"BTM", "HTM"} /\ m.ts = NoTs
  BY DEF CoreOK, CoreState, SysInv, Sent
<1>5. P # <<>> => Head(P).address = k.currentAddress
  BY <1>2, FirstPoint
<1>6. m.tcode \in {"DIRECT_BRANCH", "RESOURCEFULL"} \cup IndirectTCodes \cup SyncingTCodes
  BY DEF TCodesWithCounts, IndirectTCodes, SyncingTCodes
<1>7. CASE m.tcode = "RESOURCEFULL"
  <2>1. x = k
    BY <1>7 DEF Processed
  <2>2. /\ Guided(tr, Len(P)) /\ t.mode = "on" /\ t.ref = k.lastFaddr
        /\ tr[Len(P) + 1].at = t.pc /\ (P = <<>> => k.currentAddress = t.pc)
        /\ tr[Len(P) + 1].calls = t.calls
    BY <1>2, <1>7 DEF EndsPath, IndirectTCodes, SyncingTCodes
  <2>3. P \o t.run = P
    BY <1>3
  <2>4. tr[1].at = k.currentAddress
    <3>1. P = <<>> => Len(P) + 1 = 1
      OBVIOUS
    <3> QED
      BY <1>2, <2>2, <3>1
  <2>5. RestPath(j, P, t, tr)
    BY <1>2, <2>1, <2>2, <2>3, <2>4 DEF RestPath
  <2> QED
    BY <1>5, <2>1, <2>2, <2>5 DEF AtRest
<1>8. CASE m.tcode # "RESOURCEFULL"
  <2>1. t.hist = <<>> \/ traceMode = "BTM"
    BY <1>2, <1>8, EndCounts
  <2>2. P = <<>>
    BY <1>1, <2>1, NothingWaits
  <2>3. k.cnt.i_cnt + t.i_cnt = 0 /\ t.hist = <<>> /\ tr[1].calls = k.stack
    BY <1>1, <1>4, <2>2, NothingLeft
  <2>4. Len(P) + 1 = 1
    BY <2>2
  <2>5. CASE m.tcode = "DIRECT_BRANCH"
    <3>1. x = k
      BY <2>5 DEF Processed
    <3>2. /\ t.mode = "on" /\ t.ref = k.lastFaddr /\ k.currentAddress = t.pc /\ tr[1].calls = t.calls
      BY <1>2, <2>2, <2>4, <2>5 DEF EndsPath, IndirectTCodes, SyncingTCodes
    <3>3. AtRest(j, <<>>, t)
      BY <1>3, <1>4, <2>3, <3>1, <3>2, AtRestHere
    <3> QED
      BY <2>2, <3>3
  <2>6. CASE m.tcode \in IndirectTCodes
    <3>1. /\ x.lastFaddr = XorOf[k.lastFaddr, m.addr] /\ x.currentAddress = x.lastFaddr
          /\ x.cnt = k.cnt /\ x.stack = k.stack
      BY <2>6 DEF Processed
    <3>2. /\ t.mode = "on" /\ XorOf[k.lastFaddr, m.addr] = t.pc /\ t.ref = t.pc /\ tr[1].calls = t.calls
      BY <1>2, <2>2, <2>4, <2>6 DEF EndsPath, IndirectTCodes, SyncingTCodes
    <3>3. AtRest(j, <<>>, t)
      BY <1>3, <1>4, <2>3, <3>1, <3>2, AtRestHere
    <3> QED
      BY <2>2, <3>3
  <2>7. CASE m.tcode \in SyncingTCodes
    <3>1. /\ x.lastFaddr = m.addr /\ x.currentAddress = m.addr
          /\ x.cnt = ResetCounts(k.cnt) /\ x.stack = <<>>
      BY <2>7 DEF Processed
    <3>2. /\ t.mode = "on" /\ m.addr = t.pc /\ t.ref = t.pc /\ t.calls = <<>> /\ t.i_cnt = 0
      BY <1>2, <2>7 DEF EndsPath, IndirectTCodes, SyncingTCodes
    <3>3. ResetCounts(k.cnt) \in Count /\ ~Outcomes(ResetCounts(k.cnt)) /\ ResetCounts(k.cnt).i_cnt = 0
      BY <1>4, ResetCountsType
    <3>4. j.cnt.i_cnt + t.i_cnt = 0
      BY <3>1, <3>2, <3>3
    <3>5. AtRest(j, <<>>, t)
      BY <1>3, <1>4, <2>3, <3>1, <3>2, <3>3, <3>4, AtRestHere
    <3> QED
      BY <2>2, <3>5
  <2> QED
    BY <1>6, <1>8, <2>5, <2>6, <2>7
<1> QED
  BY <1>7, <1>8

\* A message that has been gone through is handled.
LEMMA RetireKeeps ==
  ASSUME SysInv, DecodeStep, RetireMessage
  PROVE  SysInv' /\ StreamStep
<1> DEFINE c == currentCore
           P == pending[c]
           t == target[c]
           x == ProcessTraceMessage(nm, K).k
           e == x.enterISR \/ EntersISR(nm)
           y == [x EXCEPT !.enterISR = e]
           j == [y EXCEPT !.state = "GETNEXTMSG"]
<1>1. /\ status = "OK" /\ ~readNewTraceMessage /\ K.state = "RETIREMESSAGE"
      /\ nm.tcode \in TCodesWithCounts \ {"CORRELATION"}
      /\ UNCHANGED <<nm, currentCore, traceType, status>> /\ instInfo' = NoOutput
      /\ readNewTraceMessage' = TRUE
  BY DEF RetireMessage, InState, Finish, Silent
<1>2. core' = [core EXCEPT ![c] = j]
  BY DEF RetireMessage, Finish, Become
<1>3. /\ CoreOK(K) /\ c \in Core /\ P \in Seq(Entry) /\ TargetOK(t) /\ nm \in Message
      /\ pending \in [Core -> Seq(Entry)] /\ core \in [Core -> CoreState]
  BY <1>1, CoreInWork
<1>4. /\ InWork(K, nm, P, t) /\ channel = <<>> /\ Sent(nm)
      /\ ~Outcomes(K.cnt) /\ (P # <<>> => WaitsForOutcome(K))
  BY <1>1, OnThePath
<1>5. x \in CoreState
  BY <1>3, ProcessTraceMessageType DEF MessageResult, CoreOK
<1>13. Processed(x, nm, K)
  BY <1>3, <1>4, Retired DEF Sent
<1> HIDE DEF x, e
<1>6. /\ j.cnt = x.cnt /\ j.stack = x.stack /\ j.currentAddress = x.currentAddress
      /\ j.lastFaddr = x.lastFaddr /\ j.state = "GETNEXTMSG"
  BY <1>5 DEF CoreState
<1> HIDE DEF y, j, P, t
<1>7. /\ AtRest(j, P, t)
      /\ P # <<>> => /\ j.currentAddress = K.currentAddress /\ j.cnt = K.cnt
                     /\ Head(P).address = K.currentAddress
  BY <1>1, <1>3, <1>4, <1>6, <1>13, RetireRests
<1>8. /\ IInv' /\ UNCHANGED <<traceMode, target, channel>>
      /\ StreamStep /\ pending' = [pending EXCEPT ![c] = P]
  BY <1>1, DecodeIInv, NothingReturned DEF DecodeStep, P
<1>9. core'[c] = j /\ pending'[c] = P /\ target'[c] = t
  BY <1>2, <1>3, <1>8 DEF t
<1>10. Rests(c)'
  <2>1. AtRest(core'[c], pending'[c], target'[c])
    BY <1>7, <1>9
  <2> QED
    BY <1>1, <1>8, <2>1, RestsNext
<1>11. HeldBack(c)'
  BY <1>1, <1>4, <1>6, <1>7, <1>9 DEF HeldBack, WaitsForOutcome
<1>12. SysInv'
  BY <1>1, <1>2, <1>3, <1>4, <1>8, <1>10, <1>11, DecoderFrame DEF SysInv
<1> QED
  BY <1>8, <1>12

\* The last message of a trace: the decoder waits for a first sync again.
LEMMA CorrelationKeeps ==
  ASSUME SysInv, DecodeStep, RetireCorrelation
  PROVE  SysInv' /\ StreamStep
<1> DEFINE c == currentCore
           P == pending[c]
           t == target[c]
           x == Stamp(nm, K)
           j == [x EXCEPT !.state = "GETFIRSTSYNCMSG"]
<1>1. /\ status = "OK" /\ ~readNewTraceMessage /\ K.state = "RETIREMESSAGE"
      /\ nm.tcode = "CORRELATION"
      /\ UNCHANGED <<nm, currentCore, traceType, status>> /\ instInfo' = NoOutput
      /\ readNewTraceMessage' = TRUE /\ core' = [core EXCEPT ![c] = j]
  BY DEF RetireCorrelation, InState, Become, Silent
<1>2. /\ CoreOK(K) /\ c \in Core /\ P \in Seq(Entry) /\ TargetOK(t)
      /\ pending \in [Core -> Seq(Entry)] /\ core \in [Core -> CoreState] /\ nm \in Message
  BY <1>1, CoreInWork
<1>3. /\ InWork(K, nm, P, t) /\ channel = <<>> /\ ~Outcomes(K.cnt) /\ (P # <<>> => WaitsForOutcome(K))
  BY <1>1, OnThePath
<1>4. PICK tr : WorkPath(K, nm, P, t, tr)
  BY <1>3 DEF InWork
<1>5. t.mode = "off" /\ t.hist = <<>>
  BY <1>1, <1>4 DEF WorkPath, EndsPath, IndirectTCodes, SyncingTCodes
<1>6. P = <<>>
  BY <1>2, <1>3, <1>4, <1>5, NothingWaits
<1>7. j.state = "GETFIRSTSYNCMSG"
  BY <1>2, StampType DEF CoreOK, CoreState
<1> HIDE DEF j, P, t
<1>8. /\ IInv' /\ UNCHANGED <<traceMode, target, channel>>
      /\ StreamStep /\ pending' = [pending EXCEPT ![c] = P]
  BY <1>1, DecodeIInv, NothingReturned DEF DecodeStep, P
<1>9. core'[c] = j /\ pending'[c] = P /\ target'[c] = t
  BY <1>1, <1>2, <1>8 DEF t
<1>10. Rests(c)' /\ HeldBack(c)'
  <2>1. Rests(c)'
    BY <1>1, <1>5, <1>6, <1>7, <1>8, <1>9, RestsNext
  <2>2. HeldBack(c)'
    BY <1>1, <1>6, <1>9 DEF HeldBack
  <2> QED
    BY <2>1, <2>2
<1>11. SysInv'
  BY <1>1, <1>2, <1>3, <1>8, <1>10, DecoderFrame DEF SysInv
<1> QED
  BY <1>8, <1>11

\* What a waiting core gets: a message with counts, or one of a loss.
LEMMA MessageForWaiting ==
  ASSUME SysInv, ~readNewTraceMessage, Waiting(K)
  PROVE  LET P == pending[currentCore]
             base == IF K.state = "GETNEXTMSG" THEN K.cnt ELSE ResetCounts(K.cnt)
             r == SetCounts(base, nm)
         IN /\ Sent(nm)
            /\ \/ /\ nm.tcode = "ERROR" /\ P = <<>>
                  /\ Len(channel) = 1 /\ Restarts(Head(channel), currentCore)
               \/ /\ nm.tcode \in TCodesWithCounts /\ channel = <<>>
                  /\ traceMode = "HTM" /\ nm.tcode # "SYNC" => traceType = "HTM"
                  /\ r.ok /\ InWork([K EXCEPT !.cnt = r.c], nm, P, target[currentCore])
<1>1. Working(currentCore)
  BY CoreInWork
<1>2. K.state \notin {"GETNEXTINSTRUCTION", "RETIREMESSAGE"} /\ ~Unsynced(K)
  BY DEF Waiting, Unsynced
<1>3. ASSUME NEW k, NEW P, NEW t, InWork(k, nm, P, t)
      PROVE  nm.tcode \in TCodesWithCounts /\ nm.tcode # "ERROR"
  <2>1. PICK tr : WorkPath(k, nm, P, t, tr)
    BY <1>3 DEF InWork
  <2>2. EndsPath(k, nm, P, t, tr)
    BY <2>1 DEF WorkPath
  <2>3. nm.tcode \in {"DIRECT_BRANCH", "RESOURCEFULL", "CORRELATION"} \cup IndirectTCodes \cup SyncingTCodes
    BY <2>2 DEF EndsPath
  <2> QED
    BY <2>3 DEF TCodesWithCounts, IndirectTCodes, SyncingTCodes
<1> QED
  BY <1>1, <1>2, <1>3 DEF Working, Incoming, K

\* A core that has not started gets a sync.
LEMMA MessageForUnsynced ==
  ASSUME SysInv, ~readNewTraceMessage, Unsynced(K)
  PROVE  channel = <<>> /\ pending[currentCore] = <<>> /\ Starts(nm, target[currentCore]) /\ Sent(nm)
<1>1. Working(currentCore)
  BY CoreInWork
<1>2. K.state \notin {"GETNEXTINSTRUCTION", "RETIREMESSAGE"} /\ ~Waiting(K)
  BY DEF Waiting, Unsynced
<1> QED
  BY <1>1, <1>2 DEF Working, Incoming, K

\* The counts of a message are taken over.
LEMMA TakeCountsKeeps ==
  ASSUME SysInv, DecodeStep, ~readNewTraceMessage, Waiting(K), status = "OK",
         TakeCounts(IF K.state = "GETNEXTMSG" THEN K.cnt ELSE ResetCounts(K.cnt))
  PROVE  SysInv' /\ StreamStep
<1> DEFINE c == currentCore
           P == pending[c]
           t == target[c]
           r == SetCounts(IF K.state = "GETNEXTMSG" THEN K.cnt ELSE ResetCounts(K.cnt), nm)
           x == [K EXCEPT !.cnt = r.c]
           j == [x EXCEPT !.state = "GETNEXTINSTRUCTION"]
<1>1. /\ nm.tcode \in TCodesWithCounts
      /\ UNCHANGED <<nm, currentCore, traceType>> /\ instInfo' = NoOutput
      /\ IF r.ok THEN Continue(x, "GETNEXTINSTRUCTION") ELSE Fail
  BY DEF TakeCounts, Silent
<1>2. /\ CoreOK(K) /\ K \in CoreState /\ c \in Core /\ P \in Seq(Entry) /\ nm.core = c
      /\ pending \in [Core -> Seq(Entry)] /\ core \in [Core -> CoreState]
  BY CoreInWork
<1>3. nm.tcode # "ERROR"
  BY <1>1 DEF TCodesWithCounts
<1>4. /\ Sent(nm) /\ channel = <<>> /\ r.ok /\ InWork(x, nm, P, t)
      /\ traceMode = "HTM" /\ nm.tcode # "SYNC" => traceType = "HTM"
  BY <1>3, MessageForWaiting
<1> HIDE DEF r
<1>5. core' = [core EXCEPT ![c] = j] /\ UNCHANGED <<readNewTraceMessage, status>>
  BY <1>1, <1>4 DEF Continue, Become
<1>6. /\ j.state = "GETNEXTINSTRUCTION" /\ j.cnt = x.cnt /\ j.stack = x.stack
      /\ j.currentAddress = x.currentAddress /\ j.lastFaddr = x.lastFaddr
  BY <1>2 DEF CoreState
<1> HIDE DEF j, x, P, t
<1>7. InWork(j, nm, P, t)
  BY <1>4, <1>6, InWorkSame
<1>8. /\ IInv' /\ UNCHANGED <<traceMode, target, channel>>
      /\ StreamStep /\ pending' = [pending EXCEPT ![c] = P]
  BY <1>1, DecodeIInv, NothingReturned DEF DecodeStep, P
<1>9. core'[c] = j /\ pending'[c] = P
  BY <1>2, <1>5, <1>8
<1>10. Working(c)'
  BY <1>1, <1>2, <1>4, <1>6, <1>7, <1>8, <1>9, WorkingNext DEF t
<1>11. SysInv'
  BY <1>1, <1>2, <1>5, <1>8, <1>10, DecoderFrame DEF SysInv
<1> QED
  BY <1>8, <1>11

\* An error message: the decoder waits for a first sync.
LEMMA LoseTraceKeeps ==
  ASSUME SysInv, DecodeStep, ~readNewTraceMessage, Waiting(K), status = "OK", LoseTrace
  PROVE  SysInv' /\ StreamStep
<1> DEFINE c == currentCore
           P == pending[c]
           t == target[c]
           x == At(K, 0)
           j == [x EXCEPT !.lastTime = 0, !.state = "GETFIRSTSYNCMSG"]
           e == Head(channel)
<1>1. /\ nm.tcode = "ERROR" /\ instInfo' = NoOutput
      /\ UNCHANGED <<currentCore, traceType, status>> /\ core' = [core EXCEPT ![c] = j]
      /\ readNewTraceMessage' = TRUE
  BY DEF LoseTrace, Become
<1>2. /\ CoreOK(K) /\ K \in CoreState /\ c \in Core /\ P \in Seq(Entry)
      /\ pending \in [Core -> Seq(Entry)] /\ core \in [Core -> CoreState]
  BY CoreInWork
<1>3. nm.tcode \notin TCodesWithCounts
  BY <1>1 DEF TCodesWithCounts
<1>4. P = <<>> /\ Len(channel) = 1 /\ Restarts(e, c)
  BY <1>3, MessageForWaiting
<1>5. channel # <<>>
  BY <1>4
<1>6. j.state = "GETFIRSTSYNCMSG"
  BY <1>2 DEF CoreState, At
<1> HIDE DEF j, P
<1>7. /\ IInv' /\ UNCHANGED <<traceMode, target, channel>>
      /\ StreamStep /\ pending' = [pending EXCEPT ![c] = P]
  BY <1>1, DecodeIInv, NothingReturned DEF DecodeStep, P
<1>8. core'[c] = j /\ pending'[c] = <<>>
  BY <1>1, <1>2, <1>4, <1>7
<1>9. HeldBack(c)'
  BY <1>1, <1>8 DEF HeldBack
<1>10. e.msg.core = c /\ e.covers = <<>> /\ Sent(e.msg) /\ Starts(e.msg, t)
  BY <1>4 DEF Restarts
<1>11. Sent(Head(channel).msg)'
  BY <1>7, <1>10 DEF Sent
<1>12. Incoming(core[c], Head(channel).msg, pending[c] \o Head(channel).covers, target[c])'
  <2>1. pending'[c] \o e.covers = <<>>
    BY <1>8, <1>10
  <2> QED
    BY <1>1, <1>6, <1>7, <1>8, <1>10, <2>1 DEF Incoming, Unsynced, Starts
<1>13. Arriving(c)'
  BY <1>1, <1>4, <1>5, <1>7, <1>10, <1>11, <1>12 DEF Arriving
<1>14. SysInv'
  BY <1>1, <1>2, <1>5, <1>7, <1>9, <1>10, <1>13, DecoderFrame DEF SysInv
<1> QED
  BY <1>7, <1>14

\* A first sync message tells the decoder where the core is.
LEMMA FirstSyncKeeps ==
  ASSUME SysInv, DecodeStep, FirstSync
  PROVE  SysInv' /\ StreamStep
<1> DEFINE c == currentCore
           P == pending[c]
           t == target[c]
           x == ProcessTraceMessage(nm, K).k
           j == [x EXCEPT !.state = "GETMSGWITHCOUNT"]
<1>1. /\ status = "OK" /\ ~readNewTraceMessage /\ K.state = "GETFIRSTSYNCMSG"
      /\ UNCHANGED <<nm, currentCore, traceType, status>> /\ instInfo' = NoOutput
      /\ readNewTraceMessage' = TRUE /\ core' = [core EXCEPT ![c] = j]
  BY DEF FirstSync, InState, Finish, Become, Silent
<1>2. /\ CoreOK(K) /\ K.cnt \in Count /\ c \in Core /\ P \in Seq(Entry) /\ TargetOK(t) /\ nm \in Message
      /\ pending \in [Core -> Seq(Entry)] /\ core \in [Core -> CoreState]
      /\ traceMode \in {"BTM", "HTM"}
  BY <1>1, CoreInWork
<1>3. channel = <<>> /\ P = <<>> /\ Starts(nm, t) /\ Sent(nm)
  BY <1>1, MessageForUnsynced DEF Unsynced
<1>4. Processed(x, nm, K)
  BY <1>2, <1>3, Retired DEF Sent
<1>5. x \in CoreState
  BY <1>2, ProcessTraceMessageType DEF MessageResult, CoreOK
<1> HIDE DEF x
<1>6. /\ x.lastFaddr = nm.addr /\ x.currentAddress = nm.addr
      /\ x.cnt = ResetCounts(K.cnt) /\ x.stack = <<>>
  BY <1>3, <1>4 DEF Starts, Processed, SyncingTCodes
<1>7. /\ j.state = "GETMSGWITHCOUNT" /\ j.cnt = ResetCounts(K.cnt) /\ j.stack = <<>>
      /\ j.currentAddress = nm.addr /\ j.lastFaddr = nm.addr
  BY <1>5, <1>6 DEF CoreState
<1>8. ResetCounts(K.cnt) \in Count /\ ~Outcomes(ResetCounts(K.cnt)) /\ ResetCounts(K.cnt).i_cnt = 0
  BY <1>2, ResetCountsType
<1> HIDE DEF j, P, t
<1>9. AtRest(j, <<>>, t)
  <2>1. /\ t.mode = "on" /\ t.run = <<>> /\ t.hist = <<>> /\ t.i_cnt = 0 /\ t.calls = <<>>
        /\ nm.addr = t.pc /\ t.ref = t.pc
    BY <1>3 DEF Starts
  <2>2. j.cnt.i_cnt + t.i_cnt = 0 /\ j.cnt.i_cnt = 0
    BY <1>7, <1>8, <2>1
  <2> QED
    BY <1>2, <1>7, <1>8, <2>1, <2>2, AtRestHere
<1>10. /\ IInv' /\ UNCHANGED <<traceMode, target, channel>>
       /\ StreamStep /\ pending' = [pending EXCEPT ![c] = P]
  BY <1>1, DecodeIInv, NothingReturned DEF DecodeStep, P
<1>11. core'[c] = j /\ pending'[c] = P /\ target'[c] = t
  BY <1>1, <1>2, <1>10 DEF t
<1>12. Rests(c)'
  <2>1. AtRest(core'[c], pending'[c], target'[c])
    BY <1>3, <1>9, <1>11
  <2> QED
    BY <1>1, <1>10, <2>1, RestsNext
<1>13. HeldBack(c)'
  BY <1>1, <1>3, <1>11 DEF HeldBack
<1>14. SysInv'
  BY <1>1, <1>2, <1>3, <1>10, <1>12, <1>13, DecoderFrame DEF SysInv
<1> QED
  BY <1>10, <1>14

\* Every step of the decoder keeps the invariant and returns what was executed.
LEMMA DecodeKeeps ==
  ASSUME SysInv, DecodeStep
  PROVE  SysInv' /\ StreamStep
<1>1. CASE FirstSync
  BY <1>1, FirstSyncKeeps
<1>2. CASE FirstSyncICT \/ FirstSkip \/ FirstError \/ FirstRefuse
  <2>1. /\ ~readNewTraceMessage /\ K.state = "GETFIRSTSYNCMSG" /\ nm.tcode # "SYNC"
    BY <1>2 DEF FirstSyncICT, FirstSkip, FirstError, FirstRefuse, InState, SupportedTCodes,
                TCodesWithCounts
  <2>2. Starts(nm, target[currentCore])
    BY <2>1, MessageForUnsynced DEF Unsynced
  <2> QED
    BY <2>1, <2>2 DEF Starts
<1>3. CASE GetMsgWithCount \/ GetNextMsg
  <2>1. /\ status = "OK" /\ ~readNewTraceMessage /\ K.state \in {"GETMSGWITHCOUNT", "GETNEXTMSG"}
        /\ \/ TakeCounts(IF K.state = "GETNEXTMSG" THEN K.cnt ELSE ResetCounts(K.cnt))
           \/ RetireICT \/ LoseTrace \/ RetireOther \/ Refuse
    BY <1>3 DEF GetMsgWithCount, GetNextMsg, InState
  <2>2. Waiting(K)
    BY <2>1 DEF Waiting
  <2>3. nm.tcode = "ERROR" \/ nm.tcode \in TCodesWithCounts
    BY <2>1, <2>2, MessageForWaiting
  <2>4. ~RetireICT /\ ~RetireOther /\ ~Refuse
    BY <2>3 DEF RetireICT, RetireOther, Refuse, ICTTCodes, SupportedTCodes, TCodesWithCounts
  <2> QED
    BY <2>1, <2>2, <2>4, TakeCountsKeeps, LoseTraceKeeps
<1>4. CASE CountsExhausted
  BY <1>4, CountsExhaustedKeeps
<1>5. CASE NoInstructionThere
  BY <1>5, NoInstructionNever
<1>6. CASE NextInst
  BY <1>6, NextInstKeeps
<1>7. CASE RetireMessage
  BY <1>7, RetireKeeps
<1>8. CASE RetireCorrelation
  BY <1>8, CorrelationKeeps
<1> QED
  BY <1>1, <1>2, <1>3, <1>4, <1>5, <1>6, <1>7, <1>8 DEF DecodeStep, Decode

-----------------------------------------------------------------------------
(* Reading a message.                                                      *)

\* What the core is about to take in the next state, from its values there.
LEMMA IncomingNext ==
  ASSUME UNCHANGED traceMode, NEW k, NEW m, NEW P, NEW t, Incoming(k, m, P, t),
         NEW c, k = core'[c], P = pending'[c], t = target'[c], m = nm'
  PROVE  Incoming(core[c], nm, pending[c], target[c])'
<1> DEFINE r == SetCounts(IF k.state = "GETNEXTMSG" THEN k.cnt ELSE ResetCounts(k.cnt), m)
           x == [k EXCEPT !.cnt = r.c]
<1>1. CASE Unsynced(k) /\ P = <<>> /\ Starts(m, t)
  BY <1>1 DEF Incoming, Unsynced, Starts
<1>2. CASE Waiting(k) /\ r.ok /\ InWork(x, m, P, t)
  <2>1. PICK tr : WorkPath(x, m, P, t, tr)
    BY <1>2 DEF InWork
  <2> DEFINE y == [core[c] EXCEPT !.cnt =
                     SetCounts(IF core[c].state = "GETNEXTMSG" THEN core[c].cnt
                               ELSE ResetCounts(core[c].cnt), nm).c]
  <2>2. y' = x
    OBVIOUS
  <2> HIDE DEF x, y
  <2>3. EndsPath(y, nm, pending[c], target[c], tr)'
    BY <2>1, <2>2 DEF WorkPath, EndsPath, Guided
  <2>4. Guided(tr, Len(pending[c]) - 1)' /\ Accounted(y.cnt, target[c], tr, Len(pending[c]))'
    BY <2>1, <2>2 DEF WorkPath, Guided, Accounted
  <2>5. WorkPath(y, nm, pending[c], target[c], tr)'
    BY <2>1, <2>2, <2>3, <2>4 DEF WorkPath
  <2>6. InWork(y, nm, pending[c], target[c])'
    BY <1>2, <2>2, <2>5 DEF InWork
  <2> QED
    BY <1>2, <2>6 DEF Incoming, Waiting, y
<1> QED
  BY <1>1, <1>2 DEF Incoming

\* The message that arrives is the one the core is then worked on with.
LEMMA ReadKeeps ==
  ASSUME SysInv, ReadStep
  PROVE  SysInv' /\ StreamStep
<1> DEFINE h == Head(channel)
<1>0. h \in [msg: Message, covers: Seq(Entry)]
  BY HeadTailProperties DEF SysInv, ReadStep
<1> PICK c \in Core : c = h.msg.core
  BY <1>0 DEF Message
<1> DEFINE P == IF h.msg.tcode = "ERROR" THEN <<>> ELSE pending[c] \o h.covers
<1>1. /\ channel # <<>> /\ Read(h.msg) /\ channel' = Tail(channel)
      /\ pending' = [pending EXCEPT ![c] = P]
      /\ UNCHANGED <<target, traceMode>>
  BY DEF ReadStep
<1>2. /\ readNewTraceMessage /\ nm' = h.msg /\ readNewTraceMessage' = FALSE /\ currentCore' = c
      /\ instInfo' = NoOutput
      /\ IF traceType # "HTM" /\ h.msg.tcode \notin SupportedTCodes
         THEN /\ status' = "ERR"
              /\ core' = [core EXCEPT ![c].state = "ERROR"]
         ELSE UNCHANGED <<status, core>>
      /\ traceType' = IF ShowsHistory(h.msg) THEN "HTM" ELSE traceType
  BY <1>1 DEF Read
<1>3. /\ h \in [msg: Message, covers: Seq(Entry)] /\ Tail(channel) \in Seq([msg: Message, covers: Seq(Entry)])
      /\ pending \in [Core -> Seq(Entry)]
  BY <1>1, HeadTailProperties DEF SysInv
<1>4. h.msg \in Message /\ h.covers \in Seq(Entry) /\ c \in Core
  BY <1>3 DEF Message
<1>5. \A d \in Core : Busy(d) <=> d = c
  BY <1>1, <1>2 DEF Busy
<1>6. Arriving(c) /\ HeldBack(c)
  BY <1>2, <1>4, <1>5 DEF SysInv
<1>7. \A d \in Core : d # c => Rests(d) /\ HeldBack(d)
  BY <1>5 DEF SysInv
<1>8. Sent(h.msg)
  BY <1>6 DEF Arriving
<1>9. h.msg.tcode \in SupportedTCodes
  BY <1>8 DEF Sent, SupportedTCodes
<1>10. UNCHANGED <<status, core>>
  BY <1>2, <1>9
<1>11. IInv'
  BY <1>1, <1>4, <1>8, ReadStepInv DEF SysInv, Sent
<1>12. P \in Seq(Entry) /\ pending'[c] = P /\ pending' \in [Core -> Seq(Entry)]
  <2>1. pending[c] \in Seq(Entry)
    BY <1>3, <1>4
  <2>2. pending[c] \o h.covers \in Seq(Entry)
    BY <1>4, <2>1, ConcatProperties
  <2>3. P \in Seq(Entry)
    BY <2>2
  <2> HIDE DEF P
  <2> QED
    BY <1>1, <1>3, <1>4, <2>3
<1>13. /\ traceMode = "BTM" => traceType' = "BTM"
       /\ traceMode = "HTM" /\ h.msg.tcode \notin {"SYNC", "ERROR"} => traceType' = "HTM"
       /\ traceType = "HTM" => traceType' = "HTM"
  <2>1. traceMode = "BTM" => ~ShowsHistory(h.msg)
    BY <1>8 DEF Sent, ShowsHistory, HistoryTCodes
  <2>2. traceMode = "HTM" /\ h.msg.tcode \notin {"SYNC", "ERROR"} => ShowsHistory(h.msg)
    BY <1>8 DEF Sent
  <2> QED
    BY <1>2, <2>1, <2>2 DEF SysInv
<1>14. Sent(nm)'
  BY <1>1, <1>2, <1>8 DEF Sent
<1> HIDE DEF h, P
<1>15. Working(c)'
  <2>1. CASE /\ h.msg.tcode = "ERROR" /\ h.covers = <<>> /\ Waiting(core[c])
             /\ Len(channel) = 2 /\ Restarts(channel[2], c)
    <3>1. Len(Tail(channel)) = 1 /\ Head(Tail(channel)) = channel[2]
      <4>1. channel \in Seq([msg: Message, covers: Seq(Entry)])
        BY DEF SysInv
      <4> DEFINE S == [msg: Message, covers: Seq(Entry)]
                 x == channel
      <4> HIDE DEF S, x
      <4>5. x \in Seq(S) /\ x # <<>> /\ Len(x) = 2
        BY <1>1, <2>1, <4>1 DEF S, x
      <4>6. /\ Tail(x) \in Seq(S) /\ Len(Tail(x)) = 2 - 1
            /\ \A i \in 1..Len(Tail(x)) : Tail(x)[i] = x[i + 1]
        BY <4>5, HeadTailProperties
      <4>2. Tail(channel) \in Seq(S) /\ Len(Tail(channel)) = 1 /\ Tail(channel)[1] = channel[2]
        BY <4>6 DEF x
      <4> DEFINE y == Tail(channel)
      <4>8. Len(y) = 1
        BY <4>2
      <4> HIDE DEF y
      <4>7. y = <<>> => Len(y) = 0
        BY EmptySeq
      <4>9. y # <<>>
        BY <4>7, <4>8
      <4>3. Tail(channel) # <<>>
        BY <4>9 DEF y
      <4> QED
        BY <4>2, <4>3, HeadTailProperties
    <3>2. P = <<>>
      BY <2>1 DEF P
    <3>3. Restarts(Head(channel), c)'
      BY <1>1, <2>1, <3>1 DEF Restarts, Sent, Starts
    <3>4. Waiting(core[c])'
      BY <1>10, <2>1 DEF Waiting
    <3>5. (traceMode = "HTM" /\ nm.tcode \notin {"SYNC", "ERROR"} => traceType = "HTM")'
      BY <1>1, <1>2, <1>13
    <3> QED
      BY <1>1, <1>2, <1>12, <1>14, <2>1, <3>1, <3>2, <3>3, <3>4, <3>5 DEF Working
  <2>2. CASE Len(channel) = 1 /\ Incoming(core[c], h.msg, pending[c] \o h.covers, target[c])
    <3>1. Tail(channel) = <<>>
      <4>1. Len(Tail(channel)) = 0 /\ Tail(channel) \in Seq([msg: Message, covers: Seq(Entry)])
        BY <1>1, <1>3, <2>2, HeadTailProperties DEF SysInv
      <4> QED
        BY <4>1, EmptySeq
    <3>2. h.msg.tcode # "ERROR"
      <4> SUFFICES ASSUME h.msg.tcode = "ERROR" PROVE FALSE
        OBVIOUS
      <4>1. ~Starts(h.msg, target[c])
        BY DEF Starts
      <4>2. PICK x, Q, u, tr : WorkPath(x, h.msg, Q, u, tr)
        BY <2>2, <4>1 DEF Incoming, InWork
      <4>3. EndsPath(x, h.msg, Q, u, tr)
        BY <4>2 DEF WorkPath
      <4> QED
        BY <4>3 DEF EndsPath, IndirectTCodes, SyncingTCodes
    <3>3. P = pending[c] \o h.covers
      BY <3>2 DEF P
    <3>4. Incoming(core[c], nm, pending[c], target[c])'
      BY <1>1, <1>2, <1>10, <1>12, <2>2, <3>3, IncomingNext
    <3>5. (traceMode = "HTM" /\ nm.tcode \notin {"SYNC", "ERROR"} => traceType = "HTM")'
      BY <1>1, <1>2, <1>13
    <3> QED
      BY <1>1, <1>2, <1>14, <3>1, <3>4, <3>5 DEF Working
  <2> QED
    BY <1>6, <2>1, <2>2 DEF Arriving, h
<1>16. \A d \in Core : Busy(d)' <=> d = c
  BY <1>2 DEF Busy
<1>17. ASSUME NEW d \in Core
       PROVE  /\ TargetOK(target[d])'
              /\ IF ~Busy(d)' THEN Rests(d)' /\ HeldBack(d)'
                 ELSE IF readNewTraceMessage' THEN Arriving(d)' /\ HeldBack(d)'
                 ELSE Working(d)'
  <2>1. TargetOK(target[d])'
    BY <1>1 DEF SysInv, TargetOK
  <2>2. CASE d # c
    <3>1. core'[d] = core[d] /\ pending'[d] = pending[d] /\ target'[d] = target[d]
      BY <1>1, <1>3, <1>10, <2>2
    <3>2. Rests(d)' /\ HeldBack(d)'
      BY <1>1, <1>7, <1>13, <2>2, <3>1, RestsStays
    <3> QED
      BY <1>16, <2>1, <2>2, <3>2
  <2>3. CASE d = c
    BY <1>2, <1>15, <1>16, <2>1, <2>3
  <2> QED
    BY <2>2, <2>3
<1>18. /\ status' = "OK" /\ traceMode' \in {"BTM", "HTM"} /\ (traceMode' = "BTM" => traceType' = "BTM")
       /\ target' \in [Core -> Encoder]
       /\ channel' \in Seq([msg: Message, covers: Seq(Entry)])
  BY <1>1, <1>3, <1>10, <1>13 DEF SysInv
<1>19. SysInv'
  BY <1>11, <1>12, <1>17, <1>18 DEF SysInv
<1>20. StreamStep
  BY <1>2 DEF StreamStep, Returns
<1> QED
  BY <1>19, <1>20

-----------------------------------------------------------------------------
(* What the encoders send.                                                 *)

\* A path that core k is at the beginning of, up to where target t is.
Ahead(k, P, t, tr) ==
  LET q == P \o t.run
      n == Len(q)
  IN /\ Path(q, tr) /\ Guided(tr, n - 1) /\ Accounted(k.cnt, t, tr, n)
     /\ tr[1].at = k.currentAddress /\ tr[1].calls = k.stack

\* Branches of a path are numbered from 1.
LEMMA BranchIndex ==
  ASSUME NEW q, Len(q) \in Nat, NEW tr, Path(q, tr), NEW j \in 1..Len(q), IsBranch(tr[j])
  PROVE  tr[j].br - tr[1].br + 1 \in 1..(tr[Len(q) + 1].br - tr[1].br)
<1> DEFINE n == Len(q)
<1>1. 1 \in 1..n + 1 /\ j \in 1..n + 1 /\ j + 1 \in 1..n + 1 /\ n + 1 \in 1..n + 1
      /\ 1 <= j /\ j + 1 <= n + 1
  OBVIOUS
<1>2. Follows(tr[j], tr[j + 1])
  BY PathPoint
<1>3. /\ tr[1] \in Point /\ tr[j] \in Point /\ tr[j + 1] \in Point /\ tr[n + 1] \in Point
      /\ tr[j].br >= tr[1].br /\ tr[n + 1].br >= tr[j + 1].br
  BY <1>1, PathGrows
<1> DEFINE w == tr[1].br
           x == tr[j].br
           y == tr[j + 1].br
           z == tr[n + 1].br
<1>4. w \in Int /\ x \in Int /\ y \in Int /\ z \in Int /\ y = x + 1
  BY <1>2, <1>3 DEF Point, Follows
<1>5. x >= w /\ z >= y
  BY <1>3
<1> HIDE DEF w, x, y, z
<1>6. x - w + 1 \in 1..(z - w)
  BY <1>4, <1>5
<1> QED
  BY <1>6 DEF w, x, z

\* What a message reports moves from the encoder's counts to the decoder's.
LEMMA SendAccounts ==
  ASSUME traceMode \in {"BTM", "HTM"},
         NEW c \in Count, ~Outcomes(c), NEW b \in Count, ~Outcomes(b), b.i_cnt = c.i_cnt,
         NEW q, Len(q) \in Nat, NEW tr, Path(q, tr),
         NEW v, v.i_cnt \in Nat, v.hist \in Seq(BOOLEAN), Accounted(c, v, tr, Len(q)),
         NEW a \in Nat, NEW h \in Seq(BOOLEAN), NEW d, Reported(b, d, a, h),
         NEW w, w.i_cnt \in Nat, a + w.i_cnt = v.i_cnt,
         (h = v.hist /\ w.hist = <<>>) \/ (h = <<>> /\ w.hist = v.hist)
  PROVE  Accounted(d, w, tr, Len(q))
<1> DEFINE n == Len(q)
           N == tr[n + 1].br - tr[1].br
           At1(j) == tr[j].br - tr[1].br + 1
<1>1. /\ d \in Count /\ OneKind(d) /\ d.i_cnt = b.i_cnt + a
      /\ NumOut(d) = Len(h) /\ \A j \in 1..Len(h) : OutcomeOf(d, j) = h[j]
  BY DEF Reported
<1>2. NumOut(c) = 0
  BY NoOutcomes
<1>3. d.i_cnt + w.i_cnt = c.i_cnt + v.i_cnt
  <2>1. d.i_cnt \in Int /\ c.i_cnt \in Int
    BY <1>1 DEF Count
  <2> QED
    BY <1>1, <2>1
<1>4. d.i_cnt + w.i_cnt = tr[n + 1].size - tr[1].size
  BY <1>3 DEF Accounted
<1>5. Len(<<>>) = 0
  OBVIOUS
<1>6. traceMode = "BTM" => ~Outcomes(d) /\ w.hist = <<>>
  <2> SUFFICES ASSUME traceMode = "BTM" PROVE ~Outcomes(d) /\ w.hist = <<>>
    OBVIOUS
  <2>1. h = <<>> /\ w.hist = <<>>
    BY DEF Accounted
  <2>2. ~(NumOut(d) > 0)
    BY <1>1, <1>5, <2>1
  <2> QED
    BY <1>1, <2>1, <2>2, NoOutcomes
<1>7. ASSUME traceMode = "HTM"
      PROVE  /\ NumOut(d) + Len(w.hist) = N
             /\ \A j \in 1..n : IsBranch(tr[j]) => tr[j].taken = Outcome(d, w.hist, At1(j))
  <2>1. /\ NumOut(c) + Len(v.hist) = N
        /\ \A j \in 1..n : IsBranch(tr[j]) => tr[j].taken = Outcome(c, v.hist, At1(j))
    BY <1>7 DEF Accounted
  <2>2. Len(v.hist) \in Nat /\ Len(v.hist) = N
    BY <1>2, <2>1, LenProperties
  <2>3. \A j \in 1..n : IsBranch(tr[j]) => At1(j) \in 1..N
    BY BranchIndex
  <2>4. NumOut(d) + Len(w.hist) = N
    BY <1>1, <1>5, <2>2
  <2> HIDE DEF N, At1, n
  <2>5. ASSUME NEW j \in 1..n, IsBranch(tr[j]) PROVE tr[j].taken = Outcome(d, w.hist, At1(j))
    <3>1. At1(j) \in 1..N /\ tr[j].taken = Outcome(c, v.hist, At1(j))
      BY <2>1, <2>3, <2>5
    <3>2. tr[j].taken = v.hist[At1(j)]
      BY <1>2, <2>2, <3>1 DEF Outcome
    <3>3. CASE h = v.hist /\ w.hist = <<>>
      BY <1>1, <2>2, <3>1, <3>2, <3>3 DEF Outcome
    <3>4. CASE h = <<>> /\ w.hist = v.hist
      BY <1>1, <1>5, <2>2, <3>1, <3>2, <3>4 DEF Outcome
    <3> QED
      BY <3>3, <3>4
  <2> QED
    BY <2>4, <2>5
<1> QED
  BY <1>1, <1>4, <1>6, <1>7 DEF Accounted

\* A message that tells how the path ends, and reports its share of the counts,
\* lets the decoder go along the path.
LEMMA SentArrives ==
  ASSUME traceMode \in {"BTM", "HTM"},
         NEW k, k.cnt \in Count, k \in CoreState, ~Outcomes(k.cnt),
         k.state = "GETNEXTMSG" \/ (k.state = "GETMSGWITHCOUNT" /\ k.cnt.i_cnt = 0),
         NEW P, NEW v, v.i_cnt \in Nat, v.hist \in Seq(BOOLEAN), NEW tr,
         Len(P \o v.run) \in Nat, Ahead(k, P, v, tr),
         NEW m, NEW a \in Nat, NEW h \in Seq(BOOLEAN), Len(h) <= HistMax, Reports(m, a, h),
         ~ShowsHistory(m) => h = <<>>,
         NEW w, w.run = <<>>, w.i_cnt \in Nat, a + w.i_cnt = v.i_cnt,
         (h = v.hist /\ w.hist = <<>>) \/ (h = <<>> /\ w.hist = v.hist),
         EndsPath(k, m, P \o v.run, w, tr)
  PROVE  Incoming(k, m, P \o v.run, w)
<1> DEFINE q == P \o v.run
           b == IF k.state = "GETNEXTMSG" THEN k.cnt ELSE ResetCounts(k.cnt)
           r == SetCounts(b, m)
           x == [k EXCEPT !.cnt = r.c]
<1>1. b \in Count /\ ~Outcomes(b) /\ b.i_cnt = k.cnt.i_cnt
  BY ResetCountsType DEF ResetCounts, NoCounts, Outcomes
<1> HIDE DEF b
<1>2. r.ok /\ Reported(b, r.c, a, h)
  BY <1>1, CountsReported
<1> HIDE DEF r
<1>3. /\ x.cnt = r.c /\ x.stack = k.stack /\ x.currentAddress = k.currentAddress
      /\ x.lastFaddr = k.lastFaddr
  BY DEF CoreState
<1> HIDE DEF x
<1>4. /\ Path(q, tr) /\ Guided(tr, Len(q) - 1) /\ Accounted(k.cnt, v, tr, Len(q))
      /\ tr[1].at = k.currentAddress /\ tr[1].calls = k.stack
  BY DEF Ahead
<1> HIDE DEF q
<1>5. Len(q) \in Nat
  BY DEF q
<1>6. Accounted(x.cnt, w, tr, Len(q))
  BY <1>1, <1>2, <1>3, <1>4, <1>5, SendAccounts
<1>7. EndsPath(x, m, q, w, tr)
  BY <1>3 DEF EndsPath, q
<1>8. WorkPath(x, m, q, w, tr)
  BY <1>3, <1>4, <1>6, <1>7 DEF WorkPath
<1>9. ~ShowsHistory(m) => ~Outcomes(x.cnt)
  <2>1. h = <<>> => NumOut(r.c) = 0
    BY <1>2 DEF Reported
  <2>2. r.c \in Count
    BY <1>2 DEF Reported
  <2>3. h = <<>> => ~Outcomes(r.c)
    BY <2>1, <2>2, NoOutcomes
  <2> QED
    BY <1>3, <2>3
<1>10. InWork(x, m, q, w)
  BY <1>8, <1>9 DEF InWork
<1>11. Waiting(k)
  BY DEF Waiting
<1> QED
  BY <1>2, <1>10, <1>11 DEF Incoming, q, x, r, b

-----------------------------------------------------------------------------
(* What the cores execute.                                                 *)

\* The decoder has room for all calls that can be open, and for a swap.
CallsFit == CallDepth <= StackSize /\ StackSize >= 1

\* An instruction is executed last.
LEMMA AppendLast ==
  ASSUME NEW S, NEW P \in Seq(S), NEW r \in Seq(S), NEW e \in S
  PROVE  LET q == P \o r
             n == Len(q)
             u == P \o Append(r, e)
         IN /\ n \in Nat /\ q \in Seq(S) /\ u \in Seq(S) /\ Len(u) = n + 1
            /\ \A j \in 1..n : u[j] = q[j]
            /\ u[n + 1] = e /\ u # <<>>
<1> DEFINE q == P \o r
           n == Len(q)
           f == Append(r, e)
           u == P \o f
<1>1. /\ f \in Seq(S) /\ Len(f) = Len(r) + 1 /\ f[Len(r) + 1] = e
      /\ \A j \in 1..Len(r) : f[j] = r[j]
  BY AppendProperties
<1>2. Len(P) \in Nat /\ Len(r) \in Nat
  BY LenProperties
<1>3. /\ q \in Seq(S) /\ n = Len(P) + Len(r)
      /\ \A j \in 1..Len(P) + Len(r) : q[j] = IF j <= Len(P) THEN P[j] ELSE r[j - Len(P)]
  BY ConcatProperties
<1> HIDE DEF f
<1>4. /\ u \in Seq(S) /\ Len(u) = Len(P) + Len(f)
      /\ \A j \in 1..Len(P) + Len(f) : u[j] = IF j <= Len(P) THEN P[j] ELSE f[j - Len(P)]
  BY <1>1, ConcatProperties
<1> HIDE DEF u, q
<1>5. n \in Nat /\ Len(u) = n + 1
  BY <1>1, <1>2, <1>3, <1>4
<1>6. ASSUME NEW j \in 1..n PROVE u[j] = q[j]
  <2>1. j \in 1..Len(P) + Len(r) /\ j \in 1..Len(P) + Len(f) /\ j \in Int
    BY <1>1, <1>2, <1>3
  <2>2. u[j] = (IF j <= Len(P) THEN P[j] ELSE f[j - Len(P)])
        /\ q[j] = (IF j <= Len(P) THEN P[j] ELSE r[j - Len(P)])
    BY <1>3, <1>4, <2>1
  <2>3. ~(j <= Len(P)) => j - Len(P) \in 1..Len(r)
    BY <1>2, <2>1
  <2> QED
    BY <1>1, <2>2, <2>3
<1>7. u[n + 1] = e
  <2>1. n + 1 \in 1..Len(P) + Len(f) /\ ~(n + 1 <= Len(P)) /\ n + 1 - Len(P) = Len(r) + 1
    BY <1>1, <1>2, <1>3
  <2> QED
    BY <1>1, <1>4, <2>1
<1>8. u # <<>>
  <2>1. u = <<>> => Len(u) = 0
    BY EmptySeq
  <2> QED
    BY <1>5, <2>1
<1> QED
  BY <1>3, <1>4, <1>5, <1>6, <1>7, <1>8 DEF u, q, f

\* The instruction a core executes next.
LEMMA Here ==
  ASSUME NEW t, TargetOK(t), t.mode = "on"
  PROVE  /\ t.pc \in DOMAIN Code /\ t.pc \in Nat /\ t.pc \in Word
         /\ Code[t.pc] \in Instruction /\ Code[t.pc].size \in {1, 2} /\ Code[t.pc].imm \in Int
         /\ Code[t.pc].type \in InstType
         /\ t \in Encoder /\ t.i_cnt \in Nat /\ t.hist \in Seq(BOOLEAN) /\ t.run \in Seq(Entry)
         /\ t.calls \in Seq(DOMAIN Code) /\ t.calls \in Seq(Nat) /\ t.ref \in Word
         /\ [address |-> t.pc, isr |-> t.trap] \in Entry
<1>1. t \in Encoder /\ t.pc \in DOMAIN Code
  BY DEF TargetOK
<1>2. /\ t.i_cnt \in Nat /\ t.hist \in Seq(BOOLEAN) /\ t.run \in Seq(Entry)
      /\ t.calls \in Seq(DOMAIN Code) /\ t.ref \in Word /\ t.trap \in BOOLEAN
  BY <1>1 DEF Encoder
<1>3. t.pc \in Nat /\ Code[t.pc] \in Instruction /\ DOMAIN Code \subseteq Nat
  BY <1>1, DecoderAssumption
<1>4. t.pc \in Word
  BY <1>1, ProgramAssumption
<1>5. Code[t.pc].size \in {1, 2} /\ Code[t.pc].imm \in Int /\ Code[t.pc].type \in InstType
  BY <1>3 DEF Instruction
<1>6. t.calls \in Seq(Nat)
  BY <1>2, <1>3
<1>7. [address |-> t.pc, isr |-> t.trap] \in Entry
  BY <1>1, <1>2 DEF Entry
<1> QED
  BY <1>1, <1>2, <1>3, <1>4, <1>5, <1>6, <1>7

\* Target u is target t with one instruction more.
RunsOn(u, t, next) ==
  /\ TargetOK(u) /\ u.mode = "on" /\ u.pc = next /\ u.hist = t.hist /\ u.ref = t.ref
  /\ u.i_cnt = t.i_cnt + Code[t.pc].size
  /\ u.run = Append(t.run, [address |-> t.pc, isr |-> t.trap])
  /\ u.calls = StackAfter(t.calls, CRFlag(Code[t.pc]), t.pc + Code[t.pc].size)

\* The return stack of an encoder is that of the decoder: no call is dropped.
LEMMA RanRunsOn ==
  ASSUME CallsFit, NEW t, TargetOK(t), t.mode = "on",
         CRFlag(Code[t.pc]) = "isCall" => Len(t.calls) < CallDepth,
         NEW next \in DOMAIN Code
  PROVE  RunsOn(Ran(t, next), t, next)
<1> DEFINE i == Code[t.pc]
           s == t.calls
           f == CRFlag(i)
           a == t.pc + i.size
           left == IF f \in {"isReturn", "isSwap"} THEN Pop(s) ELSE s
           calls == IF f \in {"isCall", "isSwap"} THEN <<a>> \o left ELSE left
           run == Append(t.run, [address |-> t.pc, isr |-> t.trap])
           u == Ran(t, next)
<1>1. /\ t \in Encoder /\ i.size \in {1, 2} /\ t.i_cnt \in Nat /\ t.run \in Seq(Entry)
      /\ s \in Seq(DOMAIN Code) /\ s \in Seq(Nat) /\ t.pc \in DOMAIN Code /\ t.pc \in Nat
      /\ [address |-> t.pc, isr |-> t.trap] \in Entry
  BY Here
<1>2. run \in Seq(Entry)
  BY <1>1, AppendProperties
<1>3. Len(s) \in Nat /\ Len(s) <= StackSize /\ StackSize \in Nat /\ CallDepth \in Nat
      /\ CallDepth <= StackSize /\ StackSize >= 1
  BY <1>1, Sizes, LenProperties DEF TargetOK, CallsFit
<1>4. f \in {"isCall", "isSwap"} => a \in DOMAIN Code
  BY <1>1, ProgramAssumption
<1>5. u = [t EXCEPT !.pc = next, !.trap = FALSE, !.i_cnt = t.i_cnt + i.size, !.run = run,
                    !.calls = calls]
  BY DEF Ran
<1> HIDE DEF u, run
<1>6. /\ Pop(s) \in Seq(DOMAIN Code) /\ Len(Pop(s)) \in Nat /\ Len(Pop(s)) <= Len(s)
      /\ Len(Pop(s)) < StackSize
  <2>1. CASE s = <<>>
    BY <1>1, <1>3, <2>1, EmptySeq DEF Pop
  <2>2. CASE s # <<>>
    <3> HIDE DEF s
    <3>1. Tail(s) \in Seq(DOMAIN Code) /\ Len(Tail(s)) = Len(s) - 1
      BY <1>1, <2>2, HeadTailProperties
    <3>2. Len(s) # 0
      BY <1>1, <2>2, EmptySeq
    <3> QED
      BY <1>3, <2>2, <3>1, <3>2 DEF Pop
  <2> QED
    BY <2>1, <2>2
<1>7. calls \in Seq(DOMAIN Code) /\ Len(calls) <= StackSize /\ calls = StackAfter(s, f, a)
  <2>1. ASSUME NEW x \in Seq(DOMAIN Code), Len(x) < StackSize, a \in DOMAIN Code
        PROVE  /\ <<a>> \o x \in Seq(DOMAIN Code) /\ Len(<<a>> \o x) <= StackSize
               /\ <<a>> \o x = Push(x, a)
    <3>1. <<a>> \in Seq(DOMAIN Code) /\ Len(<<a>>) = 1
      BY <2>1
    <3>2. Len(x) \in Nat
      BY LenProperties
    <3> HIDE DEF a
    <3>3. <<a>> \o x \in Seq(DOMAIN Code) /\ Len(<<a>> \o x) = 1 + Len(x)
      BY <3>1, ConcatProperties
    <3> QED
      BY <1>3, <2>1, <3>2, <3>3 DEF Push
  <2> HIDE DEF a, i, f, s
  <2>2. CASE f = "isCall"
    <3>1. Len(s) < StackSize
      BY <1>3, <2>2 DEF f, s, i
    <3> QED
      BY <1>1, <1>4, <2>1, <2>2, <3>1 DEF StackAfter
  <2>3. CASE f = "isReturn"
    BY <1>3, <1>6, <2>3 DEF StackAfter
  <2>4. CASE f = "isSwap"
    BY <1>4, <1>6, <2>1, <2>4 DEF StackAfter
  <2>5. CASE f \notin {"isCall", "isReturn", "isSwap"}
    BY <1>1, <1>3, <2>5 DEF StackAfter
  <2> QED
    BY <2>2, <2>3, <2>4, <2>5
<1> HIDE DEF calls, a, i, f, s
<1>8. next \in Int
  <2>1. DOMAIN Code \subseteq Nat
    BY DecoderAssumption
  <2> QED
    BY <2>1
<1>9. t.i_cnt + i.size \in Nat
  BY <1>1
<1>10. /\ u \in Encoder /\ u.mode = "on" /\ u.pc = next /\ u.hist = t.hist /\ u.ref = t.ref
       /\ u.i_cnt = t.i_cnt + i.size /\ u.run = run /\ u.calls = calls
  BY <1>1, <1>2, <1>5, <1>7, <1>8, <1>9 DEF Encoder
<1>11. TargetOK(u)
  BY <1>7, <1>10 DEF TargetOK
<1> QED
  BY <1>7, <1>10, <1>11 DEF RunsOn, u, run, a, i, f, s

\* The outcomes an encoder has collected after one more instruction.
Collected(t, taken) ==
  IF traceMode = "HTM" /\ Code[t.pc].type \in BranchTypes THEN Append(t.hist, taken) ELSE t.hist

\* Core k, with P to return, was at the beginning of a path to target t, and is
\* now at the beginning of one to v, which has executed one instruction more.
Beyond(k, P, t, v, taken, tr) ==
  LET n == Len(P \o v.run)
  IN /\ n \in Nat /\ P \o v.run # <<>>
     /\ Ahead(k, P, v, tr)
     /\ tr[n].at = t.pc /\ tr[n].taken = taken /\ tr[n].calls = t.calls
     /\ tr[n + 1].at = v.pc /\ tr[n + 1].calls = v.calls

\* Executing an instruction adds a point to the path.
LEMMA Executes ==
  ASSUME traceMode \in {"BTM", "HTM"}, NEW t, TargetOK(t), t.mode = "on",
         NEW k, k.cnt \in Count, NEW P \in Seq(Entry), NEW tr, RestPath(k, P, t, tr),
         NEW next, NEW u, RunsOn(u, t, next), NEW taken \in BOOLEAN,
         NEW v, v.pc = next, v.calls = u.calls, v.i_cnt = u.i_cnt, v.run = u.run,
         v.hist = Collected(t, taken)
  PROVE  \E ur : Beyond(k, P, t, v, taken, ur)
<1> DEFINE i == Code[t.pc]
           e == [address |-> t.pc, isr |-> t.trap]
           q == P \o t.run
           n == Len(q)
           f == P \o v.run
           one == IF i.type \in BranchTypes THEN 1 ELSE 0
           o == tr[n + 1]
           x == [o EXCEPT !.taken = taken]
           y == [at |-> next, calls |-> u.calls, taken |-> FALSE, size |-> o.size + i.size,
                 br |-> o.br + one]
           ur == [j \in 1..n + 2 |-> IF j <= n THEN tr[j] ELSE IF j = n + 1 THEN x ELSE y]
<1>1. /\ t.pc \in DOMAIN Code /\ i.size \in {1, 2} /\ t.run \in Seq(Entry) /\ e \in Entry
      /\ t.i_cnt \in Nat /\ t.hist \in Seq(BOOLEAN) /\ Len(t.hist) \in Nat
  BY Here, LenProperties
<1>2. v.run = Append(t.run, e)
  BY DEF RunsOn
<1>3. /\ n \in Nat /\ q \in Seq(Entry) /\ f \in Seq(Entry) /\ Len(f) = n + 1 /\ f # <<>>
      /\ \A j \in 1..n : f[j] = q[j]
      /\ f[n + 1] = e
  <2> DEFINE run == t.run
             p == P \o run
             g == P \o Append(run, e)
  <2>1. run \in Seq(Entry) /\ e \in Entry
    BY <1>1
  <2> HIDE DEF e, run, f, q, n
  <2>2. /\ Len(p) \in Nat /\ p \in Seq(Entry) /\ g \in Seq(Entry) /\ Len(g) = Len(p) + 1 /\ g # <<>>
        /\ \A j \in 1..Len(p) : g[j] = p[j]
        /\ g[Len(p) + 1] = e
    BY <2>1, AppendLast
  <2>3. f = g /\ q = p /\ n = Len(p)
    BY <1>2 DEF f, q, n, run
  <2> HIDE DEF g, p
  <2> QED
    BY <2>2, <2>3
<1>4. /\ Path(q, tr) /\ Guided(tr, n) /\ Accounted(k.cnt, t, tr, n)
      /\ tr[1].at = k.currentAddress /\ tr[1].calls = k.stack
      /\ o.at = t.pc /\ o.calls = t.calls
  BY DEF RestPath
<1>5. /\ u.calls \in Seq(Nat) /\ Len(u.calls) <= StackSize /\ next \in Int
      /\ u.calls = StackAfter(t.calls, CRFlag(i), t.pc + i.size) /\ u.i_cnt = t.i_cnt + i.size
  BY Here DEF RunsOn, TargetOK, Encoder
<1>6. o \in Point /\ 1 \in 1..n + 1 /\ n + 1 \in 1..n + 1
  BY <1>3, <1>4 DEF Path
<1>7. o.size \in Int /\ o.br \in Int /\ one \in {0, 1}
  BY <1>6 DEF Point
<1> HIDE DEF f, q, o, n
<1>8. /\ x \in Point /\ x.at = t.pc /\ x.calls = t.calls /\ x.taken = taken
      /\ x.size = o.size /\ x.br = o.br
  BY <1>4, <1>6 DEF Point
<1>9. /\ y \in Point /\ y.at = next /\ y.calls = u.calls /\ y.size = o.size + i.size
      /\ y.br = o.br + one
  <2>1. o.size + i.size \in Int /\ o.br + one \in Int
    BY <1>1, <1>7
  <2> QED
    BY <1>5, <2>1 DEF Point
<1> HIDE DEF x, y
<1>10. /\ \A j \in 1..n : ur[j] = tr[j]
       /\ ur[n + 1] = x /\ ur[n + 2] = y
       /\ DOMAIN ur = 1..n + 2
  BY <1>3
<1> HIDE DEF ur
<1>11. \A j \in 1..n + 1 : ur[j].at = tr[j].at /\ ur[j].calls = tr[j].calls
                           /\ ur[j].size = tr[j].size /\ ur[j].br = tr[j].br
  <2>1. \A j \in 1..n + 1 : j \in 1..n \/ j = n + 1
    BY <1>3
  <2> QED
    BY <1>4, <1>8, <1>10, <2>1 DEF o
<1>12. ur \in [1..Len(f) + 1 -> Point]
  <2>1. Len(f) + 1 = n + 2
    BY <1>3
  <2>2. \A j \in 1..n : tr[j] \in Point
    BY <1>3, <1>4 DEF Path, n
  <2>3. \A j \in 1..n + 2 : j \in 1..n \/ j = n + 1 \/ j = n + 2
    BY <1>3
  <2>4. \A j \in 1..n + 2 : ur[j] \in Point
    BY <1>8, <1>9, <1>10, <2>2, <2>3
  <2>5. ur \in [1..n + 2 -> Point]
    BY <1>10, <2>4 DEF ur
  <2> QED
    BY <2>1, <2>5
<1>13. \A j \in 1..n : f[j].address = ur[j].at /\ Follows(ur[j], ur[j + 1])
  <2> SUFFICES ASSUME NEW j \in 1..n
               PROVE  f[j].address = ur[j].at /\ Follows(ur[j], ur[j + 1])
    OBVIOUS
  <2>1. q[j].address = tr[j].at /\ Follows(tr[j], tr[j + 1])
    BY <1>4 DEF Path, n
  <2>2. j \in 1..n + 1 /\ j + 1 \in 1..n + 1
    BY <1>3
  <2> QED
    BY <1>3, <1>10, <1>11, <2>1, <2>2 DEF Follows
<1>14. f[n + 1].address = ur[n + 1].at /\ Follows(ur[n + 1], ur[n + 2])
  <2>1. Follows(x, y)
    BY <1>1, <1>5, <1>8, <1>9 DEF Follows, Ins, IsBranch
  <2> QED
    BY <1>3, <1>8, <1>10, <2>1
<1>15. Path(f, ur)
  <2>1. \A j \in 1..Len(f) : j \in 1..n \/ (j = n + 1 /\ j + 1 = n + 2)
    BY <1>3
  <2> QED
    BY <1>12, <1>13, <1>14, <2>1 DEF Path
<1>16. Guided(ur, n)
  <2> SUFFICES ASSUME NEW j \in 1..n PROVE Known(traceMode, ur[j], ur[j + 1].at)
    BY DEF Guided
  <2>1. Known(traceMode, tr[j], tr[j + 1].at)
    BY <1>4 DEF Guided
  <2>2. j + 1 \in 1..n + 1
    BY <1>3
  <2> QED
    BY <1>10, <1>11, <2>1, <2>2
<1>17. k.cnt.i_cnt + v.i_cnt = ur[n + 2].size - ur[1].size
  <2>1. k.cnt.i_cnt + t.i_cnt = o.size - tr[1].size /\ k.cnt.i_cnt \in Int
    BY <1>4 DEF Accounted, o, Count
  <2>2. tr[1] \in Point
    BY <1>3, <1>4, <1>6 DEF Path, n
  <2>3. tr[1].size \in Int
    BY <2>2 DEF Point
  <2>4. ur[1].size = tr[1].size /\ ur[n + 2].size = o.size + i.size
    BY <1>6, <1>9, <1>10, <1>11
  <2> DEFINE C == k.cnt.i_cnt
             T == t.i_cnt
             S == i.size
             Z == o.size
             W == tr[1].size
  <2>5. C \in Int /\ T \in Int /\ S \in Int /\ Z \in Int /\ W \in Int /\ C + T = Z - W
    BY <1>1, <1>7, <2>1, <2>3
  <2>6. v.i_cnt = T + S /\ ur[n + 2].size = Z + S /\ ur[1].size = W
    BY <1>5, <2>4
  <2> HIDE DEF C, T, S, Z, W
  <2>7. C + (T + S) = (Z + S) - W
    BY <2>5
  <2> QED
    BY <2>6, <2>7 DEF C
<1>18. ASSUME traceMode = "HTM"
       PROVE  /\ NumOut(k.cnt) + Len(v.hist) = ur[n + 2].br - ur[1].br
              /\ \A j \in 1..n + 1 : IsBranch(ur[j]) =>
                   ur[j].taken = Outcome(k.cnt, v.hist, ur[j].br - ur[1].br + 1)
  <2> DEFINE N == NumOut(k.cnt)
             b == tr[1].br
             L == Len(t.hist)
  <2>1. /\ N + L = o.br - b
        /\ \A j \in 1..n : IsBranch(tr[j]) => tr[j].taken = Outcome(k.cnt, t.hist, tr[j].br - b + 1)
    BY <1>4, <1>18 DEF Accounted, o
  <2>2. tr[1] \in Point
    BY <1>3, <1>4, <1>6 DEF Path, n
  <2>3. b \in Int /\ N \in Nat /\ L \in Nat
    BY <1>1, <2>2, NoOutcomes DEF Point
  <2>4. /\ Len(v.hist) = L + one
        /\ \A j \in 1..L : v.hist[j] = t.hist[j]
        /\ i.type \in BranchTypes => v.hist[L + 1] = taken
    <3>1. CASE i.type \in BranchTypes
      <4>1. v.hist = Append(t.hist, taken) /\ one = 1
        BY <1>18, <3>1 DEF Collected
      <4>2. /\ Len(Append(t.hist, taken)) = L + 1 /\ Append(t.hist, taken)[L + 1] = taken
            /\ \A j \in 1..L : Append(t.hist, taken)[j] = t.hist[j]
        BY <1>1, AppendProperties
      <4> HIDE DEF L, one
      <4> QED
        BY <4>1, <4>2
    <3>2. CASE i.type \notin BranchTypes
      <4>1. v.hist = t.hist /\ one = 0
        BY <3>2 DEF Collected
      <4> QED
        BY <2>3, <3>2, <4>1
    <3> QED
      BY <3>1, <3>2
  <2>5. ur[1].br = b /\ ur[n + 2].br = o.br + one
    BY <1>6, <1>9, <1>10, <1>11
  <2>6. \A j \in 1..n : IsBranch(tr[j]) => tr[j].br - b + 1 \in 1..(N + L)
    BY <1>3, <1>4, <2>1, BranchIndex DEF n, o
  <2> HIDE DEF N, b, L, one
  <2>7. N + Len(v.hist) = ur[n + 2].br - ur[1].br
    <3> DEFINE z == o.br
    <3>1. z \in Int /\ one \in Int /\ N + L = z - b
      BY <1>7, <2>1
    <3> HIDE DEF z
    <3>2. N + (L + one) = (z + one) - b
      BY <2>3, <3>1
    <3> QED
      BY <2>4, <2>5, <3>2 DEF z
  <2>8. \A j \in 1..(N + L) : Outcome(k.cnt, v.hist, j) = Outcome(k.cnt, t.hist, j)
    BY <2>3, <2>4 DEF Outcome, N
  <2>9. ASSUME NEW j \in 1..n, IsBranch(ur[j])
        PROVE  ur[j].taken = Outcome(k.cnt, v.hist, ur[j].br - b + 1)
    <3>1. ur[j] = tr[j] /\ tr[j].br - b + 1 \in 1..(N + L)
      BY <1>10, <2>6, <2>9
    <3>2. tr[j].taken = Outcome(k.cnt, t.hist, tr[j].br - b + 1)
      BY <2>1, <2>9, <3>1
    <3> QED
      BY <2>8, <3>1, <3>2
  <2>10. ASSUME IsBranch(x) PROVE x.taken = Outcome(k.cnt, v.hist, x.br - b + 1)
    <3>1. i.type \in BranchTypes
      BY <1>8, <2>10 DEF IsBranch, Ins
    <3>2. x.br - b + 1 = N + L + 1
      BY <1>7, <1>8, <2>1, <2>3
    <3>3. Outcome(k.cnt, v.hist, N + L + 1) = v.hist[L + 1]
      <4> DEFINE j == N + L + 1
      <4>2. Outcome(k.cnt, v.hist, j) = IF j <= N THEN OutcomeOf(k.cnt, j) ELSE v.hist[j - N]
        BY DEF Outcome, N
      <4>3. ~(j <= N) /\ j - N = L + 1
        BY <2>3
      <4> HIDE DEF j
      <4>4. Outcome(k.cnt, v.hist, j) = v.hist[L + 1]
        BY <4>2, <4>3
      <4> QED
        BY <4>4 DEF j
    <3> QED
      BY <1>8, <2>4, <3>1, <3>2, <3>3
  <2>11. \A j \in 1..n + 1 : j \in 1..n \/ (j = n + 1 /\ ur[j] = x)
    BY <1>3, <1>10
  <2> QED
    BY <2>5, <2>7, <2>9, <2>10, <2>11 DEF N
<1>19. Accounted(k.cnt, v, ur, n + 1)
  <2>1. n + 1 + 1 = n + 2
    BY <1>3
  <2>2. OneKind(k.cnt) /\ (traceMode = "BTM" => ~Outcomes(k.cnt) /\ t.hist = <<>>)
    BY <1>4 DEF Accounted
  <2>3. traceMode = "BTM" => v.hist = t.hist
    BY DEF Collected
  <2> QED
    BY <1>17, <1>18, <2>1, <2>2, <2>3 DEF Accounted
<1>20. ur[1].at = k.currentAddress /\ ur[1].calls = k.stack
  BY <1>4, <1>6, <1>11
<1>21. Ahead(k, P, v, ur)
  <2>1. Len(f) - 1 = n
    BY <1>3
  <2> QED
    BY <1>3, <1>15, <1>16, <1>19, <1>20, <2>1 DEF Ahead, f
<1>22. Len(f) + 1 = n + 2 /\ n + 1 \in Nat
  BY <1>3
<1>23. Beyond(k, P, t, v, taken, ur)
  <2>1. Len(f) = n + 1
    BY <1>3
  <2>2. n + 1 + 1 = n + 2
    BY <1>3
  <2> QED
    BY <1>3, <1>8, <1>9, <1>10, <1>21, <1>22, <2>1, <2>2 DEF Beyond, f
<1> QED
  BY <1>23

-----------------------------------------------------------------------------
(* The steps of the cores.                                                 *)

\* What the step of a core leaves alone.
TargetOnly ==
  UNCHANGED <<nm, readNewTraceMessage, currentCore, traceType, status, core, pending, traceMode>>

\* The decoder is not concerned.
LEMMA TargetIInv ==
  ASSUME IInv, TargetOnly
  PROVE  IInv'
<1>1. TypeOK'
  BY DEF IInv, TypeOK, TargetOnly
<1>2. OneMessageInWork'
  BY DEF IInv, OneMessageInWork, TargetOnly
<1>3. HistoryFits(nm.history)' /\ (currentCore = nm.core)'
  BY DEF IInv, HistoryFits, HighestOne, TargetOnly
<1>4. (\A c \in Core : core[c].state \in {"RETIREMESSAGE", "GETNEXTMSG"} => ~Outcomes(core[c].cnt))'
  BY DEF IInv, TargetOnly, Outcomes
<1> QED
  BY <1>1, <1>2, <1>3, <1>4 DEF IInv

\* When the cores run, nothing is under way of any of them.
LEMMA CoreIdle ==
  ASSUME SysInv, NEW c \in Core, Idle
  PROVE  /\ Rests(c) /\ HeldBack(c) /\ TargetOK(target[c])
         /\ core[c] \in CoreState /\ core[c].cnt \in Count
         /\ pending[c] \in Seq(Entry) /\ traceMode \in {"BTM", "HTM"}
         /\ readNewTraceMessage /\ channel = <<>>
<1>1. readNewTraceMessage /\ channel = <<>> /\ ~Busy(c)
  BY DEF Idle, Busy
<1>2. core[c] \in CoreState
  BY DEF SysInv, IInv, TypeOK
<1>3. core[c].cnt \in Count
  BY <1>2 DEF CoreState
<1> QED
  BY <1>1, <1>2, <1>3 DEF SysInv

\* The step of a core concerns that core only.
LEMMA TargetFrame ==
  ASSUME SysInv, NEW c \in Core, Idle, TargetOnly,
         NEW w, TargetOK(w), target' = [target EXCEPT ![c] = w],
         \/ UNCHANGED channel /\ Rests(c)'
         \/ /\ channel' \in Seq([msg: Message, covers: Seq(Entry)])
            /\ channel' # <<>> /\ Head(channel').msg.core = c /\ Arriving(c)'
  PROVE  SysInv'
<1>1. IInv'
  BY TargetIInv DEF SysInv
<1>2. target \in [Core -> Encoder] /\ w \in Encoder
  BY DEF SysInv, TargetOK
<1>3. target' \in [Core -> Encoder]
  BY <1>2
<1>4. readNewTraceMessage /\ readNewTraceMessage' /\ channel = <<>>
  BY DEF Idle, TargetOnly
<1>5. channel' \in Seq([msg: Message, covers: Seq(Entry)])
  BY DEF SysInv
<1>6. ASSUME NEW d \in Core
      PROVE  /\ TargetOK(target[d])'
             /\ IF ~Busy(d)' THEN Rests(d)' /\ HeldBack(d)'
                ELSE IF readNewTraceMessage' THEN Arriving(d)' /\ HeldBack(d)'
                ELSE Working(d)'
  <2>1. Rests(d) /\ HeldBack(d) /\ TargetOK(target[d])
    BY CoreIdle
  <2>2. HeldBack(d)'
    BY <2>1 DEF HeldBack, TargetOnly
  <2>3. CASE d # c
    <3>1. target'[d] = target[d]
      BY <1>2, <2>3
    <3>2. TargetOK(target[d])'
      BY <2>1, <3>1 DEF TargetOK
    <3>3. Rests(d)'
      BY <2>1, <3>1, RestsStays DEF TargetOnly
    <3>4. ~Busy(d)'
      BY <1>4, <2>3 DEF Busy
    <3> QED
      BY <2>2, <3>2, <3>3, <3>4
  <2>4. CASE d = c
    <3>1. target'[c] = w
      BY <1>2
    <3>2. TargetOK(target[d])'
      BY <2>4, <3>1 DEF TargetOK
    <3>3. CASE UNCHANGED channel /\ Rests(c)'
      <4>1. ~Busy(d)'
        BY <1>4, <3>3 DEF Busy
      <4> QED
        BY <2>2, <2>4, <3>2, <3>3, <4>1
    <3>4. CASE channel' # <<>> /\ Head(channel').msg.core = c /\ Arriving(c)'
      <4>1. Busy(d)'
        BY <1>4, <2>4, <3>4 DEF Busy
      <4> QED
        BY <1>4, <2>2, <2>4, <3>2, <3>4, <4>1
    <3> QED
      BY <3>3, <3>4
  <2> QED
    BY <2>3, <2>4
<1> QED
  BY <1>1, <1>3, <1>5, <1>6 DEF SysInv, TargetOnly

\* The message of a core that has just been sent will be understood.
LEMMA ArrivingNext ==
  ASSUME UNCHANGED traceMode, NEW c,
         NEW k, NEW m, NEW P, NEW t, Incoming(k, m, P, t),
         k = core'[c], P = pending'[c] \o Head(channel').covers, t = target'[c],
         m = Head(channel').msg,
         channel' # <<>>, Len(channel') = 1, Sent(m), m.core = c
  PROVE  Arriving(c)'
<1> DEFINE r == SetCounts(IF k.state = "GETNEXTMSG" THEN k.cnt ELSE ResetCounts(k.cnt), m)
           x == [k EXCEPT !.cnt = r.c]
           mm == Head(channel).msg
           Q == pending[c] \o Head(channel).covers
<1>1. Sent(mm)'
  BY DEF Sent
<1>2. Incoming(core[c], mm, Q, target[c])'
  <2>1. CASE Unsynced(k) /\ P = <<>> /\ Starts(m, t)
    BY <2>1 DEF Incoming, Unsynced, Starts
  <2>2. CASE Waiting(k) /\ r.ok /\ InWork(x, m, P, t)
    <3>1. PICK tr : WorkPath(x, m, P, t, tr)
      BY <2>2 DEF InWork
    <3> DEFINE y == [core[c] EXCEPT !.cnt =
                       SetCounts(IF core[c].state = "GETNEXTMSG" THEN core[c].cnt
                                 ELSE ResetCounts(core[c].cnt), mm).c]
    <3>2. y' = x /\ Q' = P /\ mm' = m
      OBVIOUS
    <3> HIDE DEF x, y, Q
    <3>3. EndsPath(y, mm, Q, target[c], tr)'
      BY <3>1, <3>2 DEF WorkPath, EndsPath, Guided
    <3>4. Guided(tr, Len(Q) - 1)' /\ Accounted(y.cnt, target[c], tr, Len(Q))'
      BY <3>1, <3>2 DEF WorkPath, Guided, Accounted
    <3>5. WorkPath(y, mm, Q, target[c], tr)'
      BY <3>1, <3>2, <3>3, <3>4 DEF WorkPath
    <3>6. InWork(y, mm, Q, target[c])'
      BY <2>2, <3>2, <3>5 DEF InWork
    <3> QED
      BY <2>2, <3>2, <3>6 DEF Incoming, Waiting, y
  <2> QED
    BY <2>1, <2>2 DEF Incoming
<1> QED
  BY <1>1, <1>2 DEF Arriving

\* A core whose encoder has nothing to send.
LEMMA QuietKeeps ==
  ASSUME SysInv, NEW c \in Core, Idle, TargetOnly, NEW w, TargetOK(w), Quiet(c, w),
         AtRest(core[c], pending[c], w)
  PROVE  SysInv'
<1>1. target' = [target EXCEPT ![c] = w] /\ UNCHANGED channel
  BY DEF Quiet
<1>2. target'[c] = w
  BY <1>1 DEF SysInv
<1>3. Rests(c)'
  <2>1. AtRest(core'[c], pending'[c], target'[c])
    BY <1>2 DEF TargetOnly
  <2>2. UNCHANGED traceMode
    BY DEF TargetOnly
  <2> QED
    BY <2>1, <2>2, RestsNext
<1> QED
  BY <1>1, <1>3, TargetFrame

\* A core that waits at the end of a path.
LEMMA CoreAtRest ==
  ASSUME SysInv, NEW c \in Core, Ready(c)
  PROVE  /\ AtRest(core[c], pending[c], target[c]) /\ Waiting(core[c])
         /\ Idle /\ target[c].mode = "on" /\ TargetOK(target[c])
         /\ core[c] \in CoreState /\ core[c].cnt \in Count /\ pending[c] \in Seq(Entry)
         /\ traceMode \in {"BTM", "HTM"}
         /\ ~Outcomes(core[c].cnt) /\ core[c].lastFaddr = target[c].ref
<1>1. Idle /\ target[c].mode = "on"
  BY DEF Ready
<1>2. AtRest(core[c], pending[c], target[c])
  BY <1>1, CoreIdle DEF Rests
<1> QED
  BY <1>1, <1>2, CoreIdle DEF AtRest, Waiting

\* An encoder that has sent everything.
Emptied(t) == [t EXCEPT !.run = <<>>]

\* It is as it was but for what it had yet to send.
LEMMA EmptiedOK ==
  ASSUME NEW t, TargetOK(t)
  PROVE  /\ TargetOK(Emptied(t)) /\ Emptied(t).run = <<>>
         /\ Emptied(t).pc = t.pc /\ Emptied(t).mode = t.mode /\ Emptied(t).i_cnt = t.i_cnt
         /\ Emptied(t).hist = t.hist /\ Emptied(t).ref = t.ref /\ Emptied(t).calls = t.calls
         /\ t.i_cnt \in Nat /\ t.hist \in Seq(BOOLEAN)
<1>1. t \in Encoder /\ <<>> \in Seq(Entry)
  BY DEF TargetOK
<1>2. /\ Emptied(t) \in Encoder /\ Emptied(t).run = <<>>
      /\ Emptied(t).pc = t.pc /\ Emptied(t).mode = t.mode /\ Emptied(t).i_cnt = t.i_cnt
      /\ Emptied(t).hist = t.hist /\ Emptied(t).ref = t.ref /\ Emptied(t).calls = t.calls
  BY <1>1 DEF Emptied, Encoder
<1>3. t.i_cnt \in Nat /\ t.hist \in Seq(BOOLEAN)
  BY <1>1 DEF Encoder
<1> QED
  BY <1>2, <1>3 DEF TargetOK

\* An encoder that has not counted anything.
Blank(t) ==
  t \in Encoder /\ t.i_cnt = 0 /\ t.hist = <<>> /\ t.calls = <<>>

\* It is within the bounds of encoders.
LEMMA BlankOK ==
  ASSUME NEW t, Blank(t), t.mode = "on" => t.pc \in DOMAIN Code
  PROVE  TargetOK(t)
<1>1. Len(<<>>) = 0
  OBVIOUS
<1>2. Len(t.hist) = 0 /\ Len(t.calls) = 0
  BY <1>1 DEF Blank
<1> QED
  BY <1>2, Sizes DEF Blank, TargetOK

\* An encoder before it is set to anything.
LEMMA NewTargetIs ==
  ASSUME NEW a \in Nat
  PROVE  LET t == NewTarget(a) IN
         Blank(t) /\ t.pc = a /\ t.mode = "off" /\ t.run = <<>> /\ t.ref = 0
<1>1. 0 \in Word
  BY DecoderAssumption
<1>2. <<>> \in Seq(BOOLEAN) /\ <<>> \in Seq(DOMAIN Code) /\ <<>> \in Seq(Entry)
  OBVIOUS
<1> QED
  BY <1>1, <1>2 DEF Blank, Encoder, NewTarget

\* A core that is not traced since messages were lost.
LEMMA LostIs ==
  LET t == [NewTarget(0) EXCEPT !.mode = "lost"] IN TargetOK(t) /\ t.mode = "lost"
<1> DEFINE z == NewTarget(0)
           t == [z EXCEPT !.mode = "lost"]
<1>1. Blank(z)
  BY NewTargetIs
<1> HIDE DEF z
<1>2. Blank(t) /\ t.mode = "lost"
  BY <1>1 DEF Blank, Encoder
<1>3. TargetOK(t)
  <2> HIDE DEF t
  <2> QED
    BY <1>2, BlankOK
<1> QED
  BY <1>2, <1>3 DEF z

\* The encoder of a core that is no longer traced.
LEMMA StoppedIs ==
  ASSUME NEW r \in Seq(Entry)
  PROVE  LET t == [NewTarget(0) EXCEPT !.run = r] IN
         TargetOK(t) /\ t.mode = "off" /\ t.i_cnt = 0 /\ t.hist = <<>> /\ t.run = r
<1> DEFINE z == NewTarget(0)
           t == [z EXCEPT !.run = r]
<1>1. Blank(z) /\ z.mode = "off"
  BY NewTargetIs
<1> HIDE DEF z
<1>2. Blank(t) /\ t.mode = "off" /\ t.run = r
  BY <1>1 DEF Blank, Encoder
<1>3. TargetOK(t)
  <2> HIDE DEF t
  <2> QED
    BY <1>2, BlankOK
<1> QED
  BY <1>2, <1>3 DEF z, Blank

\* One that has just been started.
LEMMA StartedIs ==
  ASSUME NEW a \in DOMAIN Code
  PROVE  LET t == [NewTarget(a) EXCEPT !.mode = "on", !.ref = a] IN
         /\ TargetOK(t) /\ t.mode = "on" /\ t.i_cnt = 0 /\ t.hist = <<>> /\ t.run = <<>>
         /\ t.pc = a /\ t.ref = a /\ t.calls = <<>>
<1> DEFINE z == NewTarget(a)
           y == [z EXCEPT !.mode = "on"]
           t == [y EXCEPT !.ref = a]
<1>1. a \in Nat /\ a \in Word
  <2>1. DOMAIN Code \subseteq Nat /\ DOMAIN Code \subseteq Word
    BY DecoderAssumption, ProgramAssumption
  <2> QED
    BY <2>1
<1>2. Blank(z) /\ z.pc = a /\ z.run = <<>>
  BY <1>1, NewTargetIs
<1> HIDE DEF z
<1>3. Blank(y) /\ y.pc = a /\ y.run = <<>> /\ y.mode = "on"
  BY <1>2 DEF Blank, Encoder
<1> HIDE DEF y
<1>4. Blank(t) /\ t.pc = a /\ t.run = <<>> /\ t.mode = "on" /\ t.ref = a
  BY <1>1, <1>3 DEF Blank, Encoder
<1>5. TargetOK(t)
  <2> HIDE DEF t
  <2> QED
    BY <1>4, BlankOK
<1>6. t = [NewTarget(a) EXCEPT !.mode = "on", !.ref = a]
  BY DEF y, z
<1> HIDE DEF t
<1> QED
  BY <1>4, <1>5, <1>6 DEF Blank

\* A message is sent that says how the path ends; or it is lost.
LEMMA SendKeeps ==
  ASSUME SysInv, NEW c \in Core, Ready(c), TargetOnly,
         NEW v, v.i_cnt \in Nat, v.hist \in Seq(BOOLEAN), v.run \in Seq(Entry),
         NEW tr, Ahead(core[c], pending[c], v, tr),
         NEW m, Sent(m), m.core = c,
         NEW a \in Nat, NEW h \in Seq(BOOLEAN), Len(h) <= HistMax, Reports(m, a, h),
         ~ShowsHistory(m) => h = <<>>,
         NEW s, TargetOK(s), s.run = v.run, Send(c, m, s), a + s.i_cnt = v.i_cnt,
         (h = v.hist /\ s.hist = <<>>) \/ (h = <<>> /\ s.hist = v.hist),
         EndsPath(core[c], m, pending[c] \o v.run, s, tr)
  PROVE  SysInv'
<1> DEFINE k == core[c]
           P == pending[c]
           w == Emptied(s)
           e == [msg |-> m, covers |-> s.run]
           x == [NewTarget(0) EXCEPT !.mode = "lost"]
<1>1. /\ AtRest(k, P, target[c]) /\ Waiting(k) /\ Idle /\ k \in CoreState /\ k.cnt \in Count
      /\ P \in Seq(Entry) /\ traceMode \in {"BTM", "HTM"} /\ ~Outcomes(k.cnt)
  BY CoreAtRest
<1>2. k.state = "GETNEXTMSG" \/ (k.state = "GETMSGWITHCOUNT" /\ k.cnt.i_cnt = 0)
  BY <1>1 DEF AtRest
<1>3. /\ TargetOK(w) /\ w.run = <<>> /\ w.pc = s.pc /\ w.mode = s.mode /\ w.i_cnt = s.i_cnt
      /\ w.hist = s.hist /\ w.ref = s.ref /\ w.calls = s.calls /\ w.i_cnt \in Nat
  BY EmptiedOK
<1>4. CASE channel' = Append(channel, e) /\ target' = [target EXCEPT ![c] = w]
  <2> HIDE DEF k, P, w
  <2>1. P \o v.run \in Seq(Entry) /\ Len(P \o v.run) \in Nat
    <3>1. P \o v.run \in Seq(Entry)
      BY <1>1, ConcatProperties
    <3> QED
      BY <3>1, LenProperties
  <2>2. EndsPath(k, m, P \o v.run, w, tr)
    BY <1>3 DEF EndsPath, k, P
  <2>3. Incoming(k, m, P \o v.run, w)
    BY <1>1, <1>2, <1>3, <2>1, <2>2, SentArrives DEF k, P
  <2>4. channel = <<>> /\ m \in Message /\ e \in [msg: Message, covers: Seq(Entry)]
    BY <1>1 DEF Idle, Sent
  <2>5. /\ channel' = <<e>> /\ channel' \in Seq([msg: Message, covers: Seq(Entry)])
        /\ channel' # <<>> /\ Len(channel') = 1 /\ Head(channel') = e
    <3>1. channel' = <<e>>
      BY <1>4, <2>4
    <3> HIDE DEF e
    <3> QED
      BY <2>4, <3>1
  <2>6. target'[c] = w /\ core'[c] = k /\ pending'[c] = P
    BY <1>4 DEF SysInv, TargetOnly, k, P
  <2>7. Head(channel').msg = m /\ Head(channel').covers = v.run
    BY <2>5
  <2>8. UNCHANGED traceMode
    BY DEF TargetOnly
  <2> HIDE DEF e
  <2>9. Arriving(c)'
    BY <2>3, <2>5, <2>6, <2>7, <2>8, ArrivingNext
  <2>10. Head(channel').msg.core = c
    BY <2>7
  <2> QED
    BY <1>1, <1>3, <1>4, <2>5, <2>9, <2>10, TargetFrame
<1>5. CASE target' = [target EXCEPT ![c] = x] /\ UNCHANGED channel
  <2>1. TargetOK(x) /\ x.mode = "lost"
    BY LostIs
  <2> HIDE DEF x
  <2>2. target'[c] = x
    BY <1>5 DEF SysInv
  <2>3. Rests(c)'
    BY <1>1, <2>1, <2>2, RestsNext DEF TargetOnly, Waiting
  <2> QED
    BY <1>1, <1>5, <2>1, <2>3, TargetFrame
<1> QED
  BY <1>4, <1>5 DEF Send, Emptied

\* The path of a core at rest, up to a target that has executed nothing more.
LEMMA RestAhead ==
  ASSUME NEW k, NEW P \in Seq(Entry), NEW t, t.run \in Seq(Entry), NEW tr, RestPath(k, P, t, tr),
         NEW v, v.run = t.run, v.i_cnt = t.i_cnt, v.hist = t.hist
  PROVE  /\ Ahead(k, P, v, tr) /\ Guided(tr, Len(P \o v.run))
         /\ tr[Len(P \o v.run) + 1].at = t.pc /\ tr[Len(P \o v.run) + 1].calls = t.calls
         /\ P \o v.run = <<>> => k.currentAddress = t.pc
<1> DEFINE q == P \o v.run
           n == Len(q)
<1>1. P \o t.run = q /\ q \in Seq(Entry) /\ n \in Nat
  <2>1. q \in Seq(Entry)
    BY ConcatProperties
  <2> QED
    BY <2>1, LenProperties
<1>2. /\ Path(q, tr) /\ Guided(tr, n) /\ Accounted(k.cnt, t, tr, n)
      /\ tr[1].at = k.currentAddress /\ tr[1].calls = k.stack
      /\ tr[n + 1].at = t.pc /\ tr[n + 1].calls = t.calls
  BY <1>1 DEF RestPath
<1>3. Accounted(k.cnt, v, tr, n)
  BY <1>2 DEF Accounted
<1>4. Guided(tr, n - 1)
  <2> HIDE DEF n
  <2>1. \A j \in 1..n - 1 : j \in 1..n
    BY <1>1
  <2> QED
    BY <1>2, <2>1 DEF Guided
<1>5. q = <<>> => n = 0
  BY EmptySeq
<1>6. q = <<>> => k.currentAddress = t.pc
  <2>1. n = 0 => n + 1 = 1
    OBVIOUS
  <2> QED
    BY <1>2, <1>5, <2>1
<1> QED
  BY <1>2, <1>3, <1>4, <1>6 DEF Ahead

-----------------------------------------------------------------------------
(* The messages.                                                           *)

\* A message without a time stamp, of core c.
Plain(m, c, tcode) ==
  m \in Message /\ m.ts = NoTs /\ m.core = c /\ m.tcode = tcode

\* A message that reports half-words only.
LEMMA Message0Is ==
  ASSUME NEW c \in Core, NEW tcode \in TCode, NEW t, t.i_cnt \in Nat
  PROVE  LET m == Message0(c, tcode, t) IN
         /\ Plain(m, c, tcode) /\ m.i_cnt = t.i_cnt /\ m.history = 0 /\ m.rCode = 0
         /\ m.count = 0 /\ m.cdf = 0
<1> DEFINE n == t.i_cnt
           m == [NoMsg EXCEPT !.core = c, !.tcode = tcode, !.i_cnt = n]
<1>1. n \in Nat /\ 0 \in Word
  BY DecoderAssumption
<1> HIDE DEF n
<1>2. /\ Plain(m, c, tcode) /\ m.i_cnt = n /\ m.history = 0 /\ m.rCode = 0
      /\ m.count = 0 /\ m.cdf = 0
  BY <1>1 DEF NoMsg, Plain, Message, NoTs, ICTReason
<1>3. Message0(c, tcode, t) = m
  BY DEF Message0, n
<1> HIDE DEF m
<1> QED
  BY <1>2, <1>3 DEF n

\* No outcomes fit the register.
LEMMA EmptyFits == HistoryFits(0)
BY DEF HistoryFits

\* What the register of an encoder holds.
LEMMA RegisterFits ==
  ASSUME NEW h \in Seq(BOOLEAN), Len(h) <= HistMax
  PROVE  HistoryRegister(h) \in Nat /\ HistoryFits(HistoryRegister(h))
<1>1. Len(h) < HistWidth
  BY Sizes, LenProperties
<1> QED
  BY <1>1, RegisterRead

\* The counts that an indirect branch message reports.
LEMMA IndirectReports ==
  ASSUME traceMode \in {"BTM", "HTM"}, NEW c \in Core, NEW n \in Nat,
         NEW h \in Seq(BOOLEAN), Len(h) <= HistMax, traceMode = "BTM" => h = <<>>,
         NEW m, m.tcode \in {IndirectTCode, IndirectSyncTCode}, m \in Message, m.ts = NoTs, m.i_cnt = n,
         m.history = (IF traceMode = "HTM" THEN HistoryRegister(h) ELSE 0)
  PROVE  Sent(m) /\ Reports(m, n, h) /\ (~ShowsHistory(m) => h = <<>>)
<1>1. HistoryFits(m.history)
  BY EmptyFits, RegisterFits
<1>2. CASE traceMode = "HTM"
  <2>1. m.tcode \in {"INDIRECTBRANCHHISTORY", "INDIRECTBRANCHHISTORY_WS"}
    BY <1>2 DEF IndirectTCode, IndirectSyncTCode
  <2>2. HistoryOf(m) = HistoryRegister(h) /\ ICntOf(m) = n /\ ShowsHistory(m)
    BY <1>2, <2>1 DEF HistoryOf, ICntOf, ShowsHistory, HistoryTCodes
  <2> QED
    BY <1>1, <1>2, <2>1, <2>2 DEF Sent, Reports, TCodesWithCounts
<1>3. CASE traceMode = "BTM"
  <2>1. m.tcode \in {"INDIRECT_BRANCH", "INDIRECT_BRANCH_WS"}
    BY <1>3 DEF IndirectTCode, IndirectSyncTCode
  <2>2. /\ HistoryOf(m) = 0 /\ TakenOf(m) = 0 /\ NotTakenOf(m) = 0 /\ ICntOf(m) = n
        /\ ~ShowsHistory(m) /\ h = <<>>
    BY <1>3, <2>1 DEF HistoryOf, TakenOf, NotTakenOf, ICntOf, ShowsHistory, HistoryTCodes
  <2> QED
    BY <1>1, <1>3, <2>1, <2>2 DEF Sent, Reports, TCodesWithCounts
<1> QED
  BY <1>2, <1>3

\* The encoder after a message with an address.
LEMMA SentIs ==
  ASSUME NEW v, TargetOK(v), v.mode = "on"
  PROVE  LET s == [v EXCEPT !.i_cnt = 0, !.hist = <<>>, !.ref = v.pc] IN
         /\ TargetOK(s) /\ s.mode = "on" /\ s.i_cnt = 0 /\ s.hist = <<>> /\ s.ref = v.pc
         /\ s.pc = v.pc /\ s.calls = v.calls /\ s.run = v.run
<1> DEFINE x == [v EXCEPT !.i_cnt = 0]
           y == [x EXCEPT !.hist = <<>>]
           s == [y EXCEPT !.ref = v.pc]
<1>1. v \in Encoder /\ v.pc \in Word /\ v.pc \in DOMAIN Code /\ Len(v.calls) <= StackSize
  BY Here DEF TargetOK
<1>2. <<>> \in Seq(BOOLEAN) /\ Len(<<>>) = 0
  OBVIOUS
<1>3. /\ x \in Encoder /\ x.mode = "on" /\ x.i_cnt = 0 /\ x.pc = v.pc /\ x.calls = v.calls
      /\ x.run = v.run
  BY <1>1 DEF Encoder
<1> HIDE DEF x
<1>4. /\ y \in Encoder /\ y.mode = "on" /\ y.i_cnt = 0 /\ y.pc = v.pc /\ y.calls = v.calls
      /\ y.run = v.run /\ y.hist = <<>>
  BY <1>2, <1>3 DEF Encoder
<1> HIDE DEF y
<1>5. /\ s \in Encoder /\ s.mode = "on" /\ s.i_cnt = 0 /\ s.pc = v.pc /\ s.calls = v.calls
      /\ s.run = v.run /\ s.hist = <<>> /\ s.ref = v.pc
  BY <1>1, <1>4 DEF Encoder
<1>6. s = [v EXCEPT !.i_cnt = 0, !.hist = <<>>, !.ref = v.pc]
  BY DEF x, y
<1> HIDE DEF s
<1>7. TargetOK(s)
  BY <1>1, <1>2, <1>5, Sizes DEF TargetOK
<1> QED
  BY <1>5, <1>6, <1>7

\* And after one with a full address.
LEMMA SyncedIs ==
  ASSUME NEW v, TargetOK(v), v.mode = "on"
  PROVE  LET s == Synced(v) IN
         /\ TargetOK(s) /\ s.mode = "on" /\ s.i_cnt = 0 /\ s.hist = <<>> /\ s.ref = v.pc
         /\ s.pc = v.pc /\ s.calls = <<>> /\ s.run = v.run
<1> DEFINE x == [v EXCEPT !.i_cnt = 0, !.hist = <<>>, !.ref = v.pc]
           s == [x EXCEPT !.calls = <<>>]
<1>1. /\ TargetOK(x) /\ x.mode = "on" /\ x.i_cnt = 0 /\ x.hist = <<>> /\ x.ref = v.pc
      /\ x.pc = v.pc /\ x.run = v.run
  BY SentIs
<1>2. Synced(v) = s
  BY DEF Synced
<1> HIDE DEF x
<1>3. <<>> \in Seq(DOMAIN Code) /\ Len(<<>>) = 0 /\ x \in Encoder
  BY <1>1 DEF TargetOK
<1>4. /\ s \in Encoder /\ s.mode = "on" /\ s.i_cnt = 0 /\ s.hist = <<>> /\ s.ref = v.pc
      /\ s.pc = v.pc /\ s.calls = <<>> /\ s.run = v.run
  BY <1>1, <1>3 DEF Encoder
<1> HIDE DEF s
<1>5. TargetOK(s)
  BY <1>1, <1>3, <1>4, Sizes DEF TargetOK
<1> QED
  BY <1>2, <1>4, <1>5

\* Messages with an address, relative or full.
LEMMA SendAddressKeeps ==
  ASSUME SysInv, NEW c \in Core, Ready(c), TargetOnly,
         NEW v, v.run \in Seq(Entry), TargetOK(v), v.mode = "on",
         NEW tr, Ahead(core[c], pending[c], v, tr),
         tr[Len(pending[c] \o v.run) + 1].calls = v.calls,
         v.ref = core[c].lastFaddr,
         NEW b \in {"EXCEPTION", "OTHER"}, SendAddress(c, v, b)
  PROVE  SysInv'
<1> DEFINE k == core[c]
           f == pending[c] \o v.run
           m0 == Message0(c, IndirectTCode, v)
           h0 == IF traceMode = "HTM" THEN HistoryRegister(v.hist) ELSE 0
           m1 == [m0 EXCEPT !.history = h0]
           m == [m1 EXCEPT !.b_type = b]
           s == [v EXCEPT !.i_cnt = 0, !.hist = <<>>, !.ref = v.pc]
<1>1. /\ v.i_cnt \in Nat /\ v.hist \in Seq(BOOLEAN) /\ v.pc \in Word /\ v.ref \in Word
      /\ v.pc \in DOMAIN Code /\ traceMode \in {"BTM", "HTM"}
  BY Here, CoreAtRest
<1>2. Len(v.hist) <= HistMax
  BY <1>1, LenProperties, Sizes DEF TargetOK
<1>3. traceMode = "BTM" => v.hist = <<>>
  BY DEF Ahead, Accounted
<1>4. h0 \in Nat
  BY <1>1, <1>2, RegisterFits
<1>5. IndirectTCode \in TCode /\ IndirectSyncTCode \in TCode
  BY DEF IndirectTCode, IndirectSyncTCode, TCode, TCodesWithCounts
<1>6. Plain(m0, c, IndirectTCode) /\ m0.i_cnt = v.i_cnt
  BY <1>1, <1>5, Message0Is
<1> HIDE DEF m0, h0
<1>7. Plain(m1, c, IndirectTCode) /\ m1.i_cnt = v.i_cnt /\ m1.history = h0
  BY <1>4, <1>6 DEF Plain, Message
<1> HIDE DEF m1
<1>8. Plain(m, c, IndirectTCode) /\ m.i_cnt = v.i_cnt /\ m.history = h0
  BY <1>7 DEF Plain, Message
<1>9. m = [m0 EXCEPT !.history = h0, !.b_type = b]
  BY DEF m1
<1>10. \/ Send(c, [m EXCEPT !.addr = XorOf[v.ref, v.pc]], s)
       \/ Send(c, [m EXCEPT !.addr = v.pc, !.tcode = IndirectSyncTCode], Synced(v))
  BY <1>9 DEF SendAddress, m0, h0
<1> HIDE DEF m
<1>11. ASSUME Send(c, [m EXCEPT !.addr = XorOf[v.ref, v.pc]], s) PROVE SysInv'
  <2> DEFINE a == XorOf[v.ref, v.pc]
             x == [m EXCEPT !.addr = a]
  <2>1. a \in Word /\ XorOf[v.ref, a] = v.pc
    BY <1>1, DecoderAssumption, ProgramAssumption
  <2> HIDE DEF a
  <2>2. /\ x \in Message /\ x.ts = NoTs /\ x.core = c /\ x.tcode = IndirectTCode
        /\ x.i_cnt = v.i_cnt /\ x.history = h0 /\ x.addr = a
    BY <1>8, <2>1 DEF Plain, Message
  <2>3. Send(c, x, s)
    BY <1>11 DEF a
  <2> HIDE DEF x
  <2>4. Sent(x) /\ Reports(x, v.i_cnt, v.hist) /\ (~ShowsHistory(x) => v.hist = <<>>)
    BY <1>1, <1>2, <1>3, <2>2, IndirectReports DEF h0
  <2>5. /\ TargetOK(s) /\ s.mode = "on" /\ s.i_cnt = 0 /\ s.hist = <<>> /\ s.ref = v.pc
        /\ s.pc = v.pc /\ s.calls = v.calls /\ s.run = v.run
    BY SentIs
  <2> HIDE DEF s
  <2>6. EndsPath(k, x, f, s, tr)
    <3>1. x.tcode \in IndirectTCodes
      BY <2>2 DEF IndirectTCode, IndirectTCodes
    <3>2. XorOf[k.lastFaddr, x.addr] = s.pc
      BY <2>1, <2>2, <2>5
    <3> QED
      BY <2>5, <3>1, <3>2 DEF EndsPath
  <2>7. v.i_cnt + s.i_cnt = v.i_cnt
    BY <1>1, <2>5
  <2> QED
    BY <1>1, <1>2, <2>2, <2>3, <2>4, <2>5, <2>6, <2>7, SendKeeps
<1>12. ASSUME Send(c, [m EXCEPT !.addr = v.pc, !.tcode = IndirectSyncTCode], Synced(v)) PROVE SysInv'
  <2> DEFINE y == [m EXCEPT !.addr = v.pc]
             x == [y EXCEPT !.tcode = IndirectSyncTCode]
             w == Synced(v)
  <2>1. /\ y \in Message /\ y.ts = NoTs /\ y.core = c /\ y.i_cnt = v.i_cnt /\ y.history = h0
        /\ y.addr = v.pc
    BY <1>1, <1>8 DEF Plain, Message
  <2>2. Send(c, x, w)
    BY <1>12
  <2> HIDE DEF y
  <2>3. /\ x \in Message /\ x.ts = NoTs /\ x.core = c /\ x.tcode = IndirectSyncTCode
        /\ x.i_cnt = v.i_cnt /\ x.history = h0 /\ x.addr = v.pc
    BY <1>5, <2>1 DEF Message
  <2> HIDE DEF x
  <2>4. Sent(x) /\ Reports(x, v.i_cnt, v.hist) /\ (~ShowsHistory(x) => v.hist = <<>>)
    BY <1>1, <1>2, <1>3, <2>3, IndirectReports DEF h0
  <2>5. /\ TargetOK(w) /\ w.mode = "on" /\ w.i_cnt = 0 /\ w.hist = <<>> /\ w.ref = v.pc
        /\ w.pc = v.pc /\ w.calls = <<>> /\ w.run = v.run
    BY SyncedIs
  <2> HIDE DEF w
  <2>6. EndsPath(k, x, f, w, tr)
    <3>1. x.tcode \in SyncingTCodes
      BY <2>3 DEF IndirectSyncTCode, SyncingTCodes
    <3> QED
      BY <2>3, <2>5, <3>1 DEF EndsPath
  <2>7. v.i_cnt + w.i_cnt = v.i_cnt
    BY <1>1, <2>5
  <2> QED
    BY <1>1, <1>2, <2>2, <2>3, <2>4, <2>5, <2>6, <2>7, SendKeeps
<1> QED
  BY <1>10, <1>11, <1>12

-----------------------------------------------------------------------------
(* Each step of a core.                                                    *)

\* v has the counts and the stack of target t after one instruction more.
HasRun(v, t, next, taken) ==
  LET u == Ran(t, next)
  IN v.pc = next /\ v.calls = u.calls /\ v.i_cnt = u.i_cnt /\ v.run = u.run
     /\ v.hist = Collected(t, taken)

\* A core that executes an instruction goes one point further.
LEMMA RunsFurther ==
  ASSUME SysInv, CallsFit, NEW c \in Core, CanRun(c), NEW next \in DOMAIN Code,
         NEW taken \in BOOLEAN, NEW v, HasRun(v, target[c], next, taken)
  PROVE  /\ RunsOn(Ran(target[c], next), target[c], next)
         /\ v.run \in Seq(Entry) /\ v.i_cnt \in Nat /\ v.hist \in Seq(BOOLEAN)
         /\ \E tr : Beyond(core[c], pending[c], target[c], v, taken, tr)
<1> DEFINE t == target[c]
           u == Ran(t, next)
<1>1. Ready(c) /\ (CRFlag(Code[t.pc]) = "isCall" => Len(t.calls) < CallDepth)
  BY DEF CanRun
<1>2. /\ AtRest(core[c], pending[c], t) /\ TargetOK(t) /\ t.mode = "on"
      /\ core[c].cnt \in Count /\ pending[c] \in Seq(Entry) /\ traceMode \in {"BTM", "HTM"}
  BY <1>1, CoreAtRest
<1> HIDE DEF t
<1>3. RunsOn(u, t, next)
  BY <1>1, <1>2, RanRunsOn
<1>4. PICK tr : RestPath(core[c], pending[c], t, tr)
  BY <1>2 DEF AtRest
<1> HIDE DEF u
<1>5. v.pc = next /\ v.calls = u.calls /\ v.i_cnt = u.i_cnt /\ v.run = u.run /\ v.hist = Collected(t, taken)
  BY DEF HasRun, t, u
<1>6. \E ur : Beyond(core[c], pending[c], t, v, taken, ur)
  BY <1>2, <1>3, <1>4, <1>5, Executes
<1>7. u \in Encoder
  BY <1>3 DEF RunsOn, TargetOK
<1>8. v.run \in Seq(Entry) /\ v.i_cnt \in Nat
  BY <1>5, <1>7 DEF Encoder
<1>9. v.hist \in Seq(BOOLEAN)
  <2>1. t.hist \in Seq(BOOLEAN)
    BY <1>2, Here
  <2>2. Append(t.hist, taken) \in Seq(BOOLEAN)
    BY <2>1, AppendProperties
  <2> QED
    BY <1>5, <2>1, <2>2 DEF Collected
<1> QED
  BY <1>3, <1>6, <1>8, <1>9 DEF t, u

\* It can be told where the last instruction led.
LEMMA KnownEnd ==
  ASSUME NEW k, NEW P, NEW t, NEW v, NEW taken, NEW tr, Beyond(k, P, t, v, taken, tr),
         \A p : p.at = t.pc /\ p.taken = taken /\ p.calls = t.calls => Known(traceMode, p, v.pc)
  PROVE  Guided(tr, Len(P \o v.run))
<1> DEFINE n == Len(P \o v.run)
<1>1. /\ n \in Nat /\ Guided(tr, n - 1)
      /\ tr[n].at = t.pc /\ tr[n].taken = taken /\ tr[n].calls = t.calls /\ tr[n + 1].at = v.pc
  BY DEF Beyond, Ahead
<1> HIDE DEF n
<1>2. Known(traceMode, tr[n], tr[n + 1].at)
  BY <1>1
<1>3. \A j \in 1..n : j \in 1..n - 1 \/ j = n
  BY <1>1
<1>4. Guided(tr, n)
  BY <1>1, <1>2, <1>3 DEF Guided
<1> QED
  BY <1>4 DEF n

\* An instruction that needs no message.
LEMMA RunsQuietly ==
  ASSUME SysInv, CallsFit, NEW c \in Core, CanRun(c), TargetOnly,
         NEW next \in DOMAIN Code, NEW taken \in BOOLEAN,
         NEW v, HasRun(v, target[c], next, taken), TargetOK(v), v.mode = "on", v.ref = target[c].ref,
         Quiet(c, v),
         \A p : p.at = target[c].pc /\ p.taken = taken /\ p.calls = target[c].calls
                  => Known(traceMode, p, next)
  PROVE  SysInv'
<1> DEFINE k == core[c]
           P == pending[c]
<1>1. PICK tr : Beyond(k, P, target[c], v, taken, tr)
  BY RunsFurther
<1>2. v.pc = next
  BY DEF HasRun
<1>3. Guided(tr, Len(P \o v.run))
  BY <1>1, <1>2, KnownEnd
<1>4. RestPath(k, P, v, tr)
  BY <1>1, <1>3 DEF Beyond, Ahead, RestPath
<1>5. Ready(c)
  BY DEF CanRun
<1>6. AtRest(k, P, target[c]) /\ Idle /\ k.lastFaddr = target[c].ref
  BY <1>5, CoreAtRest
<1>7. AtRest(k, P, v)
  BY <1>4, <1>6 DEF AtRest
<1> QED
  BY <1>6, <1>7, QuietKeeps

\* An encoder has run when its core has, unless a history trace notes a branch.
LEMMA RanHasRun ==
  ASSUME NEW t, NEW next, RunsOn(Ran(t, next), t, next), NEW taken,
         traceMode = "BTM" \/ Code[t.pc].type \notin BranchTypes, traceMode \in {"BTM", "HTM"}
  PROVE  HasRun(Ran(t, next), t, next, taken)
BY DEF HasRun, RunsOn, Collected

\* What makes an instruction executable.
LEMMA RunnerIs ==
  ASSUME SysInv, NEW c \in Core, NEW types, Runs(c, types)
  PROVE  /\ CanRun(c) /\ Ready(c) /\ Code[target[c].pc].type \in types
         /\ TargetOK(target[c]) /\ target[c].mode = "on"
         /\ CRFlag(Code[target[c].pc]) = "isCall" => Len(target[c].calls) < CallDepth
         /\ target[c].pc \in DOMAIN Code /\ traceMode \in {"BTM", "HTM"}
         /\ core[c].lastFaddr = target[c].ref
         /\ traceMode = "BTM" => target[c].hist = <<>>
<1>1. CanRun(c) /\ Ready(c) /\ Code[target[c].pc].type \in types
  BY DEF Runs, CanRun
<1>2. /\ TargetOK(target[c]) /\ target[c].mode = "on" /\ traceMode \in {"BTM", "HTM"}
      /\ AtRest(core[c], pending[c], target[c]) /\ core[c].lastFaddr = target[c].ref
  BY <1>1, CoreAtRest
<1>3. PICK tr : RestPath(core[c], pending[c], target[c], tr)
  BY <1>2 DEF AtRest
<1>4. traceMode = "BTM" => target[c].hist = <<>>
  BY <1>3 DEF RestPath, Accounted
<1>5. target[c].pc \in DOMAIN Code
  BY <1>2 DEF TargetOK
<1> QED
  BY <1>1, <1>2, <1>4, <1>5 DEF CanRun

\* Straight-line code and direct jumps lead on without a message.
LEMMA RunDirectKeeps ==
  ASSUME SysInv, CallsFit, NEW c \in Core, TargetOnly, RunDirect(c)
  PROVE  SysInv'
<1> DEFINE t == target[c]
           i == Code[t.pc]
           next == t.pc + (IF i.type = "OTHER" THEN i.size ELSE i.imm)
           u == Ran(t, next)
<1>1. /\ CanRun(c) /\ i.type \in {"OTHER", "JAL", "C_JAL", "C_J"} /\ TargetOK(t) /\ t.mode = "on"
      /\ CRFlag(i) = "isCall" => Len(t.calls) < CallDepth
      /\ t.pc \in DOMAIN Code /\ traceMode \in {"BTM", "HTM"}
  BY RunnerIs DEF RunDirect
<1>2. next \in DOMAIN Code
  BY <1>1, ProgramAssumption DEF BranchTypes
<1>3. Quiet(c, u)
  BY DEF RunDirect
<1>4. \A p : p.at = t.pc => Known(traceMode, p, next)
  BY <1>1 DEF Known, Ins
<1>5. i.type \notin BranchTypes
  BY <1>1 DEF BranchTypes
<1> HIDE DEF next
<1>6. RunsOn(u, t, next)
  BY <1>1, <1>2, RanRunsOn
<1>7. HasRun(u, t, next, FALSE)
  BY <1>1, <1>5, <1>6, RanHasRun
<1>8. TargetOK(u) /\ u.mode = "on" /\ u.ref = t.ref
  BY <1>6 DEF RunsOn
<1> HIDE DEF u, i
<1> QED
  BY <1>1, <1>2, <1>3, <1>4, <1>7, <1>8, RunsQuietly

\* Where a branch leads.
LEMMA BranchTarget ==
  ASSUME NEW a \in DOMAIN Code, Code[a].type \in BranchTypes, NEW taken \in BOOLEAN
  PROVE  LET next == a + (IF taken THEN Code[a].imm ELSE Code[a].size) IN
         /\ next \in DOMAIN Code
         /\ \A p : p.at = a /\ p.taken = taken /\ (traceMode = "BTM" => ~taken)
                     => Known(traceMode, p, next)
<1>1. a + Code[a].size \in DOMAIN Code /\ a + Code[a].imm \in DOMAIN Code
  BY ProgramAssumption
<1> QED
  BY <1>1 DEF Known, IsBranch, Ins

\* The end of a path to a branch that was taken, in a branch trace.
LEMMA RunBranchBTMKeeps ==
  ASSUME SysInv, CallsFit, NEW c \in Core, TargetOnly, NEW taken \in BOOLEAN, RunBranchBTM(c, taken)
  PROVE  SysInv'
<1> DEFINE t == target[c]
           k == core[c]
           i == Code[t.pc]
           next == t.pc + (IF taken THEN i.imm ELSE i.size)
           u == Ran(t, next)
<1>1. /\ CanRun(c) /\ i.type \in BranchTypes /\ TargetOK(t) /\ t.mode = "on" /\ Ready(c)
      /\ CRFlag(i) = "isCall" => Len(t.calls) < CallDepth
      /\ t.pc \in DOMAIN Code /\ traceMode = "BTM" /\ k.lastFaddr = t.ref /\ t.hist = <<>>
  BY RunnerIs DEF RunBranchBTM
<1>2. next \in DOMAIN Code /\ \A p : p.at = t.pc /\ p.taken = taken /\ ~taken => Known(traceMode, p, next)
  BY <1>1, BranchTarget
<1>3. IF ~taken THEN Quiet(c, u)
      ELSE \/ Send(c, Message0(c, "DIRECT_BRANCH", u), [u EXCEPT !.i_cnt = 0])
           \/ Send(c, [Message0(c, "DIRECT_BRANCH_WS", u) EXCEPT !.addr = u.pc], Synced(u))
  BY DEF RunBranchBTM
<1>4. i = Code[t.pc]
  OBVIOUS
<1>5. next = t.pc + (IF taken THEN i.imm ELSE i.size)
  OBVIOUS
<1> HIDE DEF next, i
<1>6. RunsOn(u, t, next)
  BY <1>1, <1>2, <1>4, RanRunsOn
<1>7. HasRun(u, t, next, taken)
  BY <1>1, <1>6, RanHasRun
<1>8. /\ TargetOK(u) /\ u.mode = "on" /\ u.ref = t.ref /\ u.hist = <<>> /\ u.pc = next
  BY <1>1, <1>6 DEF RunsOn
<1> HIDE DEF u
<1>9. CASE ~taken
  BY <1>1, <1>2, <1>3, <1>7, <1>8, <1>9, RunsQuietly
<1>10. CASE taken
  <2>1. PICK tr : Beyond(k, pending[c], t, u, taken, tr)
    BY <1>1, <1>2, <1>7, RunsFurther
  <2>2. u.run \in Seq(Entry) /\ u.i_cnt \in Nat /\ u.hist \in Seq(BOOLEAN) /\ u.pc \in Word
    BY <1>8, Here
  <2> DEFINE f == pending[c] \o u.run
             n == Len(f)
  <2>3. /\ Ahead(k, pending[c], u, tr)
        /\ tr[n].at = t.pc /\ tr[n].taken = TRUE /\ tr[n + 1].at = u.pc /\ tr[n + 1].calls = u.calls
        /\ f # <<>>
    BY <1>10, <2>1 DEF Beyond
  <2>4. Len(<<>>) = 0 /\ Len(<<>>) <= HistMax /\ <<>> \in Seq(BOOLEAN)
    BY Sizes
  <2> HIDE DEF n, f
  <2>5. ASSUME Send(c, Message0(c, "DIRECT_BRANCH", u), [u EXCEPT !.i_cnt = 0]) PROVE SysInv'
    <3> DEFINE m == Message0(c, "DIRECT_BRANCH", u)
               s == [u EXCEPT !.i_cnt = 0]
    <3>0. "DIRECT_BRANCH" \in TCode
      BY DEF TCode, TCodesWithCounts
    <3>1. Plain(m, c, "DIRECT_BRANCH") /\ m.i_cnt = u.i_cnt /\ m.history = 0
      BY <2>2, <3>0, Message0Is
    <3>2. Send(c, m, s)
      BY <2>5
    <3> HIDE DEF m
    <3>3. Sent(m) /\ Reports(m, u.i_cnt, <<>>) /\ ~ShowsHistory(m)
      BY <1>1, <3>1, EmptyFits DEF Plain, Sent, Reports, TCodesWithCounts, ShowsHistory, HistoryTCodes,
                                   ICntOf, HistoryOf, TakenOf, NotTakenOf
    <3>4. /\ s \in Encoder /\ s.mode = "on" /\ s.i_cnt = 0 /\ s.hist = u.hist /\ s.ref = u.ref
          /\ s.pc = u.pc /\ s.calls = u.calls /\ s.run = u.run
      BY <1>8 DEF TargetOK, Encoder
    <3> HIDE DEF s
    <3>5. TargetOK(s)
      BY <1>8, <3>4 DEF TargetOK
    <3>6. EndsPath(k, m, f, s, tr)
      <4>1. IsBranch(tr[n]) /\ tr[n + 1].at = tr[n].at + Ins(tr[n]).imm
        BY <1>1, <1>4, <1>5, <1>8, <1>10, <2>3 DEF IsBranch, Ins
      <4> QED
        BY <1>1, <1>8, <2>3, <3>1, <3>4, <4>1 DEF EndsPath, n, Plain
    <3>7. u.i_cnt + s.i_cnt = u.i_cnt
      BY <2>2, <3>4
    <3> QED
      BY <1>1, <1>8, <2>2, <2>3, <2>4, <3>1, <3>2, <3>3, <3>4, <3>5, <3>6, <3>7, SendKeeps DEF f, Plain
  <2>6. ASSUME Send(c, [Message0(c, "DIRECT_BRANCH_WS", u) EXCEPT !.addr = u.pc], Synced(u)) PROVE SysInv'
    <3> DEFINE z == Message0(c, "DIRECT_BRANCH_WS", u)
               m == [z EXCEPT !.addr = u.pc]
               s == Synced(u)
    <3>0. "DIRECT_BRANCH_WS" \in TCode
      BY DEF TCode, TCodesWithCounts
    <3>1. Plain(z, c, "DIRECT_BRANCH_WS") /\ z.i_cnt = u.i_cnt /\ z.history = 0
      BY <2>2, <3>0, Message0Is
    <3>2. Send(c, m, s)
      BY <2>6
    <3> HIDE DEF z
    <3>3. /\ Plain(m, c, "DIRECT_BRANCH_WS") /\ m.i_cnt = u.i_cnt /\ m.history = 0 /\ m.addr = u.pc
      BY <2>2, <3>1 DEF Plain, Message
    <3> HIDE DEF m
    <3>4. Sent(m) /\ Reports(m, u.i_cnt, <<>>) /\ ~ShowsHistory(m)
      BY <1>1, <3>3, EmptyFits DEF Plain, Sent, Reports, TCodesWithCounts, ShowsHistory, HistoryTCodes,
                                   ICntOf, HistoryOf, TakenOf, NotTakenOf
    <3>5. /\ TargetOK(s) /\ s.mode = "on" /\ s.i_cnt = 0 /\ s.hist = <<>> /\ s.ref = u.pc
          /\ s.pc = u.pc /\ s.calls = <<>> /\ s.run = u.run
      BY <1>8, SyncedIs
    <3> HIDE DEF s
    <3>6. EndsPath(k, m, f, s, tr)
      BY <3>3, <3>5 DEF EndsPath, SyncingTCodes, Plain
    <3>7. u.i_cnt + s.i_cnt = u.i_cnt
      BY <2>2, <3>5
    <3> QED
      BY <1>1, <1>8, <2>2, <2>3, <2>4, <3>2, <3>3, <3>4, <3>5, <3>6, <3>7, SendKeeps DEF f, Plain
  <2> QED
    BY <1>3, <1>10, <2>5, <2>6
<1> QED
  BY <1>9, <1>10

\* An indirect jump leads on without a message where the decoder can follow it,
\* and is sent where it cannot.
LEMMA RunIndirectKeeps ==
  ASSUME SysInv, CallsFit, NEW c \in Core, TargetOnly,
         NEW next \in Targets \cup {Top(target[c].calls)}, next # NoAddr, RunIndirect(c, next)
  PROVE  SysInv'
<1> DEFINE t == target[c]
           k == core[c]
           i == Code[t.pc]
           u == Ran(t, next)
           returns == CRFlag(i) \in {"isReturn", "isSwap"}
           predicted == IF traceMode = "HTM" THEN returns /\ next = Top(t.calls)
                        ELSE ~returns /\ next = t.pc + i.size
<1>1. /\ CanRun(c) /\ i.type \in IndirectTypes /\ TargetOK(t) /\ t.mode = "on" /\ Ready(c)
      /\ CRFlag(i) = "isCall" => Len(t.calls) < CallDepth
      /\ t.pc \in DOMAIN Code /\ traceMode \in {"BTM", "HTM"} /\ k.lastFaddr = t.ref
  BY RunnerIs DEF RunIndirect
<1>2. next \in DOMAIN Code
  <2>1. CASE next \in Targets
    BY <2>1, SystemAssumption
  <2>2. CASE next = Top(t.calls)
    <3>1. t.calls # <<>> /\ next = Head(t.calls)
      BY <2>2 DEF Top
    <3>2. t.calls \in Seq(DOMAIN Code)
      BY <1>1, Here
    <3> QED
      BY <3>1, <3>2, HeadTailProperties
  <2> QED
    BY <2>1, <2>2
<1>3. IF predicted THEN Quiet(c, u) ELSE SendAddress(c, u, "OTHER")
  BY DEF RunIndirect
<1>4. i.type \notin BranchTypes
  BY <1>1 DEF BranchTypes, IndirectTypes
<1>5. RunsOn(u, t, next)
  BY <1>1, <1>2, RanRunsOn
<1>6. HasRun(u, t, next, FALSE)
  BY <1>1, <1>4, <1>5, RanHasRun
<1>7. TargetOK(u) /\ u.mode = "on" /\ u.ref = t.ref
  BY <1>5 DEF RunsOn
<1>8. predicted => \A p : p.at = t.pc /\ p.calls = t.calls => Known(traceMode, p, next)
  BY <1>1 DEF Known, Ins, Returning, Top
<1> HIDE DEF u, predicted
<1>9. CASE predicted
  BY <1>1, <1>2, <1>3, <1>6, <1>7, <1>8, <1>9, RunsQuietly
<1>10. CASE ~predicted
  <2>1. PICK tr : Beyond(k, pending[c], t, u, FALSE, tr)
    BY <1>1, <1>2, <1>6, RunsFurther
  <2>2. u.run \in Seq(Entry)
    BY <1>7, Here
  <2>3. Ahead(k, pending[c], u, tr) /\ tr[Len(pending[c] \o u.run) + 1].calls = u.calls
    BY <2>1 DEF Beyond
  <2> QED
    BY <1>1, <1>3, <1>7, <1>10, <2>2, <2>3, SendAddressKeeps
<1> QED
  BY <1>9, <1>10

\* A trap, or the return from one, is always sent.
LEMMA RunTrapKeeps ==
  ASSUME SysInv, CallsFit, NEW c \in Core, TargetOnly, NEW next \in Targets, RunTrap(c, next)
  PROVE  SysInv'
<1> DEFINE t == target[c]
           k == core[c]
           i == Code[t.pc]
           u == Ran(t, next)
           traps == i.type = "ECALL"
           v == [u EXCEPT !.trap = traps]
           b == IF traps THEN "EXCEPTION" ELSE "OTHER"
<1>1. /\ CanRun(c) /\ i.type \in {"ECALL", "XRET"} /\ TargetOK(t) /\ t.mode = "on" /\ Ready(c)
      /\ CRFlag(i) = "isCall" => Len(t.calls) < CallDepth
      /\ t.pc \in DOMAIN Code /\ traceMode \in {"BTM", "HTM"} /\ k.lastFaddr = t.ref
  BY RunnerIs DEF RunTrap
<1>2. next \in DOMAIN Code
  BY SystemAssumption
<1>3. SendAddress(c, v, b)
  BY DEF RunTrap
<1>4. i.type \notin BranchTypes
  BY <1>1 DEF BranchTypes
<1>5. RunsOn(u, t, next)
  BY <1>1, <1>2, RanRunsOn
<1>6. HasRun(u, t, next, FALSE)
  BY <1>1, <1>4, <1>5, RanHasRun
<1>7. TargetOK(u) /\ u.mode = "on" /\ u.ref = t.ref
  BY <1>5 DEF RunsOn
<1>8. u.pc = next /\ u.hist = Collected(t, FALSE)
  BY <1>6 DEF HasRun
<1>9. b \in {"EXCEPTION", "OTHER"} /\ traps \in BOOLEAN
  OBVIOUS
<1> HIDE DEF traps, b
<1>10. /\ v \in Encoder /\ v.mode = "on" /\ v.i_cnt = u.i_cnt /\ v.hist = u.hist /\ v.ref = u.ref
       /\ v.pc = u.pc /\ v.calls = u.calls /\ v.run = u.run
  <2> HIDE DEF u
  <2> QED
    BY <1>7, <1>9 DEF TargetOK, Encoder
<1>11. HasRun(v, t, next, FALSE)
  BY <1>8, <1>10 DEF HasRun
<1> HIDE DEF v, u
<1>12. TargetOK(v)
  BY <1>7, <1>10 DEF TargetOK
<1>13. PICK tr : Beyond(k, pending[c], t, v, FALSE, tr)
  BY <1>1, <1>2, <1>11, RunsFurther
<1>14. v.run \in Seq(Entry)
  BY <1>10, <1>12, Here
<1>15. Ahead(k, pending[c], v, tr) /\ tr[Len(pending[c] \o v.run) + 1].calls = v.calls
  BY <1>13 DEF Beyond
<1> QED
  BY <1>1, <1>3, <1>7, <1>9, <1>10, <1>12, <1>14, <1>15, SendAddressKeeps

\* A message that the history register is full ...
Full(c) == [NoMsg EXCEPT !.core = c, !.tcode = "RESOURCEFULL"]

\* What every such message has in common.
LEMMA FullIs ==
  ASSUME NEW c \in Core, NEW r \in Nat
  PROVE  LET y == [Full(c) EXCEPT !.rCode = r]
         IN Plain(y, c, "RESOURCEFULL") /\ y.history = 0 /\ y.rCode = r
<1> DEFINE z == Full(c)
           y == [z EXCEPT !.rCode = r]
<1>1. 0 \in Word /\ "RESOURCEFULL" \in TCode
  BY DecoderAssumption DEF TCode, TCodesWithCounts
<1>2. Plain(z, c, "RESOURCEFULL") /\ z.history = 0
  BY <1>1 DEF Full, NoMsg, Plain, Message, NoTs, ICTReason
<1> HIDE DEF z
<1>3. Plain(y, c, "RESOURCEFULL") /\ y.history = 0 /\ y.rCode = r
  BY <1>2 DEF Plain, Message
<1> QED
  BY <1>3 DEF z

\* One with the register h ...
FullOf(c, r, h) == [Full(c) EXCEPT !.rCode = r, !.history = h]

\* Its fields.
LEMMA FullRegister ==
  ASSUME NEW c \in Core, NEW r \in Nat, NEW h \in Nat
  PROVE  LET m == FullOf(c, r, h)
         IN Plain(m, c, "RESOURCEFULL") /\ m.rCode = r /\ m.history = h
<1> DEFINE y == [Full(c) EXCEPT !.rCode = r]
           m == [y EXCEPT !.history = h]
<1>1. Plain(y, c, "RESOURCEFULL") /\ y.rCode = r
  BY FullIs
<1> HIDE DEF y
<1>2. Plain(m, c, "RESOURCEFULL") /\ m.rCode = r /\ m.history = h
  BY <1>1 DEF Plain, Message
<1>3. m = FullOf(c, r, h)
  BY DEF y, FullOf
<1> HIDE DEF m
<1> QED
  BY <1>2, <1>3

\* ... and one with a count of n equal outcomes.
FullBy(c, r, n) == [Full(c) EXCEPT !.rCode = r, !.count = n]

\* Its fields.
LEMMA FullCount ==
  ASSUME NEW c \in Core, NEW r \in Nat, NEW n \in Nat
  PROVE  LET m == FullBy(c, r, n)
         IN Plain(m, c, "RESOURCEFULL") /\ m.rCode = r /\ m.history = 0 /\ m.count = n
<1> DEFINE y == [Full(c) EXCEPT !.rCode = r]
           m == [y EXCEPT !.count = n]
<1>1. Plain(y, c, "RESOURCEFULL") /\ y.rCode = r /\ y.history = 0
  BY FullIs
<1> HIDE DEF y
<1>2. Plain(m, c, "RESOURCEFULL") /\ m.rCode = r /\ m.history = 0 /\ m.count = n
  BY <1>1 DEF Plain, Message
<1>3. m = FullBy(c, r, n)
  BY DEF y, FullBy
<1> HIDE DEF m
<1> QED
  BY <1>2, <1>3

\* The register is full after a branch, and its outcomes are sent.
LEMMA FullKeeps ==
  ASSUME SysInv, CallsFit, NEW c \in Core, CanRun(c), TargetOnly, traceMode = "HTM",
         NEW next \in DOMAIN Code, NEW taken \in BOOLEAN, Code[target[c].pc].type \in BranchTypes,
         \A p : p.at = target[c].pc /\ p.taken = taken => Known(traceMode, p, next),
         NEW v, HasRun(v, target[c], next, taken), v \in Encoder, v.mode = "on",
         v.ref = target[c].ref, Len(v.calls) <= StackSize, v.hist # <<>>, Len(v.hist) <= HistMax,
         NEW m, Plain(m, c, "RESOURCEFULL"), m.rCode \in {1, 8, 9}, HistoryFits(m.history),
         Reports(m, 0, v.hist), Send(c, m, [v EXCEPT !.hist = <<>>])
  PROVE  SysInv'
<1> DEFINE k == core[c]
           f == pending[c] \o v.run
           n == Len(f)
           s == [v EXCEPT !.hist = <<>>]
<1>1. /\ Ready(c) /\ k.lastFaddr = target[c].ref
  <2>1. Ready(c)
    BY DEF CanRun
  <2> QED
    BY <2>1, CoreAtRest
<1>2. PICK tr : Beyond(k, pending[c], target[c], v, taken, tr)
  BY RunsFurther
<1>3. v.run \in Seq(Entry) /\ v.i_cnt \in Nat /\ v.hist \in Seq(BOOLEAN) /\ v.pc = next
  BY DEF HasRun, Encoder
<1>4. Guided(tr, n)
  BY <1>2, <1>3, KnownEnd
<1>5. /\ Ahead(k, pending[c], v, tr) /\ tr[n].at = target[c].pc
      /\ tr[n + 1].at = v.pc /\ tr[n + 1].calls = v.calls /\ f # <<>>
  BY <1>2 DEF Beyond
<1>6. Len(<<>>) = 0 /\ <<>> \in Seq(BOOLEAN)
  OBVIOUS
<1>7. /\ s \in Encoder /\ s.mode = "on" /\ s.i_cnt = v.i_cnt /\ s.hist = <<>> /\ s.ref = v.ref
      /\ s.pc = v.pc /\ s.calls = v.calls /\ s.run = v.run
  BY <1>6 DEF Encoder
<1>8. Send(c, m, s)
  OBVIOUS
<1> HIDE DEF s
<1>9. TargetOK(s)
  BY <1>3, <1>6, <1>7, Sizes DEF TargetOK
<1>10. Sent(m) /\ ShowsHistory(m)
  BY DEF Plain, Sent, ShowsHistory, HistoryTCodes, TCodesWithCounts
<1>11. IsBranch(tr[n])
  BY <1>5 DEF IsBranch, Ins
<1> HIDE DEF n
<1>12. EndsPath(k, m, f, s, tr)
  BY <1>1, <1>4, <1>5, <1>7, <1>11 DEF EndsPath, Plain, n
<1>13. 0 + s.i_cnt = v.i_cnt /\ 0 \in Nat /\ m.core = c
  BY <1>3, <1>7 DEF Plain
<1> HIDE DEF f, k
<1> QED
  BY <1>1, <1>3, <1>5, <1>7, <1>8, <1>9, <1>10, <1>12, <1>13, SendKeeps DEF f, k

\* The outcome of a branch is collected, and sent when the register is full.
LEMMA RunBranchHTMKeeps ==
  ASSUME SysInv, CallsFit, NEW c \in Core, TargetOnly, NEW taken \in BOOLEAN, RunBranchHTM(c, taken)
  PROVE  SysInv'
<1> DEFINE t == target[c]
           i == Code[t.pc]
           next == t.pc + (IF taken THEN i.imm ELSE i.size)
           u == Ran(t, next)
           h == Append(u.hist, taken)
           v == [u EXCEPT !.hist = h]
           sent == [v EXCEPT !.hist = <<>>]
<1>1. /\ CanRun(c) /\ i.type \in BranchTypes /\ TargetOK(t) /\ t.mode = "on"
      /\ CRFlag(i) = "isCall" => Len(t.calls) < CallDepth
      /\ t.pc \in DOMAIN Code /\ traceMode = "HTM"
  BY RunnerIs DEF RunBranchHTM
<1>2. next \in DOMAIN Code /\ \A p : p.at = t.pc /\ p.taken = taken => Known(traceMode, p, next)
  BY <1>1, BranchTarget
<1>3. IF Len(v.hist) < HistMax THEN Quiet(c, v)
      ELSE \/ Send(c, FullOf(c, 1, HistoryRegister(v.hist)), sent)
           \/ /\ \A n \in 1..HistMax : v.hist[n] = taken
              /\ Send(c, FullBy(c, IF taken THEN 9 ELSE 8, HistMax), sent)
  BY DEF RunBranchHTM, Full, FullOf, FullBy
<1>4. i = Code[t.pc]
  OBVIOUS
<1> HIDE DEF next, i
<1>5. RunsOn(u, t, next)
  BY <1>1, <1>2, <1>4, RanRunsOn
<1>6. /\ TargetOK(u) /\ u.mode = "on" /\ u.ref = t.ref /\ u.hist = t.hist /\ u.pc = next
  BY <1>5 DEF RunsOn
<1>7. u.hist \in Seq(BOOLEAN) /\ Len(u.hist) \in Nat /\ Len(u.hist) < HistMax
  <2>1. u.hist \in Seq(BOOLEAN)
    BY <1>6, Here
  <2> QED
    BY <1>6, <2>1, LenProperties DEF TargetOK
<1>8. h \in Seq(BOOLEAN) /\ Len(h) = Len(u.hist) + 1
  BY <1>7, AppendProperties
<1>9. h # <<>>
  <2>1. h = <<>> => Len(h) = 0
    BY EmptySeq
  <2> QED
    BY <1>7, <1>8, <2>1
<1>10. u.pc = next /\ h = Collected(t, taken)
  BY <1>1, <1>4, <1>6 DEF Collected
<1> HIDE DEF h
<1>11. /\ v \in Encoder /\ v.mode = "on" /\ v.i_cnt = u.i_cnt /\ v.hist = h /\ v.ref = u.ref
       /\ v.pc = u.pc /\ v.calls = u.calls /\ v.run = u.run
  <2> HIDE DEF u
  <2> QED
    BY <1>6, <1>8 DEF TargetOK, Encoder
<1> HIDE DEF v
<1>12. HasRun(v, t, next, taken)
  BY <1>10, <1>11 DEF HasRun
<1> HIDE DEF u
<1>13. Len(v.calls) <= StackSize /\ v.pc \in DOMAIN Code
  BY <1>2, <1>6, <1>11 DEF TargetOK
<1>14. CASE Len(v.hist) < HistMax
  <2>1. TargetOK(v)
    BY <1>11, <1>13, <1>14 DEF TargetOK
  <2>2. Quiet(c, v)
    BY <1>3, <1>14
  <2> QED
    BY <1>1, <1>2, <1>6, <1>11, <1>12, <2>1, <2>2, RunsQuietly
<1>15. CASE ~(Len(v.hist) < HistMax)
  <2>1. Len(v.hist) = HistMax /\ Len(v.hist) <= HistMax
    BY <1>7, <1>8, <1>11, <1>15, Sizes
  <2>2. HistoryRegister(v.hist) \in Nat /\ HistoryFits(HistoryRegister(v.hist))
    BY <1>8, <1>11, <2>1, RegisterFits
  <2> HIDE DEF sent
  <2>3. ASSUME NEW m, Plain(m, c, "RESOURCEFULL"), m.rCode \in {1, 8, 9}, HistoryFits(m.history),
               Reports(m, 0, v.hist), Send(c, m, sent)
        PROVE  SysInv'
    BY <1>1, <1>2, <1>4, <1>6, <1>9, <1>11, <1>12, <1>13, <2>1, <2>3, FullKeeps DEF sent
  <2>4. ASSUME Send(c, FullOf(c, 1, HistoryRegister(v.hist)), sent)
        PROVE  SysInv'
    <3> DEFINE g == HistoryRegister(v.hist)
               m == FullOf(c, 1, g)
    <3> HIDE DEF g
    <3>1. Plain(m, c, "RESOURCEFULL") /\ m.rCode = 1 /\ m.history = g
      BY <2>2, FullRegister DEF g
    <3>2. Send(c, m, sent)
      BY <2>4 DEF g
    <3> HIDE DEF m
    <3>3. Reports(m, 0, v.hist)
      BY <3>1 DEF Reports, Plain, TCodesWithCounts, ICntOf, HistoryOf, g
    <3> QED
      BY <2>2, <2>3, <3>1, <3>2, <3>3 DEF g
  <2>5. ASSUME \A n \in 1..HistMax : v.hist[n] = taken,
               Send(c, FullBy(c, IF taken THEN 9 ELSE 8, HistMax), sent)
        PROVE  SysInv'
    <3> DEFINE r == IF taken THEN 9 ELSE 8
               m == FullBy(c, r, HistMax)
    <3>1. r \in Nat /\ HistMax \in Nat
      BY Sizes
    <3> HIDE DEF r
    <3>2. Plain(m, c, "RESOURCEFULL") /\ m.rCode = r /\ m.history = 0 /\ m.count = HistMax
      BY <3>1, FullCount
    <3>3. Send(c, m, sent)
      BY <2>5 DEF r
    <3> HIDE DEF m
    <3>4. m.tcode \in TCodesWithCounts /\ ICntOf(m) = 0 /\ HistoryOf(m) = 0 /\ r \in {8, 9}
      BY <3>2 DEF Plain, TCodesWithCounts, ICntOf, HistoryOf, r
    <3>5. ASSUME taken PROVE Reports(m, 0, v.hist)
      <4>1. r = 9 /\ \A j \in 1..Len(v.hist) : v.hist[j] = TRUE
        BY <2>1, <2>5, <3>5 DEF r
      <4>2. TakenOf(m) = Len(v.hist) /\ v.hist # <<>>
        BY <1>9, <1>11, <2>1, <3>2, <4>1 DEF Plain, TakenOf
      <4> QED
        BY <3>2, <3>4, <4>1, <4>2 DEF Reports
    <3>6. ASSUME ~taken PROVE Reports(m, 0, v.hist)
      <4>1. r = 8 /\ \A j \in 1..Len(v.hist) : v.hist[j] = FALSE
        BY <2>1, <2>5, <3>6 DEF r
      <4>2. TakenOf(m) = 0 /\ NotTakenOf(m) = Len(v.hist) /\ v.hist # <<>>
        BY <1>9, <1>11, <2>1, <3>2, <4>1 DEF Plain, TakenOf, NotTakenOf
      <4> QED
        BY <3>2, <3>4, <4>1, <4>2 DEF Reports
    <3>7. Reports(m, 0, v.hist)
      BY <3>5, <3>6
    <3> QED
      BY <2>3, <3>2, <3>3, <3>4, <3>7, EmptyFits
  <2> QED
    BY <1>3, <1>15, <2>4, <2>5
<1> QED
  BY <1>14, <1>15

\* Between two instructions, an interrupt: the path ends where the core was.
LEMMA InterruptKeeps ==
  ASSUME SysInv, NEW c \in Core, TargetOnly, NEW handler \in Targets, Interrupt(c, handler)
  PROVE  SysInv'
<1> DEFINE t == target[c]
           k == core[c]
           P == pending[c]
           x == [t EXCEPT !.pc = handler]
           v == [x EXCEPT !.trap = TRUE]
<1>1. Ready(c)
  BY DEF Interrupt
<1>2. /\ AtRest(k, P, t) /\ TargetOK(t) /\ t.mode = "on" /\ P \in Seq(Entry) /\ k.lastFaddr = t.ref
  BY <1>1, CoreAtRest
<1>3. SendAddress(c, v, "EXCEPTION")
  BY DEF Interrupt
<1>4. handler \in DOMAIN Code /\ handler \in Int
  <2>1. Targets \subseteq DOMAIN Code
    BY SystemAssumption
  <2>2. DOMAIN Code \subseteq Nat
    BY DecoderAssumption
  <2> QED
    BY <2>1, <2>2
<1>5. t.run \in Seq(Entry)
  BY <1>2, Here
<1> HIDE DEF t
<1>6. /\ x \in Encoder /\ x.mode = "on" /\ x.i_cnt = t.i_cnt /\ x.hist = t.hist /\ x.ref = t.ref
      /\ x.pc = handler /\ x.calls = t.calls /\ x.run = t.run
  BY <1>2, <1>4 DEF TargetOK, Encoder
<1> HIDE DEF x
<1>7. /\ v \in Encoder /\ v.mode = "on" /\ v.i_cnt = t.i_cnt /\ v.hist = t.hist /\ v.ref = t.ref
      /\ v.pc = handler /\ v.calls = t.calls /\ v.run = t.run
  BY <1>6 DEF Encoder
<1> HIDE DEF v
<1>8. TargetOK(v)
  BY <1>2, <1>4, <1>7 DEF TargetOK
<1> HIDE DEF k, P
<1>9. PICK tr : RestPath(k, P, t, tr)
  BY <1>2 DEF AtRest
<1>10. Ahead(k, P, v, tr) /\ tr[Len(P \o v.run) + 1].calls = v.calls
  BY <1>2, <1>5, <1>7, <1>9, RestAhead
<1> QED
  BY <1>1, <1>2, <1>3, <1>5, <1>7, <1>8, <1>10, SendAddressKeeps DEF k, P

\* The count alone is sent, in a history trace.
LEMMA CountSent ==
  ASSUME SysInv, NEW c \in Core, Ready(c), TargetOnly, traceMode = "HTM",
         Send(c, Message0(c, "RESOURCEFULL", target[c]), [target[c] EXCEPT !.i_cnt = 0])
  PROVE  SysInv'
<1> DEFINE t == target[c]
           k == core[c]
           P == pending[c]
           f == P \o t.run
           m == Message0(c, "RESOURCEFULL", t)
           s == [t EXCEPT !.i_cnt = 0]
<1>1. /\ AtRest(k, P, t) /\ TargetOK(t) /\ t.mode = "on" /\ P \in Seq(Entry) /\ k.lastFaddr = t.ref
  BY CoreAtRest
<1>2. /\ t.i_cnt \in Nat /\ t.hist \in Seq(BOOLEAN) /\ t.run \in Seq(Entry)
  BY <1>1, Here
<1>3. Send(c, m, s)
  OBVIOUS
<1>4. "RESOURCEFULL" \in TCode
  BY DEF TCode, TCodesWithCounts
<1>5. Plain(m, c, "RESOURCEFULL") /\ m.i_cnt = t.i_cnt /\ m.history = 0 /\ m.rCode = 0
  BY <1>2, <1>4, Message0Is
<1> HIDE DEF m
<1>6. Sent(m) /\ Reports(m, t.i_cnt, <<>>)
  BY <1>5, EmptyFits DEF Plain, Sent, Reports, TCodesWithCounts, ShowsHistory, HistoryTCodes,
                         ICntOf, HistoryOf, TakenOf, NotTakenOf
<1>7. /\ s \in Encoder /\ s.mode = "on" /\ s.i_cnt = 0 /\ s.hist = t.hist /\ s.ref = t.ref
      /\ s.pc = t.pc /\ s.calls = t.calls /\ s.run = t.run
  <2> HIDE DEF t
  <2> QED
    BY <1>1 DEF TargetOK, Encoder
<1> HIDE DEF s
<1>8. TargetOK(s)
  BY <1>1, <1>7 DEF TargetOK
<1> HIDE DEF k, P, t
<1>9. PICK tr : RestPath(k, P, t, tr)
  BY <1>1 DEF AtRest
<1>10. /\ Ahead(k, P, t, tr) /\ Guided(tr, Len(f))
       /\ tr[Len(f) + 1].at = t.pc /\ tr[Len(f) + 1].calls = t.calls
       /\ f = <<>> => k.currentAddress = t.pc
  BY <1>1, <1>2, <1>9, RestAhead
<1> HIDE DEF f
<1>11. EndsPath(k, m, f, s, tr)
  BY <1>1, <1>5, <1>7, <1>10 DEF EndsPath, Plain
<1>12. t.i_cnt + s.i_cnt = t.i_cnt /\ Len(<<>>) <= HistMax /\ <<>> \in Seq(BOOLEAN) /\ m.core = c
  BY <1>2, <1>5, <1>7, Sizes DEF Plain
<1> QED
  BY <1>2, <1>3, <1>6, <1>7, <1>8, <1>10, <1>11, <1>12, SendKeeps DEF f, k, P

\* A sync message, between two branches.
LEMMA SyncSent ==
  ASSUME SysInv, NEW c \in Core, Ready(c), TargetOnly, target[c].hist = <<>>,
         Send(c, [Message0(c, "SYNC", target[c]) EXCEPT !.addr = target[c].pc], Synced(target[c]))
  PROVE  SysInv'
<1> DEFINE t == target[c]
           k == core[c]
           P == pending[c]
           f == P \o t.run
           z == Message0(c, "SYNC", t)
           m == [z EXCEPT !.addr = t.pc]
           s == Synced(t)
<1>1. /\ AtRest(k, P, t) /\ TargetOK(t) /\ t.mode = "on" /\ P \in Seq(Entry) /\ k.lastFaddr = t.ref
  BY CoreAtRest
<1>2. /\ t.i_cnt \in Nat /\ t.hist \in Seq(BOOLEAN) /\ t.run \in Seq(Entry) /\ t.pc \in Word
  BY <1>1, Here
<1>3. Send(c, m, s)
  OBVIOUS
<1>4. "SYNC" \in TCode
  BY DEF TCode, TCodesWithCounts
<1>5. Plain(z, c, "SYNC") /\ z.i_cnt = t.i_cnt /\ z.history = 0
  BY <1>2, <1>4, Message0Is
<1> HIDE DEF z
<1>6. Plain(m, c, "SYNC") /\ m.i_cnt = t.i_cnt /\ m.history = 0 /\ m.addr = t.pc
  BY <1>2, <1>5 DEF Plain, Message
<1> HIDE DEF m
<1>7. Sent(m) /\ Reports(m, t.i_cnt, <<>>) /\ ~ShowsHistory(m)
  BY <1>6, EmptyFits DEF Plain, Sent, Reports, TCodesWithCounts, ShowsHistory, HistoryTCodes,
                         ICntOf, HistoryOf, TakenOf, NotTakenOf
<1>8. /\ TargetOK(s) /\ s.mode = "on" /\ s.i_cnt = 0 /\ s.hist = <<>> /\ s.ref = t.pc
      /\ s.pc = t.pc /\ s.calls = <<>> /\ s.run = t.run
  BY <1>1, SyncedIs
<1> HIDE DEF s, k, P
<1>9. PICK tr : RestPath(k, P, t, tr)
  BY <1>1 DEF AtRest
<1>10. Ahead(k, P, t, tr)
  BY <1>1, <1>2, <1>9, RestAhead
<1>11. EndsPath(k, m, f, s, tr)
  BY <1>6, <1>8 DEF EndsPath, SyncingTCodes, Plain
<1>12. t.i_cnt + s.i_cnt = t.i_cnt /\ Len(<<>>) <= HistMax /\ m.core = c
  BY <1>2, <1>6, <1>8, Sizes DEF Plain
<1>13. t.hist = <<>>
  OBVIOUS
<1> HIDE DEF t
<1> QED
  BY <1>2, <1>3, <1>7, <1>8, <1>10, <1>11, <1>12, <1>13, SendKeeps DEF f, k, P

\* Either: the counter is sent.
LEMMA SendCountKeeps ==
  ASSUME SysInv, NEW c \in Core, TargetOnly, SendCount(c)
  PROVE  SysInv'
BY CountSent, SyncSent DEF SendCount

\* Tracing is switched off: the last message tells the rest of the counts.
LEMMA StopTraceKeeps ==
  ASSUME SysInv, NEW c \in Core, TargetOnly, StopTrace(c)
  PROVE  SysInv'
<1> DEFINE t == target[c]
           k == core[c]
           P == pending[c]
           f == P \o t.run
           z == Message0(c, "CORRELATION", t)
           h == HistoryRegister(t.hist)
           y == [z EXCEPT !.cdf = 1]
           m == [y EXCEPT !.history = h]
           e == IF traceMode = "BTM" THEN z ELSE m
           s == [NewTarget(0) EXCEPT !.run = t.run]
<1>0. Ready(c)
  BY DEF StopTrace
<1>1. /\ AtRest(k, P, t) /\ TargetOK(t) /\ t.mode = "on" /\ P \in Seq(Entry)
      /\ traceMode \in {"BTM", "HTM"}
  BY <1>0, CoreAtRest
<1>2. /\ t.i_cnt \in Nat /\ t.hist \in Seq(BOOLEAN) /\ t.run \in Seq(Entry)
  BY <1>1, Here
<1>3. Send(c, e, s)
  BY DEF StopTrace
<1>4. "CORRELATION" \in TCode
  BY DEF TCode, TCodesWithCounts
<1>5. Plain(z, c, "CORRELATION") /\ z.i_cnt = t.i_cnt /\ z.history = 0 /\ z.cdf = 0
  BY <1>2, <1>4, Message0Is
<1>6. Len(t.hist) <= HistMax
  BY <1>1, <1>2, LenProperties, Sizes DEF TargetOK
<1>7. h \in Nat /\ HistoryFits(h)
  BY <1>2, <1>6, RegisterFits
<1> HIDE DEF z, h
<1>8. Plain(y, c, "CORRELATION") /\ y.i_cnt = t.i_cnt /\ y.cdf = 1
  BY <1>5 DEF Plain, Message
<1> HIDE DEF y
<1>9. Plain(m, c, "CORRELATION") /\ m.i_cnt = t.i_cnt /\ m.cdf = 1 /\ m.history = h
  BY <1>7, <1>8 DEF Plain, Message
<1> HIDE DEF m
<1>10. /\ TargetOK(s) /\ s.mode = "off" /\ s.i_cnt = 0 /\ s.hist = <<>> /\ s.run = t.run
  BY <1>2, StoppedIs
<1> HIDE DEF s, k, P
<1>11. PICK tr : RestPath(k, P, t, tr)
  BY <1>1 DEF AtRest
<1>12. Ahead(k, P, t, tr)
  BY <1>1, <1>2, <1>11, RestAhead
<1>13. traceMode = "BTM" => t.hist = <<>>
  BY <1>11 DEF RestPath, Accounted
<1>14. Plain(e, c, "CORRELATION") /\ e.i_cnt = t.i_cnt
  BY <1>5, <1>9
<1>15. Sent(e) /\ Reports(e, t.i_cnt, t.hist) /\ (~ShowsHistory(e) => t.hist = <<>>)
  <2>1. CASE traceMode = "BTM"
    <3>1. e = z /\ t.hist = <<>>
      BY <1>13, <2>1
    <3>2. Sent(z)
      BY <1>5, <2>1, EmptyFits DEF Plain, Sent, TCodesWithCounts, ShowsHistory, HistoryTCodes
    <3>3. Reports(z, t.i_cnt, <<>>)
      BY <1>5 DEF Plain, Reports, TCodesWithCounts, ICntOf, HistoryOf, TakenOf, NotTakenOf
    <3> QED
      BY <3>1, <3>2, <3>3
  <2>2. CASE traceMode = "HTM"
    <3>1. e = m
      BY <2>2
    <3>2. Sent(m) /\ ShowsHistory(m)
      BY <1>7, <1>9, <2>2 DEF Plain, Sent, TCodesWithCounts, ShowsHistory
    <3>3. Reports(m, t.i_cnt, t.hist)
      BY <1>9 DEF Plain, Reports, TCodesWithCounts, ICntOf, HistoryOf, h
    <3> QED
      BY <3>1, <3>2, <3>3
  <2> QED
    BY <1>1, <2>1, <2>2
<1> HIDE DEF e
<1>16. EndsPath(k, e, f, s, tr)
  BY <1>10, <1>14 DEF EndsPath, Plain
<1>17. t.i_cnt + s.i_cnt = t.i_cnt /\ e.core = c
  BY <1>2, <1>10, <1>14 DEF Plain
<1> HIDE DEF t
<1> QED
  BY <1>0, <1>2, <1>3, <1>6, <1>10, <1>12, <1>15, <1>16, <1>17, SendKeeps DEF f, k, P

\* A core is traced again: a sync message tells where, after an error message
\* when messages were lost.
LEMMA StartTraceKeeps ==
  ASSUME SysInv, NEW c \in Core, TargetOnly, NEW a \in Targets, StartTrace(c, a)
  PROVE  SysInv'
<1> DEFINE t == [NewTarget(a) EXCEPT !.mode = "on", !.ref = a]
           z == Message0(c, "SYNC", t)
           m == [z EXCEPT !.addr = a]
           y == Message0(c, "ERROR", t)
           sync == [msg |-> m, covers |-> <<>>]
           error == [msg |-> y, covers |-> <<>>]
           S == [msg: Message, covers: Seq(Entry)]
<1>1. /\ Idle /\ target[c].mode # "on" /\ target' = [target EXCEPT ![c] = t]
      /\ channel' = IF target[c].mode = "lost" THEN <<error, sync>> ELSE <<sync>>
  BY DEF StartTrace
<1>2. a \in DOMAIN Code /\ a \in Word
  <2>1. Targets \subseteq DOMAIN Code /\ Targets \subseteq Word
    BY SystemAssumption
  <2> QED
    BY <2>1
<1>3. /\ TargetOK(t) /\ t.mode = "on" /\ t.i_cnt = 0 /\ t.hist = <<>> /\ t.run = <<>>
      /\ t.pc = a /\ t.ref = a /\ t.calls = <<>>
  BY <1>2, StartedIs
<1> HIDE DEF t
<1>4. "SYNC" \in TCode /\ "ERROR" \in TCode /\ t.i_cnt \in Nat
  BY <1>3 DEF TCode, TCodesWithCounts, TCodesWithoutCounts
<1>5. Plain(z, c, "SYNC") /\ z.history = 0 /\ Plain(y, c, "ERROR") /\ y.history = 0
  BY <1>4, Message0Is
<1> HIDE DEF z, y
<1>6. Plain(m, c, "SYNC") /\ m.history = 0 /\ m.addr = a
  BY <1>2, <1>5 DEF Plain, Message
<1> HIDE DEF m
<1>7. Sent(m) /\ Sent(y)
  BY <1>5, <1>6, CoreIdle, <1>1, EmptyFits
     DEF Plain, Sent, TCodesWithCounts, ShowsHistory, HistoryTCodes
<1>8. Starts(m, t)
  BY <1>3, <1>6 DEF Starts, Plain
<1>9. /\ Rests(c) /\ target[c].mode \in {"off", "lost"}
  BY <1>1, CoreIdle DEF TargetOK, Encoder
<1>10. target'[c] = t /\ core'[c] = core[c] /\ pending'[c] = pending[c]
  BY <1>1 DEF SysInv, TargetOnly
<1>11. sync \in S /\ error \in S
  <2>1. <<>> \in Seq(Entry) /\ m \in Message /\ y \in Message
    BY <1>5, <1>6 DEF Plain
  <2> QED
    BY <2>1
<1>12. sync.msg = m /\ sync.covers = <<>> /\ error.msg = y /\ error.covers = <<>>
  OBVIOUS
<1> HIDE DEF sync, error, S
<1>13. CASE target[c].mode = "off"
  <2>1. Unsynced(core[c]) /\ pending[c] = <<>>
    BY <1>9, <1>13 DEF Rests, AtRest
  <2>2. channel' = <<sync>>
    BY <1>1, <1>13
  <2>3. channel' \in Seq(S) /\ channel' # <<>> /\ Len(channel') = 1 /\ Head(channel') = sync
    BY <1>11, <2>2
  <2>4. Incoming(core[c], m, <<>>, t)
    BY <1>8, <2>1 DEF Incoming
  <2>5. <<>> = pending'[c] \o Head(channel').covers
    BY <1>10, <1>12, <2>1, <2>3
  <2>6. UNCHANGED traceMode
    BY DEF TargetOnly
  <2>7. m = Head(channel').msg /\ m.core = c
    BY <1>6, <1>12, <2>3 DEF Plain
  <2>8. Arriving(c)'
    BY <1>7, <1>10, <2>3, <2>4, <2>5, <2>6, <2>7, ArrivingNext
  <2> QED
    BY <1>1, <1>3, <2>3, <2>7, <2>8, TargetFrame DEF S
<1>14. CASE target[c].mode = "lost"
  <2>1. Waiting(core[c])
    BY <1>9, <1>14 DEF Rests, AtRest
  <2>2. channel' = <<error, sync>>
    BY <1>1, <1>14
  <2>3. /\ channel' \in Seq(S) /\ channel' # <<>> /\ Len(channel') = 2 /\ Head(channel') = error
        /\ channel'[2] = sync
    BY <1>11, <2>2
  <2>4. UNCHANGED traceMode
    BY DEF TargetOnly
  <2>5. Restarts(channel[2], c)'
    BY <1>6, <1>7, <1>8, <1>10, <1>12, <2>3, <2>4 DEF Restarts, Sent, Starts, Plain
  <2>6. Head(channel').msg = y /\ y.core = c /\ y.tcode = "ERROR" /\ Head(channel').covers = <<>>
    BY <1>5, <1>12, <2>3 DEF Plain
  <2>7. Sent(Head(channel).msg)'
    BY <1>7, <2>4, <2>6 DEF Sent
  <2>8. Waiting(core[c])'
    BY <1>10, <2>1 DEF Waiting
  <2>9. Arriving(c)'
    BY <2>3, <2>5, <2>6, <2>7, <2>8 DEF Arriving
  <2> QED
    BY <1>1, <1>3, <2>3, <2>6, <2>9, TargetFrame DEF S
<1> QED
  BY <1>9, <1>13, <1>14

\* Whatever a core does, the invariant is kept; the decoder returns nothing.
LEMMA TargetKeeps ==
  ASSUME SysInv, CallsFit, TargetStep
  PROVE  SysInv' /\ StreamStep
<1>1. TargetOnly /\ StreamStep
  BY DEF TargetStep, TargetOnly, StreamStep, Returns
<1>2. PICK c \in Core : Target(c)
  BY DEF TargetStep
<1>3. CASE RunDirect(c)
  BY <1>1, <1>3, RunDirectKeeps
<1>4. CASE SendCount(c)
  BY <1>1, <1>4, SendCountKeeps
<1>5. CASE StopTrace(c)
  BY <1>1, <1>5, StopTraceKeeps
<1>6. CASE \E taken \in BOOLEAN : RunBranchBTM(c, taken) \/ RunBranchHTM(c, taken)
  BY <1>1, <1>6, RunBranchBTMKeeps, RunBranchHTMKeeps
<1>7. CASE \E a \in Targets \cup {Top(target[c].calls)} : a # NoAddr /\ RunIndirect(c, a)
  BY <1>1, <1>7, RunIndirectKeeps
<1>8. CASE \E a \in Targets : RunTrap(c, a) \/ Interrupt(c, a) \/ StartTrace(c, a)
  BY <1>1, <1>8, RunTrapKeeps, InterruptKeeps, StartTraceKeeps
<1> QED
  BY <1>1, <1>2, <1>3, <1>4, <1>5, <1>6, <1>7, <1>8 DEF Target

-----------------------------------------------------------------------------
(* The whole system.                                                       *)

\* At the start nothing is traced, and the decoder waits for a first sync.
LEMMA SysInitInv == SysInit => SysInv
<1> SUFFICES ASSUME SysInit PROVE SysInv
  OBVIOUS
<1>1. IInv
  BY InitInv DEF SysInit
<1>2. /\ traceMode \in {"BTM", "HTM"} /\ status = "OK" /\ traceType = "BTM" /\ readNewTraceMessage
      /\ channel = <<>> /\ channel \in Seq([msg: Message, covers: Seq(Entry)])
  BY SystemAssumption DEF SysInit, Init
<1> DEFINE z == NewTarget(0)
<1>3. TargetOK(z) /\ z.mode = "off" /\ z \in Encoder
  <2>1. Blank(z) /\ z.mode = "off"
    BY NewTargetIs
  <2> HIDE DEF z
  <2>2. TargetOK(z)
    BY <2>1, BlankOK
  <2> QED
    BY <2>1, <2>2 DEF TargetOK
<1>4. target = [c \in Core |-> z] /\ pending = [c \in Core |-> <<>>]
  BY DEF SysInit
<1> HIDE DEF z
<1>5. target \in [Core -> Encoder] /\ pending \in [Core -> Seq(Entry)]
  <2>1. <<>> \in Seq(Entry)
    OBVIOUS
  <2> QED
    BY <1>3, <1>4, <2>1
<1>6. ASSUME NEW c \in Core
      PROVE  TargetOK(target[c]) /\ ~Busy(c) /\ Rests(c) /\ HeldBack(c)
  <2>1. target[c] = z /\ pending[c] = <<>>
    BY <1>4
  <2>2. core[c].state = "GETFIRSTSYNCMSG"
    BY DEF SysInit, Init, NewCore
  <2> QED
    BY <1>2, <1>3, <2>1, <2>2 DEF Busy, Rests, HeldBack, Unsynced
<1> QED
  BY <1>1, <1>2, <1>5, <1>6 DEF SysInv

\* No step breaks the invariant, and every instruction returned is right.
LEMMA SysStep ==
  ASSUME CallsFit, SysInv, SysNext
  PROVE  SysInv' /\ StreamStep
BY TargetKeeps, ReadKeeps, DecodeKeeps DEF SysNext

\* A step in which nothing changes.
LEMMA SysStutter ==
  ASSUME SysInv, UNCHANGED sysVars
  PROVE  SysInv'
<1>0. TargetOnly /\ UNCHANGED channel /\ UNCHANGED target /\ UNCHANGED traceMode
  BY DEF sysVars, vars, TargetOnly
<1>1. IInv'
  BY <1>0, TargetIInv DEF SysInv
<1>2. ASSUME NEW c \in Core
      PROVE  /\ TargetOK(target[c])'
             /\ IF ~Busy(c)' THEN Rests(c)' /\ HeldBack(c)'
                ELSE IF readNewTraceMessage' THEN Arriving(c)' /\ HeldBack(c)'
                ELSE Working(c)'
  <2>1. TargetOK(target[c])'
    BY <1>0 DEF SysInv, TargetOK
  <2>2. Busy(c)' <=> Busy(c)
    BY <1>0 DEF Busy, TargetOnly
  <2>3. HeldBack(c) => HeldBack(c)'
    BY <1>0 DEF HeldBack, TargetOnly
  <2>4. Rests(c) /\ HeldBack(c) => Rests(c)'
    BY <1>0, RestsStays DEF TargetOnly
  <2>5. ASSUME Arriving(c) PROVE Arriving(c)'
    <3> DEFINE e == Head(channel)
    <3>1. channel # <<>> /\ e.msg.core = c /\ Sent(e.msg)
      BY <2>5 DEF Arriving
    <3>2. CASE /\ e.msg.tcode = "ERROR" /\ e.covers = <<>> /\ Waiting(core[c])
               /\ Len(channel) = 2 /\ Restarts(channel[2], c)
      <4>1. Sent(Head(channel).msg)' /\ Restarts(channel[2], c)' /\ Waiting(core[c])'
        BY <1>0, <3>1, <3>2 DEF Restarts, Sent, Starts, Waiting, TargetOnly
      <4> QED
        BY <1>0, <3>1, <3>2, <4>1 DEF Arriving
    <3>3. CASE Len(channel) = 1 /\ Incoming(core[c], e.msg, pending[c] \o e.covers, target[c])
      <4>1. /\ core'[c] = core[c] /\ pending'[c] = pending[c] /\ target'[c] = target[c]
            /\ channel' = channel /\ traceMode' = traceMode
        BY <1>0 DEF TargetOnly
      <4> QED
        BY <3>1, <3>3, <4>1, ArrivingNext
    <3> QED
      BY <2>5, <3>2, <3>3 DEF Arriving
  <2>6. ASSUME Working(c) PROVE Working(c)'
    <3>1. /\ core'[c] = core[c] /\ pending'[c] = pending[c] /\ target'[c] = target[c]
          /\ channel' = channel /\ traceMode' = traceMode /\ nm' = nm /\ traceType' = traceType
      BY <1>0 DEF TargetOnly
    <3>2. /\ nm.core = c /\ Sent(nm) /\ Sent(nm)'
          /\ traceMode = "HTM" /\ nm.tcode \notin {"SYNC", "ERROR"} => traceType = "HTM"
      BY <2>6, <3>1 DEF Working, Sent
    <3>3. CASE /\ nm.tcode = "ERROR" /\ pending[c] = <<>> /\ Waiting(core[c])
               /\ Len(channel) = 1 /\ Restarts(Head(channel), c)
      <4>1. Restarts(Head(channel), c)' /\ Waiting(core[c])'
        BY <3>1, <3>3 DEF Restarts, Sent, Starts, Waiting
      <4> QED
        BY <3>1, <3>2, <3>3, <4>1 DEF Working
    <3>4. CASE channel = <<>> /\ Incoming(core[c], nm, pending[c], target[c])
      <4>1. Incoming(core[c], nm, pending[c], target[c])'
        BY <3>1, <3>4, IncomingNext
      <4> QED
        BY <3>1, <3>2, <3>4, <4>1 DEF Working
    <3>5. CASE /\ channel = <<>> /\ InWork(core[c], nm, pending[c], target[c])
               /\ \/ core[c].state = "GETNEXTINSTRUCTION"
                  \/ core[c].state = "RETIREMESSAGE"
                     /\ (pending[c] # <<>> => WaitsForOutcome(core[c]))
      BY <3>1, <3>2, <3>5, <1>0, WorkingNext DEF WaitsForOutcome
    <3> QED
      BY <2>6, <3>3, <3>4, <3>5 DEF Working
  <2>7. IF ~Busy(c) THEN Rests(c) /\ HeldBack(c)
        ELSE IF readNewTraceMessage THEN Arriving(c) /\ HeldBack(c) ELSE Working(c)
    BY DEF SysInv
  <2>8. readNewTraceMessage' = readNewTraceMessage
    BY <1>0 DEF TargetOnly
  <2> QED
    BY <2>1, <2>2, <2>3, <2>4, <2>5, <2>6, <2>7, <2>8
<1> QED
  BY <1>0, <1>1, <1>2 DEF SysInv, TargetOnly

\* The invariant of the whole system.
LEMMA SysInvariance == ASSUME CallsFit PROVE SysSpec => []SysInv
<1>1. SysInv /\ [SysNext]_sysVars => SysInv'
  BY SysStep, SysStutter
<1> QED
  BY <1>1, SysInitInv, PTL DEF SysSpec

\* What the encoders send, the decoder never refuses: no counter overflows, no
\* outcome is left where a message brings new ones, no address leads nowhere.
THEOREM StreamNeverRefused == ASSUME CallsFit PROVE SysSpec => []NeverRefused
<1>1. SysInv => NeverRefused
  BY DEF SysInv, NeverRefused
<1> QED
  BY <1>1, SysInvariance, PTL

\* Every instruction the decoder returns is the one its core executed next,
\* whatever the program, the cores, the mix of messages and the losses.
THEOREM DecoderReturnsExecution == ASSUME CallsFit PROVE SysSpec => StreamIsExecution
<1>1. SysInv /\ [SysNext]_sysVars => [StreamStep]_sysVars
  BY SysStep
<1> QED
  BY <1>1, SysInvariance, PTL DEF SysSpec, StreamIsExecution, StreamStep

\* A decoder that asks for a message has returned what the messages accounted
\* for, up to a branch whose outcome is still to come.
THEOREM OnlyABranchHoldsBack == ASSUME CallsFit PROVE SysSpec => []NothingHeldBack
<1>1. SysInv => NothingHeldBack
  <2> SUFFICES ASSUME SysInv, readNewTraceMessage, NEW c \in Core PROVE HeldBack(c)
    BY DEF NothingHeldBack, HeldBack
  <2> QED
    BY DEF SysInv
<1> QED
  BY <1>1, SysInvariance, PTL

\* Between messages the decoder stands where the core was when it sent the
\* last one, with the return stack the encoder had then.
THEOREM DecoderStaysInStep == ASSUME CallsFit PROVE SysSpec => []DecoderInStep
<1>1. SysInv => DecoderInStep
  <2> SUFFICES ASSUME SysInv, Idle, NEW c \in Core, target[c].mode = "on", pending[c] = <<>>
               PROVE  /\ core[c].state \in {"GETMSGWITHCOUNT", "GETNEXTMSG"}
                      /\ core[c].currentAddress = IF target[c].run = <<>> THEN target[c].pc
                                                  ELSE Head(target[c].run).address
                      /\ target[c].run = <<>> => core[c].stack = target[c].calls
    BY DEF DecoderInStep
  <2> DEFINE k == core[c]
             t == target[c]
             run == t.run
             n == Len(run)
  <2>1. AtRest(k, <<>>, t) /\ Waiting(k) /\ TargetOK(t)
    BY CoreAtRest DEF Ready
  <2>2. PICK tr : RestPath(k, <<>>, t, tr)
    BY <2>1 DEF AtRest
  <2>3. run \in Seq(Entry) /\ <<>> \o run = run /\ n \in Nat
    <3>1. run \in Seq(Entry)
      BY <2>1, Here
    <3> QED
      BY <3>1, ConcatEmptySeq, LenProperties
  <2>4. /\ Path(run, tr) /\ tr[1].at = k.currentAddress /\ tr[1].calls = k.stack
        /\ tr[n + 1].at = t.pc /\ tr[n + 1].calls = t.calls
    BY <2>2, <2>3 DEF RestPath
  <2>5. CASE run = <<>>
    <3>1. n = 0 /\ n + 1 = 1
      BY <2>5, EmptySeq
    <3> HIDE DEF n
    <3> QED
      BY <2>1, <2>4, <2>5, <3>1 DEF Waiting
  <2>6. CASE run # <<>>
    <3>1. 1 \in 1..n /\ Head(run) = run[1]
      BY <2>3, <2>6, EmptySeq
    <3>2. run[1].address = tr[1].at
      BY <2>4, <3>1 DEF Path
    <3> QED
      BY <2>1, <2>4, <2>6, <3>1, <3>2 DEF Waiting
  <2> QED
    BY <2>5, <2>6
<1> QED
  BY <1>1, SysInvariance, PTL
=============================================================================
