------------------------------- MODULE Counts -------------------------------
(***************************************************************************)
(* The counters of class Count and the call/return stack AddrStack, as     *)
(* operators on the record of one core.  A count-bearing Nexus message     *)
(* hands the decoder an instruction count (in half-words) and possibly the *)
(* outcomes of the conditional branches it covers: history bits, or a run  *)
(* of taken or of not-taken branches.  Decoding consumes them.             *)
(*                                                                         *)
(* The C++ class keeps one array per counter indexed by core; here a core  *)
(* has one record.  The history register keeps its representation, a       *)
(* number whose most significant one is the stop bit.                      *)
(***************************************************************************)
EXTENDS Integers, Sequences

CONSTANTS
  HistWidth,   \* bits of the history register (uint64_t: 64)
  IntBits,     \* bits of the int in "1 << histBit" (32)
  StackSize    \* entries of an AddrStack (2048 unless configured)

ASSUME CountsAssumption ==
  /\ HistWidth \in Nat \ {0}
  /\ IntBits \in Nat \ {0}
  /\ StackSize \in Nat

NoAddr == -1   \* (ADDRESS)-1, "the next address is not known"

\* The count record of a core; only histBit says how much of history is left.
CountType == {"none", "history", "taken", "notTaken", "i_cnt"}
Count == [i_cnt: Int, history: Nat, histBit: -1..(HistWidth - 2), taken: Nat, notTaken: Nat]

NoCounts == [i_cnt |-> 0, history |-> 0, histBit |-> -1, taken |-> 0, notTaken |-> 0]

\* Forgets every count; the (unused) history register keeps its value.
ResetCounts(c) == [NoCounts EXCEPT !.history = c.history]

\* Branch outcomes left in c.
Outcomes(c) == c.histBit >= 0 \/ c.taken # 0 \/ c.notTaken # 0

\* Mutant: not-taken counts are overlooked.
CurrentCountTypeNoNotTaken(c) ==
  IF c.histBit >= 0 THEN "history"
  ELSE IF c.taken > 0 THEN "taken"
  ELSE IF c.i_cnt > 0 THEN "i_cnt" ELSE "none"

CurrentCountType(c) ==
  IF c.histBit >= 0 THEN "history"
  ELSE IF c.taken > 0 THEN "taken"
  ELSE IF c.notTaken > 0 THEN "notTaken"
  ELSE IF c.i_cnt > 0 THEN "i_cnt"
  ELSE "none"

Ok(c)  == [ok |-> TRUE,  c |-> c]
Err(c) == [ok |-> FALSE, c |-> c]

SetICnt(c, n) == [c EXCEPT !.i_cnt = @ + n]

\* h is the number of a history register whose highest one is bit i.
HighestOne(h, i) == 2^i <= h /\ h < 2^(i + 1)

HistoryFits(h) == h = 0 \/ \E i \in 0..(HistWidth - 1) : HighestOne(h, i)

\* Mutant: the stop bit is taken for an outcome.
FirstHistBitStop(h) ==
  IF h = 0 THEN -1 ELSE CHOOSE i \in 0..(HistWidth - 1) : HighestOne(h, i)

\* The index of the first outcome: one below the stop bit, -1 when h has none.
FirstHistBit(h) ==
  IF h = 0 THEN -1
  ELSE (CHOOSE i \in 0..(HistWidth - 1) : HighestOne(h, i)) - 1

\* New outcomes are refused while outcomes are left.
SetHistory(c, h) ==
  IF Outcomes(c) THEN Err(c)
  ELSE Ok([c EXCEPT !.history = h, !.histBit = FirstHistBit(h)])

SetTakenCount(c, n) ==
  IF Outcomes(c) THEN Err(c) ELSE Ok([c EXCEPT !.taken = n])

SetNotTakenCount(c, n) ==
  IF Outcomes(c) THEN Err(c) ELSE Ok([c EXCEPT !.notTaken = n])

-----------------------------------------------------------------------------
(* setCounts: which counts each TCODE carries.                             *)

TCodesWithoutCounts ==
  {"DEBUG_STATUS", "DEVICE_ID", "OWNERSHIP_TRACE", "DATA_WRITE", "DATA_READ",
   "DATA_ACQUISITION", "ERROR", "CORRECTION", "AUXACCESS_WRITE",
   "INCIRCUITTRACE", "INCIRCUITTRACE_WS"}

TCodesWithCounts ==
  {"DIRECT_BRANCH", "INDIRECT_BRANCH", "SYNC", "DIRECT_BRANCH_WS",
   "INDIRECT_BRANCH_WS", "RESOURCEFULL", "INDIRECTBRANCHHISTORY",
   "INDIRECTBRANCHHISTORY_WS", "CORRELATION"}

ICntOf(m) == IF m.tcode = "RESOURCEFULL" /\ m.rCode # 0 THEN 0 ELSE m.i_cnt

HistoryOf(m) ==
  IF \/ m.tcode = "RESOURCEFULL" /\ m.rCode = 1
     \/ m.tcode \in {"INDIRECTBRANCHHISTORY", "INDIRECTBRANCHHISTORY_WS"}
     \/ m.tcode = "CORRELATION" /\ m.cdf = 1
  THEN m.history ELSE 0

NotTakenOf(m) == IF m.tcode = "RESOURCEFULL" /\ m.rCode = 8 THEN m.count ELSE 0
TakenOf(m)    == IF m.tcode = "RESOURCEFULL" /\ m.rCode = 9 THEN m.count ELSE 0

\* At most one of the three kinds of outcomes is not zero, so at most one of
\* the setters is called after setICnt, which has then taken effect even when
\* that setter fails.
SetCounts(c, m) ==
  IF m.tcode \in TCodesWithoutCounts THEN Ok(c)
  ELSE IF \/ m.tcode \notin TCodesWithCounts
          \/ m.tcode = "RESOURCEFULL" /\ m.rCode \notin {0, 1, 8, 9}
  THEN Err(c)
  ELSE LET d == SetICnt(c, ICntOf(m)) IN
       IF HistoryOf(m) # 0 THEN SetHistory(d, HistoryOf(m))
       ELSE IF TakenOf(m) # 0 THEN SetTakenCount(d, TakenOf(m))
       ELSE IF NotTakenOf(m) # 0 THEN SetNotTakenCount(d, NotTakenOf(m))
       ELSE Ok(d)

-----------------------------------------------------------------------------
(* Consumption.                                                            *)

\* Mutant: sizes are taken in bytes.
ConsumeICntBytes(c, n) == [c EXCEPT !.i_cnt = @ - 2 * n]

ConsumeICnt(c, n) == [c EXCEPT !.i_cnt = @ - n]

\* The outcomes "history & (1 << histBit)" can have.  The shifted one is an
\* int: its top bit sign-extends to all higher bits, and a shift by the width
\* of int or more is undefined.
HistoryTaken(c) ==
  IF c.histBit < 0 THEN {FALSE}   \* no outcome to read
  ELSE IF c.histBit < IntBits - 1 THEN {(c.history \div 2^c.histBit) % 2 = 1}
  ELSE IF c.histBit = IntBits - 1 THEN {c.history >= 2^c.histBit}
  ELSE BOOLEAN

ConsumeHistory(c) == [c EXCEPT !.histBit = @ - 1]
\* Mutant: the count is not decremented.
ConsumeTakenKeeps(c) == c

ConsumeTaken(c)    == [c EXCEPT !.taken = @ - 1]
ConsumeNotTaken(c) == [c EXCEPT !.notTaken = @ - 1]

-----------------------------------------------------------------------------
(* AddrStack: the first element of the sequence is the top.                *)

EmptyStack == <<>>

\* Mutant: the size is not looked at.
PushUnchecked(s, a) == <<a>> \o s

\* A push on a full stack is dropped (no caller looks at the result).
Push(s, a) == IF Len(s) >= StackSize THEN s ELSE <<a>> \o s

Top(s) == IF s = <<>> THEN NoAddr ELSE Head(s)
Pop(s) == IF s = <<>> THEN s ELSE Tail(s)
=============================================================================
