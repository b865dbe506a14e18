---------------------------- MODULE SliceFields ----------------------------
(***************************************************************************)
(* How a Nexus message lies in bytes, as SliceFileParser cuts it into      *)
(* fields and as SwtMessageStreamBuilder puts it together.  A byte, or     *)
(* slice, has six bits of data (MDO) above two bits (MSEO) that say whether *)
(* a field or the message ends with it.  Fixed fields follow each other    *)
(* bit by bit; a variable field goes on to the end of a slice.             *)
(***************************************************************************)
EXTENDS Integers, Sequences, FiniteSetsExt

CONSTANTS
  SrcBits,   \* bits of the source field, 0 for none
  VarMax,    \* bits of a variable field's value: sizeof(uint64_t)*8
  WordBits   \* bits that are kept of what is a uint32_t: 32

ASSUME FieldsAssumption == SrcBits \in Nat /\ VarMax \in Nat /\ WordBits \in Nat

Normal == 0
VarEnd == 1
MsgEnd == 3
Mseo(b) == b % 4
Mdo(b) == b \div 4

NoTimestamp == -1
\* A width of 0 stands for a variable field.
Var == 0

\* What each parseXxx reads after the source: widths of fixed fields, and Var
ParseOwnershipTrace == <<Var>>
ParseDirectBranch == <<Var>>
ParseIndirectBranch == <<2, Var, Var>>
ParseDataAcquisition == <<Var, Var>>
ParseAuxAccessWrite == <<Var, Var>>
ParseError == <<4, Var>>
ParseSync == <<4, Var, Var>>
ParseDirectBranchWS == <<4, Var, Var>>
ParseIndirectBranchWS == <<4, 2, Var, Var>>
ParseResourceFull == <<4, Var>>
ParseIndirectHistory == <<2, Var, Var, Var>>
ParseIndirectHistoryWS == <<4, 2, Var, Var, Var>>

\* The second field says whether there is one more.
ParseICT(got) == <<4, 2, Var>> \o (IF Len(got) > 1 /\ got[2] = 1 THEN <<Var>> ELSE <<>>)
ParseICTWS(got) == ParseICT(got)
ParseCorrelation(got) == ParseICT(got)

DIRECT_BRANCH == 3
DATA_ACQUISITION == 7
RESOURCEFULL == 27
\* CORRELATION, INCIRCUITTRACE, INCIRCUITTRACE_WS
WithCount == {33, 34, 35}

Layout(tcode, got) ==
  CASE tcode = 2 -> ParseOwnershipTrace
    [] tcode = DIRECT_BRANCH -> ParseDirectBranch
    [] tcode = 4 -> ParseIndirectBranch
    [] tcode = DATA_ACQUISITION -> ParseDataAcquisition
    [] tcode = 8 -> ParseError
    [] tcode = 9 -> ParseSync
    [] tcode = 11 -> ParseDirectBranchWS
    [] tcode = 12 -> ParseIndirectBranchWS
    [] tcode = 23 -> ParseAuxAccessWrite
    [] tcode = RESOURCEFULL -> ParseResourceFull
    [] tcode = 28 -> ParseIndirectHistory
    [] tcode = 29 -> ParseIndirectHistoryWS
    [] tcode = 33 -> ParseCorrelation(got)
    [] tcode = 34 -> ParseICT(got)
    [] tcode = 35 -> ParseICTWS(got)

Supported == {2, 3, 4, 7, 8, 9, 11, 12, 23, 27, 28, 29} \cup WithCount

LegalFields(tcode, got) ==
  /\ tcode \in Supported
  /\ tcode = RESOURCEFULL => got[1] \in {0, 1, 8, 9}
  /\ tcode \in WithCount => got[2] \in {0, 1}
-----------------------------------------------------------------------------
(* Reading.                                                                *)

\* The data of slices i..j, the first lowest
Joined(msg, i, j) == MapThenSumSet(LAMBDA k : Mdo(msg[k]) * 64^(k - i), i..j)

\* Where the parser of a message is: bitIndex, eom, the values so far, the outcome
Begin == [bitIndex |-> 0, eom |-> FALSE, got |-> <<>>, rc |-> "OK"]

\* parseFixedField.  A field that ends where the message ends is refused too.
ParseFixedField(msg, p, width) ==
  LET i == p.bitIndex \div 6 + 1
      b == p.bitIndex % 6
      next == p.bitIndex + width
      last == IF b + width > 6 THEN next \div 6 + 1 ELSE i
  IN IF next >= 6 * Len(msg) THEN [p EXCEPT !.bitIndex = next, !.rc = "EOM"]
     ELSE [p EXCEPT !.bitIndex = next,
                    !.got = Append(@, (Joined(msg, i, last) \div 2^b) % 2^width),
                    !.eom = @ \/ Mseo(msg[last]) = MsgEnd]

\* parseVarField
ParseVarField(msg, p) ==
  LET i == p.bitIndex \div 6 + 1
      b == p.bitIndex % 6
      ends == {k \in i..Len(msg) : Mseo(msg[k]) # Normal}
      last == Min(ends)
      w == 6 - b + 6 * (last - i)
  IN IF i > Len(msg) THEN [p EXCEPT !.rc = "EOM"]
     ELSE IF ends = {} \/ w > VarMax THEN [p EXCEPT !.rc = "ERR"]
     ELSE [p EXCEPT !.bitIndex = @ + w,
                    !.got = Append(@, Joined(msg, i, last) \div 2^b),
                    !.eom = @ \/ Mseo(msg[last]) = MsgEnd]

Header == <<6>> \o (IF SrcBits > 0 THEN <<SrcBits>> ELSE <<>>)
FieldsOf(got) == SubSeq(got, Len(Header) + 1, Len(got))
Widths(got) ==
  Header \o (IF Len(got) < Len(Header) \/ got[1] \notin Supported THEN <<>>
             ELSE Layout(got[1], FieldsOf(got)))

ParserState == [bitIndex : Nat, eom : BOOLEAN, got : Seq(Nat), rc : STRING]

\* Data acquisitions, auxiliary accesses and ownership traces keep their values in
\* a uint32_t.
Kept(tcode, v) == IF tcode \in {2, DATA_ACQUISITION, 23} THEN v % 2^WordBits ELSE v

MessageOf(p) ==
  LET n == Len(Widths(p.got)) IN
  [tcode |-> p.got[1], src |-> IF SrcBits > 0 THEN p.got[2] ELSE 0,
   fields |-> [i \in 1..(n - Len(Header)) |-> Kept(p.got[1], p.got[Len(Header) + i])],
   timestamp |-> IF Len(p.got) > n THEN p.got[n + 1] ELSE NoTimestamp]

\* The message in slices msg, as readNextTraceMsg and parseXxx take it apart: code,
\* source, fields, and a time stamp if they do not end it, with which it must end.
Parse(msg) ==
  LET rest[p \in ParserState] ==
        LET n == Len(p.got) + 1
            k == Len(Widths(p.got))
        IN IF p.rc # "OK" THEN [rc |-> p.rc]
           ELSE IF n <= k
           THEN rest[IF Widths(p.got)[n] = Var THEN ParseVarField(msg, p)
                     ELSE ParseFixedField(msg, p, Widths(p.got)[n])]
           ELSE IF ~LegalFields(p.got[1], FieldsOf(p.got)) THEN [rc |-> "ERR"]
           ELSE IF p.eom THEN [rc |-> "OK", m |-> MessageOf(p)]
           ELSE IF n = k + 1 THEN rest[ParseVarField(msg, p)]
           ELSE [rc |-> "BM"]
  IN rest[Begin]
-----------------------------------------------------------------------------
(* Writing: SwtMessageStreamBuilder.  A slice is sent when it is full and  *)
(* more bits follow, or a variable field ends in it.                       *)

NothingBuilt == [slices |-> <<>>, val |-> 0, offset |-> 0]

\* append
AppendBits(a, val, numbits) ==
  LET all == a.val + val * 2^a.offset
      width == a.offset + numbits
      full == IF width = 0 THEN 0 ELSE (width - 1) \div 6
  IN [slices |-> a.slices \o [k \in 1..full |-> 4 * ((all \div 64^(k - 1)) % 64) + Normal],
      val |-> all \div 64^full, offset |-> width - 6 * full]

MinBits(val) == CHOOSE n \in 1..VarMax : val < 2^n /\ (n > 1 => val >= 2^(n - 1))

AppendVarField(a, val, endOfMessage) ==
  LET b == AppendBits(a, val, MinBits(val)) IN
  [NothingBuilt EXCEPT !.slices = Append(b.slices, 4 * b.val + (IF endOfMessage THEN MsgEnd ELSE VarEnd))]

\* A message with these fields, the way addDataAcquisitionMessage makes one
Build(m) ==
  LET widths == Layout(m.tcode, m.fields)
      n == Len(widths)
      start == AppendBits(AppendBits(NothingBuilt, m.tcode, 6), m.src, SrcBits)
      stamped == m.timestamp # NoTimestamp
      built[i \in 0..n] ==
        IF i = 0 THEN start
        ELSE IF widths[i] = Var THEN AppendVarField(built[i - 1], m.fields[i], i = n /\ ~stamped)
        ELSE AppendBits(built[i - 1], m.fields[i], widths[i])
  IN IF stamped THEN AppendVarField(built[n], m.timestamp, TRUE).slices ELSE built[n].slices
=============================================================================
