--------------------------- MODULE TraceDecoderMC ---------------------------
(***************************************************************************)
(* Small instances of TraceDecoder: a program with one instruction of each *)
(* kind, and sets of messages that include ones no encoder sends.          *)
(***************************************************************************)
EXTENDS TraceDecoder, Bitwise, TLC

MCWord == 0..15
MCXor == [p \in MCWord \X MCWord |-> p[1] ^^ p[2]]

Inst(t, s, d, r, i) == [type |-> t, size |-> s, rd |-> d, rs1 |-> r, imm |-> i]

MCCode ==
  (1 :> Inst("OTHER", 1, "other", "other", 0)) @@
  (2 :> Inst("BRANCH", 1, "other", "other", -1)) @@
  (3 :> Inst("JAL", 2, "x1", "other", 4)) @@
  (5 :> Inst("JALR", 2, "other", "other", 0)) @@
  (7 :> Inst("C_JR", 1, "other", "x1", 0)) @@
  (8 :> Inst("C_JALR", 1, "x1", "x5", 0)) @@
  (9 :> Inst("ECALL", 2, "other", "other", 0))

M(c, t, n, a) == [NoMsg EXCEPT !.core = c, !.tcode = t, !.i_cnt = n, !.addr = a]
Full(c, r, n, h) ==
  [M(c, "RESOURCEFULL", n, 0) EXCEPT !.rCode = r, !.history = h, !.count = n]
Hist(c, t, n, h, a) == [M(c, t, n, a) EXCEPT !.history = h]
ICT(c, t, src, df, a) == [M(c, t, 0, a) EXCEPT !.cksrc = src, !.ckdf = df, !.data = 1]

\* Every kind of message, for one core.
AllMsgs ==
  {M(0, "SYNC", 0, 1), M(0, "SYNC", 2, 3), M(0, "DIRECT_BRANCH", 2, 0),
   M(0, "DIRECT_BRANCH_WS", 1, 2), M(0, "INDIRECT_BRANCH", 3, 4),
   [M(0, "INDIRECT_BRANCH_WS", 1, 8) EXCEPT !.b_type = "EXCEPTION"],
   Full(0, 0, 2, 0), Full(0, 1, 0, 9), Full(0, 8, 1, 0), Full(0, 9, 2, 0), Full(0, 2, 0, 0),
   Hist(0, "INDIRECTBRANCHHISTORY", 2, 2, 6), Hist(0, "INDIRECTBRANCHHISTORY_WS", 1, 1, 2),
   M(0, "CORRELATION", 1, 0),
   [Hist(0, "CORRELATION", 1, 3, 0) EXCEPT !.cdf = 1],
   M(0, "ERROR", 0, 0), M(0, "OWNERSHIP_TRACE", 0, 0), M(0, "AUXACCESS_WRITE", 0, 0),
   M(0, "WATCHPOINT", 0, 0)}
  \cup {ICT(0, "INCIRCUITTRACE_WS", "WATCHPOINT", 0, 7),
        ICT(0, "INCIRCUITTRACE", "EXCEPTION", 1, 2),
        ICT(0, "INCIRCUITTRACE_WS", "INFERABLECALL", 0, 3),
        ICT(0, "INCIRCUITTRACE", "INFERABLECALL", 1, 5),
        ICT(0, "INCIRCUITTRACE_WS", "CONTROL", 0, 0),
        ICT(0, "INCIRCUITTRACE", "PC_SAMPLE", 1, 0)}

Timed(m, ts) == [m EXCEPT !.ts = ts]

\* A second core interleaves with them, with time stamps of two bits.
TwoCoreMsgs ==
  AllMsgs
  \cup {Timed(M(1, "SYNC", 0, 1), 1), Timed(M(1, "DIRECT_BRANCH", 2, 0), 3),
        M(1, "ERROR", 0, 0)}
=============================================================================
