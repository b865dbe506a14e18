---------------------------- MODULE TraceSystemMC ----------------------------
(***************************************************************************)
(* Small programs for TraceSystem.                                         *)
(***************************************************************************)
EXTENDS TraceSystem, Bitwise, TLC

MCWord == 0..15
MCXor == [p \in MCWord \X MCWord |-> p[1] ^^ p[2]]

Inst(t, s, d, r, i) == [type |-> t, size |-> s, rd |-> d, rs1 |-> r, imm |-> i]

\* A loop that calls a function, with a branch over the call; the function
\* returns.  The jump at 6 is indirect, with 1, 5 and 8 as other targets.
LoopAndCall ==
  (1 :> Inst("OTHER", 1, "other", "other", 0)) @@
  (2 :> Inst("BRANCH", 1, "other", "other", 4)) @@
  (3 :> Inst("JAL", 2, "x1", "other", 5)) @@
  (5 :> Inst("C_J", 1, "other", "other", -4)) @@
  (6 :> Inst("JALR", 2, "other", "other", 0)) @@
  (8 :> Inst("BRANCH", 1, "other", "other", -7)) @@
  (9 :> Inst("C_JR", 1, "other", "x1", 0))

\* Calls within calls, a coroutine swap, and traps.
Nested ==
  (1 :> Inst("C_JALR", 1, "x1", "other", 0)) @@
  (2 :> Inst("OTHER", 1, "other", "other", 0)) @@
  (3 :> Inst("BRANCH", 1, "other", "other", -2)) @@
  (4 :> Inst("ECALL", 2, "other", "other", 0)) @@
  (6 :> Inst("JALR", 2, "x5", "x1", 0)) @@
  (8 :> Inst("C_JR", 1, "other", "x5", 0)) @@
  (9 :> Inst("XRET", 2, "other", "other", 0))

\* A loop with one branch and an indirect jump, short enough for two cores.
ShortLoop ==
  (1 :> Inst("BRANCH", 1, "other", "other", 1)) @@
  (2 :> Inst("C_JR", 1, "other", "other", 0))
=============================================================================
