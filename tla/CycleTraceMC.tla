---------------------------- MODULE CycleTraceMC ----------------------------
EXTENDS CycleTrace

(* Vector instructions of all types, of which two share a finish or not,   *)
(* with a scalar instruction between or behind them, and scalar code with  *)
(* a jump that nextCAAddr cannot follow.                                   *)
VectorAndScalar ==
    { <<"VECT_ARITH", "SCALER", "VECT_ARITH">>,
      <<"VECT_AMO_WW", "VECT_LOAD">>,
      <<"SCALER", "VECT_STORE", "SCALER">>,
      <<"SCALER", "SCALER", "JALR", "SCALER">> }

(* The instruction trace may begin up to three instructions behind, or two *)
(* before, the cycle-accurate one.                                         *)
BeforeAndAfter == {-2, -1, 0, 1}

ClearOrSet == {{}, Pipes \cup VectorFlags}
=============================================================================
