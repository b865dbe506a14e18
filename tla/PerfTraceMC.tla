----------------------------- MODULE PerfTraceMC -----------------------------
(***************************************************************************)
(* Small words for PerfTrace: 7 bits for 32, 4 values of a high half.      *)
(***************************************************************************)
EXTENDS PerfTrace

\* Counters 0 and 3 on one core, and 3 and 4, both programmable, on another.
MCMasks == {<<0, 1>>, <<9, 24>>}
TwoEvents == {<<24>>}
MCAddresses == {<<0, 2>>, <<1, 4>>}
MCFunctions == {<<<<0, 2>>, <<1, 4>>>>, <<<<1, 4>>, <<0, 2>>>>}
MCValues == {<<1, 5>>, <<0, markerValue>>}
MCEventOf == [i \in 0..NumCntrs - 1 |-> <<0, i>>]
=============================================================================
