--------------------------- MODULE ExecutionStream ---------------------------
(***************************************************************************)
(* What a trace decoder promises for one core: it returns the instructions *)
(* that the core executed under trace, in the order in which they were     *)
(* executed, each once; what is missing was lost in a gap.                 *)
(***************************************************************************)
EXTENDS Naturals, Sequences

VARIABLES
  executed,   \* instructions executed and not yet returned, oldest first
  returned    \* the instruction returned last, <<>> when it has been looked at

Execute ==
  /\ Len(executed') = Len(executed) + 1
  /\ SubSeq(executed', 1, Len(executed)) = executed
  /\ returned' = <<>>

Return ==
  /\ executed # <<>>
  /\ returned' = <<Head(executed)>>
  /\ executed' = Tail(executed)

\* A contiguous part of what was executed will never be returned.
Gap ==
  /\ \E i \in 0..Len(executed) : \E j \in i..Len(executed) :
       executed' = SubSeq(executed, 1, i) \o SubSeq(executed, j + 1, Len(executed))
  /\ returned' = <<>>

Init == executed = <<>> /\ returned = <<>>

Next == Execute \/ Return \/ Gap

Spec == Init /\ [][Next]_<<executed, returned>>
=============================================================================
