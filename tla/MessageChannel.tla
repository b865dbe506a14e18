--------------------------- MODULE MessageChannel ---------------------------
(***************************************************************************)
(* What a reader of Nexus messages promises, however the bytes reach it:   *)
(* messages come out in the order in which they were sent, each once and   *)
(* unchanged.  A message that was damaged on the way comes out as anything *)
(* or not at all, and does no harm to the ones that follow.                *)
(***************************************************************************)
EXTENDS Naturals, Sequences

VARIABLES
  sent,    \* what was sent: [clean |-> TRUE, m |-> message] or [clean |-> FALSE]
  passed,  \* how many of them the reader is through with
  out      \* the messages that came out

vars == <<sent, passed, out>>

Extends(s, t) == Len(s) = Len(t) + 1 /\ SubSeq(s, 1, Len(t)) = t

Init == sent = <<>> /\ passed = 0 /\ out = <<>>

Send == Extends(sent', sent) /\ UNCHANGED <<passed, out>>

Pass ==
  /\ passed < Len(sent)
  /\ passed' = passed + 1
  /\ LET s == sent[passed + 1] IN
     IF s.clean THEN out' = Append(out, s.m) ELSE out' = out \/ Extends(out', out)
  /\ UNCHANGED sent

Next == Send \/ Pass

Spec == Init /\ [][Next]_vars
=============================================================================
