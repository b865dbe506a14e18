----------------------------- MODULE TextMessages -----------------------------
(***************************************************************************)
(* What ITC print promises for one core: the text written comes out as     *)
(* messages, each once and in order, cut at the terminators, with the      *)
(* times of the first and the last write to it.  Text for which there is   *)
(* no room is lost from the end of a write.                                *)
(***************************************************************************)
EXTENDS Integers, Sequences

CONSTANTS Words, Strings, Times, NUL, EOL

VARIABLES
  messages,  \* ended and not fetched, oldest first
  open,      \* the message in progress, or NoMessage
  fetched    \* what the last call gave the client, NoMessage if nothing

NoMessage == [text |-> <<>>, startTime |-> 0, endTime |-> 0]

\* Text s, of one write at time t, is added to the open message m.
Extended(m, s, t) ==
  [text |-> m.text \o s,
   startTime |-> IF m = NoMessage THEN t ELSE m.startTime, endTime |-> t]

Prefixes(s) == {SubSeq(s, 1, n) : n \in 0..Len(s)}

Last(s) == s[Len(s)]
Cut(s) == SubSeq(s, 1, Len(s) - 1)

\* A word has a terminator at its end at most; a line end belongs to the text.
Write(w, t) ==
  /\ \E s \in Prefixes(w) :
       IF s # <<>> /\ Last(s) \in {NUL, EOL}
       THEN /\ messages' = Append(messages,
                                  Extended(open, IF Last(s) = EOL THEN s ELSE Cut(s), t))
            /\ open' = NoMessage
       ELSE /\ open' = Extended(open, s, t)
            /\ UNCHANGED messages
  /\ fetched' = NoMessage

\* A string is a message of its own and ends the one in progress.
WriteString(str, t) ==
  /\ \E s \in Prefixes(str) :
       messages' = (IF open = NoMessage THEN messages ELSE Append(messages, open))
                   \o <<Extended(NoMessage, s, t)>>
  /\ open' = NoMessage
  /\ fetched' = NoMessage

Fetch ==
  /\ messages # <<>>
  /\ fetched' = Head(messages)
  /\ messages' = Tail(messages)
  /\ UNCHANGED open

\* Without an ended message a flush gives the one in progress.
Flush ==
  /\ messages = <<>> /\ open.text # <<>>
  /\ fetched' = open
  /\ open' = NoMessage
  /\ UNCHANGED messages

LookAway == fetched' = NoMessage /\ UNCHANGED <<messages, open>>

Init == messages = <<>> /\ open = NoMessage /\ fetched = NoMessage

Next ==
  \/ \E t \in Times : \/ \E w \in Words : Write(w, t)
                      \/ \E s \in Strings : WriteString(s, t)
  \/ Fetch \/ Flush \/ LookAway

Spec == Init /\ [][Next]_<<messages, open, fetched>>
=============================================================================
