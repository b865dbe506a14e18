-------------------------------- MODULE Fanout --------------------------------
(***************************************************************************)
(* What the SWT server promises: the bytes read from the serial device are *)
(* passed on in the order read, each chunk to every client connected but   *)
(* those whose queue is too long at that moment.                           *)
(***************************************************************************)
EXTENDS Naturals, Sequences

VARIABLES
  heard,    \* bytes read from the device
  passed,   \* how many of them were passed on
  feed,     \* per client, what it was given: received or still under way
  on,       \* clients connected
  behind    \* clients with too long a queue

vars == <<heard, passed, feed, on>>

Init == heard = <<>> /\ passed = 0 /\ on = {}

\* A chunk is given to the clients that stay.
Give(chunk) ==
  \A c \in on' :
    feed'[c] = IF c \notin on THEN <<>>
               ELSE IF c \in behind THEN feed[c] ELSE feed[c] \o chunk

MoreHeard == SubSeq(heard', 1, Len(heard)) = heard

Connections == Give(<<>>) /\ UNCHANGED <<heard, passed>>

Hear == MoreHeard /\ Give(<<>>) /\ UNCHANGED passed

\* In select mode a chunk is passed on as soon as it is heard.
PassOn ==
  /\ MoreHeard
  /\ passed' \in (passed + 1)..Len(heard')
  /\ heard' = heard \/ (passed = Len(heard) /\ passed' = Len(heard'))
  /\ Give(SubSeq(heard', passed + 1, passed'))

Next == Connections \/ Hear \/ PassOn
=============================================================================
