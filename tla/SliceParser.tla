---------------------------- MODULE SliceParser ----------------------------
(***************************************************************************)
(* SliceFileParser: it reads messages, each a run of slices, from a file   *)
(* or from the socket of an SWT server.  The socket does not block: it     *)
(* gives any part of what was sent, into a ring, and a message that is not *)
(* complete is gone on with in a later call.  The SWT server has seen the  *)
(* same bytes before, and puts together the data-acquisition messages in   *)
(* them with a parser of its own (NexusSliceUnwrapper and                  *)
(* NexusMessageReassembler).                                               *)
(***************************************************************************)
EXTENDS SliceFields, SequencesExt

CONSTANTS
  BufSize,      \* sizeof sockBuffer
  MsgMax,       \* sizeof msg
  DataMax,      \* bits of a field that the server keeps: sizeof(data)*8
  Messages,     \* messages a target sends
  SoleMessages, \* bound of the model: messages it sends alone
  Noise,        \* single slices that a corrupted message leaves
  Junk,         \* runs of slices that end like a message and are none
  MaxBytes,     \* bound of the model: bytes sent, up to one message more
  MaxNoise      \* bound of the model: slices of noise

ASSUME ParserAssumption ==
  /\ BufSize \in Nat \ {0, 1} /\ MsgMax \in Nat \ {0} /\ DataMax \in Nat /\ MaxBytes \in Nat /\ MaxNoise \in Nat
  /\ Noise \subseteq 0..255 /\ Junk \subseteq Seq(0..255)
  /\ \A m \in Messages \cup SoleMessages : Build(m) \in Seq(0..255)

\* A run of slices that begins like a message and ends where it does
StartsMessage(b) == b # 0 /\ Mseo(b) = Normal
Framed(slices) ==
  LET n == Len(slices) IN
  /\ n > 1 /\ StartsMessage(slices[1])
  /\ \A k \in 1..n : Mseo(slices[k]) = MsgEnd <=> k = n

\* A message by itself is read as it was built.
ASSUME MessagesAssumption ==
  /\ \A m \in Messages \cup SoleMessages :
       Framed(Build(m)) /\ Parse(Build(m)) = [rc |-> "OK", m |-> m]
  /\ \A slices \in Junk : Framed(slices)

VARIABLES
  medium,    \* "file" or "socket"
  link,      \* "up", "ended" (the file is complete), or "reset"
  stream,    \* all bytes sent
  arrived,   \* how many of them are at the socket
  received,  \* how many of those recv has given
  seen,      \* how many of them the parser has taken
  ring,      \* sockBuffer, bufferInIndex, bufferOutIndex
  parser,    \* where readNextTraceMsg is, its slices, attempts and status
  got,       \* the messages it returned
  server,    \* the server's parser
  printed,   \* the messages that one has put together
  sent,      \* history: what was sent, as MessageChannel has it, with its last byte
  open,      \* history: the bytes sent end inside a message
  noises     \* how many slices of noise were sent

channel == <<link, stream, arrived, server, printed, sent, open, noises>>
vars == <<medium, link, stream, arrived, received, seen, ring, parser, got, server, printed, sent, open, noises>>
-----------------------------------------------------------------------------
(* The ring: bufferSWT.                                                    *)

Empty(r) == r.in = r.out

\* Mutant: an out index of 0 is not looked at.
RoomFull(r) ==
  IF Empty(r) THEN BufSize - 1
  ELSE IF r.in < r.out THEN r.out - r.in - 1
  ELSE BufSize - r.in

\* Mutant: an empty ring is taken for a full one.
RoomEmpty(r) ==
  IF r.in <= r.out THEN r.out - r.in - 1
  ELSE BufSize - r.in - (IF r.out = 0 THEN 1 ELSE 0)

\* How much the first recv asks for
Room(r) ==
  IF Empty(r) THEN BufSize - 1
  ELSE IF r.in < r.out THEN r.out - r.in - 1
  ELSE BufSize - r.in - (IF r.out = 0 THEN 1 ELSE 0)

Stored(buf, at, bytes) ==
  [i \in DOMAIN buf |-> IF i \in at..(at + Len(bytes) - 1) THEN bytes[i - at + 1] ELSE buf[i]]

\* Mutant: the in index is not set back at the end of the ring.
FirstRecvNoWrap(r, bytes) ==
  IF bytes = <<>> THEN r
  ELSE IF Empty(r) THEN [buf |-> Stored(r.buf, 0, bytes), in |-> Len(bytes), out |-> 0]
  ELSE [r EXCEPT !.buf = Stored(r.buf, r.in, bytes), !.in = r.in + Len(bytes)]

\* The first recv gave these bytes
FirstRecv(r, bytes) ==
  IF bytes = <<>> THEN r
  ELSE IF Empty(r) THEN [buf |-> Stored(r.buf, 0, bytes), in |-> Len(bytes), out |-> 0]
  ELSE [r EXCEPT !.buf = Stored(r.buf, r.in, bytes), !.in = (r.in + Len(bytes)) % BufSize]

\* What the second one asks for, when the first filled the ring to its end
SecondRoom(r, bytes) ==
  IF r.in > r.out /\ r.in + Len(bytes) >= BufSize THEN r.out - 1 ELSE 0

SecondRecv(r, bytes) ==
  IF bytes = <<>> THEN r ELSE [r EXCEPT !.buf = Stored(r.buf, 0, bytes), !.in = Len(bytes)]

\* getNumBytesInSWTQ's number
NumBytes(r) == IF r.in < r.out THEN BufSize - r.out + r.in ELSE r.in - r.out

Contents(r) == [k \in 1..NumBytes(r) |-> r.buf[(r.out + k - 1) % BufSize]]

\* Each recv gives what is there, as far as it asks for it.
Lesser(a, b) == IF a < b THEN a ELSE b
Arrived(from, room) == SubSeq(stream, from + 1, from + Lesser(room, arrived - from))

FirstBytes == Arrived(received, Room(ring))
SecondBytes == Arrived(received + Len(FirstBytes), SecondRoom(ring, FirstBytes))

\* bufferSWT
Buffered == SecondRecv(FirstRecv(ring, FirstBytes), SecondBytes)
CountReceived == received' = received + Len(FirstBytes) + Len(SecondBytes)
RecvFails == link = "reset" /\ Room(ring) > 0
-----------------------------------------------------------------------------
(* readBinaryMsg and readNextTraceMsg.                                     *)

Call ==
  /\ parser.pc = "idle" /\ parser.status = "OK"
  /\ medium = "file" => link = "ended"
  /\ parser' = [parser EXCEPT !.pc = IF parser.msg = <<>> THEN "first" ELSE "more", !.attempts = 3]
  /\ UNCHANGED <<medium, channel, received, seen, ring, got>>

Return(p) == [p EXCEPT !.pc = "idle"]
ReturnError(p, status) == [p EXCEPT !.pc = "idle", !.status = status]

\* Mutant: two attempts.
AfterMessageTwo(p, r) ==
  IF r.rc = "OK" THEN Return([p EXCEPT !.msg = <<>>])
  ELSE IF p.attempts > 2 THEN [p EXCEPT !.pc = "first", !.msg = <<>>, !.attempts = @ - 1]
  ELSE ReturnError([p EXCEPT !.msg = <<>>], r.rc)

\* Mutant: the slices of a message that came out are kept.
AfterMessageKeeps(p, r) ==
  IF r.rc = "OK" THEN Return(p)
  ELSE IF p.attempts > 1 THEN [p EXCEPT !.pc = "first", !.msg = <<>>, !.attempts = @ - 1]
  ELSE ReturnError([p EXCEPT !.msg = <<>>], r.rc)

\* The message is complete and r is what it parses to: three attempts per call.
AfterMessage(p, r) ==
  IF r.rc = "OK" THEN Return([p EXCEPT !.msg = <<>>])
  ELSE IF p.attempts > 1 THEN [p EXCEPT !.pc = "first", !.msg = <<>>, !.attempts = @ - 1]
  ELSE ReturnError([p EXCEPT !.msg = <<>>], r.rc)

\* A slice was taken: before the message, or of it.
First(b) ==
  /\ parser' = IF StartsMessage(b) THEN [parser EXCEPT !.pc = "more", !.msg = <<b>>] ELSE parser
  /\ UNCHANGED got

More(b) ==
  \E msg \in {Append(parser.msg, b)} :
    IF Mseo(b) # MsgEnd THEN parser' = [parser EXCEPT !.msg = msg] /\ UNCHANGED got
    ELSE \E r \in {Parse(msg)} :
           /\ parser' = AfterMessage(parser, r)
           /\ got' = IF r.rc = "OK" THEN Append(got, r.m) ELSE got

Reading == parser.pc \in {"first", "more"} /\ (parser.pc = "more" => Len(parser.msg) < MsgMax)
Take(b) == IF parser.pc = "first" THEN First(b) ELSE More(b)

\* A message longer than msg closes the socket or file.
Overflow ==
  /\ parser.pc = "more" /\ Len(parser.msg) >= MsgMax
  /\ parser' = ReturnError([parser EXCEPT !.msg = <<>>], "ERR")
  /\ UNCHANGED <<medium, channel, received, seen, ring, got>>

TakeFromSocket ==
  /\ medium = "socket" /\ Reading /\ ~RecvFails
  /\ seen' = seen + 1
  /\ UNCHANGED <<medium, channel>>
  /\ \E full \in {Buffered} :
       /\ ~Empty(full)
       /\ ring' = [full EXCEPT !.out = (@ + 1) % BufSize]
       /\ Take(full.buf[full.out])
  /\ CountReceived

\* Nothing there yet, or never: the call returns without a message.
NothingThere ==
  /\ medium = "socket" /\ Reading /\ ~RecvFails /\ Empty(Buffered)
  /\ parser' = Return(parser)
  /\ UNCHANGED <<medium, channel, received, seen, ring, got>>

SocketFails ==
  /\ medium = "socket" /\ Reading /\ RecvFails
  /\ parser' = ReturnError(parser, "ERR")
  /\ UNCHANGED <<medium, channel, received, seen, ring, got>>

TakeFromFile ==
  /\ medium = "file" /\ Reading /\ seen < Len(stream)
  /\ seen' = seen + 1
  /\ UNCHANGED <<medium, channel, received, ring>>
  /\ Take(stream[seen + 1])

FileEnds ==
  /\ medium = "file" /\ Reading /\ seen = Len(stream)
  /\ parser' = ReturnError(parser, "EOF")
  /\ UNCHANGED <<medium, channel, received, seen, ring, got>>

\* getNumBytesInSWTQ
GetNumBytesInSWTQ ==
  /\ medium = "socket" /\ parser.pc = "idle"
  /\ IF RecvFails
     THEN parser' = [parser EXCEPT !.status = "ERR"] /\ UNCHANGED <<ring, received>>
     ELSE ring' = Buffered /\ CountReceived /\ UNCHANGED parser
  /\ UNCHANGED <<medium, channel, seen, got>>

ReadNextTraceMsg ==
  Call \/ Overflow \/ TakeFromSocket \/ TakeFromFile \/ NothingThere \/ SocketFails \/ FileEnds
-----------------------------------------------------------------------------
(* The server's parser.                                                    *)

NoMessage == [src |-> 0, idtag |-> 0, dqdata |-> 0, timestamp |-> NoTimestamp]

StartOfMessage(b) ==
  [inMessage |-> TRUE, acceptingMessage |-> Mdo(b) = DATA_ACQUISITION, fieldcount |-> 0,
   overflowed |-> FALSE, data |-> <<>>, dataoverflowed |-> FALSE, dqm |-> NoMessage, wide |-> FALSE]

\* The field in s has more bits than the decoder takes for one; the server has place
\* for DataMax bits and does not refuse it.  Of a tag that is too wide nothing is
\* known, for it is put together with shifts beyond the width of its type.
TooWide(s) == 6 * Len(s.data) - (IF s.fieldcount = 0 THEN SrcBits ELSE 0) > VarMax
Undefined == -1

\* messageData: source and tag are one field here, a fourth field has no place.
MessageData(s) ==
  LET bits == Joined(s.data, 1, Len(s.data)) IN
  CASE s.dataoverflowed -> [s EXCEPT !.overflowed = TRUE]
    [] ~s.dataoverflowed /\ s.fieldcount = 0 ->
         [s EXCEPT !.dqm.src = bits % 2^SrcBits,
                   !.dqm.idtag = IF TooWide(s) THEN Undefined ELSE (bits \div 2^SrcBits) % 2^WordBits]
    [] ~s.dataoverflowed /\ s.fieldcount = 1 -> [s EXCEPT !.dqm.dqdata = bits % 2^WordBits]
    [] ~s.dataoverflowed /\ s.fieldcount = 2 -> [s EXCEPT !.dqm.timestamp = bits % 2^VarMax]
    [] OTHER -> s

EndsField(b) == Mseo(b) % 2 = 1
EndsMessage(b) == Mseo(b) \div 2 = 1

\* appendByte
AppendByte(s, b) ==
  IF ~s.inMessage THEN (IF Mseo(b) = Normal THEN StartOfMessage(b) ELSE s)
  ELSE LET t == IF 6 * Len(s.data) < DataMax - 6 THEN [s EXCEPT !.data = Append(@, b)]
                ELSE [s EXCEPT !.dataoverflowed = TRUE]
           u == [MessageData(t) EXCEPT !.data = <<>>, !.dataoverflowed = FALSE,
                                       !.wide = @ \/ TooWide(t)]
       IN IF Mseo(b) = Normal THEN t
          ELSE [u EXCEPT !.fieldcount = @ + (IF EndsField(b) THEN 1 ELSE 0),
                         !.inMessage = ~EndsMessage(b)]

\* Mutant: the number of fields is not looked at.
MessageReadyAnyCount(s, b) ==
  LET e == AppendByte(s, b) IN s.inMessage /\ ~e.inMessage /\ e.acceptingMessage /\ ~e.overflowed

\* endMessage and getMessage
MessageReady(s, b) ==
  LET e == AppendByte(s, b) IN
  s.inMessage /\ ~e.inMessage /\ e.acceptingMessage /\ e.fieldcount \in 2..3 /\ ~e.overflowed

Delivered(s) == [dqm |-> s.dqm, wide |-> s.wide]

\* appendByteAndCheckForMessage for all these bytes
ServerReads(bytes) ==
  LET before == FoldLeft(LAMBDA a, b : [s |-> AppendByte(a.s, b),
                                        out |-> IF MessageReady(a.s, b)
                                                THEN Append(a.out, Delivered(AppendByte(a.s, b)))
                                                ELSE a.out],
                         [s |-> server, out |-> printed], bytes)
  IN server' = before.s /\ printed' = before.out
-----------------------------------------------------------------------------
(* The target and the transport.                                           *)

CanSend ==
  /\ link = "up" /\ Len(stream) < MaxBytes
  /\ \A i \in DOMAIN sent : sent[i].clean => sent[i].m \in Messages
  /\ UNCHANGED <<medium, link, arrived, received, seen, ring, parser, got>>

\* Inside a message that lost its end, the next one's slices go on with it.
Sent(m, end) == IF open THEN [clean |-> FALSE, end |-> end] ELSE [clean |-> TRUE, end |-> end, m |-> m]

SendSlices(slices, entry) ==
  /\ CanSend
  /\ stream' = stream \o slices
  /\ sent' = Append(sent, entry)
  /\ ServerReads(slices)
  /\ open' = FALSE /\ UNCHANGED noises

SendMessage(m) == SendSlices(Build(m), Sent(m, Len(stream) + Len(Build(m))))
SendJunk(slices) == SendSlices(slices, [clean |-> FALSE, end |-> Len(stream) + Len(slices)])

SendNoise(b) ==
  /\ CanSend /\ noises < MaxNoise /\ noises' = noises + 1
  /\ stream' = Append(stream, b)
  /\ open' = IF open THEN Mseo(b) # MsgEnd ELSE StartsMessage(b)
  /\ sent' = IF open /\ Mseo(b) = MsgEnd THEN Append(sent, [clean |-> FALSE, end |-> Len(stream) + 1])
             ELSE sent
  /\ ServerReads(<<b>>)

\* Bound of the model: a socket fails in a stream without noise.
LinkEnds ==
  /\ link = "up" /\ (medium = "socket" => noises = 0)
  /\ link' = IF medium = "file" THEN "ended" ELSE "reset"
  /\ UNCHANGED <<medium, stream, arrived, received, seen, ring, parser, got, server, printed, sent, open, noises>>

Arrives ==
  /\ medium = "socket" /\ link = "up" /\ arrived < Len(stream)
  /\ arrived' = arrived + 1
  /\ UNCHANGED <<medium, link, stream, received, seen, ring, parser, got, server, printed, sent, open, noises>>

Target ==
  \/ \E m \in Messages \cup (IF stream = <<>> THEN SoleMessages ELSE {}) : SendMessage(m)
  \/ \E slices \in Junk : SendJunk(slices)
  \/ \E b \in Noise : SendNoise(b)

Init ==
  /\ medium \in {"file", "socket"}
  /\ link = "up" /\ stream = <<>> /\ arrived = 0 /\ received = 0 /\ seen = 0
  /\ ring = [buf |-> [i \in 0..(BufSize - 1) |-> 0], in |-> 0, out |-> 0]
  /\ parser = [pc |-> "idle", msg |-> <<>>, attempts |-> 0, status |-> "OK"]
  /\ got = <<>>
  /\ server = [StartOfMessage(0) EXCEPT !.inMessage = FALSE]
  /\ printed = <<>> /\ sent = <<>> /\ open = FALSE /\ noises = 0

Next == ReadNextTraceMsg \/ GetNumBytesInSWTQ \/ Arrives \/ Target \/ LinkEnds

\* The caller calls again and again, and what was sent arrives in the end.
Spec == Init /\ [][Next]_vars /\ WF_vars(ReadNextTraceMsg) /\ WF_vars(Arrives) /\ WF_vars(medium = "file" /\ LinkEnds)
-----------------------------------------------------------------------------
(* Properties.                                                             *)

\* The indices stay in the ring, and slices in msg.
TypeOK ==
  /\ ring.in \in 0..(BufSize - 1) /\ ring.out \in 0..(BufSize - 1)
  /\ received <= arrived /\ seen <= Len(stream)
  /\ parser.pc \in {"idle", "first", "more"}
  /\ parser.attempts \in 0..3 /\ Len(parser.msg) <= MsgMax
  /\ parser.status \in {"OK", "EOF", "ERR", "EOM", "BM"}

\* The ring holds what recv gave and the parser has not taken, in order: nothing
\* is overwritten, skipped or seen twice, and a full ring does not look empty.
RingHoldsStream ==
  medium = "socket" => Contents(ring) = SubSeq(stream, seen + 1, received)

Passed == Cardinality({i \in DOMAIN sent : sent[i].end <= seen})

\* However recv cuts the bytes, from file or socket, and whatever noise comes in
\* between: messages come out unchanged, in order and once, but for those that run
\* into another that lost its end.
Channel ==
  INSTANCE MessageChannel WITH
    sent <- [i \in DOMAIN sent |-> IF sent[i].clean THEN [clean |-> TRUE, m |-> sent[i].m]
                                  ELSE [clean |-> FALSE]],
    passed <- Passed,
    out <- got

MessagesComeOut == Channel!Init /\ [][Channel!Next]_(Channel!vars)

\* Reading stops for good only when the socket fails, at three damaged messages in a
\* row, or at one that is too long.
StopsForDamage ==
  parser.status \in {"ERR", "EOM", "BM"} =>
    \/ link = "reset"
    \/ Passed >= 3 /\ \A i \in (Passed - 2)..Passed : ~sent[i].clean
    \/ seen >= MsgMax /\ \A i \in DOMAIN sent : sent[i].end \notin (seen - MsgMax + 1)..seen

\* The decoder and the server, each with its own parser, find the same
\* data-acquisition messages in the same bytes, damaged ones included, but for those
\* with a field too wide for the decoder, which only the server delivers.  It may
\* miss the one behind a null slice and delivers none that the decoder does not.
\* Slices with the reserved MSEO are left out.
ServerView(m) ==
  [src |-> m.src, idtag |-> m.fields[1], dqdata |-> m.fields[2], timestamp |-> m.timestamp]
DataMessages ==
  LET ms == SelectSeq(got, LAMBDA m : m.tcode = DATA_ACQUISITION)
  IN [i \in DOMAIN ms |-> ServerView(ms[i])]
NarrowMessages ==
  LET es == SelectSeq(printed, LAMBDA e : ~e.wide) IN [i \in DOMAIN es |-> es[i].dqm]

\* s is t without some of its elements: each finds its like, from the front on.
IsWithin(s, t) ==
  FoldLeft(LAMBDA rest, x : IF rest # <<>> /\ Head(rest) = x THEN Tail(rest) ELSE rest, s, t) = <<>>

SameMessages ==
  (/\ seen = Len(stream) /\ parser.status \in {"OK", "EOF"}
   /\ \A i \in DOMAIN stream : Mseo(stream[i]) # 2) =>
    /\ IsWithin(NarrowMessages, DataMessages)
    /\ (\A i \in DOMAIN stream : stream[i] # 0) =>
         NarrowMessages = DataMessages /\ server.inMessage = (parser.msg # <<>>)

\* What was sent is read: a message that is waiting for its rest, or a full ring,
\* never holds up reading.
EverythingIsRead == []<>(seen = Len(stream) \/ parser.status # "OK")
=============================================================================
