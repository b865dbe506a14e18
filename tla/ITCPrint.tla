------------------------------- MODULE ITCPrint -------------------------------
(***************************************************************************)
(* Class ITCPrint: text that the cores of the target write, a word of up   *)
(* to four characters at a time, to their ITC print channel, and strings   *)
(* that no-load-string (NLS) writes stand for.  Both are kept in one ring  *)
(* of characters per core until a client fetches them as messages; a       *)
(* message ends with a stored NUL.  A TsList node per message keeps its    *)
(* times: the nodes of a core form a circular list through prev and next,  *)
(* from the newest (tsList) to older ones by next and to the oldest by     *)
(* prev.  Nodes no longer used are on one free list, shared by all cores.  *)
(*                                                                         *)
(* Left out: the choice of the channel, and how an NLS string is formatted *)
(* (Strings holds the outcomes).                                           *)
(***************************************************************************)
EXTENDS Integers, Sequences, FiniteSets

CONSTANTS
  Core,
  Node,        \* TsList objects; bound of the model: how many "new" can give
  None,        \* nullptr
  BuffSize,    \* characters of each ring
  Words,       \* what a print-channel write can hold
  Strings,     \* the formatted no-load strings
  DstLens,     \* sizes of the buffers a client fetches into
  MaxPending,  \* bound of the model: with more messages waiting the client fetches first
  NLSRoom,     \* bound of the model: room that is left before an NLS write
  MaxTime      \* bound of the model: number of writes

NUL == "NUL"
EOL == "EOL"      \* \n or \r

ASSUME ITCAssumption ==
  /\ None \notin Node /\ IsFiniteSet(Node)
  /\ BuffSize \in Nat \ {0}
  /\ \A w \in Words \cup Strings : w \in Seq({w[n] : n \in DOMAIN w})
  /\ \A s \in Strings : \A n \in DOMAIN s : s[n] # NUL
  /\ DstLens \subseteq Nat \ {0}
  /\ MaxPending \in Nat /\ NLSRoom \in Nat /\ MaxTime \in Nat

VARIABLES
  ring,    \* per core: the buffer, its indices and the count of messages
  tsList,  \* per core: its newest node, or None
  node,    \* the fields of the nodes
  freeList,
  unused,  \* nodes not created yet
  clock,   \* time stamp of the last write
  out,     \* what the last call returned, <<>> if nothing
  crashed  \* a null pointer was followed

vars == <<ring, tsList, node, freeList, unused, clock, out, crashed>>

NewRing ==
  [pbuff |-> [n \in 0..(BuffSize - 1) |-> "?"], pbi |-> 0, pbo |-> 0, numMsgs |-> 0]

NewNode == [prev |-> None, next |-> None, terminated |-> FALSE, startTime |-> 0, endTime |-> 0]

\* Mutant: the index does not wrap.
AfterNoWrap(n) == n + 1

After(n) == IF n + 1 >= BuffSize THEN 0 ELSE n + 1

\* roomInITCPrintQ
Room(r) ==
  IF r.pbi > r.pbo THEN BuffSize - r.pbi + r.pbo - 1
  ELSE IF r.pbi < r.pbo THEN r.pbo - r.pbi - 1
  ELSE BuffSize - 1

Put(r, ch) == [r EXCEPT !.pbuff[r.pbi] = ch, !.pbi = After(@)]

EndMessage(r) == [Put(r, NUL) EXCEPT !.numMsgs = @ + 1]

-----------------------------------------------------------------------------
(* Nodes.  A heap h is the record of the node fields, the free list and    *)
(* the lists of the cores; h.ok is FALSE when null was dereferenced.       *)

Heap == [node |-> node, free |-> freeList, lists |-> tsList, unused |-> unused, ok |-> TRUE]

CanTake == freeList # None \/ unused # {}

\* Mutant: the flag of a reused node stays.
TakeKeepsFlag(h) ==
  IF h.free # None
  THEN [w |-> h.free, h |-> [h EXCEPT !.free = h.node[h.free].next]]
  ELSE LET w == CHOOSE n \in h.unused : TRUE
       IN [w |-> w, h |-> [h EXCEPT !.unused = @ \ {w}, !.node[w] = NewNode]]

\* A node from the free list, else a new one.
Take(h) ==
  IF h.free # None
  THEN [w |-> h.free, h |-> [h EXCEPT !.free = h.node[h.free].next,
                                      !.node[h.free].terminated = FALSE]]
  ELSE LET w == CHOOSE n \in h.unused : TRUE
       IN [w |-> w, h |-> [h EXCEPT !.unused = @ \ {w}, !.node[w] = NewNode]]

\* Mutant: the new node is linked behind the newest instead of the oldest.
NewMessageSwapped(h0, c, t) ==
  LET tl    == h0.lists[c]
      taken == Take(h0)
      w     == taken.w
      h     == taken.h
      timed(n) == [n EXCEPT ![w].startTime = t, ![w].endTime = t]
  IN IF tl = None
     THEN [h EXCEPT !.lists[c] = w, !.node = timed([@ EXCEPT ![w].next = w, ![w].prev = w])]
     ELSE [h EXCEPT !.lists[c] = w,
                    !.node = timed([@ EXCEPT ![w].next = tl, ![w].prev = w, ![tl].prev = w])]

\* A new newest node of core c, linked between the newest and the oldest.
NewMessage(h0, c, t) ==
  LET tl    == h0.lists[c]
      taken == Take(h0)
      w     == taken.w
      h     == taken.h
      timed(n) == [n EXCEPT ![w].startTime = t, ![w].endTime = t]
  IN IF tl = None
     THEN [h EXCEPT !.lists[c] = w, !.node = timed([@ EXCEPT ![w].next = w, ![w].prev = w])]
     ELSE LET n1 == [h.node EXCEPT ![w].next = tl, ![w].prev = h.node[tl].prev]
              n2 == [n1 EXCEPT ![tl].prev = w]
              p  == n2[w].prev
          IN IF p = None THEN [h EXCEPT !.ok = FALSE]
             ELSE [h EXCEPT !.lists[c] = w, !.node = timed([n2 EXCEPT ![p].next = w])]

\* Mutant: the node stays the newest when it was the only one.
UnlinkKeepsLast(h, c, w) ==
  LET tl == h.lists[c]
      n1 == [h.node EXCEPT ![tl].prev = h.node[w].prev]
      n2 == IF n1[tl].next = w THEN [n1 EXCEPT ![tl].next = n1[w].next] ELSE n1
  IN [h EXCEPT !.node = [n2 EXCEPT ![w].next = h.free, ![w].prev = None], !.free = w]

\* Node w of core c is taken off its list and put on the free list.
Unlink(h, c, w) ==
  LET tl == h.lists[c]
      n1 == [h.node EXCEPT ![tl].prev = h.node[w].prev]
      n2 == IF n1[tl].next = w THEN [n1 EXCEPT ![tl].next = n1[w].next] ELSE n1
      last == h.node[w].next = w
      freed(n) == [n EXCEPT ![w].next = h.free, ![w].prev = None]
  IN [h EXCEPT !.lists[c] = IF last THEN None ELSE @,
               !.node = IF last THEN freed(@) ELSE freed(n2),
               !.free = w]

Use(h) ==
  IF h.ok
  THEN /\ tsList' = h.lists /\ node' = h.node /\ freeList' = h.free /\ unused' = h.unused
       /\ crashed' = FALSE
  ELSE crashed' = TRUE /\ UNCHANGED <<tsList, node, freeList, unused>>

-----------------------------------------------------------------------------
(* print                                                                   *)

\* Mutant: a line end does not end the message.
PutCharStaysOpen(s, ch) ==
  IF s.room < 2 THEN s
  ELSE CASE ch = NUL -> [r |-> EndMessage(s.r), room |-> s.room - 1, ended |-> TRUE]
         [] ch = EOL -> [s EXCEPT !.r = EndMessage(Put(@, EOL)), !.room = @ - 2]
         [] OTHER    -> [s EXCEPT !.r = Put(@, ch), !.room = @ - 1]

\* Mutant: no room is kept for the NUL.
PutCharAnyRoom(s, ch) ==
  IF s.room < 1 THEN s
  ELSE CASE ch = NUL -> [r |-> EndMessage(s.r), room |-> s.room - 1, ended |-> TRUE]
         [] ch = EOL -> [r |-> EndMessage(Put(s.r, EOL)), room |-> s.room - 2, ended |-> TRUE]
         [] OTHER    -> [s EXCEPT !.r = Put(@, ch), !.room = @ - 1]

\* One character of a word; a line end is stored and followed by a NUL.  Room
\* is kept for the NUL that ends a message.
PutChar(s, ch) ==
  IF s.room < 2 THEN s
  ELSE CASE ch = NUL -> [r |-> EndMessage(s.r), room |-> s.room - 1, ended |-> TRUE]
         [] ch = EOL -> [r |-> EndMessage(Put(s.r, EOL)), room |-> s.room - 2, ended |-> TRUE]
         [] OTHER    -> [s EXCEPT !.r = Put(@, ch), !.room = @ - 1]

PutAll(r, w) ==
  LET s[n \in 0..Len(w)] ==
        IF n = 0 THEN [r |-> r, room |-> Room(r), ended |-> FALSE] ELSE PutChar(s[n - 1], w[n])
  IN s[Len(w)]

\* Core c has a message in progress.
Open(c) == tsList[c] # None /\ ~node[tsList[c]].terminated

MayWrite(c) ==
  /\ ~crashed /\ CanTake
  /\ clock < MaxTime /\ clock' = clock + 1
  /\ ring[c].numMsgs <= MaxPending

MayWriteString(c) ==
  /\ MayWrite(c) /\ Room(ring[c]) >= NLSRoom
  /\ ring[c].numMsgs + (IF Open(c) THEN 1 ELSE 0) <= MaxPending

\* A write of word w to the print channel; a terminating NUL that does not
\* count is stored behind it.
PrintWord(c, w) ==
  /\ MayWrite(c)
  /\ LET h  == IF Open(c) THEN Heap ELSE NewMessage(Heap, c, clock')
         s  == PutAll(ring[c], w)
         n  == h.lists[c]
     IN /\ Use(IF h.ok THEN [h EXCEPT !.node[n].endTime = clock',
                                      !.node[n].terminated = @ \/ s.ended]
               ELSE h)
        /\ ring' = IF h.ok THEN [ring EXCEPT ![c] = [s.r EXCEPT !.pbuff[s.r.pbi] = NUL]] ELSE ring
  /\ out' = <<>>

\* The text of an NLS string, as much of it as there is room for.
PutString(r, str) ==
  LET s[n \in 0..Len(str)] ==
        IF n = 0 THEN [r |-> r, room |-> Room(r)]
        ELSE IF s[n - 1].room < 2 THEN s[n - 1]
        ELSE [r |-> Put(s[n - 1].r, str[n]), room |-> s[n - 1].room - 1]
  IN s[Len(str)].r

\* An NLS write ends the message in progress and is a message of its own.  The
\* two NULs are stored without a look at the room.
PrintString(c, str) ==
  /\ MayWriteString(c)
  /\ LET tl   == tsList[c]
         open == Open(c)
         r    == IF open THEN EndMessage(ring[c]) ELSE ring[c]
         h    == NewMessage(IF open THEN [Heap EXCEPT !.node[tl].terminated = TRUE] ELSE Heap,
                            c, clock')
     IN /\ Use(IF h.ok THEN [h EXCEPT !.node[h.lists[c]].terminated = TRUE] ELSE h)
        /\ ring' = IF h.ok THEN [ring EXCEPT ![c] = EndMessage(PutString(r, str))] ELSE ring
  /\ out' = <<>>

-----------------------------------------------------------------------------
(* Fetching.                                                               *)

\* The characters of r from pbo up to the next NUL, but no more than max.
Copied(r, max) ==
  LET at(n)  == r.pbuff[(r.pbo + n) % BuffSize]
      nuls   == {n \in 0..(BuffSize - 1) : at(n) = NUL}
      toNul  == IF nuls = {} THEN BuffSize ELSE CHOOSE n \in nuls : \A m \in nuls : n <= m
  IN [n \in 1..(IF toNul < max THEN toNul ELSE max) |-> at(n - 1)]

Advance(r, n) == [r EXCEPT !.pbo = (@ + n) % BuffSize]

Given(c, w, text) ==
  [core |-> c, text |-> text, startTime |-> node[w].startTime, endTime |-> node[w].endTime]

Nothing == out' = <<>> /\ UNCHANGED <<ring, tsList, node, freeList, unused, crashed>>

\* getITCPrintMsg and, with a length no message reaches, getITCPrintStr: the
\* oldest message; when its node is not there an error is printed.
Get(c, len) ==
  /\ ring[c].numMsgs > 0
  /\ LET tl  == tsList[c]
         old == IF tl = None THEN None ELSE node[tl].prev
         text == Copied(ring[c], len - 1)
     IN CASE tl # None /\ old = None -> crashed' = TRUE /\ out' = <<>>
                                        /\ UNCHANGED <<ring, tsList, node, freeList, unused>>
          [] tl = None \/ (old # None /\ ~node[old].terminated) -> Nothing
          [] OTHER ->
               /\ Use(Unlink(Heap, c, old))
               /\ ring' = [ring EXCEPT ![c] =
                             [Advance(ring[c], Len(text) + 1) EXCEPT !.numMsgs = @ - 1]]
               /\ out' = Given(c, old, text)

Fetch(c, len) == ~crashed /\ Get(c, len) /\ UNCHANGED clock

\* flushITCPrintMsg and flushITCPrintStr: also the message in progress.
Flush(c, len) ==
  /\ ~crashed
  /\ IF ring[c].numMsgs > 0 THEN Get(c, len)
     ELSE /\ ring[c].pbo # ring[c].pbi
          /\ LET tl == tsList[c]
                 text == Copied(ring[c], len - 1)
             IN IF tl = None THEN Nothing
                ELSE /\ Use(Unlink(Heap, c, tl))
                     /\ IF node[tl].terminated THEN out' = <<>> /\ UNCHANGED ring
                        ELSE /\ out' = Given(c, tl, text)
                             /\ ring' = [ring EXCEPT ![c] = Advance(@, Len(text))]
  /\ UNCHANGED clock

Init ==
  /\ ring = [c \in Core |-> NewRing]
  /\ tsList = [c \in Core |-> None]
  /\ node = [n \in Node |-> NewNode]
  /\ freeList = None /\ unused = Node
  /\ clock = 0 /\ out = <<>> /\ crashed = FALSE

Next ==
  \E c \in Core :
    \/ \E w \in Words : PrintWord(c, w)
    \/ \E s \in Strings : PrintString(c, s)
    \/ \E len \in DstLens : Fetch(c, len) \/ Flush(c, len)

Spec == Init /\ [][Next]_vars
-----------------------------------------------------------------------------
(* Properties.                                                             *)

\* The characters between pbo and pbi, and the ends of messages among them.
Content(r) ==
  [n \in 1..((r.pbi - r.pbo) % BuffSize) |-> r.pbuff[(r.pbo + n - 1) % BuffSize]]

Ends(r) == {n \in DOMAIN Content(r) : Content(r)[n] = NUL}

\* The nodes of core c: Older(c)[0] is its newest, Older(c)[1] its oldest node.
Older(c) ==
  LET w[n \in 0..Cardinality(Node)] ==
        IF n = 0 THEN tsList[c] ELSE IF w[n - 1] = None THEN None ELSE node[w[n - 1]].prev
  IN w

NodesOf(c) == {Older(c)[n] : n \in DOMAIN Older(c)} \ {None}

FreeNodes ==
  LET w[n \in 0..Cardinality(Node)] ==
        IF n = 0 THEN freeList ELSE IF w[n - 1] = None THEN None ELSE node[w[n - 1]].next
  IN {w[n] : n \in DOMAIN w} \ {None}

\* The variables hold what their declarations allow.
TypeOK ==
  /\ \A c \in Core : /\ ring[c].pbi \in 0..(BuffSize - 1) /\ ring[c].pbo \in 0..(BuffSize - 1)
                     /\ ring[c].numMsgs \in Nat
  /\ tsList \in [Core -> Node \cup {None}]
  /\ \A n \in Node : node[n].prev \in Node \cup {None} /\ node[n].next \in Node \cup {None}
  /\ crashed \in BOOLEAN

\* numMsgs counts the messages that are in the ring: the ring is never overrun
\* by what print stores, and fetching moves from message to message.
CountsItsMessages == \A c \in Core : ring[c].numMsgs = Cardinality(Ends(ring[c]))

\* A message that is announced can be fetched: its node is there and ended.
\* ("Data for consecutive ITC channel n's will be concatenated and display as a
\* string until a terminating \n or \0 is found.")
AnnouncedCanBeFetched ==
  \A c \in Core : ring[c].numMsgs > 0 =>
    /\ tsList[c] # None
    /\ node[tsList[c]].prev # None
    /\ node[node[tsList[c]].prev].terminated

\* Each node is on one list: those of the cores and the free list share none, a
\* core has a node for each message, and prev and next agree.
NodesAreOwned ==
  /\ \A c \in Core :
       /\ NodesOf(c) \cap (FreeNodes \cup unused) = {}
       /\ \A d \in Core \ {c} : NodesOf(c) \cap NodesOf(d) = {}
       /\ Cardinality(NodesOf(c)) = ring[c].numMsgs + (IF Open(c) THEN 1 ELSE 0)
       /\ \A w \in NodesOf(c) : node[w].prev # None /\ node[node[w].prev].next = w
  /\ FreeNodes \cup unused \cup UNION {NodesOf(c) : c \in Core} = Node

\* The node before the newest is the oldest of its core ("tsl now points to the
\* newest tslist object.  We want the oldest, which will be tsl->prev").
PrevIsOldest ==
  \A c \in Core : tsList[c] # None =>
    /\ node[tsList[c]].prev # None
    /\ \A w \in NodesOf(c) : node[node[tsList[c]].prev].startTime <= node[w].startTime

\* ITCPrint implements TextMessages for each core.  The n-th message is the text
\* between two ends, with the times of the n-th oldest node.
Message(c, n) ==
  LET r == ring[c]
      end(k) == CHOOSE e \in Ends(r) : Cardinality({f \in Ends(r) : f <= e}) = k
      w == Older(c)[n]
  IN [text |-> SubSeq(Content(r), IF n = 1 THEN 1 ELSE end(n - 1) + 1, end(n) - 1),
      startTime |-> node[w].startTime, endTime |-> node[w].endTime]

Messages(c) == [n \in 1..Cardinality(Ends(ring[c])) |-> Message(c, n)]

NoMessage == [text |-> <<>>, startTime |-> 0, endTime |-> 0]

Rest(r) ==
  LET last == {n \in Ends(r) : \A m \in Ends(r) : m <= n}
  IN SubSeq(Content(r), IF last = {} THEN 1 ELSE (CHOOSE n \in last : TRUE) + 1, Len(Content(r)))

InProgress(c) ==
  IF Open(c)
  THEN [text |-> Rest(ring[c]), startTime |-> node[tsList[c]].startTime,
        endTime |-> node[tsList[c]].endTime]
  ELSE NoMessage

Fetched(c) ==
  IF out # <<>> /\ out.core = c
  THEN [text |-> out.text, startTime |-> out.startTime, endTime |-> out.endTime]
  ELSE NoMessage

Text(c) == INSTANCE TextMessages
  WITH messages <- Messages(c), open <- InProgress(c), fetched <- Fetched(c),
       Times <- 1..MaxTime

\* Each core's text comes out whole, in order, once, and with its times, although
\* the cores share the free list and the rings wrap and fill up.
TextComesOut ==
  /\ \A c \in Core : Text(c)!Init
  /\ [][\A c \in Core : [Text(c)!Next]_<<Messages(c), InProgress(c), Fetched(c)>>]_vars
=============================================================================
