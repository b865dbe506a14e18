-------------------------- MODULE SliceParserProofs --------------------------
(***************************************************************************)
(* Proofs about SliceParser, for rings, messages and noise of any size: the *)
(* ring of SliceFileParser holds the bytes of the stream, the parser takes *)
(* them from the socket as it would from a file, and what was sent comes   *)
(* out of it as MessageChannel promises.                                   *)
(***************************************************************************)
EXTENDS SliceParser, SequenceTheorems, FiniteSetTheorems, TLAPS

Byte == 0..255

Ring == [buf : [0..(BufSize - 1) -> Byte], in : 0..(BufSize - 1), out : 0..(BufSize - 1)]

\* Where the ring has its k-th byte.
Slot(r, k) == (r.out + k - 1) % BufSize

\* Ring r holds bytes from + 1..to of the stream.
Holds(r, from, to) ==
  /\ r \in Ring
  /\ to = from + NumBytes(r)
  /\ \A k \in 1..NumBytes(r) : r.buf[Slot(r, k)] = stream[from + k]

-----------------------------------------------------------------------------
(* The ring.                                                               *)

\* An index that ran over the end of the ring once.
LEMMA Wrapped ==
  ASSUME NEW a \in Nat, a < 2 * BufSize
  PROVE  a % BufSize = IF a < BufSize THEN a ELSE a - BufSize
<1>1. BufSize \in Nat \ {0}
  BY ParserAssumption
<1>2. \A x \in Nat, B \in Nat \ {0} : x < B => x % B = x
  OBVIOUS
<1>3. \A x \in Nat, B \in Nat \ {0} : x >= B /\ x < 2 * B => x % B = x - B
  OBVIOUS
<1>4. CASE a < BufSize
  BY <1>1, <1>2, <1>4
<1>5. CASE ~(a < BufSize)
  <2>1. a >= BufSize
    BY <1>1, <1>5
  <2> QED
    BY <1>1, <1>3, <1>5, <2>1
<1> QED
  BY <1>4, <1>5

\* The arithmetic of a ring with in index i and out index o: how many bytes it
\* has, how many more the first recv asks for, and where the k-th byte is.
InUse(i, o) == IF i < o THEN BufSize - o + i ELSE i - o
RoomAt(i, o) ==
  IF i = o THEN BufSize - 1 ELSE IF i < o THEN o - i - 1
  ELSE BufSize - i - (IF o = 0 THEN 1 ELSE 0)
Place(o, k) == IF o + k - 1 < BufSize THEN o + k - 1 ELSE o + k - 1 - BufSize

\* Bytes stored behind the in index fit, overwrite none and follow the others.
LEMMA StoredBehind ==
  ASSUME BufSize \in Nat, BufSize > 1, NEW i \in Nat, NEW o \in Nat, i < BufSize, o < BufSize, i # o,
         NEW l \in Nat, l > 0, l <= RoomAt(i, o)
  PROVE  /\ i + l <= BufSize
         /\ InUse(i, o) + l = InUse(IF i + l < BufSize THEN i + l ELSE 0, o)
         /\ \A k \in 1..InUse(i, o) : Place(o, k) \notin i..(i + l - 1)
         /\ \A j \in 1..l : Place(o, InUse(i, o) + j) = i + j - 1
<1>1. i + l <= BufSize
  BY DEF RoomAt
<1>2. InUse(i, o) + l = InUse(IF i + l < BufSize THEN i + l ELSE 0, o)
  BY DEF RoomAt, InUse
<1>3. \A k \in 1..InUse(i, o) : Place(o, k) \notin i..(i + l - 1)
  BY DEF RoomAt, InUse, Place
<1>4. \A j \in 1..l : Place(o, InUse(i, o) + j) = i + j - 1
  BY DEF RoomAt, InUse, Place
<1> QED
  BY <1>1, <1>2, <1>3, <1>4

\* So do bytes stored in an empty ring, from its start,
LEMMA StoredFirst ==
  ASSUME BufSize \in Nat, BufSize > 1, NEW i \in Nat, NEW l \in Nat, l > 0, l <= RoomAt(i, i)
  PROVE  /\ l < BufSize /\ InUse(i, i) = 0 /\ InUse(l, 0) = l
         /\ \A j \in 1..l : Place(0, j) = j - 1
BY DEF RoomAt, InUse, Place

\* and bytes stored at its start after its end was reached.
LEMMA StoredAtStart ==
  ASSUME BufSize \in Nat, BufSize > 1, NEW o \in Nat, o < BufSize, NEW l \in Nat, l > 0, l <= o - 1
  PROVE  /\ l < BufSize /\ InUse(0, o) + l = InUse(l, o)
         /\ \A k \in 1..InUse(0, o) : Place(o, k) \notin 0..(l - 1)
         /\ \A j \in 1..l : Place(o, InUse(0, o) + j) = j - 1
BY DEF InUse, Place

\* Taking a byte: the others move up by one.
LEMMA TakenOff ==
  ASSUME BufSize \in Nat, BufSize > 1, NEW i \in Nat, NEW o \in Nat, i < BufSize, o < BufSize, i # o,
         NEW p, p = IF o + 1 < BufSize THEN o + 1 ELSE 0
  PROVE  /\ InUse(i, o) >= 1 /\ InUse(i, p) = InUse(i, o) - 1 /\ Place(o, 1) = o
         /\ \A k \in 1..InUse(i, p) : Place(p, k) = Place(o, k + 1)
<1>1. InUse(i, o) >= 1 /\ InUse(i, p) = InUse(i, o) - 1
  BY DEF InUse
<1>2. Place(o, 1) = o
  BY DEF Place
<1>3. \A k \in 1..InUse(i, p) : Place(p, k) = Place(o, k + 1)
  BY DEF InUse, Place
<1> QED
  BY <1>1, <1>2, <1>3

\* The places of a ring are within it.
LEMMA Places ==
  ASSUME BufSize \in Nat, BufSize > 1, NEW i \in Nat, NEW o \in Nat, i < BufSize, o < BufSize
  PROVE  /\ InUse(i, o) \in 0..(BufSize - 1) /\ RoomAt(i, o) \in Nat
         /\ \A k \in 1..BufSize : /\ o + k - 1 \in Nat /\ o + k - 1 < 2 * BufSize
                                  /\ Place(o, k) \in 0..(BufSize - 1)
BY DEF InUse, RoomAt, Place

\* The slots of a ring, and how many are in use.
LEMMA SlotIs ==
  ASSUME NEW r, r.in \in 0..(BufSize - 1), r.out \in 0..(BufSize - 1)
  PROVE  /\ r.in \in Nat /\ r.out \in Nat /\ r.in < BufSize /\ r.out < BufSize
         /\ BufSize \in Nat /\ BufSize > 1
         /\ NumBytes(r) = InUse(r.in, r.out) /\ NumBytes(r) \in 0..(BufSize - 1)
         /\ Room(r) = RoomAt(r.in, r.out) /\ Room(r) \in Nat
         /\ \A k \in 1..BufSize : Slot(r, k) = Place(r.out, k) /\ Slot(r, k) \in 0..(BufSize - 1)
<1>1. BufSize \in Nat /\ BufSize > 1
  BY ParserAssumption
<1>2. r.in \in Nat /\ r.out \in Nat /\ r.in < BufSize /\ r.out < BufSize
  BY <1>1
<1>3. NumBytes(r) = InUse(r.in, r.out) /\ Room(r) = RoomAt(r.in, r.out)
  BY DEF NumBytes, InUse, Room, Empty, RoomAt
<1>4. NumBytes(r) \in 0..(BufSize - 1) /\ Room(r) \in Nat
  BY <1>1, <1>2, <1>3, Places
<1>5. ASSUME NEW k \in 1..BufSize
      PROVE  Slot(r, k) = Place(r.out, k) /\ Slot(r, k) \in 0..(BufSize - 1)
  <2>1. r.out + k - 1 \in Nat /\ r.out + k - 1 < 2 * BufSize /\ Place(r.out, k) \in 0..(BufSize - 1)
    BY <1>1, <1>2, Places
  <2>2. Slot(r, k) = Place(r.out, k)
    <3>1. Slot(r, k) = IF r.out + k - 1 < BufSize THEN r.out + k - 1 ELSE (r.out + k - 1) - BufSize
      BY <2>1, Wrapped DEF Slot
    <3>2. CASE r.out + k - 1 < BufSize
      <4>1. Slot(r, k) = r.out + k - 1
        BY <3>1, <3>2
      <4>2. Place(r.out, k) = r.out + k - 1
        BY <3>2 DEF Place
      <4> QED
        BY <4>1, <4>2
    <3>3. CASE ~(r.out + k - 1 < BufSize)
      <4>1. Slot(r, k) = r.out + k - 1 - BufSize
        BY <1>1, <1>2, <2>1, <3>1, <3>3
      <4>2. Place(r.out, k) = r.out + k - 1 - BufSize
        BY <3>3 DEF Place
      <4> QED
        BY <4>1, <4>2
    <3> QED
      BY <3>2, <3>3
  <2> QED
    BY <2>1, <2>2
<1> QED
  BY <1>1, <1>2, <1>3, <1>4, <1>5

\* A ring is a record with indices that SlotIs asks for.
LEMMA RingIs ==
  ASSUME NEW r \in Ring
  PROVE  r.in \in 0..(BufSize - 1) /\ r.out \in 0..(BufSize - 1)
BY DEF Ring

\* The places of a chunk that is stored at a.
LEMMA WithinChunk ==
  \A a, l, j \in Nat : j \in 1..l => a + j - 1 \in a..(a + l - 1) /\ (a + j - 1) - a + 1 = j
OBVIOUS

\* Storing bytes behind those that are there: none of these is overwritten.
LEMMA Stores ==
  ASSUME stream \in Seq(Byte), NEW r, NEW from \in Nat, NEW to \in Nat, Holds(r, from, to),
         NEW r2, NEW at \in Nat, NEW bytes \in Seq(Byte),
         r2.in \in 0..(BufSize - 1), r2.out \in 0..(BufSize - 1),
         r2 = [buf |-> Stored(r.buf, at, bytes), in |-> r2.in, out |-> r2.out],
         NumBytes(r2) = NumBytes(r) + Len(bytes),
         \A k \in 1..NumBytes(r) :
           Slot(r2, k) = Slot(r, k) /\ Slot(r, k) \notin at..(at + Len(bytes) - 1),
         \A j \in 1..Len(bytes) :
           Slot(r2, NumBytes(r) + j) = at + j - 1 /\ bytes[j] = stream[to + j]
  PROVE  Holds(r2, from, to + Len(bytes))
<1> DEFINE n == NumBytes(r)
           len == Len(bytes)
           buf == Stored(r.buf, at, bytes)
<1>1. r \in Ring /\ n \in Nat /\ len \in Nat /\ to = from + n
  BY RingIs, SlotIs, LenProperties DEF Holds
<1>2. r.buf \in [0..(BufSize - 1) -> Byte]
  BY <1>1 DEF Ring
<1>3. /\ buf \in [0..(BufSize - 1) -> Byte]
      /\ \A i \in 0..(BufSize - 1) :
           buf[i] = IF i \in at..(at + len - 1) THEN bytes[i - at + 1] ELSE r.buf[i]
  <2>1. DOMAIN r.buf = 0..(BufSize - 1)
    BY <1>2
  <2>2. \A i \in 0..(BufSize - 1) :
          buf[i] = IF i \in at..(at + len - 1) THEN bytes[i - at + 1] ELSE r.buf[i]
    BY <2>1 DEF Stored
  <2>3. ASSUME NEW i \in 0..(BufSize - 1) PROVE buf[i] \in Byte
    <3>1. CASE i \in at..(at + len - 1)
      <4>1. i - at + 1 \in 1..len
        BY <1>1, <3>1, SMTT(60)
      <4> QED
        <5>1. bytes[i - at + 1] \in Byte
          BY <4>1, ElementOfSeq
        <5> QED
          BY <2>2, <3>1, <5>1
    <3>2. CASE i \notin at..(at + len - 1)
      BY <1>2, <2>2, <3>2
    <3> QED
      BY <3>1, <3>2
  <2> QED
    BY <2>1, <2>2, <2>3 DEF Stored
<1> HIDE DEF buf
<1>4. r2.buf = buf /\ r2 \in Ring
  <2>1. r2.buf = buf
    BY DEF buf
  <2>2. r2 = [buf |-> buf, in |-> r2.in, out |-> r2.out]
    BY DEF buf
  <2> QED
    BY <1>3, <2>1, <2>2 DEF Ring
<1>5. ASSUME NEW k \in 1..(n + len)
      PROVE  r2.buf[Slot(r2, k)] = stream[from + k]
  <2>1. CASE k \in 1..n
    <3>1. k \in 1..BufSize
      BY <1>1, <2>1, RingIs, SlotIs
    <3>2. Slot(r, k) \in 0..(BufSize - 1) /\ Slot(r2, k) = Slot(r, k)
      BY <1>1, <2>1, <3>1, SlotIs
    <3>3. buf[Slot(r, k)] = r.buf[Slot(r, k)]
      BY <1>3, <2>1, <3>2
    <3>4. r.buf[Slot(r, k)] = stream[from + k]
      BY <2>1 DEF Holds
    <3> QED
      BY <1>4, <3>2, <3>3, <3>4
  <2>2. CASE k \notin 1..n
    <3> DEFINE j == k - n
    <3>1. j \in Nat /\ j \in 1..len /\ n + j = k /\ to + j = from + k
      BY <1>1, <2>2, SMTT(60)
    <3> HIDE DEF j
    <3>2. Slot(r2, k) = at + j - 1 /\ bytes[j] = stream[from + k]
      <4>1. Slot(r2, n + j) = at + j - 1 /\ bytes[j] = stream[to + j]
        BY <3>1
      <4> QED
        BY <3>1, <4>1, Zenon
    <3>3. k \in 1..BufSize
      BY <1>1, <1>4, RingIs, SlotIs, SMTT(60)
    <3>4. Slot(r2, k) \in 0..(BufSize - 1)
      BY <1>4, <3>3, SlotIs
    <3>5. at + j - 1 \in at..(at + len - 1) /\ (at + j - 1) - at + 1 = j
      BY <1>1, <3>1, WithinChunk, ZenonT(60)
    <3> QED
      BY <1>3, <1>4, <3>2, <3>4, <3>5
  <2> QED
    BY <2>1, <2>2
<1>6. to + len = from + (n + len) /\ NumBytes(r2) = n + len
  BY <1>1
<1> QED
  BY <1>4, <1>5, <1>6 DEF Holds

\* The bytes that a recv gives.
LEMMA ArrivedBytes ==
  ASSUME stream \in Seq(Byte), arrived \in 0..Len(stream),
         NEW from \in 0..arrived, NEW room \in Nat
  PROVE  /\ Arrived(from, room) \in Seq(Byte)
         /\ Len(Arrived(from, room)) \in Nat /\ Len(Arrived(from, room)) <= room
         /\ from + Len(Arrived(from, room)) <= arrived
         /\ \A j \in 1..Len(Arrived(from, room)) : Arrived(from, room)[j] = stream[from + j]
<1> DEFINE n == Lesser(room, arrived - from)
<1>1. Len(stream) \in Nat
  BY LenProperties
<1>2. n \in Nat /\ n <= room /\ from + n <= arrived /\ from \in Nat /\ arrived \in Nat /\ arrived <= Len(stream)
  BY <1>1 DEF Lesser
<1>3. Arrived(from, room) = SubSeq(stream, from + 1, from + n)
  BY DEF Arrived
<1> HIDE DEF n
<1>4. \A i \in (from + 1)..(from + n) : stream[i] \in Byte
  <2>1. \A i \in (from + 1)..(from + n) : i \in 1..Len(stream)
    BY <1>1, <1>2
  <2> QED
    BY <2>1, ElementOfSeq
<1> DEFINE sub == SubSeq(stream, from + 1, from + n)
<1>5. /\ sub \in Seq(Byte)
      /\ Len(sub) = IF from + 1 <= from + n THEN (from + n) - (from + 1) + 1 ELSE 0
      /\ \A i \in 1..((from + n) - (from + 1) + 1) : sub[i] = stream[(from + 1) + i - 1]
  <2>1. from + 1 \in Int /\ from + n \in Int
    BY <1>2
  <2> QED
    BY <1>4, <2>1, SubSeqProperties
<1> HIDE DEF sub
<1>6. Len(sub) = n
  BY <1>2, <1>5
<1>7. \A j \in 1..n : sub[j] = stream[from + j]
  BY <1>2, <1>5
<1>8. Arrived(from, room) = sub
  BY <1>3 DEF sub
<1> QED
  BY <1>2, <1>5, <1>6, <1>7, <1>8

\* The first recv asks for no more than there is room for in one piece.
LEMMA FirstRecvHolds ==
  ASSUME stream \in Seq(Byte), NEW r, NEW from \in Nat, NEW to \in Nat, Holds(r, from, to),
         NEW bytes \in Seq(Byte), Len(bytes) <= Room(r),
         \A j \in 1..Len(bytes) : bytes[j] = stream[to + j]
  PROVE  /\ Holds(FirstRecv(r, bytes), from, to + Len(bytes))
         /\ SecondRoom(r, bytes) \in Nat
         /\ SecondRoom(r, bytes) > 0 =>
              /\ FirstRecv(r, bytes).in = 0 /\ SecondRoom(r, bytes) = FirstRecv(r, bytes).out - 1
<1> DEFINE i == r.in
           o == r.out
           l == Len(bytes)
<1>1. r \in Ring /\ l \in Nat /\ to \in Nat
  BY LenProperties DEF Holds
<1>2. /\ i \in Nat /\ o \in Nat /\ i < BufSize /\ o < BufSize
      /\ BufSize \in Nat /\ BufSize > 1
      /\ NumBytes(r) = InUse(i, o) /\ NumBytes(r) \in 0..(BufSize - 1)
      /\ \A k \in 1..BufSize : Slot(r, k) = Place(o, k)
      /\ l <= RoomAt(i, o)
  BY <1>1, RingIs, SlotIs
<1> HIDE DEF i, o, l
<1>3. CASE bytes = <<>>
  <2>1. FirstRecv(r, bytes) = r /\ l = 0 /\ to + l = to
    BY <1>1, <1>3, EmptySeq DEF FirstRecv, l
  <2>2. SecondRoom(r, bytes) = 0
    <3>1. SecondRoom(r, bytes) = IF i > o /\ i + l >= BufSize THEN o - 1 ELSE 0
      BY DEF SecondRoom, i, o, l
    <3> QED
      BY <1>2, <2>1, <3>1
  <2> QED
    BY <2>1, <2>2 DEF l
<1>4. CASE bytes # <<>> /\ i = o
  <2> DEFINE at == 0
             r2 == [buf |-> Stored(r.buf, at, bytes), in |-> l, out |-> at]
  <2>1. FirstRecv(r, bytes) = r2 /\ l > 0
    BY <1>1, <1>4, EmptySeq DEF FirstRecv, Empty, i, o, l
  <2>2. /\ l < BufSize /\ InUse(i, o) = 0 /\ InUse(l, at) = l
        /\ \A j \in 1..l : Place(at, j) = j - 1
    BY <1>1, <1>2, <1>4, <2>1, StoredFirst
  <2>3. r2.in = l /\ r2.out = at /\ r2.buf = Stored(r.buf, at, bytes)
        /\ l \in 0..(BufSize - 1) /\ at \in 0..(BufSize - 1) /\ at \in Nat
    BY <1>1, <1>2, <2>2
  <2>4. r2 = [buf |-> Stored(r.buf, at, bytes), in |-> r2.in, out |-> r2.out]
    BY <2>3
  <2>5. \A j \in 1..l : at + j - 1 = j - 1
    BY <1>1
  <2> HIDE DEF r2, at
  <2>6. NumBytes(r2) = l /\ \A k \in 1..BufSize : Slot(r2, k) = Place(at, k)
    BY <2>2, <2>3, SlotIs
  <2>7. NumBytes(r2) = NumBytes(r) + Len(bytes)
    BY <1>1, <1>2, <2>2, <2>6 DEF l
  <2>8. ASSUME NEW j \in 1..Len(bytes)
        PROVE  Slot(r2, NumBytes(r) + j) = at + j - 1
    <3>1. j \in 1..l /\ NumBytes(r) + j = j /\ j \in 1..BufSize
      BY <1>1, <1>2, <2>2 DEF l
    <3> QED
      BY <2>2, <2>5, <2>6, <3>1
  <2>9. \A k \in 1..NumBytes(r) : Slot(r2, k) = Slot(r, k) /\ Slot(r, k) \notin at..(at + Len(bytes) - 1)
    BY <1>2, <2>2
  <2>10. Holds(r2, from, to + Len(bytes))
    <3>1. /\ r2.in \in 0..(BufSize - 1) /\ r2.out \in 0..(BufSize - 1) /\ at \in Nat
          /\ r2 = [buf |-> Stored(r.buf, at, bytes), in |-> r2.in, out |-> r2.out]
      BY <2>3, <2>4
    <3>2. \A j \in 1..Len(bytes) :
            Slot(r2, NumBytes(r) + j) = at + j - 1 /\ bytes[j] = stream[to + j]
      BY <2>8
    <3> QED
      BY <2>7, <2>9, <3>1, <3>2, Stores, ZenonT(60)
  <2>11. SecondRoom(r, bytes) = 0
    <3>1. SecondRoom(r, bytes) = IF i > o /\ i + l >= BufSize THEN o - 1 ELSE 0
      BY DEF SecondRoom, i, o, l
    <3> QED
      BY <1>2, <1>4, <3>1
  <2> QED
    BY <2>1, <2>10, <2>11
<1>5. CASE bytes # <<>> /\ i # o
  <2> DEFINE in == IF i + l < BufSize THEN i + l ELSE 0
             r2 == [buf |-> Stored(r.buf, i, bytes), in |-> in, out |-> o]
  <2>1. l > 0
    BY <1>1, <1>5, EmptySeq DEF l
  <2>2. /\ i + l <= BufSize
        /\ InUse(i, o) + l = InUse(in, o)
        /\ \A k \in 1..InUse(i, o) : Place(o, k) \notin i..(i + l - 1)
        /\ \A j \in 1..l : Place(o, InUse(i, o) + j) = i + j - 1
    BY <1>1, <1>2, <1>5, <2>1, StoredBehind
  <2>3. (i + l) % BufSize = in
    <3>1. i + l \in Nat /\ i + l < 2 * BufSize
      BY <1>1, <1>2, <2>2, SMTT(60)
    <3>2. i + l >= BufSize => (i + l) - BufSize = 0
      BY <1>1, <1>2, <2>2
    <3>3. (i + l) % BufSize = IF i + l < BufSize THEN i + l ELSE (i + l) - BufSize
      BY <3>1, Wrapped
    <3> QED
      BY <1>2, <3>1, <3>2, <3>3
  <2>4. FirstRecv(r, bytes) = r2
    <3>1. FirstRecv(r, bytes) = [r EXCEPT !.buf = Stored(r.buf, i, bytes), !.in = (i + l) % BufSize]
      BY <1>5 DEF FirstRecv, Empty, i, o, l
    <3> HIDE DEF in
    <3> QED
      BY <1>1, <2>3, <3>1 DEF Ring, o
  <2>5. in \in 0..(BufSize - 1) /\ o \in 0..(BufSize - 1)
    BY <1>1, <1>2
  <2> HIDE DEF in
  <2>6. r2.in = in /\ r2.out = o /\ r2 = [buf |-> Stored(r.buf, i, bytes), in |-> r2.in, out |-> r2.out]
    OBVIOUS
  <2> HIDE DEF r2
  <2>7. NumBytes(r2) = InUse(in, o) /\ NumBytes(r2) \in 0..(BufSize - 1)
        /\ \A k \in 1..BufSize : Slot(r2, k) = Place(o, k)
    BY <2>5, <2>6, SlotIs
  <2>8. NumBytes(r2) = NumBytes(r) + Len(bytes)
    BY <1>2, <2>2, <2>7 DEF l
  <2>9. ASSUME NEW k \in 1..NumBytes(r)
        PROVE  Slot(r2, k) = Slot(r, k) /\ Slot(r, k) \notin i..(i + Len(bytes) - 1)
    <3>1. k \in 1..BufSize
      BY <1>2
    <3> QED
      BY <1>2, <2>2, <2>7, <3>1 DEF l
  <2>10. ASSUME NEW j \in 1..Len(bytes)
         PROVE  Slot(r2, NumBytes(r) + j) = i + j - 1
    <3>1. NumBytes(r) + l < BufSize /\ NumBytes(r) \in Nat /\ j \in 1..l
      BY <1>2, <2>7, <2>8 DEF l
    <3>2. NumBytes(r) + j \in 1..BufSize
      BY <1>1, <1>2, <3>1, SMTT(60)
    <3>3. Place(o, InUse(i, o) + j) = i + j - 1
      BY <2>2, <3>1
    <3> QED
      BY <1>2, <2>7, <3>2, <3>3
  <2>11. Holds(r2, from, to + Len(bytes))
    BY <1>2, <2>5, <2>6, <2>8, <2>9, <2>10, Stores, ZenonT(60)
  <2>12. SecondRoom(r, bytes) = IF i > o /\ i + l >= BufSize THEN o - 1 ELSE 0
    BY DEF SecondRoom, i, o, l
  <2>13. SecondRoom(r, bytes) > 0 => in = 0 /\ SecondRoom(r, bytes) = o - 1
    <3>1. CASE i > o /\ i + l >= BufSize
      <4>1. in = 0
        BY <1>1, <1>2, <3>1 DEF in
      <4> QED
        BY <2>12, <3>1, <4>1
    <3>2. CASE ~(i > o /\ i + l >= BufSize)
      <4>1. SecondRoom(r, bytes) = 0
        BY <2>12, <3>2
      <4> QED
        BY <4>1
    <3> QED
      BY <3>1, <3>2
  <2>14. SecondRoom(r, bytes) \in Nat
    <3>1. i > o /\ i + l >= BufSize => o # 0
      BY <1>1, <1>2 DEF RoomAt
    <3> QED
      BY <1>2, <2>12, <3>1
  <2> QED
    BY <2>4, <2>6, <2>11, <2>13, <2>14
<1> QED
  BY <1>3, <1>4, <1>5

\* The second recv goes on at the start of the ring, up to the bytes not taken.
LEMMA SecondRecvHolds ==
  ASSUME stream \in Seq(Byte), NEW r, NEW from \in Nat, NEW to \in Nat, Holds(r, from, to),
         NEW bytes \in Seq(Byte), Len(bytes) > 0 => r.in = 0 /\ Len(bytes) <= r.out - 1,
         \A j \in 1..Len(bytes) : bytes[j] = stream[to + j]
  PROVE  Holds(SecondRecv(r, bytes), from, to + Len(bytes))
<1> DEFINE o == r.out
           l == Len(bytes)
           at == 0
           r2 == [buf |-> Stored(r.buf, at, bytes), in |-> l, out |-> o]
<1>1. r \in Ring /\ l \in Nat
  BY LenProperties DEF Holds
<1>2. CASE bytes = <<>>
  <2>1. SecondRecv(r, bytes) = r /\ to + l = to
    BY <1>2, EmptySeq DEF SecondRecv
  <2> QED
    BY <2>1
<1>3. CASE bytes # <<>>
  <2>1. l > 0 /\ r.in = 0 /\ l <= o - 1
    BY <1>1, <1>3, EmptySeq
  <2>2. /\ o \in Nat /\ o < BufSize /\ BufSize \in Nat /\ BufSize > 1
        /\ NumBytes(r) = InUse(r.in, o) /\ NumBytes(r) \in 0..(BufSize - 1)
        /\ \A k \in 1..BufSize : Slot(r, k) = Place(o, k)
    BY <1>1, RingIs, SlotIs
  <2>3. SecondRecv(r, bytes) = r2
    <3>1. SecondRecv(r, bytes) = [r EXCEPT !.buf = Stored(r.buf, 0, bytes), !.in = l]
      BY <1>3 DEF SecondRecv
    <3> QED
      BY <1>1, <3>1 DEF Ring
  <2> HIDE DEF o, l
  <2>4. /\ l < BufSize /\ InUse(at, o) + l = InUse(l, o)
        /\ \A k \in 1..InUse(at, o) : Place(o, k) \notin 0..(l - 1)
        /\ \A j \in 1..l : Place(o, InUse(at, o) + j) = j - 1
    BY <1>1, <2>1, <2>2, StoredAtStart
  <2>5. at + l - 1 = l - 1 /\ at \in Nat /\ at = r.in /\ \A j \in 1..l : at + j - 1 = j - 1
    BY <1>1, <2>1
  <2>6. r2.in = l /\ r2.out = o /\ r2 = [buf |-> Stored(r.buf, at, bytes), in |-> r2.in, out |-> r2.out]
        /\ l \in 0..(BufSize - 1) /\ o \in 0..(BufSize - 1)
    BY <1>1, <2>2, <2>4
  <2>7. \A k \in 1..InUse(at, o) : Place(o, k) \notin at..(at + l - 1)
    BY <2>4, <2>5
  <2> HIDE DEF r2, at
  <2>8. NumBytes(r2) = InUse(l, o) /\ NumBytes(r2) \in 0..(BufSize - 1)
        /\ \A k \in 1..BufSize : Slot(r2, k) = Place(o, k)
    BY <2>6, SlotIs
  <2>9. NumBytes(r) = InUse(at, o) /\ NumBytes(r2) = NumBytes(r) + Len(bytes)
    BY <2>2, <2>4, <2>5, <2>8 DEF l
  <2>10. ASSUME NEW k \in 1..NumBytes(r)
         PROVE  Slot(r2, k) = Slot(r, k) /\ Slot(r, k) \notin at..(at + Len(bytes) - 1)
    <3>1. k \in 1..BufSize
      BY <2>2
    <3> QED
      BY <2>2, <2>7, <2>8, <2>9, <3>1 DEF l
  <2>11. ASSUME NEW j \in 1..Len(bytes)
         PROVE  Slot(r2, NumBytes(r) + j) = at + j - 1
    <3>1. NumBytes(r) + l < BufSize /\ NumBytes(r) \in Nat /\ j \in 1..l
      BY <2>2, <2>8, <2>9 DEF l
    <3>2. NumBytes(r) + j \in 1..BufSize
      BY <1>1, <2>2, <3>1 DEF l
    <3>3. Place(o, InUse(at, o) + j) = j - 1 /\ at + j - 1 = j - 1
      BY <2>4, <2>5, <3>1
    <3> QED
      BY <2>8, <2>9, <3>2, <3>3
  <2>12. Holds(r2, from, to + Len(bytes))
    <3>1. /\ r2.in \in 0..(BufSize - 1) /\ r2.out \in 0..(BufSize - 1) /\ at \in Nat
          /\ r2 = [buf |-> Stored(r.buf, at, bytes), in |-> r2.in, out |-> r2.out]
      BY <2>5, <2>6
    <3>2. \A j \in 1..Len(bytes) :
            Slot(r2, NumBytes(r) + j) = at + j - 1 /\ bytes[j] = stream[to + j]
      BY <2>11
    <3> QED
      BY <2>9, <2>10, <3>1, <3>2, Stores, ZenonT(60)
  <2> QED
    BY <2>3, <2>12
<1> QED
  BY <1>2, <1>3

\* The byte that is taken is the next one of the stream.
LEMMA TakeOne ==
  ASSUME stream \in Seq(Byte), NEW r, NEW from \in Nat, NEW to \in Nat, Holds(r, from, to), ~Empty(r)
  PROVE  /\ r.buf[r.out] = stream[from + 1] /\ from + 1 <= to
         /\ Holds([r EXCEPT !.out = (@ + 1) % BufSize], from + 1, to)
<1> DEFINE i == r.in
           o == r.out
           p == IF o + 1 < BufSize THEN o + 1 ELSE 0
           r2 == [buf |-> r.buf, in |-> i, out |-> p]
<1>1. r \in Ring /\ to = from + NumBytes(r)
      /\ \A k \in 1..NumBytes(r) : r.buf[Slot(r, k)] = stream[from + k]
  BY DEF Holds
<1>2. /\ i \in Nat /\ o \in Nat /\ i < BufSize /\ o < BufSize /\ i # o
      /\ BufSize \in Nat /\ BufSize > 1
      /\ NumBytes(r) = InUse(i, o) /\ NumBytes(r) \in 0..(BufSize - 1)
      /\ \A k \in 1..BufSize : Slot(r, k) = Place(o, k)
  BY <1>1, RingIs, SlotIs DEF Empty
<1>3. [r EXCEPT !.out = (@ + 1) % BufSize] = r2
  <2>1. (o + 1) % BufSize = p
    <3>1. o + 1 \in Nat /\ o + 1 < 2 * BufSize
      BY <1>2
    <3>2. (o + 1) % BufSize = IF o + 1 < BufSize THEN o + 1 ELSE (o + 1) - BufSize
      BY <3>1, Wrapped
    <3>3. ~(o + 1 < BufSize) => (o + 1) - BufSize = 0
      BY <1>2
    <3> QED
      BY <3>2, <3>3
  <2>2. [r EXCEPT !.out = (@ + 1) % BufSize] = [buf |-> r.buf, in |-> r.in, out |-> (r.out + 1) % BufSize]
    BY <1>1 DEF Ring
  <2> HIDE DEF p
  <2> QED
    BY <2>1, <2>2
<1>4. p \in 0..(BufSize - 1) /\ i \in 0..(BufSize - 1)
  BY <1>2
<1> HIDE DEF i, o
<1>5. /\ InUse(i, o) >= 1 /\ InUse(i, p) = InUse(i, o) - 1 /\ Place(o, 1) = o
      /\ \A k \in 1..InUse(i, p) : Place(p, k) = Place(o, k + 1)
  BY <1>2, TakenOff
<1> HIDE DEF p
<1>6. r2.in = i /\ r2.out = p /\ r2.buf = r.buf
  OBVIOUS
<1>7. r2 \in Ring
  BY <1>1, <1>4 DEF Ring
<1> HIDE DEF r2
<1>8. NumBytes(r2) = InUse(i, p) /\ \A k \in 1..BufSize : Slot(r2, k) = Place(p, k)
  BY <1>4, <1>6, SlotIs
<1>9. r.buf[r.out] = stream[from + 1]
  <2>1. 1 \in 1..NumBytes(r) /\ 1 \in 1..BufSize
    BY <1>2, <1>5
  <2>2. Slot(r, 1) = o
    BY <1>2, <1>5, <2>1
  <2> QED
    BY <1>1, <2>1, <2>2 DEF o
<1>10. to = (from + 1) + NumBytes(r2) /\ from + 1 <= to
  BY <1>1, <1>2, <1>5, <1>8
<1>11. ASSUME NEW k \in 1..NumBytes(r2)
       PROVE  r2.buf[Slot(r2, k)] = stream[(from + 1) + k]
  <2>1. k + 1 \in 1..NumBytes(r) /\ k + 1 \in 1..BufSize /\ k \in 1..BufSize /\ k \in 1..InUse(i, p)
    BY <1>2, <1>5, <1>8
  <2>2. Slot(r2, k) = Slot(r, k + 1)
    BY <1>2, <1>5, <1>8, <2>1
  <2>3. from + (k + 1) = (from + 1) + k
    BY <2>1
  <2> QED
    BY <1>1, <1>6, <2>1, <2>2, <2>3
<1> QED
  BY <1>3, <1>7, <1>9, <1>10, <1>11 DEF Holds

-----------------------------------------------------------------------------
(* The stream.                                                             *)

\* What is sent, has arrived, was received and was taken, and what the ring holds.
StreamInv ==
  /\ medium \in {"file", "socket"}
  /\ stream \in Seq(Byte)
  /\ arrived \in 0..Len(stream) /\ received \in 0..arrived /\ seen \in 0..Len(stream)
  /\ ring \in Ring
  /\ medium = "socket" => Holds(ring, seen, received)

\* The ring when bufferSWT returns.
LEMMA BufferedHolds ==
  ASSUME StreamInv, medium = "socket"
  PROVE  LET to == received + Len(FirstBytes) + Len(SecondBytes)
         IN to \in 0..arrived /\ Holds(Buffered, seen, to)
<1> DEFINE first == FirstBytes
           second == SecondBytes
           r1 == FirstRecv(ring, first)
           mid == received + Len(first)
<1>1. /\ stream \in Seq(Byte) /\ arrived \in 0..Len(stream) /\ received \in 0..arrived
      /\ Len(stream) \in Nat /\ seen \in Nat /\ received \in Nat
      /\ Holds(ring, seen, received) /\ ring \in Ring
  BY LenProperties DEF StreamInv
<1>2. Room(ring) \in Nat
  BY <1>1, RingIs, SlotIs
<1>3. /\ first \in Seq(Byte) /\ Len(first) \in Nat /\ Len(first) <= Room(ring)
      /\ received + Len(first) <= arrived
      /\ \A j \in 1..Len(first) : first[j] = stream[received + j]
  BY <1>1, <1>2, ArrivedBytes DEF FirstBytes
<1> HIDE DEF first
<1>4. /\ Holds(r1, seen, mid) /\ SecondRoom(ring, first) \in Nat
      /\ SecondRoom(ring, first) > 0 => r1.in = 0 /\ SecondRoom(ring, first) = r1.out - 1
  BY <1>1, <1>3, FirstRecvHolds
<1>5. mid \in 0..arrived /\ mid \in Nat
  BY <1>1, <1>3
<1>6. second = Arrived(mid, SecondRoom(ring, first))
  BY DEF SecondBytes, first
<1> HIDE DEF mid, second, r1
<1>7. /\ second \in Seq(Byte) /\ Len(second) \in Nat /\ Len(second) <= SecondRoom(ring, first)
      /\ mid + Len(second) <= arrived
      /\ \A j \in 1..Len(second) : second[j] = stream[mid + j]
  BY <1>1, <1>4, <1>5, <1>6, ArrivedBytes
<1>8. Len(second) > 0 => r1.in = 0 /\ Len(second) <= r1.out - 1
  BY <1>4, <1>7
<1>9. Holds(SecondRecv(r1, second), seen, mid + Len(second))
  BY <1>1, <1>4, <1>5, <1>7, <1>8, SecondRecvHolds
<1>10. Buffered = SecondRecv(r1, second)
  BY DEF Buffered, r1, first, second
<1>11. mid + Len(second) \in 0..arrived
  BY <1>1, <1>5, <1>7
<1> QED
  BY <1>9, <1>10, <1>11 DEF mid, first, second

\* Bytes that are sent change none of those sent before.
LEMMA StreamGrows ==
  ASSUME StreamInv, NEW more \in Seq(Byte), stream' = stream \o more,
         UNCHANGED <<medium, arrived, received, seen, ring>>
  PROVE  StreamInv'
<1>1. /\ stream \in Seq(Byte) /\ Len(stream) \in Nat /\ Len(more) \in Nat
      /\ arrived \in 0..Len(stream) /\ received \in 0..arrived /\ seen \in 0..Len(stream)
  BY LenProperties DEF StreamInv
<1>2. /\ stream' \in Seq(Byte) /\ Len(stream') = Len(stream) + Len(more)
      /\ \A k \in 1..Len(stream) : stream'[k] = stream[k]
  <2>1. \A k \in 1..Len(stream) : k \in 1..(Len(stream) + Len(more)) /\ k <= Len(stream)
    BY <1>1
  <2> QED
    BY <1>1, <2>1, ConcatProperties
<1>3. /\ arrived' \in 0..Len(stream') /\ received' \in 0..arrived' /\ seen' \in 0..Len(stream')
  BY <1>1, <1>2
<1>4. ASSUME Holds(ring, seen, received)
      PROVE  Holds(ring, seen, received)'
  <2>1. ring \in Ring /\ received = seen + NumBytes(ring)
        /\ \A k \in 1..NumBytes(ring) : ring.buf[Slot(ring, k)] = stream[seen + k]
    BY <1>4 DEF Holds
  <2>2. NumBytes(ring) \in Nat
    BY <2>1, RingIs, SlotIs
  <2>3. \A k \in 1..NumBytes(ring) : seen + k \in 1..Len(stream)
    BY <1>1, <2>1, <2>2
  <2>4. \A k \in 1..NumBytes(ring) : ring.buf[Slot(ring, k)] = stream'[seen + k]
    BY <1>2, <2>1, <2>3
  <2> QED
    BY <2>1, <2>4 DEF Holds, NumBytes, Slot
<1> QED
  BY <1>2, <1>3, <1>4 DEF StreamInv

\* The steps that touch neither the ring nor the stream.
LEMMA StreamStays ==
  ASSUME StreamInv, UNCHANGED <<medium, stream, received, ring>>,
         seen' = seen \/ (medium = "file" /\ seen' \in 0..Len(stream)),
         arrived' \in arrived..Len(stream)
  PROVE  StreamInv'
<1>1. Len(stream) \in Nat
  BY LenProperties DEF StreamInv
<1>2. /\ arrived' \in 0..Len(stream) /\ received \in 0..arrived' /\ seen' \in 0..Len(stream)
  BY <1>1 DEF StreamInv
<1>3. seen' = seen /\ Holds(ring, seen, received) => Holds(ring, seen, received)'
  BY DEF Holds, NumBytes, Slot
<1> QED
  BY <1>2, <1>3 DEF StreamInv

\* Every step keeps the invariant.
LEMMA StreamStep ==
  ASSUME StreamInv, [Next]_vars
  PROVE  StreamInv'
<1>1. /\ Len(stream) \in Nat /\ arrived \in 0..Len(stream) /\ seen \in 0..Len(stream)
      /\ stream \in Seq(Byte)
  BY LenProperties DEF StreamInv
<1>2. CASE TakeFromSocket
  <2> DEFINE to == received + Len(FirstBytes) + Len(SecondBytes)
  <2>1. /\ medium = "socket" /\ ~Empty(Buffered) /\ seen' = seen + 1
        /\ ring' = [Buffered EXCEPT !.out = (@ + 1) % BufSize]
        /\ received' = to /\ UNCHANGED <<medium, stream, arrived>>
    BY <1>2 DEF TakeFromSocket, CountReceived, channel
  <2>2. to \in 0..arrived /\ Holds(Buffered, seen, to)
    BY <2>1, BufferedHolds
  <2> HIDE DEF to
  <2>3. /\ to \in Nat /\ seen \in Nat /\ seen + 1 <= to
        /\ Holds([Buffered EXCEPT !.out = (@ + 1) % BufSize], seen + 1, to)
    BY <1>1, <2>1, <2>2, TakeOne
  <2>4. Holds(ring', seen', received')
    BY <2>1, <2>3
  <2>5. Holds(ring, seen, received)' /\ ring' \in Ring
    BY <2>1, <2>4 DEF Holds, NumBytes, Slot
  <2>6. seen' \in 0..Len(stream)
    BY <1>1, <2>1, <2>2, <2>3
  <2> QED
    BY <1>1, <2>1, <2>2, <2>5, <2>6 DEF StreamInv
<1>3. CASE GetNumBytesInSWTQ
  <2>1. CASE UNCHANGED <<ring, received>>
    <3>1. UNCHANGED <<medium, stream, seen, arrived>>
      BY <1>3 DEF GetNumBytesInSWTQ, channel
    <3> QED
      BY <1>1, <2>1, <3>1, StreamStays
  <2>2. CASE ring' = Buffered /\ CountReceived
    <3> DEFINE to == received + Len(FirstBytes) + Len(SecondBytes)
    <3>1. medium = "socket" /\ received' = to /\ UNCHANGED <<medium, stream, seen, arrived>>
      BY <1>3, <2>2 DEF GetNumBytesInSWTQ, CountReceived, channel
    <3>2. to \in 0..arrived /\ Holds(Buffered, seen, to)
      BY <3>1, BufferedHolds
    <3> HIDE DEF to
    <3>3. Holds(ring, seen, received)' /\ ring' \in Ring
      BY <2>2, <3>1, <3>2 DEF Holds, NumBytes, Slot
    <3> QED
      BY <1>1, <3>1, <3>2, <3>3 DEF StreamInv
  <2> QED
    BY <1>3, <2>1, <2>2 DEF GetNumBytesInSWTQ
<1>4. CASE TakeFromFile
  <2>1. /\ medium = "file" /\ seen < Len(stream) /\ seen' = seen + 1
        /\ UNCHANGED <<medium, stream, arrived, received, ring>>
    BY <1>4 DEF TakeFromFile, channel
  <2>2. seen' \in 0..Len(stream) /\ arrived' \in arrived..Len(stream)
    BY <1>1, <2>1
  <2> QED
    BY <2>1, <2>2, StreamStays
<1>5. CASE Call \/ Overflow \/ NothingThere \/ SocketFails \/ FileEnds \/ LinkEnds \/ UNCHANGED vars
  <2>1. UNCHANGED <<medium, stream, arrived, received, seen, ring>>
    BY <1>5 DEF Call, Overflow, NothingThere, SocketFails, FileEnds, LinkEnds, channel, vars
  <2> QED
    BY <1>1, <2>1, StreamStays
<1>6. CASE Arrives
  <2>1. arrived' = arrived + 1 /\ arrived < Len(stream) /\ UNCHANGED <<medium, stream, received, seen, ring>>
    BY <1>6 DEF Arrives
  <2> QED
    BY <1>1, <2>1, StreamStays
<1>7. CASE Target
  <2>1. \E more \in Seq(Byte) : stream' = stream \o more
    <3>1. ASSUME NEW m \in Messages \cup (IF stream = <<>> THEN SoleMessages ELSE {}), SendMessage(m)
          PROVE  \E more \in Seq(Byte) : stream' = stream \o more
      <4>1. Build(m) \in Seq(Byte)
        BY ParserAssumption DEF Byte
      <4>2. stream' = stream \o Build(m)
        BY <3>1 DEF SendMessage, SendSlices
      <4> QED
        BY <4>1, <4>2
    <3>2. ASSUME NEW slices \in Junk, SendJunk(slices)
          PROVE  \E more \in Seq(Byte) : stream' = stream \o more
      <4>1. slices \in Seq(Byte)
        BY ParserAssumption DEF Byte
      <4>2. stream' = stream \o slices
        BY <3>2 DEF SendJunk, SendSlices
      <4> QED
        BY <4>1, <4>2
    <3>3. ASSUME NEW b \in Noise, SendNoise(b)
          PROVE  \E more \in Seq(Byte) : stream' = stream \o more
      <4>1. b \in Byte
        BY ParserAssumption DEF Byte
      <4>2. stream' = Append(stream, b)
        BY <3>3 DEF SendNoise
      <4>3. Append(stream, b) = stream \o <<b>>
        BY <1>1, <4>1, AppendIsConcat
      <4>4. <<b>> \in Seq(Byte)
        BY <4>1
      <4> QED
        BY <4>2, <4>3, <4>4
    <3> QED
      BY <1>7, <3>1, <3>2, <3>3 DEF Target
  <2>2. UNCHANGED <<medium, arrived, received, seen, ring>>
    BY <1>7 DEF Target, SendMessage, SendJunk, SendNoise, SendSlices, CanSend
  <2> QED
    BY <2>1, <2>2, StreamGrows
<1> QED
  BY <1>2, <1>3, <1>4, <1>5, <1>6, <1>7 DEF Next, ReadNextTraceMsg

\* It holds at the start.
LEMMA StreamInit == Init => StreamInv
<1> SUFFICES ASSUME Init
             PROVE  StreamInv
  OBVIOUS
<1>1. /\ medium \in {"file", "socket"} /\ stream = <<>> /\ arrived = 0 /\ received = 0 /\ seen = 0
      /\ ring = [buf |-> [i \in 0..(BufSize - 1) |-> 0], in |-> 0, out |-> 0]
  BY DEF Init
<1>2. <<>> \in Seq(Byte) /\ Len(<<>>) = 0
  BY EmptySeq
<1>3. 0 \in 0..(BufSize - 1) /\ 0 \in Byte
  BY ParserAssumption DEF Byte
<1>4. ring \in Ring
  BY <1>1, <1>3 DEF Ring
<1>5. NumBytes(ring) = 0
  BY <1>1 DEF NumBytes
<1>6. Holds(ring, seen, received)
  <2>1. received = seen + NumBytes(ring)
    BY <1>1, <1>5
  <2>2. 1..NumBytes(ring) = {}
    <3>1. 1..0 = {}
      OBVIOUS
    <3> QED
      BY <1>5, <3>1
  <2>3. \A k \in 1..NumBytes(ring) : ring.buf[Slot(ring, k)] = stream[seen + k]
    BY <2>2, Zenon
  <2> QED
    BY <1>4, <2>1, <2>3 DEF Holds
<1> QED
  BY <1>1, <1>2, <1>4, <1>6 DEF StreamInv

\* The ring holds, in order, the bytes received and not taken.
LEMMA StreamInvariant == Spec => []StreamInv
BY StreamInit, StreamStep, PTL DEF Spec

\* The ring between socket and parser loses, repeats and reorders no byte: what it
\* holds is what recv gave and the parser has not taken, also where it wraps, is
\* full, or is filled by two calls of recv.
THEOREM RingIsTheStream == Spec => []RingHoldsStream
<1>1. ASSUME StreamInv PROVE RingHoldsStream
  <2> SUFFICES ASSUME medium = "socket"
               PROVE  Contents(ring) = SubSeq(stream, seen + 1, received)
    BY DEF RingHoldsStream
  <2> DEFINE n == NumBytes(ring)
             c == Contents(ring)
             sub == SubSeq(stream, seen + 1, received)
  <2>1. /\ ring \in Ring /\ received = seen + n
        /\ \A k \in 1..n : ring.buf[Slot(ring, k)] = stream[seen + k]
        /\ stream \in Seq(Byte) /\ seen \in Nat /\ received \in 0..Len(stream) /\ Len(stream) \in Nat
    BY <1>1, LenProperties DEF StreamInv, Holds
  <2>2. n \in Nat
    BY <2>1, RingIs, SlotIs
  <2>3. c = [k \in 1..n |-> ring.buf[Slot(ring, k)]]
    BY DEF Contents, Slot
  <2> HIDE DEF n
  <2>4. \A k \in 1..n : seen + k \in 1..Len(stream)
    BY <2>1, <2>2
  <2>5. \A k \in 1..n : stream[seen + k] \in Byte
    BY <2>1, <2>4, ElementOfSeq
  <2>6. c = [k \in 1..n |-> stream[seen + k]]
    BY <2>1, <2>3, Zenon
  <2> HIDE DEF c, sub
  <2>7. c \in [1..n -> Byte] /\ \A k \in 1..n : c[k] = stream[seen + k]
    BY <2>5, <2>6
  <2>8. c \in Seq(Byte) /\ Len(c) = n
    BY <2>2, <2>7
  <2>9. /\ sub \in Seq(Byte)
        /\ Len(sub) = IF seen + 1 <= received THEN received - (seen + 1) + 1 ELSE 0
        /\ \A k \in 1..(received - (seen + 1) + 1) : sub[k] = stream[(seen + 1) + k - 1]
    <3>1. \A i \in (seen + 1)..received : i \in 1..Len(stream)
      BY <2>1
    <3>2. \A i \in (seen + 1)..received : stream[i] \in Byte
      BY <2>1, <3>1, ElementOfSeq
    <3>3. seen + 1 \in Int /\ received \in Int
      BY <2>1
    <3> QED
      BY <3>2, <3>3, SubSeqProperties DEF sub
  <2>10. Len(sub) = n /\ \A k \in 1..n : sub[k] = stream[seen + k]
    BY <2>1, <2>2, <2>9
  <2>11. c = sub
    BY <2>7, <2>8, <2>9, <2>10, SeqEqual
  <2> QED
    BY <2>11 DEF c, sub
<1> QED
  BY <1>1, StreamInvariant, PTL

\* The next slice of the stream is taken, or none.
LEMMA TakesNext ==
  ASSUME StreamInv, [Next]_vars, seen' # seen
  PROVE  /\ seen' = seen + 1 /\ seen < Len(stream) /\ Reading /\ Take(stream[seen + 1])
         /\ UNCHANGED <<stream, sent, open, link>>
<1>1. TakeFromSocket \/ TakeFromFile
  BY DEF Next, ReadNextTraceMsg, GetNumBytesInSWTQ, Arrives, Target, LinkEnds, Call, Overflow,
     NothingThere, SocketFails, FileEnds, SendMessage, SendJunk, SendNoise, SendSlices, CanSend, vars
<1>2. Len(stream) \in Nat /\ seen \in 0..Len(stream)
  BY LenProperties DEF StreamInv
<1>3. CASE TakeFromFile
  BY <1>3 DEF TakeFromFile, channel
<1>4. CASE TakeFromSocket
  <2> DEFINE to == received + Len(FirstBytes) + Len(SecondBytes)
  <2>1. medium = "socket" /\ ~Empty(Buffered) /\ seen' = seen + 1 /\ Reading
        /\ Take(Buffered.buf[Buffered.out]) /\ UNCHANGED <<stream, sent, open, link>>
    BY <1>4 DEF TakeFromSocket, channel
  <2>2. to \in 0..arrived /\ Holds(Buffered, seen, to)
    BY <2>1, BufferedHolds
  <2> HIDE DEF to
  <2>3. to \in Nat /\ seen \in Nat /\ stream \in Seq(Byte) /\ to <= Len(stream)
    BY <1>2, <2>2 DEF StreamInv
  <2>4. Buffered.buf[Buffered.out] = stream[seen + 1] /\ seen + 1 <= to
    BY <2>1, <2>2, <2>3, TakeOne
  <2>5. seen < Len(stream)
    BY <1>2, <2>3, <2>4
  <2> QED
    BY <2>1, <2>4, <2>5
<1> QED
  BY <1>1, <1>3, <1>4

\* Whatever the medium, the parser takes the bytes of the stream one after the
\* other: it cannot tell a socket, however recv cuts what was sent, from a file.
SeesStream == [][seen' # seen => seen' = seen + 1 /\ Take(stream[seen + 1])]_vars

\* The parser sees the stream byte by byte, through the ring of a socket too.
THEOREM SocketIsLikeFile == Spec => SeesStream
<1>1. ASSUME StreamInv, [Next]_vars, seen' # seen
      PROVE  seen' = seen + 1 /\ Take(stream[seen + 1])
  BY <1>1, TakesNext
<1> QED
  BY <1>1, StreamInvariant, PTL DEF Spec, SeesStream

-----------------------------------------------------------------------------
(* Messages in the stream.                                                 *)

Sendable == Messages \cup SoleMessages
Entry == [clean : {TRUE}, end : Nat, m : Sendable] \cup [clean : {FALSE}, end : Nat]

\* Where the i-th of what was sent ends.
EndOf(h, i) == IF i = 0 THEN 0 ELSE h[i].end

\* No message starts behind slice a, up to slice e.
NoStart(s, a, e) == \A k \in (a + 1)..e : ~StartsMessage(s[k])

\* The first that starts behind slice a does so with slice f, and goes on to slice e.
Goes(s, a, f, e) ==
  /\ f \in (a + 1)..e /\ NoStart(s, a, f - 1) /\ StartsMessage(s[f])
  /\ \A k \in f..e : Mseo(s[k]) # MsgEnd

Copied(s, f, slices) == \A k \in 1..Len(slices) : s[f + k - 1] = slices[k]

\* Slices f..e are one message to the parser, and unchanged when nothing ran into it.
Whole(s, a, f, entry) ==
  /\ Goes(s, a, f, entry.end - 1) /\ Mseo(s[entry.end]) = MsgEnd
  /\ entry.clean => f + Len(Build(entry.m)) = entry.end + 1 /\ Copied(s, f, Build(entry.m))

\* Stream s is made of what history h has, and of what message is open behind it.
MadeOf(s, h, unfinished) ==
  /\ s \in Seq(Byte) /\ h \in Seq(Entry) /\ unfinished \in BOOLEAN
  /\ \A i \in 1..Len(h) : h[i].end \in 1..Len(s) /\ \E f \in Nat : Whole(s, EndOf(h, i - 1), f, h[i])
  /\ \A i, j \in 1..Len(h) : i < j => h[i].end < h[j].end
  /\ unfinished => \E f \in Nat : Goes(s, EndOf(h, Len(h)), f, Len(s))
  /\ ~unfinished => NoStart(s, EndOf(h, Len(h)), Len(s))

\* An entry has an end, and a message if it is clean.
LEMMA EntryIs ==
  ASSUME NEW e \in Entry
  PROVE  e.end \in Nat /\ e.clean \in BOOLEAN /\ (e.clean => e.m \in Sendable)
BY DEF Entry

\* The ends of what was sent.
LEMMA EndsAre ==
  ASSUME NEW s, NEW h, NEW u, MadeOf(s, h, u)
  PROVE  /\ Len(s) \in Nat /\ Len(h) \in Nat
         /\ \A i \in 0..Len(h) : EndOf(h, i) \in 0..Len(s)
         /\ \A i \in 1..Len(h) : EndOf(h, i) = h[i].end /\ EndOf(h, i) > 0 /\ h[i] \in Entry
         /\ \A i, j \in 0..Len(h) : i < j => EndOf(h, i) < EndOf(h, j)
<1>1. Len(s) \in Nat /\ Len(h) \in Nat
  BY LenProperties DEF MadeOf
<1>2. \A i \in 1..Len(h) : h[i] \in Entry /\ h[i].end \in 1..Len(s)
  BY ElementOfSeq DEF MadeOf
<1>3. \A i \in 1..Len(h) : EndOf(h, i) = h[i].end /\ EndOf(h, i) > 0 /\ EndOf(h, i) \in 1..Len(s)
  BY <1>1, <1>2 DEF EndOf
<1>4. EndOf(h, 0) = 0
  BY DEF EndOf
<1>5. \A i \in 0..Len(h) : i = 0 \/ i \in 1..Len(h)
  BY <1>1
<1>6. \A i \in 0..Len(h) : EndOf(h, i) \in 0..Len(s)
  BY <1>1, <1>3, <1>4, <1>5
<1>7. ASSUME NEW i \in 0..Len(h), NEW j \in 0..Len(h), i < j
      PROVE  EndOf(h, i) < EndOf(h, j)
  <2>1. j \in 1..Len(h)
    BY <1>1, <1>7
  <2>2. CASE i = 0
    BY <1>1, <1>3, <1>4, <2>1, <2>2
  <2>3. CASE i \in 1..Len(h)
    <3>1. h[i].end < h[j].end
      BY <1>7, <2>1, <2>3 DEF MadeOf
    <3> QED
      BY <1>3, <2>1, <2>3, <3>1
  <2> QED
    BY <1>5, <2>2, <2>3
<1> QED
  BY <1>1, <1>2, <1>3, <1>6, <1>7

\* Slices behind the others change none of them.
LEMMA Behind ==
  ASSUME NEW s \in Seq(Byte), NEW t \in Seq(Byte)
  PROVE  /\ s \o t \in Seq(Byte) /\ Len(s) \in Nat /\ Len(t) \in Nat /\ Len(s \o t) = Len(s) + Len(t)
         /\ \A k \in 1..Len(s) : (s \o t)[k] = s[k]
         /\ \A k \in 1..Len(t) : (s \o t)[Len(s) + k] = t[k]
<1>1. Len(s) \in Nat /\ Len(t) \in Nat
  BY LenProperties
<1>2. s \o t \in Seq(Byte) /\ Len(s \o t) = Len(s) + Len(t)
  BY ConcatProperties
<1>3. \A k \in 1..(Len(s) + Len(t)) : (s \o t)[k] = IF k <= Len(s) THEN s[k] ELSE t[k - Len(s)]
  BY ConcatProperties
<1>4. \A k \in 1..Len(s) : k \in 1..(Len(s) + Len(t)) /\ k <= Len(s)
  BY <1>1
<1>5. \A k \in 1..Len(t) : /\ Len(s) + k \in 1..(Len(s) + Len(t)) /\ ~(Len(s) + k <= Len(s))
                           /\ (Len(s) + k) - Len(s) = k
  BY <1>1
<1>6. \A k \in 1..Len(s) : (s \o t)[k] = s[k]
  BY <1>3, <1>4
<1>7. \A k \in 1..Len(t) : (s \o t)[Len(s) + k] = t[k]
  BY <1>3, <1>5
<1> QED
  BY <1>1, <1>2, <1>6, <1>7

\* So a message among those is still there.
LEMMA StillGoes ==
  ASSUME NEW s \in Seq(Byte), NEW t \in Seq(Byte), NEW a \in Nat, NEW f \in Nat, NEW e \in Nat, e <= Len(s)
  PROVE  /\ NoStart(s, a, e) => NoStart(s \o t, a, e)
         /\ Goes(s, a, f, e) => Goes(s \o t, a, f, e)
         /\ \A slices : Len(slices) \in Nat /\ f > 0 /\ f + Len(slices) <= Len(s) + 1 /\ Copied(s, f, slices) =>
              Copied(s \o t, f, slices)
<1>1. Len(s) \in Nat /\ \A k \in 1..Len(s) : (s \o t)[k] = s[k]
  BY Behind
<1>2. \A c \in Nat : c <= Len(s) => (NoStart(s, a, c) => NoStart(s \o t, a, c))
  <2>1. \A c \in Nat : c <= Len(s) => \A k \in (a + 1)..c : k \in 1..Len(s)
    BY <1>1
  <2> QED
    BY <1>1, <2>1 DEF NoStart
<1>3. ASSUME Goes(s, a, f, e) PROVE Goes(s \o t, a, f, e)
  <2>1. f \in (a + 1)..e /\ f - 1 \in Nat /\ f - 1 <= Len(s) /\ f \in 1..Len(s)
    BY <1>1, <1>3 DEF Goes
  <2>2. NoStart(s \o t, a, f - 1) /\ StartsMessage((s \o t)[f])
    BY <1>1, <1>2, <1>3, <2>1 DEF Goes
  <2>3. \A k \in f..e : k \in 1..Len(s)
    BY <1>1, <2>1
  <2>4. \A k \in f..e : Mseo((s \o t)[k]) # MsgEnd
    BY <1>1, <1>3, <2>3 DEF Goes
  <2> QED
    BY <2>1, <2>2, <2>4 DEF Goes
<1>4. ASSUME NEW slices, Len(slices) \in Nat, f > 0, f + Len(slices) <= Len(s) + 1, Copied(s, f, slices)
      PROVE  Copied(s \o t, f, slices)
  <2>1. \A k \in 1..Len(slices) : f + k - 1 \in 1..Len(s)
    BY <1>1, <1>4
  <2> QED
    BY <1>1, <1>4, <2>1 DEF Copied
<1> QED
  BY <1>2, <1>3, <1>4

\* What a message takes of the stream, with slices behind it.
LEMMA StillWhole ==
  ASSUME NEW s \in Seq(Byte), NEW t \in Seq(Byte), NEW a \in Nat, NEW f \in Nat,
         NEW e \in Entry, e.end \in 1..Len(s), Whole(s, a, f, e)
  PROVE  Whole(s \o t, a, f, e)
<1>1. Len(s) \in Nat /\ \A k \in 1..Len(s) : (s \o t)[k] = s[k]
  BY Behind
<1>2. Goes(s \o t, a, f, e.end - 1)
  <2>1. e.end - 1 \in Nat /\ e.end - 1 <= Len(s)
    BY <1>1
  <2> QED
    BY <2>1, StillGoes DEF Whole
<1>3. Mseo((s \o t)[e.end]) = MsgEnd
  BY <1>1 DEF Whole
<1>4. ASSUME e.clean PROVE Copied(s \o t, f, Build(e.m))
  <2>1. e.m \in Sendable
    BY <1>4, EntryIs
  <2>2. Len(Build(e.m)) \in Nat
    BY <2>1, ParserAssumption, LenProperties DEF Sendable
  <2>3. f > 0
    BY <1>1 DEF Whole, Goes
  <2>4. f + Len(Build(e.m)) = e.end + 1 /\ Copied(s, f, Build(e.m))
    BY <1>4 DEF Whole
  <2>5. f + Len(Build(e.m)) <= Len(s) + 1
    BY <1>1, <2>4
  <2> QED
    BY <2>2, <2>3, <2>4, <2>5, StillGoes, <1>1
<1> QED
  BY <1>2, <1>3, <1>4 DEF Whole


\* History h with an entry more.
LEMMA OneMore ==
  ASSUME NEW h \in Seq(Entry), NEW e \in Entry
  PROVE  /\ Append(h, e) \in Seq(Entry) /\ Len(h) \in Nat /\ Len(Append(h, e)) = Len(h) + 1
         /\ Append(h, e)[Len(h) + 1] = e
         /\ \A i \in 1..Len(h) : Append(h, e)[i] = h[i]
         /\ \A i \in 0..Len(h) : EndOf(Append(h, e), i) = EndOf(h, i)
<1>1. Len(h) \in Nat
  BY LenProperties
<1>2. /\ Append(h, e) \in Seq(Entry) /\ Len(Append(h, e)) = Len(h) + 1
      /\ Append(h, e)[Len(h) + 1] = e
      /\ \A i \in 1..Len(h) : Append(h, e)[i] = h[i]
  BY AppendProperties
<1>3. \A i \in 0..Len(h) : i = 0 \/ i \in 1..Len(h)
  BY <1>1
<1>4. \A i \in 0..Len(h) : EndOf(Append(h, e), i) = EndOf(h, i)
  BY <1>2, <1>3 DEF EndOf
<1> QED
  BY <1>1, <1>2, <1>4

\* Slices are sent and end a message.
LEMMA EntryAdded ==
  ASSUME NEW s, NEW h, NEW u, MadeOf(s, h, u), NEW t \in Seq(Byte), Len(t) > 0,
         NEW e \in Entry, e.end = Len(s) + Len(t),
         NEW f \in Nat, Whole(s \o t, EndOf(h, Len(h)), f, e)
  PROVE  MadeOf(s \o t, Append(h, e), FALSE)
<1> DEFINE n == Len(h)
           g == Append(h, e)
           x == s \o t
<1>1. /\ s \in Seq(Byte) /\ h \in Seq(Entry)
      /\ \A i \in 1..n : h[i].end \in 1..Len(s) /\ \E c \in Nat : Whole(s, EndOf(h, i - 1), c, h[i])
      /\ \A i, j \in 1..n : i < j => h[i].end < h[j].end
  BY DEF MadeOf
<1>2. /\ Len(s) \in Nat /\ n \in Nat /\ Len(t) \in Nat
      /\ \A i \in 0..n : EndOf(h, i) \in 0..Len(s)
      /\ \A i \in 1..n : EndOf(h, i) = h[i].end /\ h[i] \in Entry
  BY EndsAre, LenProperties
<1>3. x \in Seq(Byte) /\ Len(x) = Len(s) + Len(t)
  BY <1>1, Behind
<1>4. /\ g \in Seq(Entry) /\ Len(g) = n + 1 /\ g[n + 1] = e
      /\ \A i \in 1..n : g[i] = h[i]
      /\ \A i \in 0..n : EndOf(g, i) = EndOf(h, i)
  BY <1>1, OneMore
<1> HIDE DEF n, g, x
<1>5. \A i \in 1..(n + 1) : i \in 1..n \/ i = n + 1
  BY <1>2
<1>6. ASSUME NEW i \in 1..Len(g)
      PROVE  g[i].end \in 1..Len(x) /\ \E c \in Nat : Whole(x, EndOf(g, i - 1), c, g[i])
  <2>1. CASE i \in 1..n
    <3>1. i - 1 \in 0..n
      BY <1>2, <2>1
    <3>2. g[i] = h[i] /\ EndOf(g, i - 1) = EndOf(h, i - 1) /\ EndOf(h, i - 1) \in Nat
      BY <1>2, <1>4, <2>1, <3>1
    <3>3. PICK c \in Nat : Whole(s, EndOf(h, i - 1), c, h[i])
      BY <1>1, <2>1
    <3>4. Whole(x, EndOf(h, i - 1), c, h[i])
      BY <1>1, <1>2, <2>1, <3>2, <3>3, StillWhole DEF x
    <3>5. h[i].end \in 1..Len(x)
      <4>1. h[i].end \in 1..Len(s)
        BY <1>1, <2>1
      <4>2. Len(x) \in Nat /\ Len(s) <= Len(x)
        BY <1>2, <1>3
      <4> QED
        BY <1>2, <4>1, <4>2
    <3> QED
      BY <3>2, <3>4, <3>5
  <2>2. CASE i = n + 1
    <3>1. g[i] = e /\ EndOf(g, i - 1) = EndOf(h, n)
      BY <1>2, <1>4, <2>2
    <3>2. e.end \in 1..Len(x)
      BY <1>2, <1>3
    <3>3. Whole(x, EndOf(h, n), f, e)
      BY DEF x, n
    <3> QED
      BY <3>1, <3>2, <3>3
  <2> QED
    BY <1>4, <1>5, <2>1, <2>2
<1>7. ASSUME NEW i \in 1..Len(g), NEW j \in 1..Len(g), i < j
      PROVE  g[i].end < g[j].end
  <2>1. i \in 1..n
    BY <1>2, <1>4, <1>7
  <2>2. CASE j \in 1..n
    BY <1>1, <1>4, <1>7, <2>1, <2>2
  <2>3. CASE j = n + 1
    <3>1. g[i].end \in 1..Len(s) /\ g[j].end = Len(s) + Len(t)
      BY <1>1, <1>4, <2>1, <2>3
    <3> QED
      BY <1>2, <3>1
  <2> QED
    BY <1>4, <1>5, <2>2, <2>3
<1>8. NoStart(x, EndOf(g, Len(g)), Len(x))
  <2>1. EndOf(g, Len(g)) = Len(x)
    BY <1>2, <1>3, <1>4 DEF EndOf
  <2>2. (Len(x) + 1)..Len(x) = {}
    BY <1>2, <1>3
  <2> QED
    BY <2>1, <2>2 DEF NoStart
<1>9. MadeOf(x, g, FALSE)
  BY <1>3, <1>4, <1>6, <1>7, <1>8 DEF MadeOf
<1> QED
  BY <1>9 DEF x, g

\* Slices are sent and end none.
LEMMA TailGrows ==
  ASSUME NEW s, NEW h, NEW u, MadeOf(s, h, u), NEW t \in Seq(Byte), NEW v \in BOOLEAN,
         v => \E f \in Nat : Goes(s \o t, EndOf(h, Len(h)), f, Len(s \o t)),
         ~v => NoStart(s \o t, EndOf(h, Len(h)), Len(s \o t))
  PROVE  MadeOf(s \o t, h, v)
<1>1. /\ s \in Seq(Byte) /\ h \in Seq(Entry)
      /\ \A i \in 1..Len(h) : h[i].end \in 1..Len(s) /\ \E c \in Nat : Whole(s, EndOf(h, i - 1), c, h[i])
      /\ \A i, j \in 1..Len(h) : i < j => h[i].end < h[j].end
  BY DEF MadeOf
<1>2. /\ Len(s) \in Nat /\ Len(h) \in Nat
      /\ \A i \in 0..Len(h) : EndOf(h, i) \in 0..Len(s)
      /\ \A i \in 1..Len(h) : h[i] \in Entry
  BY EndsAre
<1>3. s \o t \in Seq(Byte) /\ Len(s \o t) = Len(s) + Len(t) /\ Len(t) \in Nat
  BY <1>1, Behind
<1>4. ASSUME NEW i \in 1..Len(h)
      PROVE  h[i].end \in 1..Len(s \o t) /\ \E c \in Nat : Whole(s \o t, EndOf(h, i - 1), c, h[i])
  <2>1. i - 1 \in 0..Len(h) /\ EndOf(h, i - 1) \in Nat
    BY <1>2
  <2>2. PICK c \in Nat : Whole(s, EndOf(h, i - 1), c, h[i])
    BY <1>1
  <2>3. Whole(s \o t, EndOf(h, i - 1), c, h[i])
    BY <1>1, <1>2, <2>1, <2>2, StillWhole
  <2>4. h[i].end \in 1..Len(s \o t)
    BY <1>1, <1>2, <1>3
  <2> QED
    BY <2>3, <2>4
<1> QED
  BY <1>1, <1>3, <1>4 DEF MadeOf

\* A message, or what ends like one, is sent: behind a message that lost its end it
\* is the end of that one.
LEMMA FramedAdded ==
  ASSUME NEW s, NEW h, NEW u, MadeOf(s, h, u), NEW t \in Seq(Byte), Framed(t),
         NEW e \in Entry, e.end = Len(s) + Len(t),
         e.clean = FALSE \/ (u = FALSE /\ t = Build(e.m))
  PROVE  MadeOf(s \o t, Append(h, e), FALSE)
<1> DEFINE a == EndOf(h, Len(h))
           x == s \o t
           l == Len(s)
           n == Len(t)
<1>1. s \in Seq(Byte) /\ u \in BOOLEAN /\ l \in Nat /\ n \in Nat /\ a \in 0..l /\ Len(h) \in Nat
  <2>1. s \in Seq(Byte) /\ u \in BOOLEAN /\ n \in Nat
    BY LenProperties DEF MadeOf
  <2>2. l \in Nat /\ Len(h) \in Nat /\ \A i \in 0..Len(h) : EndOf(h, i) \in 0..Len(s)
    BY EndsAre
  <2>3. Len(h) \in 0..Len(h)
    BY <2>2
  <2> QED
    BY <2>1, <2>2, <2>3
<1>2. /\ \A k \in 1..l : x[k] = s[k]
      /\ \A k \in 1..n : x[l + k] = t[k]
  BY <1>1, Behind
<1>3. /\ n > 1 /\ StartsMessage(t[1])
      /\ \A k \in 1..n : Mseo(t[k]) = MsgEnd <=> k = n
  BY DEF Framed
<1> HIDE DEF a, x, l, n
<1>4. /\ x[l + 1] = t[1] /\ x[l + n] = t[n] /\ Mseo(t[n]) = MsgEnd
  BY <1>1, <1>2, <1>3
<1>5. \A k \in (l + 1)..(l + n - 1) : Mseo(x[k]) # MsgEnd
  <2>1. ASSUME NEW k \in (l + 1)..(l + n - 1) PROVE Mseo(x[k]) # MsgEnd
    <3>1. k - l \in 1..n /\ k - l # n /\ l + (k - l) = k
      BY <1>1
    <3> QED
      BY <1>2, <1>3, <3>1
  <2> QED
    BY <2>1
<1>6. e.end = l + n /\ e.end - 1 = l + n - 1
  BY DEF l, n
<1>7. \E f \in Nat : Whole(x, a, f, e)
  <2>1. CASE u
    <3>1. PICK f \in Nat : Goes(s, a, f, l)
      BY <2>1 DEF MadeOf, a, l
    <3>2. Goes(x, a, f, l)
      BY <1>1, <3>1, StillGoes DEF x, l
    <3>3. f \in (a + 1)..l /\ NoStart(x, a, f - 1) /\ StartsMessage(x[f])
          /\ \A k \in f..l : Mseo(x[k]) # MsgEnd
      BY <3>2 DEF Goes
    <3>4. f \in (a + 1)..(l + n - 1)
      BY <1>1, <1>3, <3>3
    <3>5. \A k \in f..(l + n - 1) : k \in f..l \/ k \in (l + 1)..(l + n - 1)
      BY <1>1
    <3>6. \A k \in f..(l + n - 1) : Mseo(x[k]) # MsgEnd
      BY <1>5, <3>3, <3>5
    <3>7. Goes(x, a, f, l + n - 1)
      BY <3>3, <3>4, <3>6 DEF Goes
    <3>8. ~e.clean
      BY <2>1
    <3> QED
      BY <1>4, <1>6, <3>7, <3>8 DEF Whole
  <2>2. CASE ~u
    <3>1. NoStart(s, a, l)
      BY <1>1, <2>2 DEF MadeOf, a, l
    <3>2. NoStart(x, a, l)
      BY <1>1, <3>1, StillGoes DEF x, l
    <3>3. l + 1 \in Nat /\ l + 1 \in (a + 1)..(l + n - 1) /\ (l + 1) - 1 = l
      BY <1>1, <1>3
    <3>4. Goes(x, a, l + 1, l + n - 1)
      BY <1>3, <1>4, <1>5, <3>2, <3>3 DEF Goes
    <3>5. ASSUME e.clean
          PROVE  (l + 1) + Len(Build(e.m)) = e.end + 1 /\ Copied(x, l + 1, Build(e.m))
      <4>1. Build(e.m) = t /\ Len(Build(e.m)) = n
        BY <3>5 DEF n
      <4>2. (l + 1) + n = e.end + 1
        BY <1>1, <1>6
      <4>3. \A k \in 1..n : (l + 1) + k - 1 = l + k
        BY <1>1
      <4> QED
        BY <1>2, <4>1, <4>2, <4>3 DEF Copied
    <3> QED
      BY <1>4, <1>6, <3>3, <3>4, <3>5 DEF Whole
  <2> QED
    BY <1>1, <2>1, <2>2
<1>8. n > 0
  BY <1>1, <1>3
<1> QED
  BY <1>6, <1>7, <1>8, EntryAdded DEF a, x, l, n

\* A slice of noise is sent.
LEMMA NoiseAdded ==
  ASSUME NEW s, NEW h, NEW u, MadeOf(s, h, u), NEW b \in Byte,
         NEW e \in Entry, e.clean = FALSE, e.end = Len(s) + 1
  PROVE  /\ u = TRUE /\ Mseo(b) = MsgEnd => MadeOf(s \o <<b>>, Append(h, e), FALSE)
         /\ u = TRUE /\ Mseo(b) # MsgEnd => MadeOf(s \o <<b>>, h, TRUE)
         /\ u = FALSE => MadeOf(s \o <<b>>, h, StartsMessage(b))
<1> DEFINE a == EndOf(h, Len(h))
           t == <<b>>
           x == s \o t
           l == Len(s)
<1>1. s \in Seq(Byte) /\ u \in BOOLEAN
  BY DEF MadeOf
<1>2. l \in Nat /\ a \in 0..l
  <2>1. l \in Nat /\ Len(h) \in Nat /\ \A i \in 0..Len(h) : EndOf(h, i) \in 0..l
    BY EndsAre
  <2> QED
    BY <2>1
<1>3. t \in Seq(Byte) /\ Len(t) = 1 /\ t[1] = b
  OBVIOUS
<1>4. Len(x) = l + 1 /\ x[l + 1] = b /\ \A k \in 1..l : x[k] = s[k]
  <2>1. /\ Len(x) = l + Len(t)
        /\ \A k \in 1..l : x[k] = s[k]
        /\ \A k \in 1..Len(t) : x[l + k] = t[k]
    BY <1>1, <1>3, Behind
  <2> QED
    BY <1>3, <2>1
<1> HIDE DEF a, t, x, l
<1>5. ASSUME u PROVE \E f \in Nat : Goes(x, a, f, l)
  <2>1. PICK f \in Nat : Goes(s, a, f, l)
    BY <1>5 DEF MadeOf, a, l
  <2> QED
    BY <1>1, <1>2, <1>3, <2>1, StillGoes DEF x, l
<1>6. ASSUME ~u PROVE NoStart(x, a, l)
  <2>1. NoStart(s, a, l)
    BY <1>6 DEF MadeOf, a, l
  <2> QED
    BY <1>1, <1>2, <1>3, <2>1, StillGoes DEF x, l
<1>7. ASSUME u, Mseo(b) = MsgEnd
      PROVE  MadeOf(x, Append(h, e), FALSE)
  <2>1. PICK f \in Nat : Goes(x, a, f, l)
    BY <1>5, <1>7
  <2>2. e.end = l + 1 /\ e.end - 1 = l
    BY <1>2 DEF l
  <2>3. Whole(x, a, f, e)
    BY <1>4, <1>7, <2>1, <2>2 DEF Whole
  <2>4. Len(t) > 0 /\ e.end = Len(s) + Len(t)
    BY <1>3
  <2> QED
    BY <1>3, <2>3, <2>4, EntryAdded DEF x, a
<1>8. ASSUME u, Mseo(b) # MsgEnd
      PROVE  MadeOf(x, h, TRUE)
  <2>1. PICK f \in Nat : Goes(x, a, f, l)
    BY <1>5, <1>8
  <2>2. f \in (a + 1)..(l + 1) /\ NoStart(x, a, f - 1) /\ StartsMessage(x[f])
        /\ \A k \in f..l : Mseo(x[k]) # MsgEnd
    BY <1>2, <2>1 DEF Goes
  <2>3. \A k \in f..(l + 1) : k \in f..l \/ k = l + 1
    BY <1>2, <2>2
  <2>4. \A k \in f..(l + 1) : Mseo(x[k]) # MsgEnd
    BY <1>4, <1>8, <2>2, <2>3
  <2>5. Goes(x, a, f, Len(x))
    BY <1>4, <2>2, <2>4 DEF Goes
  <2> QED
    BY <1>3, <2>5, TailGrows DEF x, a
<1>9. ASSUME ~u
      PROVE  MadeOf(x, h, StartsMessage(b))
  <2>1. NoStart(x, a, l)
    BY <1>6, <1>9
  <2>2. CASE StartsMessage(b)
    <3>1. l + 1 \in Nat /\ l + 1 \in (a + 1)..(l + 1) /\ (l + 1) - 1 = l
          /\ \A k \in (l + 1)..(l + 1) : k = l + 1
      BY <1>2
    <3>2. Mseo(b) # MsgEnd
      BY <2>2 DEF StartsMessage, Normal, MsgEnd
    <3>3. Goes(x, a, l + 1, Len(x))
      BY <1>4, <2>1, <2>2, <3>1, <3>2 DEF Goes
    <3>4. MadeOf(x, h, TRUE)
      BY <1>3, <3>1, <3>3, TailGrows DEF x, a
    <3> QED
      BY <2>2, <3>4 DEF StartsMessage
  <2>3. CASE ~StartsMessage(b)
    <3>1. \A k \in (a + 1)..(l + 1) : k \in (a + 1)..l \/ k = l + 1
      BY <1>2
    <3>2. NoStart(x, a, Len(x))
      BY <1>4, <2>1, <2>3, <3>1 DEF NoStart
    <3>3. MadeOf(x, h, FALSE)
      BY <1>3, <3>2, TailGrows DEF x, a
    <3> QED
      BY <2>3, <3>3 DEF StartsMessage
  <2> QED
    BY <2>2, <2>3
<1> QED
  BY <1>7, <1>8, <1>9 DEF x, t

-----------------------------------------------------------------------------
(* The parser in the stream.                                               *)

\* With n slices taken, the parser is through with q of what was sent,
At(h, n, q) == q \in 0..Len(h) /\ EndOf(h, q) <= n /\ (q < Len(h) => n < EndOf(h, q + 1))

\* and has slices msg of the next, or none of a message.
SoFar(s, h, n, q, msg) ==
  IF msg = <<>> THEN NoStart(s, EndOf(h, q), n)
  ELSE Goes(s, EndOf(h, q), n - Len(msg) + 1, n) /\ Copied(s, n - Len(msg) + 1, msg)

\* Passed is what the parser is through with.
LEMMA PassedIs ==
  ASSUME NEW s, NEW h, NEW u, MadeOf(s, h, u), NEW n \in Nat, NEW q, At(h, n, q)
  PROVE  Cardinality({i \in DOMAIN h : h[i].end <= n}) = q
<1>1. /\ Len(h) \in Nat /\ h \in Seq(Entry)
      /\ \A i \in 0..Len(h) : EndOf(h, i) \in 0..Len(s)
      /\ \A i \in 1..Len(h) : EndOf(h, i) = h[i].end
      /\ \A i, j \in 0..Len(h) : i < j => EndOf(h, i) < EndOf(h, j)
  BY EndsAre DEF MadeOf
<1>2. q \in Nat /\ q <= Len(h) /\ EndOf(h, q) <= n /\ (q < Len(h) => n < EndOf(h, q + 1))
  BY <1>1 DEF At
<1>3. DOMAIN h = 1..Len(h)
  BY <1>1, LenProperties
<1>4. ASSUME NEW i \in 1..Len(h)
      PROVE  h[i].end <= n <=> i <= q
  <2>1. EndOf(h, i) = h[i].end /\ EndOf(h, i) \in Nat /\ EndOf(h, q) \in Nat
    BY <1>1, <1>2
  <2>2. CASE i <= q
    <3>1. EndOf(h, i) <= EndOf(h, q)
      <4>1. i = q \/ i < q
        BY <1>2, <2>2
      <4> QED
        BY <1>1, <1>2, <2>1, <4>1
    <3> QED
      BY <1>2, <2>1, <2>2, <3>1
  <2>3. CASE ~(i <= q)
    <3>1. q + 1 \in 1..Len(h) /\ (q + 1 = i \/ q + 1 < i) /\ q < Len(h)
      BY <1>1, <1>2, <2>3
    <3>2. EndOf(h, q + 1) <= EndOf(h, i)
      BY <1>1, <2>1, <3>1
    <3>3. EndOf(h, q + 1) \in Nat
      BY <1>1, <3>1
    <3> QED
      BY <1>2, <2>1, <2>3, <3>1, <3>2, <3>3
  <2> QED
    BY <2>2, <2>3
<1>5. {i \in DOMAIN h : h[i].end <= n} = 1..q
  <2>1. \A i : i \in 1..Len(h) /\ i <= q <=> i \in 1..q
    BY <1>1, <1>2
  <2> QED
    BY <1>3, <1>4, <2>1
<1>6. Cardinality(1..q) = q
  BY <1>2, FS_Interval
<1> QED
  BY <1>5, <1>6

\* The first message behind a slice has one start.
LEMMA OneStart ==
  ASSUME NEW s, NEW a \in Nat, NEW f \in Nat, NEW g \in Nat, NEW c \in Nat, NEW e \in Nat,
         Goes(s, a, f, c), Goes(s, a, g, e)
  PROVE  f = g
<1>1. \A x, y \in Nat : x \in (a + 1)..c /\ y \in (a + 1)..e => x = y \/ x \in (a + 1)..(y - 1) \/ y \in (a + 1)..(x - 1)
  OBVIOUS
<1>2. \A x, y \in Nat : x \in (a + 1)..e /\ y \in (a + 1)..c => x = y \/ x \in (a + 1)..(y - 1) \/ y \in (a + 1)..(x - 1)
  OBVIOUS
<1> QED
  BY <1>1, <1>2 DEF Goes, NoStart

\* The parser has started the message that ends here: it has all of it.
LEMMA EndsHere ==
  ASSUME NEW s, NEW h, NEW u, MadeOf(s, h, u), NEW n \in Nat, n < Len(s),
         NEW q, At(h, n, q), NEW msg \in Seq(Byte), msg # <<>>, SoFar(s, h, n, q, msg),
         Mseo(s[n + 1]) = MsgEnd
  PROVE  /\ q \in Nat /\ q < Len(h) /\ q + 1 \in 1..Len(h) /\ h[q + 1] \in Entry
         /\ h[q + 1].clean => Append(msg, s[n + 1]) = Build(h[q + 1].m)
         /\ At(h, n + 1, q + 1) /\ SoFar(s, h, n + 1, q + 1, <<>>)
<1> DEFINE a == EndOf(h, q)
           l == Len(msg)
           f == n - l + 1
<1>1. /\ Len(h) \in Nat /\ h \in Seq(Entry) /\ s \in Seq(Byte) /\ Len(s) \in Nat
      /\ \A i \in 0..Len(h) : EndOf(h, i) \in 0..Len(s)
      /\ \A i \in 1..Len(h) : EndOf(h, i) = h[i].end /\ h[i] \in Entry
      /\ \A i, j \in 0..Len(h) : i < j => EndOf(h, i) < EndOf(h, j)
  BY EndsAre DEF MadeOf
<1>2. q \in Nat /\ q <= Len(h) /\ a <= n /\ a \in Nat /\ (q < Len(h) => n < EndOf(h, q + 1))
  BY <1>1 DEF At
<1>3. l \in Nat /\ l > 0
  BY EmptySeq, LenProperties
<1>4. Goes(s, a, f, n) /\ Copied(s, f, msg)
  BY DEF SoFar
<1> HIDE DEF a, l, f
<1>5. f \in Nat /\ f <= n /\ f + l = n + 1
  BY <1>2, <1>3, <1>4 DEF Goes, f
<1>6. q < Len(h)
  <2> SUFFICES ASSUME ~(q < Len(h))
               PROVE  FALSE
    OBVIOUS
  <2>1. q = Len(h)
    BY <1>1, <1>2
  <2>2. CASE u
    <3>1. PICK g \in Nat : Goes(s, a, g, Len(s))
      BY <2>1, <2>2 DEF MadeOf, a
    <3>2. g = f
      BY <1>1, <1>2, <1>4, <1>5, <3>1, OneStart
    <3>3. n + 1 \in f..Len(s)
      BY <1>1, <1>5
    <3> QED
      BY <3>1, <3>2, <3>3 DEF Goes
  <2>3. CASE ~u
    <3>1. NoStart(s, a, Len(s))
      BY <2>1, <2>3 DEF MadeOf, a
    <3>2. f \in (a + 1)..Len(s) /\ StartsMessage(s[f])
      BY <1>1, <1>2, <1>4, <1>5 DEF Goes
    <3> QED
      BY <3>1, <3>2 DEF NoStart
  <2> QED
    BY <2>2, <2>3
<1>7. q + 1 \in 1..Len(h) /\ (q + 1) - 1 = q /\ h[q + 1] \in Entry /\ EndOf(h, q + 1) = h[q + 1].end
      /\ h[q + 1].end \in Nat
  <2>1. q + 1 \in 1..Len(h) /\ (q + 1) - 1 = q
    BY <1>1, <1>2, <1>6
  <2> QED
    BY <1>1, <2>1, EntryIs
<1> DEFINE e == h[q + 1].end
<1>8. PICK g \in Nat : Whole(s, a, g, h[q + 1])
  BY <1>7 DEF MadeOf, a
<1> HIDE DEF e
<1>9. n < e /\ e \in Nat
  BY <1>2, <1>6, <1>7 DEF e
<1>10. Goes(s, a, g, e - 1) /\ e - 1 \in Nat
  BY <1>8, <1>9 DEF Whole, e
<1>11. g = f
  BY <1>2, <1>4, <1>5, <1>10, OneStart
<1>12. e = n + 1
  <2>1. n + 1 \in f..(e - 1) \/ e = n + 1
    BY <1>5, <1>9
  <2> QED
    BY <1>10, <1>11, <2>1 DEF Goes
<1>13. ASSUME h[q + 1].clean
       PROVE  Append(msg, s[n + 1]) = Build(h[q + 1].m)
  <2> DEFINE built == Build(h[q + 1].m)
             b == s[n + 1]
  <2>1. built \in Seq(Byte)
    <3>1. h[q + 1].m \in Sendable
      BY <1>7, <1>13, EntryIs
    <3> QED
      BY <3>1, ParserAssumption DEF Sendable, Byte
  <2>2. b \in Byte
    <3>1. n + 1 \in 1..Len(s)
      BY <1>1
    <3> QED
      BY <1>1, <3>1, ElementOfSeq
  <2>3. f + Len(built) = e + 1 /\ Copied(s, f, built)
    BY <1>8, <1>11, <1>13 DEF Whole, e
  <2> HIDE DEF built, b
  <2>4. Len(built) = l + 1
    <3>1. Len(built) \in Nat
      BY <2>1, LenProperties
    <3> QED
      BY <1>3, <1>5, <1>12, <2>3, <3>1
  <2>5. /\ Append(msg, b) \in Seq(Byte) /\ Len(Append(msg, b)) = l + 1
        /\ Append(msg, b)[l + 1] = b
        /\ \A i \in 1..l : Append(msg, b)[i] = msg[i]
    BY <2>2, AppendProperties DEF l
  <2>6. ASSUME NEW k \in 1..(l + 1)
        PROVE  Append(msg, b)[k] = built[k]
    <3>1. built[k] = s[f + k - 1]
      BY <2>3, <2>4 DEF Copied
    <3>2. CASE k \in 1..l
      BY <1>4, <2>5, <3>1, <3>2 DEF Copied, l
    <3>3. CASE k \notin 1..l
      <4>1. k = l + 1 /\ f + k - 1 = n + 1
        BY <1>3, <1>5, <3>3
      <4> QED
        BY <2>5, <3>1, <4>1 DEF b
    <3> QED
      BY <3>2, <3>3
  <2>7. Append(msg, b) = built
    BY <2>1, <2>4, <2>5, <2>6, SeqEqual
  <2> QED
    BY <2>7 DEF built, b
<1>14. At(h, n + 1, q + 1)
  <2>1. q + 1 < Len(h) => EndOf(h, q + 1) < EndOf(h, (q + 1) + 1)
    <3>1. q + 1 < Len(h) => q + 1 \in 0..Len(h) /\ (q + 1) + 1 \in 0..Len(h) /\ q + 1 < (q + 1) + 1
      BY <1>1, <1>2
    <3> QED
      BY <1>1, <3>1
  <2>2. EndOf(h, q + 1) = n + 1
    BY <1>7, <1>12 DEF e
  <2> QED
    BY <1>7, <2>1, <2>2 DEF At
<1>15. SoFar(s, h, n + 1, q + 1, <<>>)
  <2>1. EndOf(h, q + 1) = n + 1 /\ ((n + 1) + 1)..(n + 1) = {}
    BY <1>7, <1>12 DEF e
  <2> QED
    BY <2>1 DEF SoFar, NoStart
<1> QED
  BY <1>2, <1>6, <1>7, <1>13, <1>14, <1>15

\* A slice that does not end a message, or comes before one, is not the end of one.
LEMMA EndsNot ==
  ASSUME NEW s, NEW h, NEW u, MadeOf(s, h, u), NEW n \in Nat, n < Len(s),
         NEW q, At(h, n, q), Mseo(s[n + 1]) # MsgEnd \/ NoStart(s, EndOf(h, q), n)
  PROVE  At(h, n + 1, q)
<1>1. /\ Len(h) \in Nat
      /\ \A i \in 0..Len(h) : EndOf(h, i) \in 0..Len(s)
      /\ \A i \in 1..Len(h) : EndOf(h, i) = h[i].end /\ h[i] \in Entry
  BY EndsAre
<1>2. q \in 0..Len(h) /\ EndOf(h, q) <= n /\ EndOf(h, q) \in Nat /\ (q < Len(h) => n < EndOf(h, q + 1))
  BY <1>1 DEF At
<1>3. ASSUME q < Len(h)
      PROVE  n + 1 < EndOf(h, q + 1)
  <2> DEFINE e == h[q + 1].end
             a == EndOf(h, q)
  <2>1. q + 1 \in 1..Len(h) /\ (q + 1) - 1 = q
    BY <1>1, <1>2, <1>3
  <2>2. e \in Nat /\ EndOf(h, q + 1) = e /\ n < e
    BY <1>1, <1>2, <1>3, <2>1, EntryIs
  <2>3. PICK g \in Nat : Whole(s, a, g, h[q + 1])
    BY <2>1 DEF MadeOf
  <2>4. Goes(s, a, g, e - 1) /\ Mseo(s[e]) = MsgEnd
    BY <2>3 DEF Whole
  <2> HIDE DEF e, a
  <2>5. g \in (a + 1)..(e - 1) /\ StartsMessage(s[g])
    BY <2>4 DEF Goes
  <2>6. e # n + 1
    <3> SUFFICES ASSUME e = n + 1
                 PROVE  FALSE
      OBVIOUS
    <3>1. NoStart(s, a, n)
      BY <2>4 DEF a
    <3>2. g \in (a + 1)..n
      BY <2>5
    <3> QED
      BY <2>5, <3>1, <3>2 DEF NoStart
  <2> QED
    BY <2>2, <2>6
<1> QED
  BY <1>1, <1>2, <1>3 DEF At

\* What the parser has with a slice more: before a message, at its start, within it.
LEMMA OneSliceMore ==
  ASSUME NEW s \in Seq(Byte), NEW h, NEW n \in Nat, n < Len(s), NEW q, EndOf(h, q) \in 0..n,
         NEW msg \in Seq(Byte), SoFar(s, h, n, q, msg)
  PROVE  /\ msg = <<>> /\ ~StartsMessage(s[n + 1]) => SoFar(s, h, n + 1, q, <<>>)
         /\ msg = <<>> /\ StartsMessage(s[n + 1]) => SoFar(s, h, n + 1, q, <<s[n + 1]>>)
         /\ msg # <<>> /\ Mseo(s[n + 1]) # MsgEnd => SoFar(s, h, n + 1, q, Append(msg, s[n + 1]))
<1> DEFINE a == EndOf(h, q)
           b == s[n + 1]
<1>1. a \in Nat /\ a <= n /\ Len(s) \in Nat
  BY LenProperties
<1>2. b \in Byte
  <2>1. n + 1 \in 1..Len(s)
    BY <1>1
  <2> QED
    BY <2>1, ElementOfSeq
<1> HIDE DEF a, b
<1>3. ASSUME msg = <<>>, ~StartsMessage(b)
      PROVE  SoFar(s, h, n + 1, q, <<>>)
  <2>1. NoStart(s, a, n)
    BY <1>3 DEF SoFar, a
  <2>2. \A k \in (a + 1)..(n + 1) : k \in (a + 1)..n \/ k = n + 1
    BY <1>1
  <2>3. NoStart(s, a, n + 1)
    BY <1>3, <2>1, <2>2 DEF NoStart, b
  <2> QED
    BY <2>3 DEF SoFar, a
<1>4. ASSUME msg = <<>>, StartsMessage(b)
      PROVE  SoFar(s, h, n + 1, q, <<b>>)
  <2>1. NoStart(s, a, n)
    BY <1>4 DEF SoFar, a
  <2>2. /\ n + 1 \in (a + 1)..(n + 1) /\ (n + 1) - 1 = n
        /\ \A k \in (n + 1)..(n + 1) : k = n + 1
    BY <1>1
  <2>3. Mseo(b) # MsgEnd
    BY <1>4 DEF StartsMessage, Normal, MsgEnd
  <2>4. Goes(s, a, n + 1, n + 1)
    BY <1>4, <2>1, <2>2, <2>3 DEF Goes, b
  <2>5. Len(<<b>>) = 1 /\ <<b>> # <<>> /\ (n + 1) - 1 + 1 = n + 1 /\ <<b>>[1] = b
        /\ \A k \in 1..1 : k = 1 /\ (n + 1) + k - 1 = n + 1
    OBVIOUS
  <2>6. Copied(s, n + 1, <<b>>)
    BY <2>5 DEF Copied, b
  <2> QED
    BY <2>4, <2>5, <2>6 DEF SoFar, a
<1>5. ASSUME msg # <<>>, Mseo(b) # MsgEnd
      PROVE  SoFar(s, h, n + 1, q, Append(msg, b))
  <2> DEFINE l == Len(msg)
             f == n - l + 1
             more == Append(msg, b)
  <2>1. l \in Nat /\ l > 0
    BY <1>5, EmptySeq, LenProperties
  <2>2. Goes(s, a, f, n) /\ Copied(s, f, msg)
    BY <1>5 DEF SoFar, a
  <2>3. /\ Len(more) = l + 1 /\ more[l + 1] = b /\ \A i \in 1..l : more[i] = msg[i]
        /\ more # <<>>
    <3>1. /\ Len(more) = l + 1 /\ more[l + 1] = b /\ \A i \in 1..l : more[i] = msg[i]
      BY <1>2, AppendProperties
    <3>2. Len(<<>>) = 0
      BY EmptySeq
    <3> QED
      BY <2>1, <3>1, <3>2
  <2> HIDE DEF l, f, more
  <2>4. f \in (a + 1)..n /\ f \in Int /\ f + l = n + 1 /\ (n + 1) - Len(more) + 1 = f
    BY <2>1, <2>2, <2>3 DEF Goes, f
  <2>5. \A k \in f..(n + 1) : k \in f..n \/ k = n + 1
    BY <2>4
  <2>6. f \in (a + 1)..(n + 1)
    BY <1>1, <2>4
  <2>7. Goes(s, a, f, n + 1)
    BY <1>5, <2>2, <2>5, <2>6 DEF Goes, b
  <2>8. ASSUME NEW k \in 1..Len(more)
        PROVE  s[f + k - 1] = more[k]
    <3>1. CASE k \in 1..l
      BY <2>2, <2>3, <3>1 DEF Copied, l
    <3>2. CASE k \notin 1..l
      <4>1. k = l + 1 /\ f + k - 1 = n + 1
        BY <2>1, <2>3, <2>4, <3>2
      <4> QED
        BY <2>3, <4>1 DEF b
    <3> QED
      BY <3>1, <3>2
  <2>9. Copied(s, f, more)
    BY <2>8 DEF Copied
  <2> QED
    BY <2>3, <2>4, <2>7, <2>9 DEF SoFar, a, more
<1> QED
  BY <1>3, <1>4, <1>5 DEF b

-----------------------------------------------------------------------------
(* The parser.                                                             *)

Outcomes == {Parse(slices).rc : slices \in Seq(Byte)}
Outputs == {Parse(slices).m : slices \in Seq(Byte)}

Parser ==
  [pc : {"idle", "first", "more"}, msg : Seq(Byte), attempts : 0..3,
   status : {"OK", "EOF", "ERR"} \cup Outcomes]

\* The last c it is through with were damaged.
Damaged(h, q, c) == c <= q /\ \A i \in (q - c + 1)..q : ~h[i].clean

\* None of the last MsgMax slices ends a message.
TooLong(h, n) == n >= MsgMax /\ \A i \in 1..Len(h) : h[i].end \notin (n - MsgMax + 1)..n

\* The parser with n slices taken, and through with q of what was sent.
ParserIs(s, h, n, q, p, failed) ==
  /\ p \in Parser /\ Len(p.msg) <= MsgMax
  /\ p.status = "OK" =>
       /\ SoFar(s, h, n, q, p.msg)
       /\ p.pc = "first" => p.msg = <<>>
       /\ p.pc = "more" => p.msg # <<>>
       /\ p.pc # "idle" => p.attempts \in 1..3 /\ Damaged(h, q, 3 - p.attempts)
  /\ p.status # "OK" => p.pc = "idle"
  /\ p.status \in {"ERR", "EOM", "BM"} => failed \/ Damaged(h, q, 3) \/ TooLong(h, n)

\* History g goes on from h with messages that end behind slice n.
Longer(h, g, n) ==
  /\ Len(g) \in Nat /\ Len(h) <= Len(g)
  /\ \A i \in 1..Len(h) : g[i] = h[i]
  /\ \A i \in (Len(h) + 1)..Len(g) : g[i].end > n

\* What is sent behind it does not change where the parser is.
LEMMA ParserStays ==
  ASSUME NEW s, NEW h, NEW u, MadeOf(s, h, u), NEW t \in Seq(Byte), NEW g, NEW n \in 0..Len(s),
         NEW v, MadeOf(s \o t, g, v),
         Longer(h, g, n), NEW q, At(h, n, q), NEW p, NEW failed \in BOOLEAN, ParserIs(s, h, n, q, p, failed)
  PROVE  At(g, n, q) /\ ParserIs(s \o t, g, n, q, p, failed)
<1>1. /\ Len(h) \in Nat /\ s \in Seq(Byte) /\ Len(s) \in Nat
      /\ \A i \in 0..Len(h) : EndOf(h, i) \in 0..Len(s)
  BY EndsAre DEF MadeOf
<1>2. q \in Nat /\ q <= Len(h) /\ EndOf(h, q) <= n /\ (q < Len(h) => n < EndOf(h, q + 1))
  BY <1>1 DEF At
<1>3. /\ Len(g) \in Nat /\ Len(h) <= Len(g)
      /\ \A i \in 1..Len(h) : g[i] = h[i]
      /\ \A i \in (Len(h) + 1)..Len(g) : g[i].end > n
  BY DEF Longer
<1>4. \A i \in 0..Len(h) : EndOf(g, i) = EndOf(h, i)
  <2>1. \A i \in 0..Len(h) : i = 0 \/ i \in 1..Len(h)
    BY <1>1
  <2> QED
    BY <1>3, <2>1 DEF EndOf
<1>5. EndOf(g, q) = EndOf(h, q) /\ EndOf(h, q) \in Nat
  BY <1>1, <1>2, <1>4
<1>6. At(g, n, q)
  <2>1. ASSUME q < Len(g) PROVE n < EndOf(g, q + 1)
    <3>1. CASE q < Len(h)
      <4>1. q + 1 \in 0..Len(h)
        BY <1>1, <1>2, <3>1
      <4> QED
        BY <1>2, <1>4, <3>1, <4>1
    <3>2. CASE ~(q < Len(h))
      <4>1. q + 1 \in (Len(h) + 1)..Len(g) /\ q + 1 # 0
        BY <1>1, <1>2, <1>3, <2>1, <3>2
      <4>2. g[q + 1].end > n /\ EndOf(g, q + 1) = g[q + 1].end
        BY <1>3, <4>1 DEF EndOf
      <4>3. g[q + 1].end \in Nat
        <5>1. g[q + 1] \in Entry
          <6>1. q + 1 \in 1..Len(g) /\ g \in Seq(Entry)
            BY <1>2, <2>1, <1>3 DEF MadeOf
          <6> QED
            BY <6>1, ElementOfSeq
        <5> QED
          BY <5>1, EntryIs
      <4> QED
        BY <1>1, <4>2, <4>3
    <3> QED
      BY <3>1, <3>2
  <2>2. q \in 0..Len(g) /\ EndOf(g, q) <= n
    BY <1>1, <1>2, <1>3, <1>5
  <2> QED
    BY <2>1, <2>2 DEF At
<1>7. p \in Parser /\ Len(p.msg) <= MsgMax /\ p.msg \in Seq(Byte)
  BY DEF ParserIs, Parser
<1>8. SoFar(s, h, n, q, p.msg) => SoFar(s \o t, g, n, q, p.msg)
  <2> SUFFICES ASSUME SoFar(s, h, n, q, p.msg)
               PROVE  SoFar(s \o t, g, n, q, p.msg)
    OBVIOUS
  <2> DEFINE a == EndOf(h, q)
             l == Len(p.msg)
             f == n - l + 1
  <2>1. a \in Nat /\ n \in Nat /\ n <= Len(s)
    BY <1>1, <1>5
  <2> HIDE DEF a
  <2>2. CASE p.msg = <<>>
    <3>1. NoStart(s, a, n)
      BY <2>2 DEF SoFar, a
    <3>2. NoStart(s \o t, a, n)
      BY <1>1, <2>1, <3>1, StillGoes
    <3> QED
      BY <1>5, <2>2, <3>2 DEF SoFar, a
  <2>3. CASE p.msg # <<>>
    <3>1. Goes(s, a, f, n) /\ Copied(s, f, p.msg)
      BY <2>3 DEF SoFar, a
    <3>2. l \in Nat
      BY <1>7, LenProperties
    <3> HIDE DEF l
    <3>3. f \in Nat /\ f > 0 /\ f + l <= Len(s) + 1
      <4>1. f \in (a + 1)..n
        BY <3>1 DEF Goes
      <4> QED
        BY <1>1, <2>1, <3>2, <4>1
    <3> HIDE DEF f
    <3>4. Goes(s \o t, a, f, n)
      BY <1>1, <2>1, <3>1, <3>3, StillGoes
    <3>5. Copied(s \o t, f, p.msg)
      BY <1>1, <2>1, <3>1, <3>2, <3>3, StillGoes DEF l
    <3> QED
      BY <1>5, <2>3, <3>4, <3>5 DEF SoFar, a, f, l
  <2> QED
    BY <2>2, <2>3
<1>9. \A c \in Nat : Damaged(h, q, c) => Damaged(g, q, c)
  <2>1. \A c \in Nat : c <= q => \A i \in (q - c + 1)..q : i \in 1..Len(h)
    BY <1>1, <1>2
  <2> QED
    BY <1>3, <2>1 DEF Damaged
<1>10. TooLong(h, n) => TooLong(g, n)
  <2> SUFFICES ASSUME TooLong(h, n), NEW i \in 1..Len(g)
               PROVE  g[i].end \notin (n - MsgMax + 1)..n
    BY DEF TooLong
  <2>1. CASE i \in 1..Len(h)
    BY <1>3, <2>1 DEF TooLong
  <2>2. CASE i \in (Len(h) + 1)..Len(g)
    <3>1. g[i].end > n
      BY <1>3, <2>2
    <3> QED
      BY <1>1, <3>1
  <2> QED
    BY <1>1, <1>3, <2>1, <2>2
<1>11. p.attempts \in 1..3 => 3 - p.attempts \in Nat
  OBVIOUS
<1> QED
  BY <1>6, <1>7, <1>8, <1>9, <1>10, <1>11 DEF ParserIs

\* A message that was sent, as it is read.
LEMMA ReadAsBuilt ==
  ASSUME NEW m \in Sendable
  PROVE  Build(m) \in Seq(Byte) /\ Framed(Build(m)) /\ Parse(Build(m)).rc = "OK" /\ Parse(Build(m)).m = m
         /\ m \in Outputs
<1>1. Build(m) \in Seq(Byte)
  BY ParserAssumption DEF Sendable, Byte
<1>2. Framed(Build(m)) /\ Parse(Build(m)) = [rc |-> "OK", m |-> m]
  BY MessagesAssumption DEF Sendable
<1>3. Parse(Build(m)).rc = "OK" /\ Parse(Build(m)).m = m
  BY <1>2
<1> QED
  BY <1>1, <1>2, <1>3 DEF Outputs

\* What is done with a message that came out as r, one more entry passed with it.
LEMMA AfterMessageIs ==
  ASSUME NEW s, NEW h, NEW n \in Nat, NEW q \in Nat, NEW p, p \in Parser, p.status = "OK",
         p.attempts \in 1..3, Damaged(h, q, 3 - p.attempts),
         NEW r, r.rc \in Outcomes, h[q + 1].clean => r.rc = "OK",
         NEW failed \in BOOLEAN, SoFar(s, h, n + 1, q + 1, <<>>)
  PROVE  ParserIs(s, h, n + 1, q + 1, AfterMessage(p, r), failed)
<1>1. <<>> \in Seq(Byte) /\ Len(<<>>) = 0 /\ 0 <= MsgMax
  BY EmptySeq, ParserAssumption
<1>2. p = [pc |-> p.pc, msg |-> p.msg, attempts |-> p.attempts, status |-> "OK"]
  BY DEF Parser
<1>3. ~h[q + 1].clean => Damaged(h, q + 1, 4 - p.attempts)
  <2>1. /\ 3 - p.attempts <= q => 4 - p.attempts <= q + 1
        /\ \A i \in ((q + 1) - (4 - p.attempts) + 1)..(q + 1) : i = q + 1 \/ i \in (q - (3 - p.attempts) + 1)..q
    BY DEF Parser
  <2> QED
    BY <2>1 DEF Damaged
<1>4. CASE r.rc = "OK"
  <2> DEFINE x == [pc |-> "idle", msg |-> <<>>, attempts |-> p.attempts, status |-> "OK"]
  <2>1. AfterMessage(p, r) = x
    BY <1>2, <1>4 DEF AfterMessage, Return
  <2>2. x \in Parser
    BY <1>1 DEF Parser
  <2>3. x.pc = "idle" /\ x.msg = <<>> /\ x.status = "OK"
    OBVIOUS
  <2> HIDE DEF x
  <2> QED
    BY <1>1, <2>1, <2>2, <2>3 DEF ParserIs
<1>5. CASE r.rc # "OK" /\ p.attempts > 1
  <2> DEFINE x == [pc |-> "first", msg |-> <<>>, attempts |-> p.attempts - 1, status |-> "OK"]
  <2>1. AfterMessage(p, r) = x
    BY <1>2, <1>5 DEF AfterMessage
  <2>2. p.attempts - 1 \in 1..3 /\ p.attempts - 1 \in 0..3 /\ 3 - (p.attempts - 1) = 4 - p.attempts
    BY <1>5
  <2>3. x \in Parser
    BY <1>1, <2>2 DEF Parser
  <2>4. x.pc = "first" /\ x.msg = <<>> /\ x.status = "OK" /\ x.attempts = p.attempts - 1
    OBVIOUS
  <2> HIDE DEF x
  <2>5. Damaged(h, q + 1, 3 - x.attempts) /\ x.attempts \in 1..3
    BY <1>3, <1>5, <2>2, <2>4
  <2> QED
    BY <1>1, <2>1, <2>3, <2>4, <2>5 DEF ParserIs
<1>6. CASE r.rc # "OK" /\ ~(p.attempts > 1)
  <2> DEFINE x == [pc |-> "idle", msg |-> <<>>, attempts |-> p.attempts, status |-> r.rc]
  <2>1. AfterMessage(p, r) = x
    BY <1>2, <1>6 DEF AfterMessage, ReturnError
  <2>2. x \in Parser
    BY <1>1 DEF Parser
  <2>3. x.pc = "idle" /\ x.msg = <<>> /\ x.status # "OK"
    BY <1>6
  <2> HIDE DEF x
  <2>4. 4 - p.attempts = 3
    BY <1>6
  <2>5. Damaged(h, q + 1, 3)
    BY <1>3, <1>6, <2>4
  <2> QED
    BY <1>1, <2>1, <2>2, <2>3, <2>5 DEF ParserIs
<1> QED
  BY <1>4, <1>5, <1>6

\* What comes out for the next of what was sent.
Gives(q) ==
  /\ q < Len(sent)
  /\ IF sent[q + 1].clean THEN got' = Append(got, sent[q + 1].m)
     ELSE got' = got \/ \E x \in Outputs : got' = Append(got, x)

\* A slice is taken.
LEMMA TakeSlice ==
  ASSUME MadeOf(stream, sent, open), seen \in Nat, seen < Len(stream),
         NEW q, At(sent, seen, q), NEW failed \in BOOLEAN, ParserIs(stream, sent, seen, q, parser, failed),
         Reading, Take(stream[seen + 1])
  PROVE  \E c : /\ At(sent, seen + 1, c) /\ ParserIs(stream, sent, seen + 1, c, parser', failed)
                /\ (c = q /\ got' = got) \/ (c = q + 1 /\ Gives(q))
<1> DEFINE b == stream[seen + 1]
           msg == parser.msg
<1>1. /\ Len(stream) \in Nat /\ stream \in Seq(Byte) /\ Len(sent) \in Nat
      /\ \A i \in 0..Len(sent) : EndOf(sent, i) \in 0..Len(stream)
  BY EndsAre DEF MadeOf
<1>2. q \in Nat /\ q <= Len(sent) /\ EndOf(sent, q) \in 0..seen
  BY <1>1 DEF At
<1>3. /\ parser.pc \in {"first", "more"} /\ (parser.pc = "more" => Len(parser.msg) < MsgMax)
      /\ IF parser.pc = "first" THEN First(stream[seen + 1]) ELSE More(stream[seen + 1])
  BY DEF Reading, Take
<1>4. /\ parser \in Parser /\ parser.status = "OK" /\ Len(parser.msg) <= MsgMax
      /\ SoFar(stream, sent, seen, q, parser.msg)
      /\ parser.pc = "first" => parser.msg = <<>>
      /\ parser.pc = "more" => parser.msg # <<>>
      /\ parser.attempts \in 1..3 /\ Damaged(sent, q, 3 - parser.attempts)
  BY <1>3 DEF ParserIs
<1>5. parser.msg \in Seq(Byte)
  BY <1>4 DEF Parser
<1>6. parser = [pc |-> parser.pc, msg |-> parser.msg, attempts |-> parser.attempts, status |-> "OK"]
  BY <1>4 DEF Parser
<1>7. b \in Byte
  <2>1. seen + 1 \in 1..Len(stream)
    BY <1>1
  <2> QED
    BY <1>1, <2>1, ElementOfSeq
<1> HIDE DEF b, msg
<1>8. ASSUME NEW p, p.status = "OK", p.pc \in {"first", "more"}, p.attempts = parser.attempts, p \in Parser,
             p.pc = "first" => p.msg = <<>>, p.pc = "more" => p.msg # <<>>,
             Len(p.msg) <= MsgMax, SoFar(stream, sent, seen + 1, q, p.msg)
      PROVE  ParserIs(stream, sent, seen + 1, q, p, failed)
  BY <1>4, <1>8 DEF ParserIs
<1>9. CASE parser.pc = "first"
  <2>1. msg = <<>> /\ SoFar(stream, sent, seen, q, <<>>)
    BY <1>4, <1>9 DEF msg
  <2>2. First(b)
    BY <1>3, <1>9 DEF b
  <2>3. NoStart(stream, EndOf(sent, q), seen)
    BY <2>1 DEF SoFar
  <2>4. At(sent, seen + 1, q)
    BY <2>3, EndsNot
  <2>5. got' = got
    BY <2>2 DEF First
  <2>6. CASE StartsMessage(b)
    <3> DEFINE p == [pc |-> "more", msg |-> <<b>>, attempts |-> parser.attempts, status |-> "OK"]
    <3>1. parser' = p
      <4>1. parser' = [parser EXCEPT !.pc = "more", !.msg = <<b>>]
        BY <2>2, <2>6 DEF First
      <4>2. PICK x : x = [parser EXCEPT !.pc = "more"]
        OBVIOUS
      <4>3. x = [pc |-> "more", msg |-> parser.msg, attempts |-> parser.attempts, status |-> "OK"]
        BY <1>6, <4>2
      <4>4. [x EXCEPT !.msg = <<b>>] = p
        BY <4>3
      <4> QED
        BY <4>1, <4>2, <4>4, Zenon
    <3>2. SoFar(stream, sent, seen + 1, q, <<b>>)
      BY <1>1, <1>2, <1>5, <2>1, <2>6, OneSliceMore DEF b, msg
    <3>3. <<b>> \in Seq(Byte) /\ <<b>> # <<>> /\ Len(<<b>>) = 1 /\ 1 <= MsgMax
      BY <1>7, ParserAssumption
    <3>4. p \in Parser
      BY <1>4, <3>3 DEF Parser
    <3>5. p.status = "OK" /\ p.pc = "more" /\ p.attempts = parser.attempts /\ p.msg = <<b>>
      OBVIOUS
    <3> HIDE DEF p
    <3>6. ParserIs(stream, sent, seen + 1, q, p, failed)
      BY <1>8, <3>2, <3>3, <3>4, <3>5
    <3> QED
      BY <2>4, <2>5, <3>1, <3>6
  <2>7. CASE ~StartsMessage(b)
    <3>1. parser' = parser
      BY <2>2, <2>7 DEF First
    <3>2. SoFar(stream, sent, seen + 1, q, <<>>)
      BY <1>1, <1>2, <1>5, <2>1, <2>7, OneSliceMore DEF b, msg
    <3>3. ParserIs(stream, sent, seen + 1, q, parser, failed)
      BY <1>4, <1>8, <1>9, <2>1, <3>2 DEF msg
    <3> QED
      BY <2>4, <2>5, <3>1, <3>3
  <2> QED
    BY <2>6, <2>7
<1>10. CASE parser.pc = "more"
  <2> DEFINE all == Append(msg, b)
  <2>1. msg # <<>> /\ msg \in Seq(Byte) /\ SoFar(stream, sent, seen, q, msg) /\ Len(msg) < MsgMax
    BY <1>3, <1>4, <1>5, <1>10 DEF msg
  <2>2. More(b)
    BY <1>3, <1>10 DEF b
  <2>3. all \in Seq(Byte) /\ Len(all) = Len(msg) + 1 /\ Len(msg) \in Nat /\ Len(all) <= MsgMax /\ all # <<>>
    <3>1. all \in Seq(Byte) /\ Len(all) = Len(msg) + 1 /\ Len(msg) \in Nat
      BY <1>7, <2>1, AppendProperties, LenProperties
    <3> QED
      BY <2>1, <3>1, EmptySeq, ParserAssumption
  <2>4. CASE Mseo(b) # MsgEnd
    <3> DEFINE p == [pc |-> "more", msg |-> all, attempts |-> parser.attempts, status |-> "OK"]
    <3>1. parser' = p /\ got' = got
      BY <1>6, <1>10, <2>2, <2>4 DEF More, msg
    <3>2. SoFar(stream, sent, seen + 1, q, all)
      BY <1>1, <1>2, <2>1, <2>4, OneSliceMore DEF b
    <3>3. At(sent, seen + 1, q)
      BY <2>4, EndsNot DEF b
    <3>4. p \in Parser
      BY <1>4, <2>3 DEF Parser
    <3>5. p.status = "OK" /\ p.pc = "more" /\ p.attempts = parser.attempts /\ p.msg = all
      OBVIOUS
    <3> HIDE DEF p, all
    <3>6. ParserIs(stream, sent, seen + 1, q, p, failed)
      BY <1>8, <2>3, <3>2, <3>4, <3>5
    <3> QED
      BY <3>1, <3>3, <3>6
  <2>5. CASE Mseo(b) = MsgEnd
    <3> DEFINE r == Parse(all)
    <3>1. /\ parser' = AfterMessage(parser, r)
          /\ got' = IF r.rc = "OK" THEN Append(got, r.m) ELSE got
      BY <2>2, <2>5 DEF More, msg
    <3>2. /\ q < Len(sent) /\ sent[q + 1] \in Entry
          /\ sent[q + 1].clean => all = Build(sent[q + 1].m)
          /\ At(sent, seen + 1, q + 1) /\ SoFar(stream, sent, seen + 1, q + 1, <<>>)
      BY <2>1, <2>5, EndsHere DEF b
    <3>3. r.rc \in Outcomes /\ r.m \in Outputs
      BY <2>3 DEF Outcomes, Outputs
    <3>4. ASSUME sent[q + 1].clean
          PROVE  r.rc = "OK" /\ r.m = sent[q + 1].m
      <4>1. sent[q + 1].m \in Sendable
        BY <3>2, <3>4, EntryIs
      <4> QED
        BY <3>2, <3>4, <4>1, ReadAsBuilt
    <3> HIDE DEF r
    <3>5. ParserIs(stream, sent, seen + 1, q + 1, AfterMessage(parser, r), failed)
      BY <1>2, <1>4, <3>2, <3>3, <3>4, AfterMessageIs
    <3>6. Gives(q)
      BY <3>1, <3>2, <3>3, <3>4 DEF Gives
    <3> QED
      BY <3>1, <3>2, <3>5, <3>6
  <2> QED
    BY <2>4, <2>5
<1> QED
  BY <1>3, <1>9, <1>10

\* A message that is too long.
LEMMA OverflowIs ==
  ASSUME NEW s, NEW h, NEW u, MadeOf(s, h, u), NEW n \in Nat, NEW q, At(h, n, q),
         NEW msg \in Seq(Byte), Len(msg) = MsgMax, SoFar(s, h, n, q, msg)
  PROVE  TooLong(h, n)
<1>1. /\ Len(h) \in Nat
      /\ \A i \in 0..Len(h) : EndOf(h, i) \in 0..Len(s)
      /\ \A i \in 1..Len(h) : EndOf(h, i) = h[i].end /\ h[i] \in Entry
      /\ \A i, j \in 0..Len(h) : i < j => EndOf(h, i) < EndOf(h, j)
  BY EndsAre
<1>2. q \in Nat /\ q <= Len(h) /\ EndOf(h, q) \in Nat /\ EndOf(h, q) <= n /\ (q < Len(h) => n < EndOf(h, q + 1))
  BY <1>1 DEF At
<1>3. MsgMax \in Nat /\ MsgMax > 0
  BY ParserAssumption
<1>4. msg # <<>>
  BY <1>3, EmptySeq
<1>5. Goes(s, EndOf(h, q), n - MsgMax + 1, n)
  BY <1>4 DEF SoFar
<1>6. EndOf(h, q) < n - MsgMax + 1 /\ n - MsgMax + 1 <= n
  BY <1>2, <1>3, <1>5 DEF Goes
<1>7. ASSUME NEW i \in 1..Len(h)
      PROVE  h[i].end \notin (n - MsgMax + 1)..n
  <2>1. h[i].end = EndOf(h, i) /\ EndOf(h, i) \in Nat
    BY <1>1
  <2>2. CASE i <= q
    <3>1. i = q \/ i < q
      BY <1>2, <2>2
    <3>2. EndOf(h, i) <= EndOf(h, q)
      BY <1>1, <1>2, <2>1, <3>1
    <3> QED
      BY <1>2, <1>3, <1>6, <2>1, <3>2
  <2>3. CASE ~(i <= q)
    <3>1. q + 1 \in 0..Len(h) /\ (q + 1 = i \/ q + 1 < i) /\ q < Len(h)
      BY <1>1, <1>2, <2>3
    <3>2. EndOf(h, q + 1) <= EndOf(h, i) /\ EndOf(h, q + 1) \in Nat
      BY <1>1, <2>1, <3>1
    <3> QED
      BY <1>2, <2>1, <3>1, <3>2
  <2> QED
    BY <2>2, <2>3
<1> QED
  BY <1>2, <1>3, <1>6, <1>7 DEF TooLong

-----------------------------------------------------------------------------
(* The steps of all.                                                       *)

MessageInv ==
  /\ StreamInv /\ MadeOf(stream, sent, open) /\ got \in Seq(Outputs)
  /\ \E q : At(sent, seen, q) /\ ParserIs(stream, sent, seen, q, parser, link = "reset")

\* The target sends.
LEMMA TargetSends ==
  ASSUME MadeOf(stream, sent, open), seen \in 0..Len(stream), Target
  PROVE  /\ \E t \in Seq(Byte) : stream' = stream \o t
         /\ MadeOf(stream', sent', open') /\ Longer(sent, sent', seen)
         /\ sent' = sent \/ \E e \in Entry : sent' = Append(sent, e) /\ e.end > Len(stream)
<1>1. /\ stream \in Seq(Byte) /\ sent \in Seq(Entry) /\ open \in BOOLEAN
      /\ Len(stream) \in Nat /\ Len(sent) \in Nat
  BY EndsAre DEF MadeOf
<1>2. Longer(sent, sent, seen)
  <2>1. (Len(sent) + 1)..Len(sent) = {}
    BY <1>1
  <2> QED
    BY <1>1, <2>1 DEF Longer
<1>3. ASSUME NEW e \in Entry, e.end > Len(stream)
      PROVE  Longer(sent, Append(sent, e), seen)
  <2> DEFINE g == Append(sent, e)
  <2>1. /\ Len(g) = Len(sent) + 1 /\ g[Len(sent) + 1] = e
        /\ \A i \in 1..Len(sent) : g[i] = sent[i]
    BY <1>1, OneMore
  <2> HIDE DEF g
  <2>2. \A i \in (Len(sent) + 1)..Len(g) : i = Len(sent) + 1
    BY <1>1, <2>1
  <2>3. e.end > seen
    BY <1>1, <1>3, EntryIs
  <2>4. Len(g) \in Nat /\ Len(sent) <= Len(g)
    BY <1>1, <2>1
  <2>5. Longer(sent, g, seen)
    BY <2>1, <2>2, <2>3, <2>4 DEF Longer
  <2> QED
    BY <2>5 DEF g
<1>4. ASSUME NEW t \in Seq(Byte), Framed(t), NEW e \in Entry, e.end = Len(stream) + Len(t),
             e.clean = FALSE \/ (open = FALSE /\ t = Build(e.m)), SendSlices(t, e)
      PROVE  /\ \E x \in Seq(Byte) : stream' = stream \o x
             /\ MadeOf(stream', sent', open') /\ Longer(sent, sent', seen)
             /\ sent' = sent \/ \E x \in Entry : sent' = Append(sent, x) /\ x.end > Len(stream)
  <2>1. stream' = stream \o t /\ sent' = Append(sent, e) /\ open' = FALSE
    BY <1>4 DEF SendSlices
  <2>2. Len(t) \in Nat /\ Len(t) > 0
    BY <1>4, LenProperties DEF Framed
  <2>3. e.end > Len(stream)
    BY <1>1, <1>4, <2>2
  <2>4. MadeOf(stream \o t, Append(sent, e), FALSE)
    BY <1>4, FramedAdded
  <2>5. MadeOf(stream', sent', open')
    BY <2>1, <2>4
  <2>6. Longer(sent, sent', seen)
    BY <1>3, <2>1, <2>3
  <2> QED
    BY <2>1, <2>3, <2>5, <2>6
<1>5. ASSUME NEW m \in Messages \cup (IF stream = <<>> THEN SoleMessages ELSE {}), SendMessage(m)
      PROVE  /\ \E x \in Seq(Byte) : stream' = stream \o x
             /\ MadeOf(stream', sent', open') /\ Longer(sent, sent', seen)
             /\ sent' = sent \/ \E x \in Entry : sent' = Append(sent, x) /\ x.end > Len(stream)
  <2> DEFINE t == Build(m)
             end == Len(stream) + Len(t)
             e == Sent(m, end)
  <2>1. m \in Sendable
    BY DEF Sendable
  <2>2. t \in Seq(Byte) /\ Framed(t)
    BY <2>1, ReadAsBuilt
  <2>3. SendSlices(t, e)
    BY <1>5 DEF SendMessage
  <2>4. end \in Nat
    BY <1>1, <2>2, LenProperties
  <2> HIDE DEF end
  <2>5. e \in Entry /\ e.end = end /\ (e.clean = FALSE \/ (open = FALSE /\ t = Build(e.m)))
    BY <1>1, <2>1, <2>4 DEF Sent, Entry
  <2> HIDE DEF t, e
  <2> QED
    BY <1>4, <2>2, <2>3, <2>5 DEF end
<1>6. ASSUME NEW t \in Junk, SendJunk(t)
      PROVE  /\ \E x \in Seq(Byte) : stream' = stream \o x
             /\ MadeOf(stream', sent', open') /\ Longer(sent, sent', seen)
             /\ sent' = sent \/ \E x \in Entry : sent' = Append(sent, x) /\ x.end > Len(stream)
  <2> DEFINE end == Len(stream) + Len(t)
             e == [clean |-> FALSE, end |-> end]
  <2>1. t \in Seq(Byte) /\ Framed(t)
    BY ParserAssumption, MessagesAssumption DEF Byte
  <2>2. SendSlices(t, e)
    BY <1>6 DEF SendJunk
  <2>3. end \in Nat
    BY <1>1, <2>1, LenProperties
  <2> HIDE DEF end
  <2>4. e \in Entry /\ e.end = end /\ e.clean = FALSE
    BY <2>3 DEF Entry
  <2> HIDE DEF e
  <2> QED
    BY <1>4, <2>1, <2>2, <2>4 DEF end
<1>7. ASSUME NEW b \in Noise, SendNoise(b)
      PROVE  /\ \E x \in Seq(Byte) : stream' = stream \o x
             /\ MadeOf(stream', sent', open') /\ Longer(sent, sent', seen)
             /\ sent' = sent \/ \E x \in Entry : sent' = Append(sent, x) /\ x.end > Len(stream)
  <2> DEFINE e == [clean |-> FALSE, end |-> Len(stream) + 1]
             t == <<b>>
  <2>1. b \in Byte
    BY ParserAssumption DEF Byte
  <2>2. t \in Seq(Byte)
    BY <2>1
  <2>3. stream' = stream \o t
    <3>1. stream' = Append(stream, b)
      BY <1>7 DEF SendNoise
    <3> QED
      BY <1>1, <2>1, <3>1, AppendIsConcat
  <2>4. /\ open' = IF open THEN Mseo(b) # MsgEnd ELSE StartsMessage(b)
        /\ sent' = IF open /\ Mseo(b) = MsgEnd THEN Append(sent, e) ELSE sent
    BY <1>7 DEF SendNoise
  <2>5. e \in Entry /\ e.end = Len(stream) + 1 /\ e.clean = FALSE /\ e.end > Len(stream)
    <3>1. Len(stream) + 1 \in Nat /\ Len(stream) + 1 > Len(stream)
      BY <1>1
    <3>2. e \in Entry /\ e.end = Len(stream) + 1 /\ e.clean = FALSE
      BY <3>1 DEF Entry
    <3> QED
      BY <3>1, <3>2
  <2> HIDE DEF e
  <2>6. /\ open = TRUE /\ Mseo(b) = MsgEnd => MadeOf(stream \o t, Append(sent, e), FALSE)
        /\ open = TRUE /\ Mseo(b) # MsgEnd => MadeOf(stream \o t, sent, TRUE)
        /\ open = FALSE => MadeOf(stream \o t, sent, StartsMessage(b))
    BY <2>1, <2>5, NoiseAdded
  <2> HIDE DEF t
  <2>7. CASE open = TRUE /\ Mseo(b) = MsgEnd
    <3>1. sent' = Append(sent, e) /\ open' = FALSE
      BY <2>4, <2>7
    <3>2. MadeOf(stream', sent', open')
      BY <2>3, <2>6, <2>7, <3>1
    <3>3. Longer(sent, sent', seen)
      BY <1>3, <2>5, <3>1
    <3> QED
      BY <2>2, <2>3, <2>5, <3>1, <3>2, <3>3
  <2>8. CASE open = TRUE /\ Mseo(b) # MsgEnd
    <3>1. sent' = sent /\ open' = TRUE
      BY <2>4, <2>8
    <3>2. MadeOf(stream', sent', open')
      BY <2>3, <2>6, <2>8, <3>1
    <3> QED
      BY <1>2, <2>2, <2>3, <3>1, <3>2
  <2>9. CASE open = FALSE
    <3>1. sent' = sent /\ open' = StartsMessage(b)
      BY <2>4, <2>9
    <3>2. MadeOf(stream', sent', open')
      BY <2>3, <2>6, <2>9, <3>1
    <3> QED
      BY <1>2, <2>2, <2>3, <3>1, <3>2
  <2> QED
    BY <1>1, <2>7, <2>8, <2>9
<1> QED
  BY <1>5, <1>6, <1>7 DEF Target

\* What a call does when no slice is taken.
LEMMA ParserMoves ==
  ASSUME MadeOf(stream, sent, open), seen \in Nat, NEW q, At(sent, seen, q),
         ParserIs(stream, sent, seen, q, parser, link = "reset"),
         Call \/ Overflow \/ NothingThere \/ SocketFails \/ FileEnds \/ GetNumBytesInSWTQ
  PROVE  ParserIs(stream, sent, seen, q, parser', link = "reset")
<1> DEFINE failed == link = "reset"
           Is(p) == ParserIs(stream, sent, seen, q, p, failed)
<1>1. /\ parser \in Parser /\ Len(parser.msg) <= MsgMax
      /\ parser.status = "OK" =>
           /\ SoFar(stream, sent, seen, q, parser.msg)
           /\ parser.pc = "first" => parser.msg = <<>>
           /\ parser.pc = "more" => parser.msg # <<>>
           /\ parser.pc # "idle" => parser.attempts \in 1..3 /\ Damaged(sent, q, 3 - parser.attempts)
      /\ parser.status # "OK" => parser.pc = "idle"
      /\ parser.status \in {"ERR", "EOM", "BM"} => failed \/ Damaged(sent, q, 3) \/ TooLong(sent, seen)
  BY DEF ParserIs
<1>2. PICK x : x = parser
  OBVIOUS
<1>3. /\ x \in Parser /\ x.msg \in Seq(Byte) /\ x.attempts \in 0..3
      /\ x.status \in {"OK", "EOF", "ERR"} \cup Outcomes
      /\ x = [pc |-> x.pc, msg |-> x.msg, attempts |-> x.attempts, status |-> x.status]
  BY <1>1, <1>2 DEF Parser
<1>4. CASE Call
  <2>1. x.pc = "idle" /\ x.status = "OK"
    BY <1>2, <1>4 DEF Call
  <2> DEFINE pc == IF x.msg = <<>> THEN "first" ELSE "more"
             y == [pc |-> pc, msg |-> x.msg, attempts |-> 3, status |-> "OK"]
  <2>2. parser' = y
    BY <1>2, <1>3, <1>4, <2>1 DEF Call
  <2>3. y \in Parser
    BY <1>3 DEF Parser
  <2>4. /\ y.pc # "idle" /\ y.status = "OK" /\ y.msg = x.msg /\ y.attempts = 3
        /\ y.pc = "first" => y.msg = <<>>
        /\ y.pc = "more" => y.msg # <<>>
    OBVIOUS
  <2> HIDE DEF y
  <2>5. y.attempts \in 1..3 /\ Damaged(sent, q, 3 - y.attempts)
    <3>1. q \in Nat
      BY EndsAre DEF At
    <3>2. 3 - 3 = 0 /\ 0 <= q /\ (q - 0 + 1)..q = {}
      BY <3>1
    <3> QED
      BY <2>4, <3>2 DEF Damaged
  <2> QED
    BY <1>1, <1>2, <2>1, <2>2, <2>3, <2>4, <2>5 DEF ParserIs
<1>5. ASSUME NEW y, y \in Parser, y.pc = "idle", y.status = "OK", y.msg = x.msg, x.status = "OK"
      PROVE  Is(y)
  BY <1>1, <1>2, <1>5 DEF ParserIs
<1>6. ASSUME NEW y, y \in Parser, y.pc = "idle", y.status # "OK", Len(y.msg) <= MsgMax,
             y.status = "EOF" \/ failed \/ TooLong(sent, seen)
      PROVE  Is(y)
  BY <1>6 DEF ParserIs
<1>7. CASE NothingThere
  <2> DEFINE y == [pc |-> "idle", msg |-> x.msg, attempts |-> x.attempts, status |-> x.status]
  <2>1. x.status = "OK"
    BY <1>1, <1>2, <1>7 DEF NothingThere, Reading
  <2>2. parser' = y
    BY <1>2, <1>3, <1>7 DEF NothingThere, Return
  <2>3. y \in Parser
    BY <1>3 DEF Parser
  <2>4. y.pc = "idle" /\ y.status = "OK" /\ y.msg = x.msg
    BY <2>1
  <2> HIDE DEF y
  <2> QED
    BY <1>5, <2>1, <2>2, <2>3, <2>4
<1>8. ASSUME NEW msg \in Seq(Byte), Len(msg) <= MsgMax, NEW status \in {"EOF", "ERR"},
             parser' = [pc |-> "idle", msg |-> msg, attempts |-> x.attempts, status |-> status],
             status = "EOF" \/ failed \/ TooLong(sent, seen)
      PROVE  Is(parser')
  <2> DEFINE y == [pc |-> "idle", msg |-> msg, attempts |-> x.attempts, status |-> status]
  <2>1. y \in Parser
    BY <1>3 DEF Parser
  <2>2. y.pc = "idle" /\ y.status = status /\ y.msg = msg /\ status # "OK"
    OBVIOUS
  <2>3. parser' = y
    BY <1>8
  <2> HIDE DEF y
  <2> QED
    BY <1>6, <1>8, <2>1, <2>2, <2>3
<1>9. CASE Overflow
  <2>1. x.pc = "more" /\ Len(x.msg) >= MsgMax /\ x.status = "OK"
    BY <1>1, <1>2, <1>9 DEF Overflow
  <2>2. parser' = [pc |-> "idle", msg |-> <<>>, attempts |-> x.attempts, status |-> "ERR"]
    <3>1. parser' = ReturnError([x EXCEPT !.msg = <<>>], "ERR")
      BY <1>2, <1>9 DEF Overflow
    <3> QED
      BY <1>3, <3>1 DEF ReturnError
  <2>3. <<>> \in Seq(Byte) /\ Len(<<>>) <= MsgMax
    BY EmptySeq, ParserAssumption
  <2>4. Len(x.msg) = MsgMax
    <3>1. Len(x.msg) \in Nat /\ Len(x.msg) <= MsgMax /\ MsgMax \in Nat
      BY <1>1, <1>2, <1>3, LenProperties, ParserAssumption
    <3> QED
      BY <2>1, <3>1
  <2>5. TooLong(sent, seen)
    BY <1>1, <1>2, <1>3, <2>1, <2>4, OverflowIs
  <2> QED
    BY <1>8, <2>2, <2>3, <2>5
<1>10. CASE SocketFails
  <2>1. parser' = [pc |-> "idle", msg |-> x.msg, attempts |-> x.attempts, status |-> "ERR"]
    BY <1>2, <1>3, <1>10 DEF SocketFails, ReturnError
  <2>2. failed
    BY <1>10 DEF SocketFails, RecvFails
  <2> QED
    BY <1>1, <1>2, <1>3, <1>8, <2>1, <2>2
<1>11. CASE FileEnds
  <2>1. parser' = [pc |-> "idle", msg |-> x.msg, attempts |-> x.attempts, status |-> "EOF"]
    BY <1>2, <1>3, <1>11 DEF FileEnds, ReturnError
  <2> QED
    BY <1>1, <1>2, <1>3, <1>8, <2>1
<1>12. CASE GetNumBytesInSWTQ
  <2>1. x.pc = "idle"
    BY <1>2, <1>12 DEF GetNumBytesInSWTQ
  <2>2. CASE RecvFails
    <3>1. parser' = [pc |-> "idle", msg |-> x.msg, attempts |-> x.attempts, status |-> "ERR"]
      BY <1>2, <1>3, <1>12, <2>1, <2>2 DEF GetNumBytesInSWTQ
    <3>2. failed
      BY <2>2 DEF RecvFails
    <3> QED
      BY <1>1, <1>2, <1>3, <1>8, <3>1, <3>2
  <2>3. CASE ~RecvFails
    <3>1. parser' = parser
      BY <1>12, <2>3 DEF GetNumBytesInSWTQ
    <3> QED
      BY <3>1
  <2> QED
    BY <2>2, <2>3
<1> QED
  BY <1>4, <1>7, <1>9, <1>10, <1>11, <1>12

\* What a step does to what was sent and what came out.
Moves ==
  \/ sent' = sent /\ Passed' = Passed /\ got' = got
  \/ /\ \E e \in Entry : sent' = Append(sent, e)
     /\ Passed' = Passed /\ got' = got
  \/ sent' = sent /\ Passed \in Nat /\ Passed' = Passed + 1 /\ Gives(Passed)

\* Every step keeps the invariant.
LEMMA MessageStep ==
  ASSUME MessageInv, [Next]_vars
  PROVE  MessageInv' /\ Moves
<1> DEFINE failed == link = "reset"
<1>1. StreamInv /\ StreamInv' /\ MadeOf(stream, sent, open) /\ got \in Seq(Outputs)
  BY StreamStep DEF MessageInv
<1>2. PICK q : At(sent, seen, q) /\ ParserIs(stream, sent, seen, q, parser, failed)
  BY DEF MessageInv
<1>3. /\ Len(stream) \in Nat /\ seen \in 0..Len(stream) /\ seen \in Nat /\ stream \in Seq(Byte)
      /\ sent \in Seq(Entry) /\ q \in Nat
  <2>1. Len(stream) \in Nat /\ Len(sent) \in Nat
    BY <1>1, EndsAre
  <2> QED
    BY <1>1, <1>2, <2>1 DEF StreamInv, MadeOf, At
<1>4. Passed = q
  BY <1>1, <1>2, <1>3, PassedIs DEF Passed
<1> HIDE DEF failed
<1>5. ASSUME NEW c, MadeOf(stream', sent', open'), At(sent', seen', c),
             ParserIs(stream', sent', seen', c, parser', failed'), got' \in Seq(Outputs)
      PROVE  MessageInv' /\ Passed' = c
  <2>1. seen' \in Nat
    <3>1. Len(stream') \in Nat
      BY <1>5, EndsAre
    <3> QED
      BY <1>1, <3>1 DEF StreamInv
  <2>2. Cardinality({i \in DOMAIN sent' : sent'[i].end <= seen'}) = c
    BY <1>5, <2>1, PassedIs
  <2>3. Passed' = c
    BY <2>2 DEF Passed
  <2>4. MessageInv'
    BY <1>1, <1>5 DEF MessageInv, failed
  <2> QED
    BY <2>3, <2>4
<1>6. CASE seen' # seen
  <2>1. /\ seen' = seen + 1 /\ seen < Len(stream) /\ Reading /\ Take(stream[seen + 1])
        /\ UNCHANGED <<stream, sent, open, link>>
    BY <1>1, <1>6, TakesNext
  <2>2. failed \in BOOLEAN /\ failed' = failed
    BY <2>1 DEF failed
  <2>3. PICK c : /\ At(sent, seen + 1, c) /\ ParserIs(stream, sent, seen + 1, c, parser', failed)
                 /\ (c = q /\ got' = got) \/ (c = q + 1 /\ Gives(q))
    BY <1>1, <1>2, <1>3, <2>1, <2>2, TakeSlice
  <2>4. got' \in Seq(Outputs)
    <3>1. CASE got' = got
      BY <1>1, <3>1
    <3>2. CASE Gives(q)
      <4>1. sent[q + 1] \in Entry
        <5>1. Len(sent) \in Nat /\ q < Len(sent)
          BY <1>3, <3>2, LenProperties DEF Gives
        <5>2. q + 1 \in 1..Len(sent)
          BY <1>3, <5>1
        <5> QED
          BY <1>3, <5>2, ElementOfSeq
      <4>2. \A x \in Outputs : Append(got, x) \in Seq(Outputs)
        BY <1>1, AppendProperties
      <4>3. sent[q + 1].clean => sent[q + 1].m \in Outputs
        BY <4>1, EntryIs, ReadAsBuilt
      <4> QED
        BY <1>1, <3>2, <4>2, <4>3 DEF Gives
    <3> QED
      BY <2>3, <3>1, <3>2
  <2>5. MessageInv' /\ Passed' = c
    BY <1>1, <1>5, <2>1, <2>2, <2>3, <2>4
  <2> QED
    BY <1>3, <1>4, <2>1, <2>3, <2>5 DEF Moves
<1>7. CASE Target
  <2>1. UNCHANGED <<seen, parser, link, got>>
    BY <1>7 DEF Target, SendMessage, SendJunk, SendNoise, SendSlices, CanSend
  <2>2. /\ \E t \in Seq(Byte) : stream' = stream \o t
        /\ MadeOf(stream', sent', open') /\ Longer(sent, sent', seen)
        /\ sent' = sent \/ \E e \in Entry : sent' = Append(sent, e) /\ e.end > Len(stream)
    BY <1>1, <1>3, <1>7, TargetSends
  <2>3. PICK t \in Seq(Byte) : stream' = stream \o t
    BY <2>2
  <2>4. failed \in BOOLEAN /\ failed' = failed
    BY <2>1 DEF failed
  <2>5. MadeOf(stream \o t, sent', open')
    BY <2>2, <2>3
  <2>6. At(sent', seen, q) /\ ParserIs(stream \o t, sent', seen, q, parser, failed)
    BY <1>1, <1>2, <1>3, <2>2, <2>4, <2>5, ParserStays
  <2>7. MessageInv' /\ Passed' = q
    BY <1>1, <1>5, <2>1, <2>2, <2>3, <2>4, <2>6
  <2> QED
    BY <1>4, <2>1, <2>2, <2>7 DEF Moves
<1>8. CASE seen' = seen /\ ~Target
  <2>1. UNCHANGED <<stream, sent, open, got>>
    <3>1. \/ Call \/ Overflow \/ NothingThere \/ SocketFails \/ FileEnds \/ GetNumBytesInSWTQ
          \/ Arrives \/ LinkEnds \/ UNCHANGED vars \/ TakeFromSocket \/ TakeFromFile
      BY <1>8 DEF Next, ReadNextTraceMsg
    <3>2. ~TakeFromSocket /\ ~TakeFromFile
      BY <1>3, <1>8 DEF TakeFromSocket, TakeFromFile
    <3> QED
      BY <3>1, <3>2 DEF Call, Overflow, NothingThere, SocketFails, FileEnds, GetNumBytesInSWTQ,
         Arrives, LinkEnds, channel, vars
  <2>2. ParserIs(stream, sent, seen, q, parser', failed')
    <3>1. CASE Call \/ Overflow \/ NothingThere \/ SocketFails \/ FileEnds \/ GetNumBytesInSWTQ
      <4>1. link' = link
        BY <3>1 DEF Call, Overflow, NothingThere, SocketFails, FileEnds, GetNumBytesInSWTQ, channel
      <4>2. ParserIs(stream, sent, seen, q, parser', failed)
        BY <1>1, <1>2, <1>3, <3>1, ParserMoves DEF failed
      <4> QED
        BY <4>1, <4>2 DEF failed
    <3>2. CASE Arrives \/ UNCHANGED vars
      <4>1. link' = link /\ parser' = parser
        BY <3>2 DEF Arrives, vars
      <4> QED
        BY <1>2, <4>1 DEF failed
    <3>3. CASE LinkEnds
      <4>1. parser' = parser /\ link = "up"
        BY <3>3 DEF LinkEnds
      <4>2. ~failed
        BY <4>1 DEF failed
      <4> QED
        BY <1>2, <4>1, <4>2 DEF ParserIs
    <3>4. ~TakeFromSocket /\ ~TakeFromFile
      BY <1>3, <1>8 DEF TakeFromSocket, TakeFromFile
    <3> QED
      BY <1>8, <3>1, <3>2, <3>3, <3>4 DEF Next, ReadNextTraceMsg
  <2>3. MessageInv' /\ Passed' = q
    BY <1>1, <1>2, <1>5, <1>8, <2>1, <2>2
  <2> QED
    BY <1>4, <2>1, <2>3 DEF Moves
<1> QED
  BY <1>6, <1>7, <1>8

\* It holds at the start.
LEMMA MessageInit == Init => MessageInv /\ Passed = 0
<1> SUFFICES ASSUME Init
             PROVE  MessageInv /\ Passed = 0
  OBVIOUS
<1>1. /\ stream = <<>> /\ seen = 0 /\ link = "up" /\ got = <<>> /\ sent = <<>> /\ open = FALSE
      /\ parser = [pc |-> "idle", msg |-> <<>>, attempts |-> 0, status |-> "OK"]
  BY DEF Init
<1>2. /\ \A S : <<>> \in Seq(S)
      /\ Len(<<>>) = 0 /\ 1..0 = {} /\ (0 + 1)..0 = {} /\ 0 <= MsgMax
  BY EmptySeq, ParserAssumption
<1>3. EndOf(<<>>, 0) = 0
  BY DEF EndOf
<1>4. MadeOf(<<>>, <<>>, FALSE)
  BY <1>2, <1>3 DEF MadeOf, NoStart
<1>5. At(<<>>, 0, 0)
  BY <1>2, <1>3 DEF At
<1>6. SoFar(<<>>, <<>>, 0, 0, <<>>)
  BY <1>2, <1>3 DEF SoFar, NoStart
<1>7. ParserIs(<<>>, <<>>, 0, 0, parser, FALSE)
  <2>1. parser \in Parser
    BY <1>1, <1>2 DEF Parser
  <2>2. parser.pc = "idle" /\ parser.msg = <<>> /\ parser.status = "OK"
    BY <1>1
  <2> QED
    BY <1>2, <1>6, <2>1, <2>2 DEF ParserIs
<1>8. (link = "reset") = FALSE
  BY <1>1
<1>9. Passed = 0
  BY <1>1, <1>4, <1>5, PassedIs DEF Passed
<1> QED
  BY <1>1, <1>2, <1>4, <1>5, <1>7, <1>8, <1>9, StreamInit DEF MessageInv

\* The parser is at a place in what was sent that fits what it has of a message.
LEMMA MessageInvariant == Spec => []MessageInv
<1>1. Init => MessageInv
  BY MessageInit
<1>2. MessageInv /\ [Next]_vars => MessageInv'
  BY MessageStep
<1> QED
  BY <1>1, <1>2, PTL DEF Spec

\* Noise, slices cut apart by recv, and messages that are no messages stop nobody
\* from reading on: reading ends for good only where the socket fails, behind three
\* damaged messages in a row, or in one that does not fit msg.
THEOREM StopsOnlyForDamage == Spec => []StopsForDamage
<1>1. ASSUME MessageInv PROVE StopsForDamage
  <2>1. PICK q : At(sent, seen, q) /\ ParserIs(stream, sent, seen, q, parser, link = "reset")
    BY <1>1 DEF MessageInv
  <2>2. MadeOf(stream, sent, open) /\ seen \in Nat /\ sent \in Seq(Entry) /\ q \in Nat
    <3>1. MadeOf(stream, sent, open)
      BY <1>1 DEF MessageInv
    <3>2. Len(stream) \in Nat /\ Len(sent) \in Nat
      BY <3>1, EndsAre
    <3> QED
      BY <1>1, <2>1, <3>1, <3>2 DEF MessageInv, StreamInv, MadeOf, At
  <2>3. Passed = q
    BY <2>1, <2>2, PassedIs DEF Passed
  <2>4. parser.status \in {"ERR", "EOM", "BM"} =>
          link = "reset" \/ Damaged(sent, q, 3) \/ TooLong(sent, seen)
    BY <2>1 DEF ParserIs
  <2>5. Damaged(sent, q, 3) => q >= 3 /\ \A i \in (q - 2)..q : ~sent[i].clean
    <3>1. q - 3 + 1 = q - 2
      BY <2>2
    <3> QED
      BY <2>2, <3>1 DEF Damaged
  <2>6. TooLong(sent, seen) =>
          seen >= MsgMax /\ \A i \in DOMAIN sent : sent[i].end \notin (seen - MsgMax + 1)..seen
    <3>1. DOMAIN sent = 1..Len(sent)
      BY <2>2, LenProperties
    <3> QED
      BY <3>1 DEF TooLong
  <2> QED
    BY <2>3, <2>4, <2>5, <2>6 DEF StopsForDamage
<1> QED
  BY <1>1, MessageInvariant, PTL

\* What the channel sees of history h.
Seen(h) ==
  [i \in DOMAIN h |-> IF h[i].clean THEN [clean |-> TRUE, m |-> h[i].m] ELSE [clean |-> FALSE]]

\* A sequence with one element more.
LEMMA ExtendsAppend ==
  ASSUME NEW S, NEW s \in Seq(S), NEW x \in S
  PROVE  Channel!Extends(Append(s, x), s)
<1>1. /\ Append(s, x) \in Seq(S) /\ Len(Append(s, x)) = Len(s) + 1 /\ Len(s) \in Nat
      /\ \A i \in 1..Len(s) : Append(s, x)[i] = s[i]
  BY AppendProperties, LenProperties
<1> DEFINE t == Append(s, x)
           sub == SubSeq(t, 1, Len(s))
<1> HIDE DEF t
<1>2. \A i \in 1..Len(s) : i \in 1..Len(t)
  BY <1>1 DEF t
<1>3. \A i \in 1..Len(s) : t[i] \in S
  BY <1>1, <1>2, ElementOfSeq DEF t
<1>4. /\ sub \in Seq(S)
      /\ Len(sub) = IF 1 <= Len(s) THEN Len(s) - 1 + 1 ELSE 0
      /\ \A i \in 1..(Len(s) - 1 + 1) : sub[i] = t[1 + i - 1]
  BY <1>1, <1>3, SubSeqProperties
<1> HIDE DEF sub
<1>5. Len(sub) = Len(s) /\ \A i \in 1..Len(s) : sub[i] = s[i]
  BY <1>1, <1>4 DEF t
<1>6. sub = s
  BY <1>4, <1>5, SeqEqual
<1> QED
  BY <1>1, <1>6 DEF Channel!Extends, sub, t

\* What the channel sees of an entry more is one more.
LEMMA SeenExtends ==
  ASSUME NEW h \in Seq(Entry)
  PROVE  /\ Len(Seen(h)) = Len(h)
         /\ \A i \in 1..Len(h) :
              Seen(h)[i] = IF h[i].clean THEN [clean |-> TRUE, m |-> h[i].m] ELSE [clean |-> FALSE]
         /\ \A e \in Entry : Channel!Extends(Seen(Append(h, e)), Seen(h))
<1> DEFINE One(e) == IF e.clean THEN [clean |-> TRUE, m |-> e.m] ELSE [clean |-> FALSE]
           S == {One(e) : e \in Entry}
<1>1. ASSUME NEW g \in Seq(Entry)
      PROVE  /\ Seen(g) \in Seq(S) /\ Len(Seen(g)) = Len(g) /\ Len(g) \in Nat
             /\ \A i \in 1..Len(g) : Seen(g)[i] = One(g[i]) /\ One(g[i]) \in S
  <2>1. Len(g) \in Nat /\ DOMAIN g = 1..Len(g) /\ \A i \in 1..Len(g) : g[i] \in Entry
    BY ElementOfSeq, LenProperties
  <2>2. Seen(g) = [i \in 1..Len(g) |-> One(g[i])]
    BY <2>1 DEF Seen
  <2>3. \A i \in 1..Len(g) : One(g[i]) \in S
    BY <2>1
  <2> HIDE DEF S, One
  <2>4. Seen(g) \in [1..Len(g) -> S] /\ \A i \in 1..Len(g) : Seen(g)[i] = One(g[i])
    BY <2>2, <2>3
  <2>5. Seen(g) \in Seq(S) /\ Len(Seen(g)) = Len(g)
    BY <2>1, <2>4
  <2> QED
    BY <2>1, <2>3, <2>4, <2>5
<1>2. ASSUME NEW e \in Entry
      PROVE  Channel!Extends(Seen(Append(h, e)), Seen(h))
  <2> DEFINE g == Append(h, e)
  <2>1. /\ g \in Seq(Entry) /\ Len(g) = Len(h) + 1 /\ Len(h) \in Nat /\ g[Len(h) + 1] = e
        /\ \A i \in 1..Len(h) : g[i] = h[i]
    BY OneMore
  <2> HIDE DEF g
  <2>2. /\ Seen(g) \in Seq(S) /\ Len(Seen(g)) = Len(h) + 1
        /\ \A i \in 1..(Len(h) + 1) : Seen(g)[i] = One(g[i])
    BY <1>1, <2>1
  <2>3. /\ Seen(h) \in Seq(S) /\ Len(Seen(h)) = Len(h)
        /\ \A i \in 1..Len(h) : Seen(h)[i] = One(h[i])
    BY <1>1
  <2>4. One(e) \in S
    OBVIOUS
  <2> HIDE DEF S, One
  <2>5. /\ Append(Seen(h), One(e)) \in Seq(S)
        /\ Len(Append(Seen(h), One(e))) = Len(h) + 1
        /\ Append(Seen(h), One(e))[Len(h) + 1] = One(e)
        /\ \A i \in 1..Len(h) : Append(Seen(h), One(e))[i] = Seen(h)[i]
    BY <2>3, <2>4, AppendProperties
  <2>6. \A i \in 1..(Len(h) + 1) : i \in 1..Len(h) \/ i = Len(h) + 1
    BY <2>1
  <2>7. \A i \in 1..(Len(h) + 1) : Seen(g)[i] = Append(Seen(h), One(e))[i]
    BY <2>1, <2>2, <2>3, <2>5, <2>6
  <2>8. Seen(g) = Append(Seen(h), One(e))
    BY <2>1, <2>2, <2>5, <2>7, SeqEqual
  <2>9. Channel!Extends(Append(Seen(h), One(e)), Seen(h))
    BY <2>3, <2>4, ExtendsAppend
  <2> QED
    BY <2>8, <2>9 DEF g
<1> QED
  BY <1>1, <1>2

\* SliceFileParser implements the channel: what the target sends comes out
\* unchanged, in order and once, from a file or through the ring of a socket,
\* however recv cuts it, and however much noise, null slices, lost ends and
\* unsupported messages are between; what is damaged does not harm what follows.
THEOREM ImplementsMessageChannel == Spec => MessagesComeOut
<1>1. ASSUME Init PROVE Channel!Init
  <2>1. sent = <<>> /\ got = <<>> /\ Passed = 0
    BY <1>1, MessageInit DEF Init
  <2>2. DOMAIN sent = {}
    BY <2>1
  <2> QED
    BY <2>1, <2>2 DEF Channel!Init
<1>2. ASSUME MessageInv, [Next]_vars PROVE [Channel!Next]_(Channel!vars)
  <2>1. Moves /\ sent \in Seq(Entry) /\ got \in Seq(Outputs)
    BY <1>2, MessageStep DEF MessageInv, MadeOf
  <2>2. CASE sent' = sent /\ Passed' = Passed /\ got' = got
    BY <2>2 DEF Channel!vars
  <2>3. ASSUME NEW e \in Entry, sent' = Append(sent, e), Passed' = Passed, got' = got
        PROVE  Channel!Next
    <3>1. Channel!Extends(Seen(sent'), Seen(sent))
      BY <2>1, <2>3, SeenExtends
    <3> QED
      BY <2>3, <3>1 DEF Channel!Next, Channel!Send, Channel!Extends, Seen
  <2>4. CASE sent' = sent /\ Passed \in Nat /\ Passed' = Passed + 1 /\ Gives(Passed)
    <3> DEFINE entry == sent[Passed + 1]
    <3>1. Passed < Len(sent) /\ Len(sent) \in Nat
      BY <2>1, <2>4, LenProperties DEF Gives
    <3>2. Passed + 1 \in 1..Len(sent)
      BY <2>4, <3>1
    <3>3. /\ Len(Seen(sent)) = Len(sent)
          /\ Seen(sent)[Passed + 1] = IF entry.clean THEN [clean |-> TRUE, m |-> entry.m] ELSE [clean |-> FALSE]
      BY <2>1, <3>2, SeenExtends
    <3>4. IF Seen(sent)[Passed + 1].clean THEN got' = Append(got, Seen(sent)[Passed + 1].m)
          ELSE got' = got \/ Channel!Extends(got', got)
      <4>1. CASE entry.clean
        BY <2>4, <3>3, <4>1 DEF Gives
      <4>2. CASE ~entry.clean
        <5>1. ~Seen(sent)[Passed + 1].clean
          BY <3>3, <4>2
        <5>2. got' = got \/ \E x \in Outputs : got' = Append(got, x)
          BY <2>4, <4>2 DEF Gives
        <5>3. got' = got \/ Channel!Extends(got', got)
          BY <2>1, <5>2, ExtendsAppend
        <5> QED
          BY <5>1, <5>3
      <4> QED
        BY <4>1, <4>2
    <3>5. Seen(sent') = Seen(sent)
      BY <2>4
    <3> HIDE DEF entry
    <3> QED
      BY <2>4, <3>1, <3>3, <3>4, <3>5 DEF Channel!Next, Channel!Pass, Channel!Extends, Seen
  <2> QED
    BY <2>1, <2>2, <2>3, <2>4 DEF Moves
<1> QED
  BY <1>1, <1>2, MessageInvariant, PTL DEF Spec, MessagesComeOut
=============================================================================
