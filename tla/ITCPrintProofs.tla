---------------------------- MODULE ITCPrintProofs ----------------------------
(***************************************************************************)
(* Proofs about ITCPrint, for every number of cores, size of the rings and *)
(* set of words.                                                           *)
(*                                                                         *)
(* The rings and the lists of nodes are looked at apart: the first part is *)
(* about the characters of one ring, the second about the nodes of all     *)
(* cores and the free list.                                                *)
(***************************************************************************)
EXTENDS ITCPrint, FiniteSetTheorems, Induction

-----------------------------------------------------------------------------
(* One ring.                                                               *)

Char == {"?", NUL, EOL} \cup UNION {{w[n] : n \in DOMAIN w} : w \in Words \cup Strings}

Index == 0..(BuffSize - 1)

Rings == [pbuff : [Index -> Char], pbi : Index, pbo : Index, numMsgs : Nat]

\* The characters stored and not fetched, and where the n-th of them is.
Used(r) == (r.pbi - r.pbo) % BuffSize
Slot(r, n) == (r.pbo + n - 1) % BuffSize

\* Distances in the ring.
LEMMA RingDistance ==
  ASSUME NEW x \in Index, NEW y \in Index
  PROVE  (x - y) % BuffSize = IF x >= y THEN x - y ELSE x - y + BuffSize
<1>1. BuffSize \in Nat \ {0}
  BY ITCAssumption
<1>2. x \in Int /\ y \in Int /\ 0 <= x /\ x < BuffSize /\ 0 <= y /\ y < BuffSize
  BY <1>1 DEF Index
<1>3. \A z \in Int, b \in Nat \ {0} : 0 <= z /\ z < b => z % b = z
  OBVIOUS
<1>4. \A z \in Int, b \in Nat \ {0} : -b < z /\ z < 0 => z % b = z + b
  OBVIOUS
<1>5. CASE x >= y
  BY <1>1, <1>2, <1>3, <1>5
<1>6. CASE x < y
  BY <1>1, <1>2, <1>4, <1>6
<1> QED
  BY <1>2, <1>5, <1>6

\* Places in the ring.
LEMMA RingPlace ==
  ASSUME NEW y \in Index, NEW k \in 0..BuffSize
  PROVE  /\ (y + k) % BuffSize = IF y + k < BuffSize THEN y + k ELSE y + k - BuffSize
         /\ (y + k) % BuffSize \in Index
<1>1. BuffSize \in Nat \ {0}
  BY ITCAssumption
<1>2. y \in Int /\ k \in Int /\ 0 <= y /\ y < BuffSize /\ 0 <= k /\ k <= BuffSize
  BY <1>1 DEF Index
<1>3. \A z \in Int, b \in Nat \ {0} : 0 <= z /\ z < b => z % b = z
  OBVIOUS
<1>4. \A z \in Int, b \in Nat \ {0} : b <= z /\ z < 2 * b => z % b = z - b
  OBVIOUS
<1> DEFINE z == y + k
<1>5. z \in Int /\ 0 <= z /\ z < 2 * BuffSize
  BY <1>1, <1>2
<1> HIDE DEF z
<1>6. z % BuffSize = IF z < BuffSize THEN z ELSE z - BuffSize
  <2>1. CASE z < BuffSize
    BY <1>1, <1>3, <1>5, <2>1
  <2>2. CASE ~(z < BuffSize)
    <3>1. BuffSize <= z
      BY <1>1, <1>5, <2>2
    <3> QED
      BY <1>1, <1>4, <1>5, <2>2, <3>1
  <2> QED
    BY <2>1, <2>2
<1>7. z % BuffSize \in Index
  BY <1>1, <1>5, <1>6 DEF Index
<1> QED
  BY <1>1, <1>2, <1>6, <1>7 DEF z

\* How much is stored, and how much room that leaves (roomInITCPrintQ).
LEMMA UsedIs ==
  ASSUME NEW r \in Rings
  PROVE  /\ Used(r) \in 0..(BuffSize - 1)
         /\ Used(r) = IF r.pbi >= r.pbo THEN r.pbi - r.pbo ELSE r.pbi - r.pbo + BuffSize
         /\ Room(r) = BuffSize - 1 - Used(r)
<1>1. r.pbi \in Index /\ r.pbo \in Index
  BY DEF Rings
<1>2. BuffSize \in Nat \ {0}
  BY ITCAssumption
<1>3. Used(r) = IF r.pbi >= r.pbo THEN r.pbi - r.pbo ELSE r.pbi - r.pbo + BuffSize
  BY <1>1, RingDistance DEF Used
<1> QED
  BY <1>1, <1>2, <1>3 DEF Index, Room

\* The n-th character's place; no two characters share one, and pbi is the place
\* behind the last.
LEMMA SlotIs ==
  ASSUME NEW r \in Rings
  PROVE  /\ \A n \in 1..BuffSize :
              /\ Slot(r, n) \in Index
              /\ Slot(r, n) = IF r.pbo + n - 1 < BuffSize THEN r.pbo + n - 1
                              ELSE r.pbo + n - 1 - BuffSize
         /\ Slot(r, Used(r) + 1) = r.pbi
         /\ \A n \in 1..Used(r) : Slot(r, n) # r.pbi
<1>1. r.pbi \in Index /\ r.pbo \in Index
  BY DEF Rings
<1>2. BuffSize \in Nat \ {0}
  BY ITCAssumption
<1>3. ASSUME NEW n \in 1..BuffSize
      PROVE  /\ Slot(r, n) \in Index
             /\ Slot(r, n) = IF r.pbo + n - 1 < BuffSize THEN r.pbo + n - 1
                             ELSE r.pbo + n - 1 - BuffSize
  <2>1. n - 1 \in 0..BuffSize /\ r.pbo + (n - 1) = r.pbo + n - 1
    BY <1>1, <1>2 DEF Index
  <2> QED
    BY <1>1, <2>1, RingPlace DEF Slot
<1>4. /\ Used(r) \in 0..(BuffSize - 1)
      /\ Used(r) = IF r.pbi >= r.pbo THEN r.pbi - r.pbo ELSE r.pbi - r.pbo + BuffSize
  BY UsedIs
<1>5. Slot(r, Used(r) + 1) = r.pbi
  <2>1. Used(r) + 1 \in 1..BuffSize
    BY <1>2, <1>4
  <2>2. Slot(r, Used(r) + 1) = IF r.pbo + Used(r) < BuffSize THEN r.pbo + Used(r)
                               ELSE r.pbo + Used(r) - BuffSize
    BY <1>1, <1>3, <1>4, <2>1 DEF Index
  <2> QED
    BY <1>1, <1>2, <1>4, <2>2 DEF Index
<1>6. ASSUME NEW n \in 1..Used(r) PROVE Slot(r, n) # r.pbi
  <2>1. n \in 1..BuffSize
    BY <1>2, <1>4
  <2> QED
    BY <1>1, <1>2, <1>3, <1>4, <2>1 DEF Index
<1> QED
  BY <1>3, <1>5, <1>6
\* A character is stored at pbi.
LEMMA PutIs ==
  ASSUME NEW r \in Rings, NEW ch \in Char
  PROVE  /\ Put(r, ch) \in Rings
         /\ Put(r, ch).pbo = r.pbo /\ Put(r, ch).numMsgs = r.numMsgs
         /\ Put(r, ch).pbuff[r.pbi] = ch
         /\ \A i \in Index : i # r.pbi => Put(r, ch).pbuff[i] = r.pbuff[i]
         /\ Used(r) < BuffSize - 1 => Used(Put(r, ch)) = Used(r) + 1
<1>1. BuffSize \in Nat \ {0} /\ r.pbi \in Index /\ r.pbo \in Index
  BY ITCAssumption DEF Rings
<1>2. After(r.pbi) \in Index
  BY <1>1 DEF After, Index
<1>3. Put(r, ch) = [r EXCEPT !.pbuff = [@ EXCEPT ![r.pbi] = ch], !.pbi = After(r.pbi)]
  BY DEF Put, Rings
<1> DEFINE b == [r.pbuff EXCEPT ![r.pbi] = ch]
<1>4. b \in [Index -> Char] /\ b[r.pbi] = ch /\ \A i \in Index : i # r.pbi => b[i] = r.pbuff[i]
  BY <1>1 DEF Rings
<1> HIDE DEF b
<1>5. /\ Put(r, ch) \in Rings
      /\ Put(r, ch).pbo = r.pbo /\ Put(r, ch).numMsgs = r.numMsgs
      /\ Put(r, ch).pbuff = b /\ Put(r, ch).pbi = After(r.pbi)
  BY <1>2, <1>3, <1>4 DEF Rings, b
<1>6. ASSUME Used(r) < BuffSize - 1 PROVE Used(Put(r, ch)) = Used(r) + 1
  <2>1. /\ Used(r) = IF r.pbi >= r.pbo THEN r.pbi - r.pbo ELSE r.pbi - r.pbo + BuffSize
        /\ Used(Put(r, ch)) = IF After(r.pbi) >= r.pbo THEN After(r.pbi) - r.pbo
                              ELSE After(r.pbi) - r.pbo + BuffSize
    BY <1>5, UsedIs
  <2>2. After(r.pbi) = IF r.pbi + 1 >= BuffSize THEN 0 ELSE r.pbi + 1
    BY DEF After
  <2> QED
    BY <1>1, <1>2, <1>6, <2>1, <2>2 DEF Index
<1> QED
  BY <1>4, <1>5, <1>6

\* The ends of messages are where the characters stored are NUL.
LEMMA EndsAre ==
  ASSUME NEW r \in Rings
  PROVE  /\ Ends(r) = {n \in 1..Used(r) : r.pbuff[Slot(r, n)] = NUL}
         /\ IsFiniteSet(Ends(r)) /\ Cardinality(Ends(r)) \in Nat
<1>1. Content(r) = [n \in 1..Used(r) |-> r.pbuff[Slot(r, n)]]
  BY DEF Content, Used, Slot
<1>2. Ends(r) = {n \in 1..Used(r) : r.pbuff[Slot(r, n)] = NUL}
  BY <1>1 DEF Ends
<1>3. IsFiniteSet(1..Used(r))
  <2>1. Used(r) \in Int /\ 1 \in Int
    BY UsedIs
  <2> QED
    BY <2>1, FS_Interval
<1>4. Ends(r) \subseteq 1..Used(r)
  BY <1>2
<1>5. IsFiniteSet(Ends(r))
  BY <1>3, <1>4, FS_Subset
<1> QED
  BY <1>2, <1>5, FS_CardinalityType

\* numMsgs counts the ends.
Counted(r) == r \in Rings /\ r.numMsgs = Cardinality(Ends(r))

\* Where there is room a character, and the end of a message, keep that.
LEMMA PutEnds ==
  ASSUME NEW r \in Rings, NEW ch \in Char, Used(r) < BuffSize - 1
  PROVE  Ends(Put(r, ch)) = IF ch = NUL THEN Ends(r) \cup {Used(r) + 1} ELSE Ends(r)
<1> DEFINE q == Put(r, ch)
<1>1. /\ q \in Rings /\ q.pbo = r.pbo /\ q.pbuff[r.pbi] = ch
      /\ \A i \in Index : i # r.pbi => q.pbuff[i] = r.pbuff[i]
      /\ Used(q) = Used(r) + 1
  BY PutIs
<1>2. Used(r) \in Nat /\ Used(r) < BuffSize /\ BuffSize \in Nat
  BY UsedIs, ITCAssumption
<1> HIDE DEF q
<1>3. \A n : Slot(q, n) = Slot(r, n)
  BY <1>1 DEF Slot
<1>4. ASSUME NEW n \in 1..Used(r) PROVE q.pbuff[Slot(q, n)] = r.pbuff[Slot(r, n)]
  <2>1. n \in 1..BuffSize
    BY <1>2
  <2>2. Slot(r, n) \in Index /\ Slot(r, n) # r.pbi
    BY <2>1, SlotIs
  <2> QED
    BY <1>1, <1>3, <2>2
<1>5. q.pbuff[Slot(q, Used(r) + 1)] = ch
  BY <1>1, <1>3, SlotIs
<1>6. 1..Used(q) = 1..Used(r) \cup {Used(r) + 1}
  BY <1>1, <1>2
<1>7. /\ Ends(q) = {n \in 1..Used(q) : q.pbuff[Slot(q, n)] = NUL}
      /\ Ends(r) = {n \in 1..Used(r) : r.pbuff[Slot(r, n)] = NUL}
  BY <1>1, EndsAre
<1>8. CASE ch = NUL
  BY <1>4, <1>5, <1>6, <1>7, <1>8 DEF q
<1>9. CASE ch # NUL
  BY <1>4, <1>5, <1>6, <1>7, <1>9 DEF q
<1> QED
  BY <1>8, <1>9

\* A character that ends nothing leaves the count right.
LEMMA PutCounted ==
  ASSUME NEW r, Counted(r), NEW ch \in Char, ch # NUL, Used(r) < BuffSize - 1
  PROVE  Counted(Put(r, ch))
BY PutIs, PutEnds DEF Counted

\* The end of a message: one more character and one more message.
LEMMA EndMessageIs ==
  ASSUME NEW r \in Rings
  PROVE  /\ EndMessage(r) \in Rings
         /\ EndMessage(r).numMsgs = r.numMsgs + 1
         /\ Used(r) < BuffSize - 1 => Used(EndMessage(r)) = Used(r) + 1
         /\ Used(r) < BuffSize - 1 => Used(r) + 1 \in Ends(EndMessage(r))
         /\ Used(r) < BuffSize - 1 /\ Counted(r) => Counted(EndMessage(r))
<1> DEFINE p == Put(r, NUL)
           q == [p EXCEPT !.numMsgs = @ + 1]
<1>1. NUL \in Char
  BY DEF Char
<1>2. p \in Rings /\ p.numMsgs = r.numMsgs /\ (Used(r) < BuffSize - 1 => Used(p) = Used(r) + 1)
  BY <1>1, PutIs
<1>3. EndMessage(r) = q
  BY DEF EndMessage
<1> HIDE DEF p
<1>4. /\ q \in Rings /\ q.numMsgs = r.numMsgs + 1 /\ q.pbuff = p.pbuff
      /\ q.pbi = p.pbi /\ q.pbo = p.pbo
  BY <1>2 DEF Rings
<1> HIDE DEF q
<1>5. Used(q) = Used(p) /\ Ends(q) = Ends(p)
  BY <1>4 DEF Used, Ends, Content
<1>7. Used(r) < BuffSize - 1 => Ends(p) = Ends(r) \cup {Used(r) + 1}
  BY <1>1, PutEnds DEF p
<1>6. ASSUME Used(r) < BuffSize - 1, Counted(r) PROVE Counted(q)
  <2>1. Ends(p) = Ends(r) \cup {Used(r) + 1}
    BY <1>6, <1>7
  <2>2. Used(r) \in Nat
    BY UsedIs
  <2>3. Ends(r) = {n \in 1..Used(r) : r.pbuff[Slot(r, n)] = NUL} /\ IsFiniteSet(Ends(r))
    BY EndsAre
  <2>4. Used(r) + 1 \notin Ends(r)
    BY <2>2, <2>3
  <2>5. Cardinality(Ends(p)) = Cardinality(Ends(r)) + 1
    BY <2>1, <2>3, <2>4, FS_AddElement
  <2> QED
    BY <1>4, <1>5, <1>6, <2>5 DEF Counted
<1> QED
  BY <1>2, <1>3, <1>4, <1>5, <1>6, <1>7
-----------------------------------------------------------------------------
(* What print makes of a text.                                             *)

\* The records by which PutAll and PutString go through a text.
WordStates == [r : Rings, room : Int, ended : BOOLEAN]
StringStates == [r : Rings, room : Int]

\* A text is a sequence of characters.
LEMMA Texts ==
  ASSUME NEW w \in Words \cup Strings
  PROVE  Len(w) \in Nat /\ \A n \in 1..Len(w) : w[n] \in Char
<1> DEFINE S == {w[n] : n \in DOMAIN w}
<1>1. w \in Seq(S)
  BY ITCAssumption
<1>2. S \subseteq Char
  BY DEF Char
<1> HIDE DEF S
<1>3. Len(w) \in Nat /\ \A n \in 1..Len(w) : w[n] \in S
  BY <1>1
<1> QED
  BY <1>2, <1>3

\* One character of a word.
LEMMA PutCharIs ==
  ASSUME NEW s \in WordStates, NEW ch \in Char
  PROVE  LET t == PutChar(s, ch) IN
         /\ t \in WordStates
         /\ s.room = Room(s.r) /\ Counted(s.r) => t.room = Room(t.r) /\ Counted(t.r)
         /\ \/ t.r.numMsgs = s.r.numMsgs /\ t.ended = s.ended
            \/ t.r.numMsgs = s.r.numMsgs + 1 /\ t.ended /\ ch \in {NUL, EOL}
<1> DEFINE t == PutChar(s, ch)
           e == EndMessage(s.r)
           p == Put(s.r, ch)
           l == EndMessage(Put(s.r, EOL))
<1>1. s.r \in Rings /\ s.room \in Int /\ s.ended \in BOOLEAN /\ BuffSize \in Nat
      /\ NUL # EOL /\ NUL \in Char /\ EOL \in Char
  BY ITCAssumption DEF WordStates, NUL, EOL, Char
<1>2. /\ e \in Rings /\ e.numMsgs = s.r.numMsgs + 1
      /\ Used(s.r) < BuffSize - 1 => Used(e) = Used(s.r) + 1
      /\ Used(s.r) < BuffSize - 1 /\ Counted(s.r) => Counted(e)
  BY <1>1, EndMessageIs
<1>3. /\ p \in Rings /\ p.numMsgs = s.r.numMsgs
      /\ Used(s.r) < BuffSize - 1 => Used(p) = Used(s.r) + 1
  BY <1>1, PutIs
<1> DEFINE q == Put(s.r, EOL)
<1>4. /\ q \in Rings /\ q.numMsgs = s.r.numMsgs
      /\ Used(s.r) < BuffSize - 1 => Used(q) = Used(s.r) + 1
      /\ Counted(s.r) /\ Used(s.r) < BuffSize - 1 => Counted(q)
  BY <1>1, PutIs, PutCounted
<1> HIDE DEF q
<1>5. /\ l \in Rings /\ l.numMsgs = q.numMsgs + 1
      /\ Used(q) < BuffSize - 1 => Used(l) = Used(q) + 1
      /\ Used(q) < BuffSize - 1 /\ Counted(q) => Counted(l)
  BY <1>4, EndMessageIs DEF q
<1>6. Room(s.r) = BuffSize - 1 - Used(s.r) /\ Used(s.r) \in Nat
      /\ Room(e) = BuffSize - 1 - Used(e) /\ Room(p) = BuffSize - 1 - Used(p)
      /\ Room(l) = BuffSize - 1 - Used(l)
  BY <1>1, <1>2, <1>3, <1>5, UsedIs
<1>7. CASE s.room < 2
  BY <1>7 DEF PutChar
<1>8. CASE ~(s.room < 2) /\ ch = NUL
  <2>1. t = [r |-> e, room |-> s.room - 1, ended |-> TRUE]
    BY <1>1, <1>8 DEF PutChar
  <2> HIDE DEF e
  <2>2. t \in WordStates /\ t.r = e /\ t.room = s.room - 1 /\ t.ended
    BY <1>1, <1>2, <2>1 DEF WordStates
  <2> HIDE DEF t
  <2>3. s.room = Room(s.r) /\ Counted(s.r) => t.room = Room(t.r) /\ Counted(t.r)
    BY <1>1, <1>2, <1>6, <1>8, <2>2
  <2> QED
    BY <1>2, <1>8, <2>2, <2>3 DEF t
<1>9. CASE ~(s.room < 2) /\ ch = EOL
  <2>1. t = [r |-> l, room |-> s.room - 2, ended |-> TRUE]
    BY <1>1, <1>9 DEF PutChar
  <2> HIDE DEF l
  <2>2. t \in WordStates /\ t.r = l /\ t.room = s.room - 2 /\ t.ended
    BY <1>1, <1>5, <2>1 DEF WordStates
  <2> HIDE DEF t
  <2>3. s.room = Room(s.r) /\ Counted(s.r) => t.room = Room(t.r) /\ Counted(t.r)
    BY <1>1, <1>4, <1>5, <1>6, <1>9, <2>2
  <2> QED
    BY <1>4, <1>5, <1>9, <2>2, <2>3 DEF t
<1>10. CASE ~(s.room < 2) /\ ch \notin {NUL, EOL}
  <2> DEFINE x == s.room - 1
             u == [s EXCEPT !.r = p, !.room = x]
  <2>1. t = u
    BY <1>10 DEF PutChar
  <2>2. Counted(s.r) /\ Used(s.r) < BuffSize - 1 => Counted(p)
    BY <1>10, PutCounted
  <2> HIDE DEF p
  <2>3. x \in Int
    BY <1>1
  <2> HIDE DEF x
  <2>5. u = [s EXCEPT !.r = p, !.room = x]
    OBVIOUS
  <2> HIDE DEF u
  <2>4. u \in WordStates /\ u.r = p /\ u.room = x /\ u.ended = s.ended
    <3>1. p \in Rings
      BY <1>3
    <3> QED
      BY <2>3, <2>5, <3>1 DEF WordStates
  <2> QED
    BY <1>1, <1>3, <1>6, <1>10, <2>1, <2>2, <2>4 DEF x
<1> QED
  BY <1>7, <1>8, <1>9, <1>10

\* PutAll is PutChar, character by character.
LEMMA PutAllSteps ==
  ASSUME NEW r \in Rings, NEW w \in Words
  PROVE  \E s \in [0..Len(w) -> WordStates] :
           /\ s[0] = [r |-> r, room |-> Room(r), ended |-> FALSE]
           /\ \A n \in 1..Len(w) : s[n] = PutChar(s[n - 1], w[n])
           /\ PutAll(r, w) = s[Len(w)]
<1> DEFINE N == Len(w)
           a == [r |-> r, room |-> Room(r), ended |-> FALSE]
           step == [n \in 1..N |-> [s \in WordStates |-> PutChar(s, w[n])]]
<1>1. N \in Nat /\ \A n \in 1..N : w[n] \in Char
  BY Texts
<1>2. a \in WordStates
  <2>1. Room(r) \in Int
    BY UsedIs, ITCAssumption
  <2> QED
    BY <2>1 DEF WordStates
<1>3. step \in [1..N -> [WordStates -> WordStates]]
  <2>1. \A n \in 1..N, s \in WordStates : PutChar(s, w[n]) \in WordStates
    BY <1>1, PutCharIs
  <2> QED
    BY <2>1
<1>4. \A n \in 1..N, s \in WordStates : step[n][s] = PutChar(s, w[n])
  OBVIOUS
<1> HIDE DEF N, a, step
<1>5. PICK g \in [0..N -> WordStates] :
        g[0] = a /\ \A n \in 1..N : g[n] = step[n][g[n - 1]]
  <2>1. step \in Steps(N, WordStates)
    BY <1>3 DEF Steps
  <2>2. Walks(N, WordStates, a, step) # {}
    BY <1>1, <1>2, <2>1, Iterates
  <2> QED
    BY <2>2 DEF Walks
<1> DEFINE Is(s) == s = [n \in 0..N |-> IF n = 0 THEN a ELSE PutChar(s[n - 1], w[n])]
           s == CHOOSE s : Is(s)
<1>6. Is(g)
  <2>1. \A n \in 0..N : n # 0 => n \in 1..N /\ n - 1 \in 0..N
    BY <1>1
  <2>2. \A n \in 0..N : g[n] = IF n = 0 THEN a ELSE PutChar(g[n - 1], w[n])
    BY <1>4, <1>5, <2>1
  <2> QED
    BY <1>5, <2>2
<1>7. Is(s)
  BY <1>6
<1>8. PutAll(r, w) = s[N]
  BY DEF PutAll, N, a
<1> HIDE DEF s
<1>9. s[0] = a /\ \A n \in 1..N : s[n] = PutChar(s[n - 1], w[n])
  BY <1>1, <1>7
<1> DEFINE G == {n \in 0..N : s[n] \in WordStates}
<1>10. \A n \in 0..N : n \in G
  <2>1. 0 \in G
    BY <1>1, <1>2, <1>9
  <2>2. ASSUME NEW n \in 1..N, n - 1 \in G PROVE n \in G
    BY <1>1, <1>9, <2>2, PutCharIs
  <2> HIDE DEF G
  <2> QED
    BY <1>1, <2>1, <2>2, Induct
<1>11. s \in [0..N -> WordStates]
  BY <1>7, <1>10
<1> QED
  BY <1>8, <1>9, <1>11 DEF N, a

\* No word ends more than one message.
EndsOnce(w) ==
  \A m, n \in 1..Len(w) : w[m] \in {NUL, EOL} /\ w[n] \in {NUL, EOL} => m = n

\* A word leaves the ring as declared and numMsgs right.
LEMMA PutAllIs ==
  ASSUME NEW r \in Rings, NEW w \in Words
  PROVE  /\ PutAll(r, w) \in WordStates
         /\ Counted(r) => Counted(PutAll(r, w).r)
         /\ EndsOnce(w) =>
              PutAll(r, w).r.numMsgs = r.numMsgs + (IF PutAll(r, w).ended THEN 1 ELSE 0)
<1> DEFINE N == Len(w)
           a == [r |-> r, room |-> Room(r), ended |-> FALSE]
<1>1. N \in Nat /\ \A n \in 1..N : w[n] \in Char
  BY Texts
<1>2. PICK s \in [0..N -> WordStates] :
        s[0] = a /\ (\A n \in 1..N : s[n] = PutChar(s[n - 1], w[n])) /\ PutAll(r, w) = s[N]
  BY PutAllSteps
<1> HIDE DEF N, a
<1>3. PutAll(r, w) \in WordStates
  BY <1>1, <1>2
<1>4. \A n \in 1..N : s[n - 1] \in WordStates /\ w[n] \in Char /\ s[n] = PutChar(s[n - 1], w[n])
  BY <1>1, <1>2
<1>5. ASSUME Counted(r) PROVE Counted(PutAll(r, w).r)
  <2> DEFINE G == {n \in 0..N : s[n].room = Room(s[n].r) /\ Counted(s[n].r)}
  <2>1. 0 \in G
    BY <1>1, <1>2, <1>5 DEF a
  <2>2. \A n \in 1..N : n - 1 \in G => n \in G
    BY <1>4, PutCharIs
  <2> HIDE DEF G
  <2>3. N \in G
    BY <1>1, <2>1, <2>2, Induct
  <2> QED
    BY <1>2, <2>3 DEF G
<1>6. ASSUME EndsOnce(w)
      PROVE  PutAll(r, w).r.numMsgs = r.numMsgs + (IF PutAll(r, w).ended THEN 1 ELSE 0)
  <2> DEFINE More(n) == IF s[n].ended THEN 1 ELSE 0
             G == {n \in 0..N : /\ s[n].r.numMsgs = r.numMsgs + More(n)
                                /\ s[n].ended => \E m \in 1..n : w[m] \in {NUL, EOL}}
  <2>1. 0 \in G
    <3>1. s[0].r = r /\ s[0].ended = FALSE /\ r.numMsgs \in Nat
      BY <1>2 DEF a, Rings
    <3> QED
      BY <1>1, <3>1
  <2>2. ASSUME NEW n \in 1..N, n - 1 \in G PROVE n \in G
    <3>1. /\ s[n - 1].r.numMsgs = r.numMsgs + More(n - 1)
          /\ s[n - 1].ended => \E m \in 1..(n - 1) : w[m] \in {NUL, EOL}
      BY <2>2
    <3>2. \/ s[n].r.numMsgs = s[n - 1].r.numMsgs /\ s[n].ended = s[n - 1].ended
          \/ s[n].r.numMsgs = s[n - 1].r.numMsgs + 1 /\ s[n].ended /\ w[n] \in {NUL, EOL}
      BY <1>4, PutCharIs
    <3>3. CASE s[n].r.numMsgs = s[n - 1].r.numMsgs /\ s[n].ended = s[n - 1].ended
      BY <1>1, <3>1, <3>3
    <3>4. CASE s[n].r.numMsgs = s[n - 1].r.numMsgs + 1 /\ s[n].ended /\ w[n] \in {NUL, EOL}
      <4>1. \A m \in 1..(n - 1) : m \in 1..N /\ m # n
        BY <1>1
      <4>2. \A m \in 1..(n - 1) : w[m] \notin {NUL, EOL}
        BY <1>6, <3>4, <4>1 DEF EndsOnce, N
      <4>3. ~s[n - 1].ended
        BY <3>1, <4>2
      <4>4. r.numMsgs \in Nat
        BY DEF Rings
      <4>5. s[n].r.numMsgs = r.numMsgs + More(n)
        BY <3>1, <3>4, <4>3, <4>4
      <4> QED
        BY <1>1, <3>4, <4>5
    <3> QED
      BY <3>2, <3>3, <3>4
  <2> HIDE DEF G
  <2>3. N \in G
    BY <1>1, <2>1, <2>2, Induct
  <2> QED
    BY <1>2, <2>3 DEF G
<1> QED
  BY <1>3, <1>5, <1>6

\* One character of a no-load string.
LEMMA PutTextCharIs ==
  ASSUME NEW s \in StringStates, NEW ch \in Char \ {NUL}
  PROVE  LET t == IF s.room < 2 THEN s ELSE [r |-> Put(s.r, ch), room |-> s.room - 1] IN
         /\ t \in StringStates /\ t.r.numMsgs = s.r.numMsgs
         /\ s.room = Room(s.r) /\ Counted(s.r) => t.room = Room(t.r) /\ Counted(t.r)
         /\ s.room >= 1 => t.room >= 1
<1> DEFINE p == Put(s.r, ch)
           t == [r |-> p, room |-> s.room - 1]
<1>1. s.r \in Rings /\ s.room \in Int /\ BuffSize \in Nat
  BY ITCAssumption DEF StringStates
<1>2. /\ p \in Rings /\ p.numMsgs = s.r.numMsgs
      /\ Used(s.r) < BuffSize - 1 => Used(p) = Used(s.r) + 1
      /\ Counted(s.r) /\ Used(s.r) < BuffSize - 1 => Counted(p)
  BY <1>1, PutIs, PutCounted
<1>3. Room(s.r) = BuffSize - 1 - Used(s.r) /\ Used(s.r) \in Nat /\ Room(p) = BuffSize - 1 - Used(p)
  BY <1>1, <1>2, UsedIs
<1> HIDE DEF p
<1>4. t \in StringStates /\ t.r = p /\ t.room = s.room - 1
  BY <1>1, <1>2 DEF StringStates
<1> HIDE DEF t
<1>5. ASSUME ~(s.room < 2), s.room = Room(s.r), Counted(s.r)
      PROVE  t.room = Room(t.r) /\ Counted(t.r)
  BY <1>1, <1>2, <1>3, <1>4, <1>5
<1>6. CASE s.room < 2
  BY <1>6
<1>7. CASE ~(s.room < 2)
  <2>1. t.r.numMsgs = s.r.numMsgs /\ (s.room >= 1 => t.room >= 1)
    BY <1>1, <1>2, <1>4, <1>7
  <2> QED
    BY <1>4, <1>5, <1>7, <2>1 DEF t, p
<1> QED
  BY <1>6, <1>7

\* PutString is that, character by character: it leaves room for a NUL that it
\* found room for.
LEMMA PutStringIs ==
  ASSUME NEW r \in Rings, NEW str \in Strings
  PROVE  LET q == PutString(r, str) IN
         /\ q \in Rings /\ q.numMsgs = r.numMsgs
         /\ Counted(r) => Counted(q)
         /\ Counted(r) /\ Room(r) >= 1 => Room(q) >= 1
<1> DEFINE N == Len(str)
           Next1(s, ch) == IF s.room < 2 THEN s ELSE [r |-> Put(s.r, ch), room |-> s.room - 1]
           a == [r |-> r, room |-> Room(r)]
           step == [n \in 1..N |-> [s \in StringStates |-> Next1(s, str[n])]]
<1>1. N \in Nat /\ \A n \in 1..N : str[n] \in Char \ {NUL}
  <2>1. N \in Nat /\ \A n \in 1..N : str[n] \in Char
    BY Texts
  <2>2. \A n \in 1..N : n \in DOMAIN str
    <3> DEFINE S == {str[n] : n \in DOMAIN str}
    <3>1. str \in Seq(S)
      BY ITCAssumption
    <3> HIDE DEF S
    <3> QED
      BY <3>1
  <2> QED
    BY <2>1, <2>2, ITCAssumption
<1>2. a \in StringStates /\ Room(r) \in Int
  <2>1. Room(r) \in Int
    BY UsedIs, ITCAssumption
  <2> QED
    BY <2>1 DEF StringStates
<1>3. \A n \in 1..N, s \in StringStates :
        /\ Next1(s, str[n]) \in StringStates
        /\ Next1(s, str[n]).r.numMsgs = s.r.numMsgs
        /\ s.room = Room(s.r) /\ Counted(s.r) =>
             Next1(s, str[n]).room = Room(Next1(s, str[n]).r) /\ Counted(Next1(s, str[n]).r)
        /\ s.room >= 1 => Next1(s, str[n]).room >= 1
  BY <1>1, PutTextCharIs
<1> HIDE DEF Next1
<1>4. step \in Steps(N, StringStates)
  BY <1>3 DEF Steps
<1>5. \A n \in 1..N, s \in StringStates : step[n][s] = Next1(s, str[n])
  OBVIOUS
<1> HIDE DEF N, a, step
<1>6. PICK g \in [0..N -> StringStates] :
        g[0] = a /\ \A n \in 1..N : g[n] = step[n][g[n - 1]]
  <2>1. Walks(N, StringStates, a, step) # {}
    BY <1>1, <1>2, <1>4, Iterates
  <2> QED
    BY <2>1 DEF Walks
<1> DEFINE Is(s) == s = [n \in 0..N |-> IF n = 0 THEN a
                                         ELSE IF s[n - 1].room < 2 THEN s[n - 1]
                                         ELSE [r |-> Put(s[n - 1].r, str[n]),
                                               room |-> s[n - 1].room - 1]]
           s == CHOOSE s : Is(s)
<1>7. Is(g)
  <2>1. \A n \in 0..N : n # 0 => n \in 1..N /\ n - 1 \in 0..N
    BY <1>1
  <2>2. \A n \in 0..N : n # 0 => g[n] = Next1(g[n - 1], str[n])
    BY <1>5, <1>6, <2>1
  <2>3. g = [n \in 0..N |-> g[n]]
    BY <1>6
  <2>4. \A n \in 0..N : g[n] = IF n = 0 THEN a ELSE IF g[n - 1].room < 2 THEN g[n - 1]
                               ELSE [r |-> Put(g[n - 1].r, str[n]), room |-> g[n - 1].room - 1]
    BY <1>6, <2>2 DEF Next1
  <2> QED
    BY <2>3, <2>4, Zenon
<1>8. Is(s)
  BY <1>7, Zenon
<1>9. PutString(r, str) = s[N].r
  BY DEF PutString, N, a
<1> HIDE DEF s
<1>10. s[0] = a /\ \A n \in 1..N : s[n] = Next1(s[n - 1], str[n])
  <2>1. \A n \in 1..N : n \in 0..N /\ n # 0
    BY <1>1
  <2> QED
    BY <1>1, <1>8, <2>1 DEF Next1
<1> DEFINE Kept(x) == /\ x \in StringStates /\ x.r.numMsgs = r.numMsgs
                      /\ Counted(r) => x.room = Room(x.r) /\ Counted(x.r)
                      /\ Counted(r) /\ Room(r) >= 1 => x.room >= 1
           G == {n \in 0..N : Kept(s[n])}
<1>11. Kept(a)
  BY <1>2 DEF a
<1>12. ASSUME NEW n \in 1..N, NEW x, Kept(x) PROVE Kept(Next1(x, str[n]))
  BY <1>3, <1>12
<1> HIDE DEF Kept
<1>13. 0 \in G
  BY <1>1, <1>10, <1>11
<1>14. \A n \in 1..N : n - 1 \in G => n \in G
  BY <1>1, <1>10, <1>12
<1> HIDE DEF G
<1>15. N \in G
  BY <1>1, <1>13, <1>14, Induct
<1>16. Kept(s[N])
  BY <1>15 DEF G
<1> QED
  BY <1>9, <1>16 DEF Kept, StringStates
-----------------------------------------------------------------------------
(* Fetching from a ring.                                                   *)

\* What is copied is a text with no more than max characters, up to the first NUL.
LEMMA CopiedIs ==
  ASSUME NEW r \in Rings, NEW max \in Nat
  PROVE  /\ Copied(r, max) \in Seq(Char)
         /\ Len(Copied(r, max)) \in Nat
         /\ Ends(r) # {} /\ max >= BuffSize =>
              /\ Len(Copied(r, max)) + 1 \in Ends(r)
              /\ \A n \in Ends(r) : Len(Copied(r, max)) + 1 <= n
         /\ r.pbuff[r.pbi] = NUL => Len(Copied(r, max)) <= Used(r)
<1> DEFINE at(n) == r.pbuff[(r.pbo + n) % BuffSize]
           nuls == {n \in 0..(BuffSize - 1) : at(n) = NUL}
           IsFirst(n) == n \in nuls /\ \A m \in nuls : n <= m
           first == CHOOSE n \in nuls : \A m \in nuls : n <= m
           toNul == IF nuls = {} THEN BuffSize ELSE first
           len == IF toNul < max THEN toNul ELSE max
           text == [n \in 1..len |-> at(n - 1)]
<1>1. BuffSize \in Nat \ {0} /\ r.pbo \in Index /\ r.pbuff \in [Index -> Char]
  BY ITCAssumption DEF Rings
<1>2. Copied(r, max) = text
  BY DEF Copied
<1>3. \A n \in 0..(BuffSize - 1) : at(n) = r.pbuff[Slot(r, n + 1)] /\ at(n) \in Char
  <2> TAKE n \in 0..(BuffSize - 1)
  <2>1. (r.pbo + n) % BuffSize \in Index
    BY <1>1, RingPlace
  <2>2. r.pbo + (n + 1) - 1 = r.pbo + n
    BY <1>1 DEF Index
  <2> QED
    BY <1>1, <2>1, <2>2 DEF Slot
<1>4. nuls # {} => first \in nuls /\ \A m \in nuls : first <= m
  <2>1. nuls \in SUBSET Nat
    BY <1>1
  <2> HIDE DEF nuls
  <2>2. nuls # {} => \E n \in nuls : \A m \in nuls : n <= m
    BY <2>1, Least
  <2> QED
    BY <2>2
<1> HIDE DEF at, first
<1>5. toNul \in 0..BuffSize
  BY <1>1, <1>4
<1>6. nuls # {} => toNul = first
  OBVIOUS
<1> HIDE DEF toNul
<1>7. len \in 0..BuffSize
  BY <1>1, <1>5
<1>8. \A n \in 1..len : at(n - 1) \in Char
  BY <1>1, <1>3, <1>7
<1> HIDE DEF len
<1>9. text \in Seq(Char) /\ Len(text) = len
  BY <1>7, <1>8
<1>10. ASSUME Ends(r) # {}, max >= BuffSize
       PROVE  len + 1 \in Ends(r) /\ \A n \in Ends(r) : len + 1 <= n
  <2>1. Used(r) \in 0..(BuffSize - 1)
        /\ Ends(r) = {n \in 1..Used(r) : r.pbuff[Slot(r, n)] = NUL}
    BY UsedIs, EndsAre
  <2>2. ASSUME NEW n \in Ends(r) PROVE n - 1 \in nuls /\ n \in 1..Used(r)
    <3>1. n \in 1..Used(r) /\ r.pbuff[Slot(r, n)] = NUL
      BY <2>1
    <3>2. n - 1 \in 0..(BuffSize - 1) /\ (n - 1) + 1 = n
      BY <1>1, <2>1, <3>1
    <3> QED
      BY <1>3, <3>1, <3>2
  <2>3. nuls # {}
    BY <1>10, <2>2
  <2>4. toNul \in nuls /\ \A m \in nuls : toNul <= m
    BY <1>4, <1>6, <2>3
  <2>5. toNul \in 0..(BuffSize - 1) /\ at(toNul) = NUL
    BY <2>4
  <2>6. len = toNul
    BY <1>1, <1>10, <2>5 DEF len
  <2>7. \A n \in Ends(r) : len + 1 <= n
    <3> TAKE n \in Ends(r)
    <3>1. toNul <= n - 1 /\ n \in 1..Used(r)
      BY <2>2, <2>4
    <3> QED
      BY <2>1, <2>5, <2>6, <3>1
  <2>8. len + 1 \in 1..Used(r)
    <3>1. PICK n : n \in Ends(r)
      BY <1>10
    <3>2. len + 1 <= n /\ n \in 1..Used(r)
      BY <2>2, <2>7, <3>1
    <3> QED
      BY <1>7, <2>1, <3>2
  <2>9. r.pbuff[Slot(r, len + 1)] = NUL
    BY <1>3, <2>5, <2>6
  <2> QED
    BY <2>1, <2>7, <2>8, <2>9
<1>11. ASSUME r.pbuff[r.pbi] = NUL PROVE len <= Used(r)
  <2>1. Used(r) \in 0..(BuffSize - 1)
    BY UsedIs
  <2>2. Used(r) \in nuls
    BY <1>3, <1>11, <2>1, SlotIs
  <2>3. toNul <= Used(r)
    BY <1>4, <1>6, <2>2
  <2> QED
    BY <1>1, <1>5, <2>1, <2>3 DEF len
<1> QED
  BY <1>2, <1>7, <1>9, <1>10, <1>11

\* pbo moves on.
LEMMA AdvanceIs ==
  ASSUME NEW r \in Rings, NEW k \in Nat
  PROVE  /\ Advance(r, k) \in Rings /\ Advance(r, k).numMsgs = r.numMsgs
         /\ k <= Used(r) => Used(Advance(r, k)) = Used(r) - k
         /\ k <= Used(r) => Ends(Advance(r, k)) = {n \in 1..(Used(r) - k) : n + k \in Ends(r)}
<1> DEFINE q == Advance(r, k)
           o == (r.pbo + k) % BuffSize
<1>1. BuffSize \in Nat \ {0} /\ r.pbo \in Index /\ r.pbi \in Index /\ r.pbo + k \in Nat
  BY ITCAssumption DEF Rings, Index
<1>2. o \in Index
  <2>1. \A z \in Nat, b \in Nat \ {0} : z % b \in 0..(b - 1)
    OBVIOUS
  <2> QED
    BY <1>1, <2>1 DEF Index
<1>3. q = [r EXCEPT !.pbo = o]
  BY DEF Advance
<1> HIDE DEF o, q
<1>4. /\ q \in Rings /\ q.numMsgs = r.numMsgs /\ q.pbuff = r.pbuff
      /\ q.pbi = r.pbi /\ q.pbo = o
  BY <1>2, <1>3 DEF Rings
<1>5. ASSUME k <= Used(r)
      PROVE  Used(q) = Used(r) - k /\ Ends(q) = {n \in 1..(Used(r) - k) : n + k \in Ends(r)}
  <2>1. /\ Used(r) \in 0..(BuffSize - 1) /\ Used(q) \in 0..(BuffSize - 1)
        /\ Used(r) = IF r.pbi >= r.pbo THEN r.pbi - r.pbo ELSE r.pbi - r.pbo + BuffSize
        /\ Used(q) = IF r.pbi >= o THEN r.pbi - o ELSE r.pbi - o + BuffSize
    BY <1>4, UsedIs
  <2>2. k \in 0..BuffSize /\ o = IF r.pbo + k < BuffSize THEN r.pbo + k ELSE r.pbo + k - BuffSize
    <3>1. k \in 0..BuffSize
      BY <1>1, <1>5, <2>1
    <3> QED
      BY <1>1, <3>1, RingPlace DEF o
  <2>3. Used(q) = Used(r) - k
    BY <1>1, <1>2, <1>5, <2>1, <2>2 DEF Index
  <2>4. ASSUME NEW n \in 1..(Used(r) - k)
        PROVE  n + k \in 1..Used(r) /\ Slot(q, n) = Slot(r, n + k)
    <3>1. n \in 1..BuffSize /\ n + k \in 1..BuffSize /\ n + k \in 1..Used(r)
      BY <2>1, <1>1
    <3>2. Slot(q, n) = IF o + n - 1 < BuffSize THEN o + n - 1 ELSE o + n - 1 - BuffSize
      BY <1>4, <3>1, SlotIs
    <3>3. Slot(r, n + k) = IF r.pbo + (n + k) - 1 < BuffSize THEN r.pbo + (n + k) - 1
                           ELSE r.pbo + (n + k) - 1 - BuffSize
      BY <3>1, SlotIs
    <3> QED
      BY <1>1, <1>2, <2>1, <2>2, <3>1, <3>2, <3>3 DEF Index
  <2>5. /\ Ends(q) = {n \in 1..Used(q) : q.pbuff[Slot(q, n)] = NUL}
        /\ Ends(r) = {n \in 1..Used(r) : r.pbuff[Slot(r, n)] = NUL}
    BY <1>4, EndsAre
  <2> QED
    BY <1>4, <2>3, <2>4, <2>5
<1> QED
  BY <1>4, <1>5 DEF q

\* A message fetched whole takes its end with it, and no other.
LEMMA FetchCounted ==
  ASSUME NEW r, Counted(r), r.numMsgs > 0, NEW max \in Nat, max >= BuffSize
  PROVE  Counted([Advance(r, Len(Copied(r, max)) + 1) EXCEPT !.numMsgs = @ - 1])
<1> DEFINE k == Len(Copied(r, max)) + 1
           a == Advance(r, k)
           q == [a EXCEPT !.numMsgs = @ - 1]
           S == Ends(r) \ {k}
           T == Ends(a)
<1>1. r \in Rings /\ r.numMsgs \in Nat /\ r.numMsgs = Cardinality(Ends(r))
  BY DEF Counted, Rings
<1>2. Ends(r) # {}
  BY <1>1, FS_EmptySet
<1>3. k \in Nat /\ k \in Ends(r) /\ \A n \in Ends(r) : k <= n
  <2> DEFINE l == Len(Copied(r, max))
  <2>1. l \in Nat /\ l + 1 \in Ends(r) /\ \A n \in Ends(r) : l + 1 <= n
    BY <1>1, <1>2, CopiedIs
  <2> HIDE DEF l
  <2>2. k = l + 1
    BY DEF l
  <2> QED
    BY <2>1, <2>2
<1> HIDE DEF k
<1>4. Used(r) \in Nat /\ Ends(r) \subseteq 1..Used(r) /\ IsFiniteSet(Ends(r))
  BY <1>1, UsedIs, EndsAre
<1>5. k \in 1..Used(r)
  BY <1>3, <1>4
<1>6. a \in Rings /\ a.numMsgs = r.numMsgs /\ T = {n \in 1..(Used(r) - k) : n + k \in Ends(r)}
  <2>1. k <= Used(r)
    BY <1>4, <1>5
  <2>2. /\ Advance(r, k) \in Rings /\ Advance(r, k).numMsgs = r.numMsgs
        /\ Ends(Advance(r, k)) = {n \in 1..(Used(r) - k) : n + k \in Ends(r)}
    BY <1>1, <1>3, <2>1, AdvanceIs
  <2> QED
    BY <2>2
<1>7. IsFiniteSet(S) /\ Cardinality(S) = Cardinality(Ends(r)) - 1
  BY <1>3, <1>4, FS_RemoveElement
<1> DEFINE f == [n \in S |-> n - k]
<1>8. f \in Bijection(S, T)
  <2>1. \A n \in S : n \in 1..Used(r) /\ k < n
    BY <1>3, <1>4
  <2>2. \A n \in S : n - k \in 1..(Used(r) - k) /\ (n - k) + k = n /\ n \in Ends(r)
    BY <1>4, <1>5, <2>1
  <2>3. \A n \in S : n - k \in T
    BY <1>6, <2>2
  <2>4. \A t \in T : t + k \in S /\ (t + k) - k = t
    BY <1>5, <1>6
  <2> HIDE DEF S, T
  <2>5. f \in [S -> T]
    BY <2>3
  <2>6. \A m, n \in S : f[m] = f[n] => m = n
    BY <2>2
  <2>7. \A t \in T : \E n \in S : f[n] = t
    BY <2>4
  <2>8. DOMAIN f = S
    OBVIOUS
  <2> HIDE DEF f
  <2> QED
    BY <2>5, <2>6, <2>7, <2>8 DEF Bijection, Injection, Surjection, IsInjective
<1>9. Cardinality(T) = Cardinality(S)
  BY <1>7, <1>8, FS_Bijection DEF ExistsBijection
<1> HIDE DEF S, T
<1>10. q \in Rings /\ q.numMsgs = r.numMsgs - 1 /\ q.pbuff = a.pbuff /\ q.pbi = a.pbi /\ q.pbo = a.pbo
  BY <1>1, <1>6 DEF Rings
<1> HIDE DEF q
<1>11. Ends(q) = Ends(a)
  BY <1>10 DEF Ends, Content
<1>12. Counted(q)
  BY <1>1, <1>7, <1>9, <1>10, <1>11 DEF Counted, T
<1> QED
  BY <1>12 DEF q, a, k

\* What is kept of each ring: numMsgs counts the ends of messages, and behind
\* characters that end in no NUL one is stored that does not count.
RingOK(r) ==
  /\ Counted(r)
  /\ r.pbuff[r.pbi] = NUL \/ Used(r) = 0 \/ Used(r) \in Ends(r)

\* A write to the print channel.
LEMMA WordKeeps ==
  ASSUME NEW r, RingOK(r), NEW w \in Words
  PROVE  LET q == PutAll(r, w).r IN RingOK([q EXCEPT !.pbuff[q.pbi] = NUL])
<1> DEFINE q == PutAll(r, w).r
           z == [q EXCEPT !.pbuff[q.pbi] = NUL]
<1>1. r \in Rings /\ Counted(r)
  BY DEF RingOK, Counted
<1>2. PutAll(r, w) \in WordStates /\ Counted(q)
  BY <1>1, PutAllIs
<1> HIDE DEF q
<1>3. q \in Rings /\ q.pbi \in Index /\ q.numMsgs = Cardinality(Ends(q)) /\ NUL \in Char
  BY <1>2 DEF Counted, Rings, Char
<1> DEFINE b == [q.pbuff EXCEPT ![q.pbi] = NUL]
<1>4. b \in [Index -> Char] /\ b[q.pbi] = NUL /\ \A i \in Index : i # q.pbi => b[i] = q.pbuff[i]
  BY <1>3 DEF Rings
<1>5. z = [q EXCEPT !.pbuff = b]
  BY <1>3 DEF Rings
<1> HIDE DEF b, z
<1>6. /\ z \in Rings /\ z.pbuff = b /\ z.pbi = q.pbi /\ z.pbo = q.pbo
      /\ z.numMsgs = q.numMsgs
  BY <1>3, <1>4, <1>5 DEF Rings
<1>7. Ends(z) = Ends(q)
  <2>1. Used(z) = Used(q) /\ \A n : Slot(z, n) = Slot(q, n)
    BY <1>6 DEF Used, Slot
  <2>2. Used(q) \in 0..(BuffSize - 1) /\ BuffSize \in Nat
    BY <1>3, UsedIs, ITCAssumption
  <2>3. \A n \in 1..Used(q) : Slot(q, n) \in Index /\ Slot(q, n) # q.pbi
    <3>1. \A n \in 1..Used(q) : n \in 1..BuffSize
      BY <2>2
    <3> QED
      BY <1>3, <3>1, SlotIs
  <2>4. \A n \in 1..Used(q) : z.pbuff[Slot(q, n)] = q.pbuff[Slot(q, n)]
    BY <1>4, <1>6, <2>3
  <2>5. /\ Ends(z) = {n \in 1..Used(z) : z.pbuff[Slot(z, n)] = NUL}
        /\ Ends(q) = {n \in 1..Used(q) : q.pbuff[Slot(q, n)] = NUL}
    BY <1>3, <1>6, EndsAre
  <2> QED
    BY <2>1, <2>4, <2>5
<1>8. RingOK(z)
  BY <1>3, <1>4, <1>6, <1>7 DEF RingOK, Counted
<1> QED
  BY <1>8 DEF z, q

\* An NLS write, where there is room for its two NULs.
LEMMA StringKeeps ==
  ASSUME NEW r, RingOK(r), NEW str \in Strings, Room(r) >= 2, NEW open \in BOOLEAN
  PROVE  RingOK(EndMessage(PutString(IF open THEN EndMessage(r) ELSE r, str)))
<1> DEFINE e == EndMessage(r)
           s == IF open THEN e ELSE r
           p == PutString(s, str)
           q == EndMessage(p)
<1>1. r \in Rings /\ Counted(r) /\ BuffSize \in Nat
  BY ITCAssumption DEF RingOK, Counted
<1>2. /\ Used(r) \in Nat /\ Room(r) = BuffSize - 1 - Used(r)
  BY <1>1, UsedIs
<1>3. e \in Rings /\ Counted(e) /\ Used(e) = Used(r) + 1
  BY <1>1, <1>2, EndMessageIs
<1>4. Room(e) = BuffSize - 1 - Used(e)
  BY <1>3, UsedIs
<1>5. s \in Rings /\ Counted(s) /\ Room(s) >= 1
  BY <1>1, <1>2, <1>3, <1>4
<1> HIDE DEF s
<1>6. p \in Rings /\ Counted(p) /\ Room(p) >= 1
  BY <1>5, PutStringIs
<1> HIDE DEF p
<1>7. Used(p) < BuffSize - 1
  <2>1. Room(p) = BuffSize - 1 - Used(p) /\ Used(p) \in 0..(BuffSize - 1)
    BY <1>6, UsedIs
  <2> QED
    BY <1>1, <1>6, <2>1
<1>8. q \in Rings /\ Counted(q) /\ Used(q) = Used(p) + 1 /\ Used(p) + 1 \in Ends(q)
  BY <1>6, <1>7, EndMessageIs
<1> HIDE DEF q
<1>9. RingOK(q)
  BY <1>8 DEF RingOK
<1> QED
  BY <1>9 DEF q, p, s

\* A message fetched, and what there is of one flushed.
LEMMA FetchKeeps ==
  ASSUME NEW r, RingOK(r), NEW max \in Nat, max >= BuffSize
  PROVE  /\ r.numMsgs > 0 =>
              RingOK([Advance(r, Len(Copied(r, max)) + 1) EXCEPT !.numMsgs = @ - 1])
         /\ ~(r.numMsgs > 0) /\ r.pbo # r.pbi => RingOK(Advance(r, Len(Copied(r, max))))
<1> DEFINE l == Len(Copied(r, max))
<1>1. r \in Rings /\ Counted(r) /\ r.numMsgs \in Nat /\ r.numMsgs = Cardinality(Ends(r))
      /\ Used(r) \in Nat /\ Ends(r) \subseteq 1..Used(r) /\ IsFiniteSet(Ends(r))
  BY UsedIs, EndsAre DEF RingOK, Counted, Rings
<1>2. /\ l \in Nat
      /\ Ends(r) # {} => l + 1 \in Ends(r) /\ \A n \in Ends(r) : l + 1 <= n
      /\ r.pbuff[r.pbi] = NUL => l <= Used(r)
  BY <1>1, CopiedIs
<1>3. ASSUME r.numMsgs > 0
      PROVE  RingOK([Advance(r, l + 1) EXCEPT !.numMsgs = @ - 1])
  <2> DEFINE a == Advance(r, l + 1)
             q == [a EXCEPT !.numMsgs = @ - 1]
  <2>1. Counted(q)
    BY <1>1, <1>3, FetchCounted
  <2>2. Ends(r) # {}
    BY <1>1, <1>3, FS_EmptySet
  <2> HIDE DEF l
  <2>3. l + 1 \in Nat /\ l + 1 <= Used(r)
    BY <1>1, <1>2, <2>2
  <2>4. a \in Rings /\ Ends(a) = {n \in 1..(Used(r) - (l + 1)) : n + (l + 1) \in Ends(r)}
    BY <1>1, <2>3, AdvanceIs
  <2>5. a = [r EXCEPT !.pbo = (@ + (l + 1)) % BuffSize]
    BY DEF Advance
  <2>6. a.pbuff = r.pbuff /\ a.pbi = r.pbi
    BY <1>1, <2>5 DEF Rings
  <2> HIDE DEF a
  <2>7. q.pbuff = a.pbuff /\ q.pbi = a.pbi /\ q.pbo = a.pbo
    BY <2>4 DEF Rings
  <2> HIDE DEF q
  <2>8. Used(q) = Used(a) /\ Ends(q) = Ends(a)
    BY <2>7 DEF Used, Ends, Content
  <2>9. Used(r) \in Ends(r) => Used(a) = 0 \/ Used(a) \in Ends(a)
    <3> SUFFICES ASSUME Used(r) \in Ends(r) PROVE Used(a) = 0 \/ Used(a) \in Ends(a)
      OBVIOUS
    <3>1. Used(a) = Used(r) - (l + 1)
      BY <1>1, <2>3, AdvanceIs DEF a
    <3> QED
      BY <1>1, <2>3, <2>4, <3>1
  <2>10. Used(r) # 0
    BY <1>1, <1>2, <2>3
  <2> QED
    BY <2>1, <2>6, <2>7, <2>8, <2>9, <2>10 DEF RingOK, q, a
<1>4. ASSUME ~(r.numMsgs > 0), r.pbo # r.pbi PROVE RingOK(Advance(r, l))
  <2>1. Ends(r) = {}
    BY <1>1, <1>4, FS_EmptySet
  <2>2. Used(r) # 0
    <3>1. /\ r.pbi \in Index /\ r.pbo \in Index /\ BuffSize \in Nat \ {0}
          /\ Used(r) = IF r.pbi >= r.pbo THEN r.pbi - r.pbo ELSE r.pbi - r.pbo + BuffSize
      BY <1>1, UsedIs, ITCAssumption DEF Rings
    <3> QED
      BY <1>4, <3>1 DEF Index
  <2>3. r.pbuff[r.pbi] = NUL
    BY <2>1, <2>2 DEF RingOK
  <2> HIDE DEF l
  <2> DEFINE a == Advance(r, l)
  <2>4. /\ a \in Rings /\ a.numMsgs = r.numMsgs
        /\ Ends(a) = {n \in 1..(Used(r) - l) : n + l \in Ends(r)}
    BY <1>1, <1>2, <2>3, AdvanceIs
  <2>5. a = [r EXCEPT !.pbo = (@ + l) % BuffSize]
    BY DEF Advance
  <2>6. a.pbuff = r.pbuff /\ a.pbi = r.pbi
    BY <1>1, <2>5 DEF Rings
  <2> HIDE DEF a
  <2>7. Ends(a) = {}
    BY <2>1, <2>4
  <2>8. RingOK(a)
    BY <1>1, <2>1, <2>3, <2>4, <2>6, <2>7 DEF RingOK, Counted
  <2> QED
    BY <2>8 DEF a
<1> QED
  BY <1>3, <1>4

-----------------------------------------------------------------------------
(* The rings in the steps.                                                 *)

\* An NLS write finds room for its two NULs, and a message is fetched into a
\* buffer that holds it.
RoomAndWhole ==
  /\ NLSRoom >= 2
  /\ \A len \in DstLens : len > BuffSize

RingsOK == ring \in [Core -> Rings] /\ \A c \in Core : RingOK(ring[c])

\* A step that changes one ring or none.
LEMMA OneRing ==
  ASSUME RingsOK, NEW c \in Core, NEW r, RingOK(r),
         ring' = ring \/ ring' = [ring EXCEPT ![c] = r]
  PROVE  RingsOK'
<1>1. r \in Rings
  BY DEF RingOK, Counted
<1>2. ring' \in [Core -> Rings]
  BY <1>1 DEF RingsOK
<1>3. \A d \in Core : ring'[d] = ring[d] \/ ring'[d] = r
  BY DEF RingsOK
<1>4. \A d \in Core : RingOK(ring'[d])
  BY <1>3 DEF RingsOK
<1> QED
  BY <1>2, <1>4 DEF RingsOK, RingOK, Counted, Ends, Content, Used

\* The ring at the start.
LEMMA NewRingOK == RingOK(NewRing)
<1> DEFINE r == NewRing
<1>1. BuffSize \in Nat \ {0}
  BY ITCAssumption
<1>2. 0 \in Index /\ "?" \in Char
  BY <1>1 DEF Index, Char
<1>3. r \in Rings /\ r.pbi = 0 /\ r.pbo = 0 /\ r.numMsgs = 0
  BY <1>2 DEF Rings, NewRing, Index
<1>4. Used(r) = 0
  BY <1>1, <1>3, UsedIs
<1>5. Ends(r) = {}
  BY <1>3, <1>4, EndsAre
<1> QED
  BY <1>3, <1>4, <1>5, FS_EmptySet DEF RingOK, Counted

\* Fetching a message, also when a flush does it.
LEMMA GetKeepsRings ==
  ASSUME RoomAndWhole, RingsOK, NEW c \in Core, NEW len \in DstLens, Get(c, len)
  PROVE  RingsOK'
<1> DEFINE r == ring[c]
           q == [Advance(r, Len(Copied(r, len - 1)) + 1) EXCEPT !.numMsgs = @ - 1]
<1>1. len - 1 \in Nat /\ len - 1 >= BuffSize
  BY ITCAssumption DEF RoomAndWhole
<1>2. r.numMsgs > 0
  BY DEF Get
<1>3. RingOK(q)
  BY <1>1, <1>2, FetchKeeps DEF RingsOK
<1>4. ring' = ring \/ ring' = [ring EXCEPT ![c] = q]
  <2> DEFINE old == IF tsList[c] = None THEN None ELSE node[tsList[c]].prev
             none == tsList[c] # None /\ old = None
             stays == tsList[c] = None \/ (old # None /\ ~node[old].terminated)
  <2>1. CASE none
    BY <2>1 DEF Get
  <2>2. CASE stays
    BY <2>2 DEF Get, Nothing
  <2>3. CASE ~none /\ ~stays
    BY <2>3 DEF Get
  <2> QED
    BY <2>1, <2>2, <2>3
<1> HIDE DEF q
<1> QED
  BY <1>3, <1>4, OneRing

\* numMsgs counts the messages in the ring (what getITCPrintMsg and
\* haveITCPrintMsgs rely on), for every size of the rings and every set of words
\* and strings: the ring is not overrun, however the cores write and the client
\* fetches, when there is room for the NULs of NLS strings and no message is
\* cut by a short buffer.
THEOREM MessagesAreCounted == RoomAndWhole /\ Spec => []CountsItsMessages
<1> SUFFICES ASSUME RoomAndWhole PROVE Spec => []CountsItsMessages
  OBVIOUS
<1>1. Init => RingsOK
  BY NewRingOK DEF Init, RingsOK, RingOK, Counted
<1>2. RingsOK /\ [Next]_vars => RingsOK'
  <2> SUFFICES ASSUME RingsOK, [Next]_vars PROVE RingsOK'
    OBVIOUS
  <2>1. ASSUME NEW c \in Core, NEW w \in Words, PrintWord(c, w) PROVE RingsOK'
    <3> DEFINE q == PutAll(ring[c], w).r
               z == [q EXCEPT !.pbuff[q.pbi] = NUL]
    <3>1. RingOK(z)
      BY WordKeeps DEF RingsOK
    <3>2. ring' = ring \/ ring' = [ring EXCEPT ![c] = z]
      BY <2>1 DEF PrintWord
    <3> HIDE DEF z
    <3> QED
      BY <3>1, <3>2, OneRing
  <2>2. ASSUME NEW c \in Core, NEW s \in Strings, PrintString(c, s) PROVE RingsOK'
    <3> DEFINE open == Open(c)
               q == EndMessage(PutString(IF open THEN EndMessage(ring[c]) ELSE ring[c], s))
    <3>1. open \in BOOLEAN
      BY DEF Open
    <3>2. RingOK(ring[c]) /\ ring[c] \in Rings
      BY DEF RingsOK
    <3>3. Room(ring[c]) >= 2
      <4>1. Room(ring[c]) >= NLSRoom
        BY <2>2 DEF PrintString, MayWriteString
      <4>2. Room(ring[c]) \in Int /\ NLSRoom \in Nat
        BY <3>2, UsedIs, ITCAssumption
      <4> QED
        BY <4>1, <4>2 DEF RoomAndWhole
    <3>4. RingOK(q)
      BY <3>1, <3>2, <3>3, StringKeeps
    <3>5. ring' = ring \/ ring' = [ring EXCEPT ![c] = q]
      BY <2>2 DEF PrintString
    <3> HIDE DEF q
    <3> QED
      BY <3>4, <3>5, OneRing
  <2>3. ASSUME NEW c \in Core, NEW len \in DstLens, Fetch(c, len) PROVE RingsOK'
    BY <2>3, GetKeepsRings DEF Fetch
  <2>4. ASSUME NEW c \in Core, NEW len \in DstLens, Flush(c, len) PROVE RingsOK'
    <3>1. CASE ring[c].numMsgs > 0
      BY <2>4, <3>1, GetKeepsRings DEF Flush
    <3>2. CASE ~(ring[c].numMsgs > 0)
      <4> DEFINE q == Advance(ring[c], Len(Copied(ring[c], len - 1)))
      <4>1. len - 1 \in Nat /\ len - 1 >= BuffSize
        BY ITCAssumption DEF RoomAndWhole
      <4>2. ring[c].pbo # ring[c].pbi
        BY <2>4, <3>2 DEF Flush
      <4>3. RingOK(q)
        BY <3>2, <4>1, <4>2, FetchKeeps DEF RingsOK
      <4>4. ring' = ring \/ ring' = [ring EXCEPT ![c] = q]
        BY <2>4, <3>2 DEF Flush, Nothing
      <4> HIDE DEF q
      <4> QED
        BY <4>3, <4>4, OneRing
    <3> QED
      BY <3>1, <3>2
  <2>5. CASE UNCHANGED vars
    BY <2>5 DEF vars, RingsOK, RingOK, Counted, Ends, Content, Used
  <2> QED
    BY <2>1, <2>2, <2>3, <2>4, <2>5 DEF Next
<1>3. RingsOK => CountsItsMessages
  BY DEF RingsOK, RingOK, Counted, CountsItsMessages
<1> QED
  BY <1>1, <1>2, <1>3, PTL DEF Spec

-----------------------------------------------------------------------------
(* The nodes: heaps and what the operations on them do.                    *)

NodeOrNone == Node \cup {None}

NodeRec ==
  [prev : NodeOrNone, next : NodeOrNone, terminated : BOOLEAN, startTime : Nat, endTime : Nat]

Heaps ==
  [node : [Node -> NodeRec], free : NodeOrNone, lists : [Core -> NodeOrNone],
   unused : SUBSET Node, ok : BOOLEAN]

CanTakeFrom(h) == h.free # None \/ h.unused # {}

\* A node is taken off the free list, or created.
LEMMA TakeIs ==
  ASSUME NEW h \in Heaps, CanTakeFrom(h)
  PROVE  LET w == Take(h).w
             g == Take(h).h
         IN /\ w \in Node /\ g \in Heaps /\ g.lists = h.lists /\ g.ok = h.ok
            /\ \A n \in Node : n # w => g.node[n] = h.node[n]
            /\ g.node[w].terminated = FALSE
            /\ \/ /\ h.free # None /\ w = h.free
                  /\ g.free = h.node[w].next /\ g.unused = h.unused
               \/ /\ h.free = None /\ w \in h.unused
                  /\ g.free = None /\ g.unused = h.unused \ {w}
<1> DEFINE w == Take(h).w
           g == Take(h).h
<1>1. /\ h.node \in [Node -> NodeRec] /\ h.free \in NodeOrNone /\ h.unused \subseteq Node
      /\ h.lists \in [Core -> NodeOrNone] /\ h.ok \in BOOLEAN
  BY DEF Heaps
<1>2. CASE h.free # None
  <2> DEFINE x == h.free
             r == [h.node[x] EXCEPT !.terminated = FALSE]
             nd == [h.node EXCEPT ![x] = r]
  <2>1. w = x /\ g = [h EXCEPT !.free = h.node[x].next, !.node = nd]
    BY <1>2 DEF Take
  <2>2. x \in Node /\ h.node[x] \in NodeRec
    BY <1>1, <1>2 DEF NodeOrNone
  <2>3. r \in NodeRec /\ r.terminated = FALSE
    BY <2>2 DEF NodeRec
  <2> HIDE DEF r
  <2>4. nd \in [Node -> NodeRec] /\ nd[x] = r /\ \A n \in Node : n # x => nd[n] = h.node[n]
    BY <1>1, <2>2, <2>3
  <2>5. h.node[x].next \in NodeOrNone
    BY <2>2 DEF NodeRec
  <2> HIDE DEF nd
  <2>6. /\ g \in Heaps /\ g.lists = h.lists /\ g.ok = h.ok /\ g.node = nd
        /\ g.free = h.node[x].next /\ g.unused = h.unused
    BY <1>1, <2>1, <2>4, <2>5 DEF Heaps
  <2> HIDE DEF g, w
  <2>7. g.node[w].terminated = FALSE
    BY <2>1, <2>3, <2>4, <2>6
  <2> QED
    BY <1>2, <2>1, <2>2, <2>4, <2>6, <2>7 DEF g, w
<1>3. CASE h.free = None
  <2> DEFINE x == CHOOSE n \in h.unused : TRUE
             nd == [h.node EXCEPT ![x] = NewNode]
  <2>1. w = x /\ g = [h EXCEPT !.unused = h.unused \ {x}, !.node = nd]
    BY <1>3 DEF Take
  <2>2. x \in h.unused
    BY <1>3 DEF CanTakeFrom
  <2> HIDE DEF x
  <2>3. NewNode \in NodeRec /\ NewNode.terminated = FALSE
    BY DEF NewNode, NodeRec, NodeOrNone
  <2>4. nd \in [Node -> NodeRec] /\ nd[x] = NewNode
        /\ \A n \in Node : n # x => nd[n] = h.node[n]
    BY <1>1, <2>2, <2>3
  <2> HIDE DEF nd
  <2>5. /\ g \in Heaps /\ g.lists = h.lists /\ g.ok = h.ok /\ g.node = nd
        /\ g.free = None /\ g.unused = h.unused \ {x}
    BY <1>1, <1>3, <2>1, <2>2, <2>4 DEF Heaps
  <2> HIDE DEF g, w
  <2>6. g.node[w].terminated = FALSE
    BY <2>1, <2>3, <2>4, <2>5
  <2>7. w \in Node /\ \A n \in Node : n # w => g.node[n] = h.node[n]
    BY <1>1, <2>1, <2>2, <2>4, <2>5
  <2> QED
    BY <1>3, <2>1, <2>2, <2>5, <2>6, <2>7 DEF g, w
<1> QED
  BY <1>2, <1>3

\* Fields of a node that are set together: its times, its links.
TimedAt(nd, w, t) == [nd EXCEPT ![w].startTime = t, ![w].endTime = t]
LinkedTo(nd, w, x, y) == [nd EXCEPT ![w].next = x, ![w].prev = y]

\* The times are set.
LEMMA NodeWith ==
  ASSUME NEW nd \in [Node -> NodeRec], NEW w \in Node, NEW t \in Nat
  PROVE  LET z == TimedAt(nd, w, t) IN
         /\ z \in [Node -> NodeRec]
         /\ \A n \in Node : n # w => z[n] = nd[n]
         /\ z[w].startTime = t /\ z[w].prev = nd[w].prev /\ z[w].next = nd[w].next
         /\ z[w].terminated = nd[w].terminated
BY DEF NodeRec, TimedAt

\* Both links are set.
LEMMA NodeLinked ==
  ASSUME NEW nd \in [Node -> NodeRec], NEW w \in Node, NEW x \in NodeOrNone, NEW y \in NodeOrNone
  PROVE  LET z == LinkedTo(nd, w, x, y) IN
         /\ z \in [Node -> NodeRec]
         /\ \A n \in Node : n # w => z[n] = nd[n]
         /\ z[w].next = x /\ z[w].prev = y
         /\ z[w].startTime = nd[w].startTime /\ z[w].terminated = nd[w].terminated
BY DEF NodeRec, LinkedTo

\* prev is set.
LEMMA NodePrev ==
  ASSUME NEW nd \in [Node -> NodeRec], NEW w \in Node, NEW y \in NodeOrNone
  PROVE  LET z == [nd EXCEPT ![w].prev = y] IN
         /\ z \in [Node -> NodeRec]
         /\ \A n \in Node : n # w => z[n] = nd[n]
         /\ z[w].prev = y /\ z[w].next = nd[w].next
         /\ z[w].startTime = nd[w].startTime /\ z[w].terminated = nd[w].terminated
BY DEF NodeRec

\* next is set.
LEMMA NodeNext ==
  ASSUME NEW nd \in [Node -> NodeRec], NEW w \in Node, NEW y \in NodeOrNone
  PROVE  LET z == [nd EXCEPT ![w].next = y] IN
         /\ z \in [Node -> NodeRec]
         /\ \A n \in Node : n # w => z[n] = nd[n]
         /\ z[w].next = y /\ z[w].prev = nd[w].prev
         /\ z[w].startTime = nd[w].startTime /\ z[w].terminated = nd[w].terminated
BY DEF NodeRec

\* Heap g is h with node w, taken in k, the newest of core c since time t: c had
\* no node or one.
AddsMessage(h, c, t, w, k, g) ==
  LET tl == h.lists[c] IN
  /\ g.ok = h.ok /\ g.free = k.free /\ g.unused = k.unused
  /\ g.lists = [h.lists EXCEPT ![c] = w]
  /\ g.node[w].terminated = FALSE /\ g.node[w].startTime = t
  /\ \A n \in Node : n \notin {w, tl} => g.node[n] = h.node[n]
  /\ tl = None => g.node[w].prev = w /\ g.node[w].next = w
  /\ tl # None =>
       /\ g.node[w].prev = tl /\ g.node[w].next = tl
       /\ g.node[tl].prev = w /\ g.node[tl].next = w
       /\ g.node[tl].terminated = h.node[tl].terminated
       /\ g.node[tl].startTime = h.node[tl].startTime

\* A new message.  For any list it leaves a heap of the declared types; what it
\* does to the list is said for a core with no node or with one.
LEMMA NewMessageIs ==
  ASSUME NEW h \in Heaps, CanTakeFrom(h), NEW c \in Core, NEW t \in Nat
  PROVE  LET tl == h.lists[c]
             w  == Take(h).w
             k  == Take(h).h
             g  == NewMessage(h, c, t)
         IN /\ g \in Heaps
            /\ g.ok => g.lists[c] \in Node
            /\ (tl = None \/ (tl # w /\ h.node[tl].prev = tl)) => AddsMessage(h, c, t, w, k, g)
<1> DEFINE tl == h.lists[c]
           w  == Take(h).w
           k  == Take(h).h
           g  == NewMessage(h, c, t)
<1>1. /\ w \in Node /\ k \in Heaps /\ k.lists = h.lists /\ k.ok = h.ok
      /\ (\A n \in Node : n # w => k.node[n] = h.node[n]) /\ k.node[w].terminated = FALSE
  BY TakeIs
<1>2. tl \in NodeOrNone /\ h.lists \in [Core -> NodeOrNone] /\ w \in NodeOrNone
  BY <1>1 DEF Heaps, NodeOrNone
<1>3. k.node \in [Node -> NodeRec] /\ [h.lists EXCEPT ![c] = w] \in [Core -> NodeOrNone]
  BY <1>1, <1>2 DEF Heaps, NodeOrNone
<1>4. CASE tl = None
  <2> DEFINE n1 == LinkedTo(k.node, w, w, w)
             n2 == TimedAt(n1, w, t)
  <2>1. g = [k EXCEPT !.lists[c] = w, !.node = n2]
    BY <1>4 DEF NewMessage, LinkedTo, TimedAt
  <2> HIDE DEF w, k
  <2>2. /\ n1 \in [Node -> NodeRec] /\ (\A n \in Node : n # w => n1[n] = k.node[n])
        /\ n1[w].next = w /\ n1[w].prev = w /\ n1[w].terminated = k.node[w].terminated
    BY <1>1, <1>2, <1>3, NodeLinked
  <2> HIDE DEF n1
  <2>3. /\ n2 \in [Node -> NodeRec] /\ (\A n \in Node : n # w => n2[n] = n1[n])
        /\ n2[w].next = w /\ n2[w].prev = w /\ n2[w].startTime = t
        /\ n2[w].terminated = k.node[w].terminated
    BY <1>1, <2>2, NodeWith
  <2> HIDE DEF n2
  <2> DEFINE l == [h.lists EXCEPT ![c] = w]
  <2>4. /\ g \in Heaps /\ g.node = n2 /\ g.free = k.free /\ g.unused = k.unused /\ g.ok = k.ok
        /\ g.lists = [h.lists EXCEPT ![c] = w]
    <3>1. k.lists = h.lists /\ l \in [Core -> NodeOrNone]
      BY <1>1, <1>3
    <3>2. g = [k EXCEPT !.lists = l, !.node = n2]
      BY <3>1, <2>1
    <3> HIDE DEF l, g
    <3>3. /\ g \in Heaps /\ g.node = n2 /\ g.free = k.free /\ g.unused = k.unused /\ g.ok = k.ok
          /\ g.lists = l
      BY <1>1, <2>3, <3>1, <3>2 DEF Heaps
    <3> QED
      BY <3>3 DEF l
  <2> HIDE DEF g
  <2>5. g.lists[c] = w
    BY <1>2, <2>4
  <2>6. \A n \in Node : n # w => g.node[n] = h.node[n]
    BY <1>1, <2>2, <2>3, <2>4
  <2> QED
    BY <1>1, <1>4, <2>3, <2>4, <2>5, <2>6 DEF g, w, k, AddsMessage
<1>5. CASE tl # None
  <2> DEFINE n1 == LinkedTo(k.node, w, tl, k.node[tl].prev)
             n2 == [n1 EXCEPT ![tl].prev = w]
             p  == n2[w].prev
             n3 == [n2 EXCEPT ![p].next = w]
             n4 == TimedAt(n3, w, t)
  <2>1. g = IF p = None THEN [k EXCEPT !.ok = FALSE] ELSE [k EXCEPT !.lists[c] = w, !.node = n4]
    BY <1>5 DEF NewMessage, LinkedTo, TimedAt
  <2>2. tl \in Node /\ k.node[tl].prev \in NodeOrNone
    BY <1>2, <1>3, <1>5 DEF NodeOrNone, NodeRec
  <2> HIDE DEF w, k
  <2>3. /\ n1 \in [Node -> NodeRec] /\ (\A n \in Node : n # w => n1[n] = k.node[n])
        /\ n1[w].next = tl /\ n1[w].prev = k.node[tl].prev
        /\ n1[w].terminated = k.node[w].terminated
    BY <1>1, <1>2, <1>3, <2>2, NodeLinked, SMTT(60)
  <2> HIDE DEF n1
  <2>4. /\ n2 \in [Node -> NodeRec] /\ (\A n \in Node : n # tl => n2[n] = n1[n])
        /\ n2[tl].prev = w /\ n2[tl].next = n1[tl].next /\ n2[tl].terminated = n1[tl].terminated
        /\ n2[tl].startTime = n1[tl].startTime
    BY <1>1, <2>2, <2>3, NodePrev DEF NodeOrNone
  <2> HIDE DEF n2
  <2>5. p \in NodeOrNone
    BY <1>1, <2>4 DEF NodeRec
  <2> HIDE DEF p
  <2>6. CASE p = None
    <3>1. g \in Heaps /\ g.ok = FALSE
      BY <1>1, <2>1, <2>6 DEF Heaps
    <3>2. ~(tl # w /\ h.node[tl].prev = tl)
      <4> SUFFICES ASSUME tl # w, h.node[tl].prev = tl PROVE FALSE
        OBVIOUS
      <4>1. p = k.node[tl].prev
        BY <1>1, <2>2, <2>3, <2>4 DEF p
      <4> QED
        BY <1>1, <2>2, <2>6, <4>1, ITCAssumption
    <3> QED
      BY <1>5, <3>1, <3>2 DEF g, w, k, AddsMessage
  <2>7. CASE p # None
    <3>1. p \in Node
      BY <2>5, <2>7 DEF NodeOrNone
    <3>2. /\ n3 \in [Node -> NodeRec] /\ (\A n \in Node : n # p => n3[n] = n2[n])
          /\ n3[p].next = w /\ n3[p].prev = n2[p].prev /\ n3[p].terminated = n2[p].terminated
          /\ n3[p].startTime = n2[p].startTime
      BY <1>1, <2>4, <3>1, NodeNext DEF NodeOrNone
    <3> HIDE DEF n3
    <3>3. /\ n4 \in [Node -> NodeRec] /\ (\A n \in Node : n # w => n4[n] = n3[n])
          /\ n4[w].next = n3[w].next /\ n4[w].prev = n3[w].prev /\ n4[w].startTime = t
          /\ n4[w].terminated = n3[w].terminated
      BY <1>1, <3>2, NodeWith
    <3> HIDE DEF n4
    <3> DEFINE l == [h.lists EXCEPT ![c] = w]
    <3>4. /\ g \in Heaps /\ g.node = n4 /\ g.free = k.free /\ g.unused = k.unused /\ g.ok = k.ok
          /\ g.lists = [h.lists EXCEPT ![c] = w]
      <4>1. k.lists = h.lists /\ l \in [Core -> NodeOrNone]
        BY <1>1, <1>3
      <4>2. g = [k EXCEPT !.lists = l, !.node = n4]
        BY <4>1, <2>1, <2>7
      <4> HIDE DEF l, g
      <4>3. /\ g \in Heaps /\ g.node = n4 /\ g.free = k.free /\ g.unused = k.unused /\ g.ok = k.ok
            /\ g.lists = l
        BY <1>1, <3>3, <4>1, <4>2 DEF Heaps
      <4> QED
        BY <4>3 DEF l
    <3> HIDE DEF g
    <3>5. g.lists[c] = w
      BY <1>2, <3>4
    <3>6. ASSUME tl # w, h.node[tl].prev = tl
          PROVE  /\ g.node[w].terminated = FALSE /\ g.node[w].startTime = t
                 /\ \A n \in Node : n \notin {w, tl} => g.node[n] = h.node[n]
                 /\ g.node[w].prev = tl /\ g.node[w].next = tl
                 /\ g.node[tl].prev = w /\ g.node[tl].next = w
                 /\ g.node[tl].terminated = h.node[tl].terminated
                 /\ g.node[tl].startTime = h.node[tl].startTime
      <4> HIDE DEF tl
      <4>1. k.node[tl] = h.node[tl] /\ p = tl
        BY <1>1, <2>2, <2>3, <2>4, <3>6 DEF p
      <4>2. n1[tl] = h.node[tl]
        BY <2>2, <2>3, <3>6, <4>1
      <4>3. n3[w] = n1[w]
        BY <1>1, <2>4, <3>2, <3>6, <4>1
      <4>4. n4[tl] = n3[tl]
        BY <2>2, <3>3, <3>6
      <4>5. g.node[w].terminated = FALSE /\ g.node[w].startTime = t
        BY <1>1, <2>3, <3>3, <3>4, <4>3
      <4>6. g.node[w].prev = tl /\ g.node[w].next = tl
        BY <2>3, <3>3, <3>4, <3>6, <4>1, <4>3
      <4>7. g.node[tl].prev = w /\ g.node[tl].next = w
        BY <2>4, <3>2, <3>4, <4>1, <4>4
      <4>8. g.node[tl].terminated = h.node[tl].terminated /\ g.node[tl].startTime = h.node[tl].startTime
        BY <2>4, <3>2, <3>4, <4>1, <4>2, <4>4
      <4>9. \A n \in Node : n \notin {w, tl} => g.node[n] = h.node[n]
        BY <1>1, <2>3, <2>4, <3>2, <3>3, <3>4, <4>1
      <4> QED
        BY <4>5, <4>6, <4>7, <4>8, <4>9
    <3> QED
      BY <1>1, <1>5, <3>4, <3>5, <3>6 DEF g, w, k, AddsMessage
  <2> QED
    BY <2>6, <2>7
<1> QED
  BY <1>4, <1>5

\* Heap g is h with node w of core c on the free list: w was the only node of c
\* or the older of two.
DropsMessage(h, c, w, g) ==
  LET tl == h.lists[c] IN
  /\ g.free = w /\ g.unused = h.unused
  /\ g.node[w].next = h.free
  /\ h.node[w].next = w =>
       /\ g.lists = [h.lists EXCEPT ![c] = None]
       /\ \A n \in Node : n # w => g.node[n] = h.node[n]
  /\ /\ w # tl
     /\ h.node[w].next = tl /\ h.node[w].prev = tl /\ h.node[tl].next = w
     => /\ g.lists = h.lists
        /\ \A n \in Node : n \notin {w, tl} => g.node[n] = h.node[n]
        /\ g.node[tl].prev = tl /\ g.node[tl].next = tl
        /\ g.node[tl].terminated = h.node[tl].terminated
        /\ g.node[tl].startTime = h.node[tl].startTime

\* A node is taken off its list and put on the free list.
LEMMA UnlinkIs ==
  ASSUME NEW h \in Heaps, NEW c \in Core, h.lists[c] # None, NEW w \in Node
  PROVE  LET g == Unlink(h, c, w)
         IN g \in Heaps /\ g.ok = h.ok /\ DropsMessage(h, c, w, g)
<1> DEFINE tl == h.lists[c]
           g  == Unlink(h, c, w)
           n1 == [h.node EXCEPT ![tl].prev = h.node[w].prev]
           n2 == [n1 EXCEPT ![tl].next = n1[w].next]
           n3 == IF n1[tl].next = w THEN n2 ELSE n1
           a  == LinkedTo(h.node, w, h.free, None)
           b  == LinkedTo(n3, w, h.free, None)
           last == h.node[w].next = w
           l  == [h.lists EXCEPT ![c] = IF last THEN None ELSE tl]
<1>1. /\ h.node \in [Node -> NodeRec] /\ h.free \in NodeOrNone /\ h.lists \in [Core -> NodeOrNone]
      /\ None \in NodeOrNone
  BY DEF Heaps, NodeOrNone
<1>2. tl \in Node
  BY <1>1 DEF NodeOrNone
<1>3. g = [h EXCEPT !.lists = l, !.node = IF last THEN a ELSE b, !.free = w]
  BY DEF Unlink, LinkedTo
<1>4. l \in [Core -> NodeOrNone] /\ (last => l = [h.lists EXCEPT ![c] = None])
      /\ (~last => l = h.lists)
  BY <1>1
<1> HIDE DEF tl, g, l
<1>5. /\ n1 \in [Node -> NodeRec] /\ (\A n \in Node : n # tl => n1[n] = h.node[n])
      /\ n1[tl].prev = h.node[w].prev /\ n1[tl].next = h.node[tl].next
      /\ n1[tl].startTime = h.node[tl].startTime /\ n1[tl].terminated = h.node[tl].terminated
  <2>1. h.node[w].prev \in NodeOrNone
    BY <1>1 DEF NodeRec
  <2> QED
    BY <1>1, <1>2, <2>1, NodePrev
<1> HIDE DEF n1
<1>6. /\ n2 \in [Node -> NodeRec] /\ (\A n \in Node : n # tl => n2[n] = n1[n])
      /\ n2[tl].next = n1[w].next /\ n2[tl].prev = n1[tl].prev
      /\ n2[tl].startTime = n1[tl].startTime /\ n2[tl].terminated = n1[tl].terminated
  <2>1. n1[w].next \in NodeOrNone
    BY <1>5 DEF NodeRec
  <2> QED
    BY <1>2, <1>5, <2>1, NodeNext
<1> HIDE DEF n2
<1>7. n3 \in [Node -> NodeRec]
  BY <1>5, <1>6
<1>8. /\ a \in [Node -> NodeRec] /\ a[w].next = h.free /\ \A n \in Node : n # w => a[n] = h.node[n]
  BY <1>1, NodeLinked
<1> HIDE DEF n3, a
<1>9. /\ b \in [Node -> NodeRec] /\ b[w].next = h.free /\ \A n \in Node : n # w => b[n] = n3[n]
  BY <1>1, <1>7, NodeLinked
<1> HIDE DEF b
<1>10. w \in NodeOrNone
  BY DEF NodeOrNone
<1>11. /\ g \in Heaps /\ g.lists = l /\ g.node = (IF last THEN a ELSE b) /\ g.free = w
       /\ g.unused = h.unused /\ g.ok = h.ok
  BY <1>3, <1>4, <1>8, <1>9, <1>10 DEF Heaps
<1>12. g.node[w].next = h.free
  BY <1>8, <1>9, <1>11
<1>13. ASSUME last
       PROVE  g.lists = [h.lists EXCEPT ![c] = None] /\ \A n \in Node : n # w => g.node[n] = h.node[n]
  BY <1>4, <1>8, <1>11, <1>13
<1>14. ASSUME w # tl, h.node[w].next = tl, h.node[w].prev = tl, h.node[tl].next = w
       PROVE  /\ g.lists = h.lists
              /\ \A n \in Node : n \notin {w, tl} => g.node[n] = h.node[n]
              /\ g.node[tl].prev = tl /\ g.node[tl].next = tl
              /\ g.node[tl].terminated = h.node[tl].terminated
              /\ g.node[tl].startTime = h.node[tl].startTime
  <2>1. g.lists = h.lists /\ g.node = b
    BY <1>4, <1>11, <1>14
  <2>2. n3 = n2
    BY <1>5, <1>14 DEF n3
  <2>3. n1[w] = h.node[w] /\ b[tl] = n2[tl]
    BY <1>2, <1>5, <1>9, <1>14, <2>2
  <2>4. n2[tl].next = tl /\ n2[tl].prev = tl
    BY <1>5, <1>6, <1>14, <2>3
  <2>5. n2[tl].terminated = h.node[tl].terminated /\ n2[tl].startTime = h.node[tl].startTime
    BY <1>5, <1>6
  <2>6. \A n \in Node : n \notin {w, tl} => b[n] = h.node[n]
    BY <1>5, <1>6, <1>9, <2>2
  <2> QED
    BY <2>1, <2>3, <2>4, <2>5, <2>6
<1> QED
  BY <1>11, <1>12, <1>13, <1>14 DEF DropsMessage, g, tl

\* A write that goes to a node, and the end of a message.
Wrote(h, n, t, b) == [h EXCEPT !.node[n].endTime = t, !.node[n].terminated = @ \/ b]
Ended(h, n) == [h EXCEPT !.node[n].terminated = TRUE]

\* They leave the lists as they are.
SameLists(g, h) ==
  /\ g \in Heaps /\ g.lists = h.lists /\ g.free = h.free /\ g.unused = h.unused /\ g.ok = h.ok
  /\ \A m \in Node : /\ g.node[m].prev = h.node[m].prev /\ g.node[m].next = h.node[m].next
                     /\ g.node[m].startTime = h.node[m].startTime

\* A write to node n changes its end time and may end its message.
LEMMA WroteIs ==
  ASSUME NEW h \in Heaps, NEW n \in Node, NEW t \in Nat, NEW b \in BOOLEAN
  PROVE  /\ SameLists(Wrote(h, n, t, b), h)
         /\ Wrote(h, n, t, b).node[n].terminated = (h.node[n].terminated \/ b)
         /\ \A m \in Node : m # n => Wrote(h, n, t, b).node[m].terminated = h.node[m].terminated
<1> DEFINE r == [h.node[n] EXCEPT !.endTime = t, !.terminated = @ \/ b]
           nd == [h.node EXCEPT ![n] = r]
           g == Wrote(h, n, t, b)
<1>1. h.node \in [Node -> NodeRec] /\ h.node[n] \in NodeRec
  BY DEF Heaps
<1>2. /\ r \in NodeRec /\ r.prev = h.node[n].prev /\ r.next = h.node[n].next
      /\ r.startTime = h.node[n].startTime
  BY <1>1 DEF NodeRec
<1>3. r.terminated = (h.node[n].terminated \/ b)
  BY <1>1 DEF NodeRec
<1>4. g = [h EXCEPT !.node = nd]
  BY <1>1 DEF Wrote, NodeRec, Heaps
<1> HIDE DEF r, g
<1>5. nd \in [Node -> NodeRec] /\ nd[n] = r /\ \A m \in Node : m # n => nd[m] = h.node[m]
  BY <1>1, <1>2
<1> HIDE DEF nd
<1>6. /\ g \in Heaps /\ g.lists = h.lists /\ g.free = h.free /\ g.unused = h.unused
      /\ g.ok = h.ok /\ g.node = nd
  BY <1>4, <1>5 DEF Heaps
<1>7. SameLists(g, h)
  BY <1>2, <1>5, <1>6 DEF SameLists
<1> QED
  BY <1>3, <1>5, <1>6, <1>7 DEF g

\* The message of node n is ended.
LEMMA EndedIs ==
  ASSUME NEW h \in Heaps, NEW n \in Node
  PROVE  /\ SameLists(Ended(h, n), h)
         /\ Ended(h, n).node[n].terminated = TRUE
         /\ \A m \in Node : m # n => Ended(h, n).node[m].terminated = h.node[m].terminated
<1> DEFINE r == [h.node[n] EXCEPT !.terminated = TRUE]
           nd == [h.node EXCEPT ![n] = r]
           g == Ended(h, n)
<1>1. h.node \in [Node -> NodeRec] /\ h.node[n] \in NodeRec
  BY DEF Heaps
<1>2. /\ r \in NodeRec /\ r.prev = h.node[n].prev /\ r.next = h.node[n].next
      /\ r.startTime = h.node[n].startTime /\ r.terminated = TRUE
  BY <1>1 DEF NodeRec
<1>3. g = [h EXCEPT !.node = nd]
  BY DEF Ended
<1> HIDE DEF r, g
<1>4. nd \in [Node -> NodeRec] /\ nd[n] = r /\ \A m \in Node : m # n => nd[m] = h.node[m]
  BY <1>1, <1>2
<1> HIDE DEF nd
<1>5. /\ g \in Heaps /\ g.lists = h.lists /\ g.free = h.free /\ g.unused = h.unused
      /\ g.ok = h.ok /\ g.node = nd
  BY <1>3, <1>4 DEF Heaps
<1>6. SameLists(g, h)
  BY <1>2, <1>4, <1>5 DEF SameLists
<1> QED
  BY <1>2, <1>4, <1>5, <1>6 DEF g

\* What becomes of the variables.
LEMMA UseIs ==
  ASSUME NEW h \in Heaps, Use(h)
  PROVE  /\ h.ok => Heap' = h /\ crashed' = FALSE
         /\ ~h.ok => Heap' = Heap /\ crashed' = TRUE
<1>1. h = [node |-> h.node, free |-> h.free, lists |-> h.lists, unused |-> h.unused, ok |-> h.ok]
  BY DEF Heaps
<1>2. CASE h.ok
  <2>1. h.ok = TRUE
    BY <1>2 DEF Heaps
  <2> QED
    BY <1>1, <1>2, <2>1 DEF Use, Heap
<1>3. CASE ~h.ok
  BY <1>3 DEF Use, Heap
<1> QED
  BY <1>2, <1>3

-----------------------------------------------------------------------------
(* What the steps do to the rings and to the heap.                         *)

TypesOK ==
  /\ ring \in [Core -> Rings] /\ Heap \in Heaps
  /\ crashed \in BOOLEAN /\ clock \in Nat

\* One ring at most changes, and its count is n.
CountBecomes(c, n) ==
  /\ ring' \in [Core -> Rings]
  /\ ring'[c].numMsgs = n
  /\ \A d \in Core : d # c => ring'[d] = ring[d]

\* What a step with heap h leaves, n the count of messages.
HeapBecomes(h, c, n) ==
  \/ h.ok /\ Heap' = h /\ crashed' = FALSE /\ CountBecomes(c, n)
  \/ ~h.ok /\ Heap' = Heap /\ crashed' = TRUE /\ ring' = ring

\* One ring is written.
LEMMA CountIs ==
  ASSUME TypesOK, NEW c \in Core, NEW r \in Rings, ring' = [ring EXCEPT ![c] = r]
  PROVE  CountBecomes(c, r.numMsgs)
BY DEF CountBecomes, TypesOK

\* The NUL that print stores behind a word.
LEMMA NulBehind ==
  ASSUME NEW q \in Rings
  PROVE  /\ [q EXCEPT !.pbuff[q.pbi] = NUL] \in Rings
         /\ [q EXCEPT !.pbuff[q.pbi] = NUL].numMsgs = q.numMsgs
<1> DEFINE b == [q.pbuff EXCEPT ![q.pbi] = NUL]
           z == [q EXCEPT !.pbuff[q.pbi] = NUL]
<1>1. q.pbi \in Index /\ q.pbuff \in [Index -> Char] /\ NUL \in Char
  BY DEF Rings, Char
<1>2. b \in [Index -> Char]
  BY <1>1
<1>3. z = [q EXCEPT !.pbuff = b]
  BY DEF Rings
<1> HIDE DEF b, z
<1>4. z \in Rings /\ z.numMsgs = q.numMsgs
  BY <1>2, <1>3 DEF Rings
<1> QED
  BY <1>4 DEF z

\* What can be taken from, and the heap of a write.
LEMMA WriteHeap ==
  ASSUME TypesOK, NEW c \in Core, MayWrite(c)
  PROVE  /\ CanTakeFrom(Heap) /\ Heap.ok = TRUE /\ clock' = clock + 1 /\ clock' \in Nat
         /\ ring[c] \in Rings /\ ring[c].numMsgs \in Nat /\ ring[c].numMsgs <= MaxPending
         /\ NewMessage(Heap, c, clock') \in Heaps
         /\ NewMessage(Heap, c, clock').ok => NewMessage(Heap, c, clock').lists[c] \in Node
         /\ Open(c) => tsList[c] \in Node
<1>1. CanTakeFrom(Heap) /\ Heap.ok = TRUE /\ Heap \in Heaps
  BY DEF MayWrite, CanTake, CanTakeFrom, Heap, TypesOK
<1>2. clock' = clock + 1 /\ clock' \in Nat /\ ring[c].numMsgs <= MaxPending
  BY DEF MayWrite, TypesOK
<1>3. ring[c] \in Rings /\ ring[c].numMsgs \in Nat
  BY DEF TypesOK, Rings
<1>4. /\ NewMessage(Heap, c, clock') \in Heaps
      /\ NewMessage(Heap, c, clock').ok => NewMessage(Heap, c, clock').lists[c] \in Node
  BY <1>1, <1>2, NewMessageIs
<1>5. Open(c) => tsList[c] \in Node
  <2>1. Heap.lists = tsList /\ tsList \in [Core -> NodeOrNone]
    BY <1>1 DEF Heap, Heaps
  <2> QED
    BY <2>1 DEF Open, NodeOrNone
<1> QED
  BY <1>1, <1>2, <1>3, <1>4, <1>5

\* print, for a word: the message in progress goes on, or there is a new one.
LEMMA PrintWordDoes ==
  ASSUME TypesOK, NEW c \in Core, NEW w \in Words, PrintWord(c, w)
  PROVE  LET h == IF Open(c) THEN Heap ELSE NewMessage(Heap, c, clock')
             s == PutAll(ring[c], w)
             g == IF h.ok THEN Wrote(h, h.lists[c], clock', s.ended) ELSE h
         IN /\ s.ended \in BOOLEAN /\ g \in Heaps /\ g.ok = h.ok
            /\ HeapBecomes(g, c, s.r.numMsgs)
<1> DEFINE h == IF Open(c) THEN Heap ELSE NewMessage(Heap, c, clock')
           s == PutAll(ring[c], w)
           g == IF h.ok THEN Wrote(h, h.lists[c], clock', s.ended) ELSE h
           z == [s.r EXCEPT !.pbuff[s.r.pbi] = NUL]
<1>1. MayWrite(c)
  BY DEF PrintWord
<1>2. h \in Heaps /\ (h.ok => h.lists[c] \in Node) /\ clock' \in Nat /\ ring[c] \in Rings
  BY <1>1, WriteHeap DEF TypesOK, Heap
<1>3. Use(g) /\ ring' = IF h.ok THEN [ring EXCEPT ![c] = z] ELSE ring
  BY DEF PrintWord, Wrote
<1> HIDE DEF h
<1>4. s.r \in Rings /\ s.ended \in BOOLEAN
  BY <1>2, PutAllIs DEF WordStates
<1> HIDE DEF s
<1>5. g \in Heaps /\ g.ok = h.ok
  BY <1>2, <1>4, WroteIs DEF SameLists
<1>6. z \in Rings /\ z.numMsgs = s.r.numMsgs
  BY <1>4, NulBehind
<1> HIDE DEF g, z
<1>7. CASE h.ok
  <2>1. CountBecomes(c, s.r.numMsgs)
    BY <1>3, <1>6, <1>7, CountIs
  <2> QED
    BY <1>3, <1>4, <1>5, <1>7, <2>1, UseIs DEF HeapBecomes, g, h, s
<1>8. CASE ~h.ok
  BY <1>3, <1>4, <1>5, <1>8, UseIs DEF HeapBecomes, g, h, s
<1> QED
  BY <1>7, <1>8

\* print, for a string: it ends the message in progress and is one of its own.
LEMMA PrintStringDoes ==
  ASSUME TypesOK, NEW c \in Core, NEW str \in Strings, PrintString(c, str)
  PROVE  LET k == IF Open(c) THEN Ended(Heap, tsList[c]) ELSE Heap
             h == NewMessage(k, c, clock')
             g == IF h.ok THEN Ended(h, h.lists[c]) ELSE h
         IN /\ k \in Heaps /\ CanTakeFrom(k) /\ g \in Heaps /\ g.ok = h.ok
            /\ HeapBecomes(g, c, ring[c].numMsgs + (IF Open(c) THEN 2 ELSE 1))
<1> DEFINE k == IF Open(c) THEN Ended(Heap, tsList[c]) ELSE Heap
           h == NewMessage(k, c, clock')
           g == IF h.ok THEN Ended(h, h.lists[c]) ELSE h
           r == IF Open(c) THEN EndMessage(ring[c]) ELSE ring[c]
           q == EndMessage(PutString(r, str))
<1>1. MayWrite(c)
  BY DEF PrintString, MayWriteString
<1>2. /\ clock' \in Nat /\ ring[c] \in Rings /\ ring[c].numMsgs \in Nat
      /\ CanTakeFrom(Heap) /\ Heap \in Heaps /\ (Open(c) => tsList[c] \in Node)
  BY <1>1, WriteHeap DEF TypesOK
<1>3. Use(g) /\ ring' = IF h.ok THEN [ring EXCEPT ![c] = q] ELSE ring
  BY DEF PrintString, Ended
<1>4. k \in Heaps /\ CanTakeFrom(k)
  BY <1>2, EndedIs DEF SameLists, CanTakeFrom
<1> HIDE DEF k
<1>5. h \in Heaps /\ (h.ok => h.lists[c] \in Node)
  BY <1>2, <1>4, NewMessageIs
<1> HIDE DEF h
<1>6. g \in Heaps /\ g.ok = h.ok
  BY <1>5, EndedIs DEF SameLists
<1> DEFINE n == ring[c].numMsgs + (IF Open(c) THEN 2 ELSE 1)
<1>7. q \in Rings /\ q.numMsgs = n
  <2>1. r \in Rings /\ r.numMsgs = ring[c].numMsgs + (IF Open(c) THEN 1 ELSE 0)
    BY <1>2, EndMessageIs
  <2> HIDE DEF r
  <2>2. PutString(r, str) \in Rings /\ PutString(r, str).numMsgs = r.numMsgs
    BY <2>1, PutStringIs
  <2>3. q \in Rings /\ q.numMsgs = r.numMsgs + 1
    BY <2>2, EndMessageIs
  <2> QED
    BY <1>2, <2>1, <2>3
<1> HIDE DEF g, q, n
<1>8. CASE h.ok
  <2>1. CountBecomes(c, n)
    BY <1>3, <1>7, <1>8, CountIs
  <2>2. HeapBecomes(g, c, n)
    BY <1>3, <1>6, <1>8, <2>1, UseIs DEF HeapBecomes
  <2> QED
    BY <1>4, <1>6, <2>2 DEF g, h, k, n
<1>9. CASE ~h.ok
  <2>1. HeapBecomes(g, c, n)
    BY <1>3, <1>6, <1>9, UseIs DEF HeapBecomes
  <2> QED
    BY <1>4, <1>6, <2>1 DEF g, h, k, n
<1> QED
  BY <1>8, <1>9

\* A call that changes nothing.
NothingChanges == Heap' = Heap /\ ring' = ring /\ crashed' = crashed

\* getITCPrintMsg: the oldest message goes, or it is not there.
LEMMA GetDoes ==
  ASSUME TypesOK, NEW c \in Core, NEW len \in DstLens, Get(c, len)
  PROVE  LET tl  == tsList[c]
             old == node[tl].prev
         IN /\ ring[c].numMsgs > 0
            /\ \/ /\ tl \in Node /\ old = None
                  /\ Heap' = Heap /\ ring' = ring /\ crashed' = TRUE
               \/ /\ tl = None \/ (tl \in Node /\ old \in Node /\ ~node[old].terminated)
                  /\ NothingChanges
               \/ /\ tl \in Node /\ old \in Node /\ node[old].terminated
                  /\ Unlink(Heap, c, old) \in Heaps /\ Unlink(Heap, c, old).ok = TRUE
                  /\ HeapBecomes(Unlink(Heap, c, old), c, ring[c].numMsgs - 1)
<1> DEFINE tl == tsList[c]
           old == node[tl].prev
           r == ring[c]
           a == Advance(r, Len(Copied(r, len - 1)) + 1)
           q == [a EXCEPT !.numMsgs = @ - 1]
<1>1. /\ tl \in NodeOrNone /\ (tl # None => tl \in Node /\ old \in NodeOrNone)
      /\ Heap.lists[c] = tl /\ Heap.node = node /\ Heap.ok = TRUE /\ Heap \in Heaps
  BY DEF TypesOK, Heap, Heaps, NodeOrNone, NodeRec
<1>2. r.numMsgs > 0 /\ r \in Rings
  BY DEF Get, TypesOK
<1>3. CASE tl # None /\ old = None
  <2>1. crashed' = TRUE /\ UNCHANGED <<ring, tsList, node, freeList, unused>>
    BY <1>3 DEF Get
  <2>2. Heap' = Heap
    BY <2>1 DEF Heap
  <2> QED
    BY <1>1, <1>2, <1>3, <2>1, <2>2
<1>4. CASE tl = None \/ (old # None /\ ~node[old].terminated)
  <2>1. Nothing
    BY <1>4 DEF Get
  <2>2. NothingChanges
    BY <2>1 DEF Nothing, NothingChanges, Heap
  <2> QED
    BY <1>1, <1>2, <1>4, <2>2 DEF NodeOrNone
<1>5. CASE tl # None /\ old # None /\ node[old].terminated
  <2>1. Use(Unlink(Heap, c, old)) /\ ring' = [ring EXCEPT ![c] = q]
    BY <1>5 DEF Get
  <2>2. tl \in Node /\ old \in Node
    BY <1>1, <1>5 DEF NodeOrNone
  <2>3. Unlink(Heap, c, old) \in Heaps /\ Unlink(Heap, c, old).ok = TRUE
    BY <1>1, <1>5, <2>2, UnlinkIs
  <2>4. q \in Rings /\ q.numMsgs = r.numMsgs - 1
    <3>1. Len(Copied(r, len - 1)) + 1 \in Nat
      BY <1>2, CopiedIs, ITCAssumption
    <3>2. a \in Rings /\ a.numMsgs = r.numMsgs
      BY <1>2, <3>1, AdvanceIs
    <3> HIDE DEF a
    <3>3. a.numMsgs - 1 \in Nat
      BY <1>2, <3>2 DEF Rings
    <3> QED
      BY <3>2, <3>3 DEF Rings
  <2> HIDE DEF q
  <2>5. CountBecomes(c, r.numMsgs - 1)
    BY <2>1, <2>4, CountIs
  <2>6. HeapBecomes(Unlink(Heap, c, old), c, r.numMsgs - 1)
    BY <2>1, <2>3, <2>5, UseIs DEF HeapBecomes
  <2> QED
    BY <1>2, <1>5, <2>2, <2>3, <2>6
<1> QED
  BY <1>3, <1>4, <1>5

\* flushITCPrintMsg, when no message is complete: the one in progress goes.
LEMMA FlushDoes ==
  ASSUME TypesOK, NEW c \in Core, NEW len \in DstLens, Flush(c, len), ~(ring[c].numMsgs > 0)
  PROVE  \/ NothingChanges
         \/ /\ tsList[c] \in Node
            /\ Unlink(Heap, c, tsList[c]) \in Heaps /\ Unlink(Heap, c, tsList[c]).ok = TRUE
            /\ HeapBecomes(Unlink(Heap, c, tsList[c]), c, ring[c].numMsgs)
<1> DEFINE tl == tsList[c]
           r == ring[c]
           q == Advance(r, Len(Copied(r, len - 1)))
<1>1. /\ tl \in NodeOrNone /\ Heap.lists[c] = tl /\ Heap.ok = TRUE /\ Heap \in Heaps
  BY DEF TypesOK, Heap, Heaps
<1>2. r \in Rings
  BY DEF TypesOK
<1>3. CASE tl = None
  <2>1. Nothing
    BY <1>3 DEF Flush
  <2> QED
    BY <2>1 DEF Nothing, NothingChanges, Heap
<1>4. CASE tl # None
  <2>1. Use(Unlink(Heap, c, tl)) /\ (ring' = ring \/ ring' = [ring EXCEPT ![c] = q])
    BY <1>4 DEF Flush
  <2>2. tl \in Node
    BY <1>1, <1>4 DEF NodeOrNone
  <2>3. Unlink(Heap, c, tl) \in Heaps /\ Unlink(Heap, c, tl).ok = TRUE
    BY <1>1, <1>4, <2>2, UnlinkIs
  <2>4. q \in Rings /\ q.numMsgs = r.numMsgs
    <3>1. Len(Copied(r, len - 1)) \in Nat
      BY <1>2, CopiedIs, ITCAssumption
    <3> QED
      BY <1>2, <3>1, AdvanceIs
  <2> HIDE DEF q
  <2>5. CountBecomes(c, r.numMsgs)
    <3>1. CASE ring' = ring
      BY <3>1 DEF CountBecomes, TypesOK
    <3>2. CASE ring' = [ring EXCEPT ![c] = q]
      BY <2>4, <3>2, CountIs
    <3> QED
      BY <2>1, <3>1, <3>2
  <2>6. HeapBecomes(Unlink(Heap, c, tl), c, r.numMsgs)
    BY <2>1, <2>3, <2>5, UseIs DEF HeapBecomes
  <2> QED
    BY <2>2, <2>3, <2>6
<1> QED
  BY <1>3, <1>4

\* A step that leaves such a heap keeps the types.
LEMMA HeapKeepsTypes ==
  ASSUME TypesOK, NEW h \in Heaps, NEW c \in Core, NEW n, HeapBecomes(h, c, n), clock' \in Nat
  PROVE  TypesOK'
<1>1. CASE h.ok /\ Heap' = h /\ crashed' = FALSE /\ CountBecomes(c, n)
  <2>1. Heap' \in Heaps
    BY <1>1
  <2>2. ring' \in [Core -> Rings]
    BY <1>1 DEF CountBecomes
  <2> QED
    BY <1>1, <2>1, <2>2 DEF TypesOK, Heaps, NodeRec, NodeOrNone, Rings, Index, Char
<1>2. CASE Heap' = Heap /\ crashed' = TRUE /\ ring' = ring
  BY <1>2 DEF TypesOK, Heaps, NodeRec, NodeOrNone, Rings, Index, Char
<1> QED
  BY <1>1, <1>2 DEF HeapBecomes

\* The variables at the start.
LEMMA InitTypes == Init => TypesOK
<1> SUFFICES ASSUME Init PROVE TypesOK
  OBVIOUS
<1>1. NewRing \in Rings
  BY NewRingOK DEF RingOK, Counted
<1>2. ring \in [Core -> Rings]
  BY <1>1 DEF Init
<1>3. NewNode \in NodeRec
  BY DEF NewNode, NodeRec, NodeOrNone
<1>4. Heap \in Heaps
  BY <1>3 DEF Init, Heap, Heaps, NodeOrNone
<1> QED
  BY <1>2, <1>4 DEF Init, TypesOK

\* Every step keeps them.
LEMMA StepTypes == TypesOK /\ [Next]_vars => TypesOK'
<1> SUFFICES ASSUME TypesOK, [Next]_vars PROVE TypesOK'
  OBVIOUS
<1>1. clock \in Nat /\ crashed \in BOOLEAN /\ ring \in [Core -> Rings] /\ Heap \in Heaps
  BY DEF TypesOK
<1>2. ASSUME NEW c \in Core, NEW w \in Words, PrintWord(c, w) PROVE TypesOK'
  <2>1. clock' \in Nat
    BY <1>2, WriteHeap DEF PrintWord
  <2> QED
    BY <1>2, <2>1, PrintWordDoes, HeapKeepsTypes
<1>3. ASSUME NEW c \in Core, NEW s \in Strings, PrintString(c, s) PROVE TypesOK'
  <2>1. clock' \in Nat
    BY <1>3, WriteHeap DEF PrintString, MayWriteString
  <2> QED
    BY <1>3, <2>1, PrintStringDoes, HeapKeepsTypes
<1>4. ASSUME Heap' = Heap, ring' = ring, clock' = clock, crashed' \in BOOLEAN PROVE TypesOK'
  BY <1>1, <1>4 DEF TypesOK, Heaps, NodeRec, NodeOrNone, Rings, Index, Char
<1>5. ASSUME NEW c \in Core, NEW len \in DstLens, Get(c, len), clock' = clock PROVE TypesOK'
  BY <1>1, <1>4, <1>5, GetDoes, HeapKeepsTypes DEF NothingChanges
<1>6. ASSUME NEW c \in Core, NEW len \in DstLens, Fetch(c, len) PROVE TypesOK'
  BY <1>5, <1>6 DEF Fetch
<1>7. ASSUME NEW c \in Core, NEW len \in DstLens, Flush(c, len) PROVE TypesOK'
  <2>1. CASE ring[c].numMsgs > 0
    BY <1>5, <1>7, <2>1 DEF Flush
  <2>2. CASE ~(ring[c].numMsgs > 0)
    <3>1. clock' = clock
      BY <1>7 DEF Flush
    <3> QED
      BY <1>1, <1>4, <1>7, <2>2, <3>1, FlushDoes, HeapKeepsTypes DEF NothingChanges
  <2> QED
    BY <2>1, <2>2
<1>8. CASE UNCHANGED vars
  BY <1>1, <1>4, <1>8 DEF vars, Heap
<1> QED
  BY <1>2, <1>3, <1>6, <1>7, <1>8 DEF Next

\* The indices of the rings stay in range and the links of the nodes are nodes or
\* null, for any words, strings and buffers (what print, getITCPrintMsg and
\* flushITCPrintMsg leave in pbi, pbo, numMsgs and the TsList fields).
THEOREM TypeCorrect == Spec => []TypeOK
<1>1. TypesOK => TypeOK
  <2> SUFFICES ASSUME TypesOK PROVE TypeOK
    OBVIOUS
  <2>1. /\ tsList \in [Core -> NodeOrNone] /\ node \in [Node -> NodeRec]
        /\ ring \in [Core -> Rings] /\ crashed \in BOOLEAN
    BY DEF TypesOK, Heap, Heaps
  <2>2. \A c \in Core : /\ ring[c].pbi \in 0..(BuffSize - 1) /\ ring[c].pbo \in 0..(BuffSize - 1)
                        /\ ring[c].numMsgs \in Nat
    BY <2>1 DEF Rings, Index
  <2>3. \A n \in Node : node[n].prev \in NodeOrNone /\ node[n].next \in NodeOrNone
    BY <2>1 DEF NodeRec
  <2> QED
    BY <2>1, <2>2, <2>3 DEF TypeOK, NodeOrNone
<1> QED
  BY <1>1, InitTypes, StepTypes, PTL DEF Spec

-----------------------------------------------------------------------------
(* The free list, as the function of its nodes from the last on.           *)

IsChain(h, m, f) ==
  /\ f \in [0..m -> NodeOrNone] /\ f[0] = None /\ f[m] = h.free
  /\ \A i \in 1..m : f[i] \in Node /\ h.node[f[i]].next = f[i - 1]
  /\ \A i, j \in 1..m : f[i] = f[j] => i = j

NodesIn(m, f) == {f[i] : i \in 1..m}

\* F are the nodes of the free list of heap h.
Free(h, F) == \E m \in Nat : \E f : IsChain(h, m, f) /\ F = NodesIn(m, f)

\* The first node of the list is one of them.
LEMMA FreeHead ==
  ASSUME NEW h, NEW F, Free(h, F), h.free # None
  PROVE  h.free \in F /\ h.free \in Node
<1>0a. PICK m \in Nat : \E f : IsChain(h, m, f) /\ F = NodesIn(m, f)
  BY DEF Free
<1>0. PICK f : IsChain(h, m, f) /\ F = NodesIn(m, f)
  BY <1>0a
<1>1. IsChain(h, m, f) /\ F = {f[i] : i \in 1..m}
  BY <1>0 DEF NodesIn
<1>2. m # 0
  BY <1>1 DEF IsChain
<1>3. m \in 1..m
  BY <1>2
<1> QED
  BY <1>1, <1>3 DEF IsChain

\* Other nodes do not matter.
LEMMA FreeStays ==
  ASSUME NEW h, NEW g, NEW F, Free(h, F), g.free = h.free,
         \A n \in F : g.node[n].next = h.node[n].next
  PROVE  Free(g, F)
<1>0a. PICK m \in Nat : \E f : IsChain(h, m, f) /\ F = NodesIn(m, f)
  BY DEF Free
<1>0. PICK f : IsChain(h, m, f) /\ F = NodesIn(m, f)
  BY <1>0a
<1>1. IsChain(h, m, f) /\ F = {f[i] : i \in 1..m}
  BY <1>0 DEF NodesIn
<1>2. \A i \in 1..m : f[i] \in F
  BY <1>1
<1>3. IsChain(g, m, f)
  BY <1>1, <1>2 DEF IsChain
<1> QED
  BY <1>0, <1>3 DEF Free

\* The first node is taken.
LEMMA FreeTaken ==
  ASSUME NEW h, NEW g, NEW F, Free(h, F), h.free # None,
         g.free = h.node[h.free].next,
         \A n \in F : n # h.free => g.node[n].next = h.node[n].next
  PROVE  Free(g, F \ {h.free})
<1>0a. PICK m \in Nat : \E f : IsChain(h, m, f) /\ F = NodesIn(m, f)
  BY DEF Free
<1>0. PICK f : IsChain(h, m, f) /\ F = NodesIn(m, f)
  BY <1>0a
<1>1. IsChain(h, m, f) /\ F = {f[i] : i \in 1..m}
  BY <1>0 DEF NodesIn
<1>2. m - 1 \in Nat /\ m \in 1..m
  BY <1>1 DEF IsChain
<1> DEFINE k == m - 1
           z == [i \in 0..k |-> f[i]]
<1>3. k \in Nat /\ m = k + 1 /\ 0 \in 0..k /\ k \in 0..k
      /\ \A i \in 1..k : i \in 1..m /\ i # m /\ i - 1 \in 0..k /\ i \in 0..k
  BY <1>2
<1>4. \A i \in 1..m : i \in 1..k \/ i = m
  BY <1>3
<1>5. z \in [0..k -> NodeOrNone] /\ \A i \in 0..k : z[i] = f[i]
  BY <1>1, <1>3 DEF IsChain
<1>6. f[k] = g.free /\ f[m] = h.free
  BY <1>1, <1>2 DEF IsChain
<1> HIDE DEF z, k
<1>7. \A i \in 1..k : f[i] \in F /\ f[i] # h.free
  BY <1>1, <1>2, <1>3, <1>6 DEF IsChain
<1>8. IsChain(g, k, z)
  <2>1. z[0] = None /\ z[k] = g.free
    BY <1>1, <1>3, <1>5, <1>6 DEF IsChain
  <2>2. ASSUME NEW i \in 1..k PROVE z[i] \in Node /\ g.node[z[i]].next = z[i - 1]
    <3>1. z[i] = f[i] /\ z[i - 1] = f[i - 1]
      BY <1>3, <1>5
    <3>2. f[i] \in Node /\ h.node[f[i]].next = f[i - 1]
      BY <1>1, <1>3 DEF IsChain
    <3> QED
      BY <1>7, <3>1, <3>2
  <2>3. \A i, j \in 1..k : z[i] = z[j] => i = j
    BY <1>1, <1>3, <1>5 DEF IsChain
  <2> QED
    BY <1>5, <2>1, <2>2, <2>3 DEF IsChain
<1>9. F \ {h.free} = NodesIn(k, z)
  <2>1. \A n \in F : n # h.free => \E i \in 1..k : z[i] = n
    BY <1>1, <1>3, <1>4, <1>5, <1>6
  <2>2. \A i \in 1..k : z[i] \in F /\ z[i] # h.free
    BY <1>3, <1>5, <1>7
  <2> QED
    BY <2>1, <2>2 DEF NodesIn
<1> QED
  BY <1>3, <1>8, <1>9 DEF Free

\* A node is put in front.
LEMMA FreeAdded ==
  ASSUME NEW h, NEW g, NEW F, Free(h, F), NEW w \in Node, w \notin F,
         g.free = w, g.node[w].next = h.free,
         \A n \in F : g.node[n].next = h.node[n].next
  PROVE  Free(g, F \cup {w})
<1>0a. PICK m \in Nat : \E f : IsChain(h, m, f) /\ F = NodesIn(m, f)
  BY DEF Free
<1>0. PICK f : IsChain(h, m, f) /\ F = NodesIn(m, f)
  BY <1>0a
<1>1. IsChain(h, m, f) /\ F = {f[i] : i \in 1..m}
  BY <1>0 DEF NodesIn
<1> DEFINE k == m + 1
           z == [i \in 0..k |-> IF i = k THEN w ELSE f[i]]
<1>2. k \in Nat /\ k - 1 = m /\ k # 0 /\ k \in 1..k /\ k \in 0..k /\ 0 \in 0..m
      /\ (\A i \in 1..k : i = k \/ i \in 1..m) /\ (\A i \in 0..k : i = k \/ i \in 0..m)
      /\ (\A i \in 1..m : i \in 0..m /\ i - 1 \in 0..m /\ i \in 1..k)
      /\ (\A i \in 0..m : i \in 0..k /\ i # k)
  OBVIOUS
<1>3. z[k] = w /\ \A i \in 0..m : z[i] = f[i]
  BY <1>2
<1>4. z \in [0..k -> NodeOrNone]
  BY <1>1, <1>2 DEF IsChain, NodeOrNone
<1> HIDE DEF z, k
<1>5. \A i \in 1..m : f[i] \in F
  BY <1>1
<1>6. IsChain(g, k, z)
  <2>1. z[0] = None /\ z[k] = g.free
    BY <1>1, <1>2, <1>3 DEF IsChain
  <2>2. ASSUME NEW i \in 1..k PROVE z[i] \in Node /\ g.node[z[i]].next = z[i - 1]
    <3>1. CASE i = k
      <4>1. z[i - 1] = f[m]
        BY <1>2, <1>3, <3>1
      <4> QED
        BY <1>1, <1>3, <3>1, <4>1 DEF IsChain
    <3>2. CASE i \in 1..m
      <4>1. z[i] = f[i] /\ z[i - 1] = f[i - 1]
        BY <1>2, <1>3, <3>2
      <4>2. f[i] \in Node /\ h.node[f[i]].next = f[i - 1]
        BY <1>1, <3>2 DEF IsChain
      <4> QED
        BY <1>5, <3>2, <4>1, <4>2
    <3> QED
      BY <1>2, <3>1, <3>2
  <2>3. \A i, j \in 1..k : z[i] = z[j] => i = j
    <3>1. \A i \in 1..m : z[i] = f[i] /\ z[i] # w
      BY <1>2, <1>3, <1>5
    <3>2. \A i, j \in 1..m : f[i] = f[j] => i = j
      BY <1>1 DEF IsChain
    <3>3. ASSUME NEW i \in 1..k, NEW j \in 1..k, z[i] = z[j] PROVE i = j
      BY <1>2, <1>3, <3>1, <3>2, <3>3, SMTT(60)
    <3> QED
      BY <3>3
  <2> QED
    BY <1>4, <2>1, <2>2, <2>3 DEF IsChain
<1>7. F \cup {w} = NodesIn(k, z)
  <2>1. \A n \in F : \E i \in 1..k : z[i] = n
    BY <1>1, <1>2, <1>3
  <2>2. \A i \in 1..k : z[i] \in F \cup {w}
    BY <1>2, <1>3, <1>5
  <2>3. \E i \in 1..k : z[i] = w
    BY <1>2, <1>3
  <2> QED
    BY <2>1, <2>2, <2>3 DEF NodesIn
<1> QED
  BY <1>2, <1>6, <1>7 DEF Free

-----------------------------------------------------------------------------
(* The lists of the cores: of no node, of one, or of two.                  *)

\* The nodes of core c, and the messages that are ended among them.
Own(h, c) == IF h.lists[c] = None THEN {} ELSE {h.lists[c], h.node[h.lists[c]].prev}

Num(h, c) ==
  IF h.lists[c] = None THEN 0
  ELSE (IF h.node[h.lists[c]].terminated THEN 1 ELSE 0)
       + (IF h.node[h.lists[c]].prev = h.lists[c] THEN 0 ELSE 1)

\* Newest and oldest point at each other; the oldest is ended when there are
\* two, and not the later one.  No message is later than t.
Linked(h, c, t) ==
  h.lists[c] # None =>
    LET tl == h.lists[c]
        o  == h.node[tl].prev
    IN /\ o \in Node
       /\ h.node[o].prev = tl /\ h.node[o].next = tl /\ h.node[tl].next = o
       /\ o # tl => h.node[o].terminated
       /\ h.node[o].startTime <= h.node[tl].startTime /\ h.node[tl].startTime <= t

\* Each node is a core's, free (one of F) or not created, and only that.
Apart(h, F) ==
  /\ F \cap h.unused = {}
  /\ \A c \in Core : Own(h, c) \cap (F \cup h.unused) = {}
  /\ \A c, d \in Core : c # d => Own(h, c) \cap Own(h, d) = {}
  /\ \A n \in Node : n \in F \/ n \in h.unused \/ \E c \in Core : n \in Own(h, c)

HeapOK(h, F, t) ==
  /\ h \in Heaps /\ h.ok = TRUE /\ t \in Nat /\ F \subseteq Node
  /\ Free(h, F) /\ Apart(h, F)
  /\ \A c \in Core : Linked(h, c, t)

\* The nodes of a core are as before when its list and their links are.
LEMMA OwnStays ==
  ASSUME NEW h, NEW g, NEW d \in Core, g.lists[d] = h.lists[d],
         \A n \in Own(h, d) : g.node[n] = h.node[n]
  PROVE  /\ Own(g, d) = Own(h, d) /\ Num(g, d) = Num(h, d)
         /\ \A t, u \in Nat : h \in Heaps /\ Linked(h, d, t) /\ t <= u => Linked(g, d, u)
<1>1. CASE h.lists[d] = None
  BY <1>1 DEF Own, Num, Linked
<1>2. CASE h.lists[d] # None
  <2> DEFINE tl == h.lists[d]
             o == h.node[tl].prev
  <2>1. g.node[tl] = h.node[tl] /\ g.node[o] = h.node[o] /\ g.lists[d] = tl
    BY <1>2 DEF Own
  <2>2. Own(g, d) = Own(h, d) /\ Num(g, d) = Num(h, d)
    BY <1>2, <2>1 DEF Own, Num
  <2>3. ASSUME NEW t \in Nat, NEW u \in Nat, h \in Heaps, Linked(h, d, t), t <= u
        PROVE  Linked(g, d, u)
    <3>1. tl \in Node
      BY <1>2, <2>3 DEF Heaps, NodeOrNone
    <3>2. h.node[tl].startTime \in Nat
      BY <2>3, <3>1 DEF Heaps, NodeRec
    <3> QED
      BY <1>2, <2>1, <2>3, <3>2, SMTT(60) DEF Linked
  <2> QED
    BY <2>2, <2>3
<1> QED
  BY <1>1, <1>2

\* A write and the end of a message leave the lists; the count follows the flag.
LEMMA MarkKeeps ==
  ASSUME NEW h, NEW F, NEW t, HeapOK(h, F, t), NEW g, SameLists(g, h),
         NEW c \in Core, h.lists[c] # None, NEW b \in BOOLEAN,
         g.node[h.lists[c]].terminated = (h.node[h.lists[c]].terminated \/ b),
         \A m \in Node : m # h.lists[c] => g.node[m].terminated = h.node[m].terminated
  PROVE  /\ HeapOK(g, F, t)
         /\ Num(g, c) = Num(h, c) + (IF b /\ ~h.node[h.lists[c]].terminated THEN 1 ELSE 0)
         /\ \A d \in Core : d # c => Num(g, d) = Num(h, d)
<1> DEFINE tl == h.lists[c]
<1>1. /\ h \in Heaps /\ t \in Nat /\ F \subseteq Node /\ Free(h, F) /\ Apart(h, F) /\ h.ok = TRUE
      /\ \A d \in Core : Linked(h, d, t)
  BY DEF HeapOK
<1>2. \A d \in Core : h.lists[d] # None => h.lists[d] \in Node /\ h.node[h.lists[d]].prev \in Node
  <2>1. \A d \in Core : h.lists[d] # None => h.lists[d] \in Node
    BY <1>1 DEF Heaps, NodeOrNone
  <2>2. \A d \in Core : h.lists[d] # None => h.node[h.lists[d]].prev \in Node
    BY <1>1 DEF Linked
  <2> QED
    BY <2>1, <2>2
<1>3. /\ g \in Heaps /\ g.lists = h.lists /\ g.free = h.free /\ g.unused = h.unused
      /\ g.ok = h.ok
      /\ \A m \in Node : /\ g.node[m].prev = h.node[m].prev /\ g.node[m].next = h.node[m].next
                         /\ g.node[m].startTime = h.node[m].startTime
  BY DEF SameLists
<1>4. \A d \in Core : Own(g, d) = Own(h, d)
  BY <1>2, <1>3 DEF Own
<1>5. Apart(g, F)
  BY <1>1, <1>3, <1>4 DEF Apart
<1>6. Free(g, F)
  BY <1>1, <1>3, FreeStays
<1>7. ASSUME NEW d \in Core PROVE Linked(g, d, t)
  <2> SUFFICES ASSUME h.lists[d] # None PROVE Linked(g, d, t)
    BY <1>3 DEF Linked
  <2> DEFINE x == h.lists[d]
             o == h.node[x].prev
  <2>1. /\ x \in Node /\ o \in Node /\ h.node[o].prev = x /\ h.node[o].next = x
        /\ h.node[x].next = o
        /\ o # x => h.node[o].terminated
        /\ h.node[o].startTime <= h.node[x].startTime /\ h.node[x].startTime <= t
    BY <1>1, <1>2 DEF Linked
  <2>2. g.lists[d] = x /\ g.node[x].prev = o
    BY <1>3, <2>1
  <2> HIDE DEF o, x
  <2>3. o # x => g.node[o].terminated
    BY <2>1
  <2> QED
    BY <1>3, <2>1, <2>2, <2>3 DEF Linked
<1>8. HeapOK(g, F, t)
  BY <1>1, <1>3, <1>5, <1>6, <1>7 DEF HeapOK
<1>9. Num(g, c) = Num(h, c) + (IF b /\ ~h.node[tl].terminated THEN 1 ELSE 0)
  <2>1. g.lists[c] = tl /\ tl \in Node /\ g.node[tl].prev = h.node[tl].prev
    BY <1>2, <1>3
  <2>2. h.node[tl].terminated \in BOOLEAN
    BY <1>1, <2>1 DEF Heaps, NodeRec
  <2>3. CASE h.node[tl].terminated
    <3>1. g.node[tl].terminated
      BY <2>3, Zenon
    <3> QED
      BY <2>1, <2>3, <3>1 DEF Num
  <2>4. CASE ~h.node[tl].terminated /\ b
    <3>1. g.node[tl].terminated
      BY <2>4, Zenon
    <3> QED
      BY <2>1, <2>4, <3>1 DEF Num
  <2>5. CASE ~h.node[tl].terminated /\ ~b
    BY <2>1, <2>5 DEF Num
  <2> QED
    BY <2>2, <2>3, <2>4, <2>5
<1>10. ASSUME NEW d \in Core, d # c PROVE Num(g, d) = Num(h, d)
  <2>1. CASE h.lists[d] = None
    BY <1>3, <2>1 DEF Num
  <2>2. CASE h.lists[d] # None
    <3>1. h.lists[d] # tl
      BY <1>1, <1>10, <2>2, SMTT(60) DEF Apart, Own
    <3> QED
      BY <1>2, <1>3, <2>2, <3>1, SMTT(60) DEF Num
  <2> QED
    BY <2>1, <2>2
<1> QED
  BY <1>8, <1>9, <1>10

\* A new message, where all of the core are ended and at most one.
LEMMA NewMessageKeeps ==
  ASSUME NEW h, NEW F, NEW t, HeapOK(h, F, t), CanTakeFrom(h),
         NEW c \in Core, NEW u \in Nat, t <= u, Num(h, c) <= 1,
         h.lists[c] # None => h.node[h.lists[c]].terminated
  PROVE  LET g == NewMessage(h, c, u)
             G == F \ {Take(h).w}
         IN /\ HeapOK(g, G, u)
            /\ g.lists[c] \in Node /\ ~g.node[g.lists[c]].terminated
            /\ \A d \in Core : Num(g, d) = Num(h, d)
<1> DEFINE tl == h.lists[c]
           w  == Take(h).w
           k  == Take(h).h
           g  == NewMessage(h, c, u)
           G  == F \ {w}
<1>1. /\ h \in Heaps /\ t \in Nat /\ F \subseteq Node /\ Free(h, F) /\ Apart(h, F) /\ h.ok = TRUE
      /\ \A d \in Core : Linked(h, d, t)
  BY DEF HeapOK
<1>2. /\ tl \in NodeOrNone /\ h.lists \in [Core -> NodeOrNone] /\ h.node \in [Node -> NodeRec]
      /\ h.unused \subseteq Node
  BY <1>1 DEF Heaps
<1>3. tl # None => tl \in Node /\ h.node[tl].prev = tl /\ Own(h, c) = {tl} /\ Num(h, c) = 1
  <2> SUFFICES ASSUME tl # None
               PROVE  tl \in Node /\ h.node[tl].prev = tl /\ Own(h, c) = {tl} /\ Num(h, c) = 1
    OBVIOUS
  <2>1. h.node[tl].prev = tl /\ Num(h, c) = 1
    BY DEF Num
  <2> QED
    BY <1>2, <2>1 DEF NodeOrNone, Own
<1>4. /\ w \in Node
      /\ \/ /\ h.free # None /\ w = h.free
            /\ k.free = h.node[w].next /\ k.unused = h.unused
         \/ /\ h.free = None /\ w \in h.unused
            /\ k.free = None /\ k.unused = h.unused \ {w}
  BY <1>1, TakeIs
<1>5. /\ g \in Heaps
      /\ (tl = None \/ (tl # w /\ h.node[tl].prev = tl)) => AddsMessage(h, c, u, w, k, g)
  BY <1>1, NewMessageIs
<1> HIDE DEF g, w, k
<1>6. w \in F \cup h.unused
  BY <1>1, <1>4, FreeHead
<1>7. \A d \in Core : w \notin Own(h, d)
  BY <1>1, <1>6 DEF Apart
<1>8. tl # None => tl \notin F /\ tl # w
  BY <1>1, <1>3, <1>7 DEF Apart
<1>9. /\ g \in Heaps /\ g.ok = TRUE /\ g.free = k.free /\ g.unused = k.unused
      /\ g.lists = [h.lists EXCEPT ![c] = w]
      /\ g.node[w].terminated = FALSE /\ g.node[w].startTime = u
      /\ \A n \in Node : n \notin {w, tl} => g.node[n] = h.node[n]
  BY <1>1, <1>3, <1>5, <1>8 DEF AddsMessage
<1>10. g.lists[c] = w /\ \A d \in Core : d # c => g.lists[d] = h.lists[d]
  BY <1>2, <1>9
<1>11. g.unused = h.unused \ {w}
  <2>1. CASE w \in h.unused
    BY <1>4, <1>9, <1>1, <2>1, FreeHead DEF Apart
  <2>2. CASE w \notin h.unused
    BY <1>4, <1>9, <2>2
  <2> QED
    BY <2>1, <2>2
<1>12. Free(g, G)
  <2>1. \A n \in F : n # w => g.node[n].next = h.node[n].next
    <3>1. \A n \in F : n # w => n \in Node /\ n \notin {w, tl}
      BY <1>1, <1>8, ITCAssumption
    <3> QED
      BY <1>9, <3>1
  <2>2. CASE h.free # None
    BY <1>1, <1>4, <1>9, <2>1, <2>2, FreeTaken
  <2>3. CASE h.free = None
    <3>1. w \notin F
      BY <1>1, <1>4, <2>3 DEF Apart
    <3>2. G = F
      BY <3>1
    <3> HIDE DEF G
    <3>3. \A n \in F : g.node[n].next = h.node[n].next
      BY <2>1, <3>1
    <3> QED
      BY <1>1, <1>4, <1>9, <2>3, <3>2, <3>3, FreeStays
  <2> QED
    BY <2>2, <2>3
<1>13. Own(g, c) = Own(h, c) \cup {w} /\ Num(g, c) = Num(h, c) /\ Linked(g, c, u)
  <2>1. CASE tl = None
    <3>1. g.node[w].prev = w /\ g.node[w].next = w
      BY <1>5, <2>1 DEF AddsMessage
    <3>2. w # None
      BY <1>4, ITCAssumption
    <3>3. Own(g, c) = {w} /\ Own(h, c) = {}
      BY <1>10, <2>1, <3>1, <3>2 DEF Own
    <3>4. Num(g, c) = 0 /\ Num(h, c) = 0
      BY <1>9, <1>10, <2>1, <3>1, <3>2 DEF Num
    <3>5. Linked(g, c, u)
      BY <1>4, <1>9, <1>10, <3>1, SMTT(60) DEF Linked
    <3> QED
      BY <3>3, <3>4, <3>5
  <2>2. CASE tl # None
    <3>1. /\ g.node[w].prev = tl /\ g.node[w].next = tl
          /\ g.node[tl].prev = w /\ g.node[tl].next = w
          /\ g.node[tl].terminated = h.node[tl].terminated
          /\ g.node[tl].startTime = h.node[tl].startTime
      BY <1>3, <1>5, <1>8, <2>2 DEF AddsMessage
    <3>2. w # None
      BY <1>4, ITCAssumption
    <3>3. Own(g, c) = {w, tl}
      BY <1>10, <3>1, <3>2 DEF Own
    <3>4. Num(g, c) = 1
      BY <1>8, <1>9, <1>10, <2>2, <3>1, <3>2 DEF Num
    <3>5. Linked(g, c, u)
      <4>1. h.node[tl].startTime \in Nat /\ h.node[tl].startTime <= t
        BY <1>1, <1>2, <1>3, <2>2 DEF Linked, NodeRec
      <4>2. h.node[tl].startTime <= u
        BY <1>1, <4>1
      <4>3. g.node[tl].terminated
        BY <2>2, <3>1
      <4>4. tl \in Node
        BY <1>3, <2>2
      <4> HIDE DEF tl
      <4> QED
        BY <1>9, <1>10, <3>1, <4>2, <4>3, <4>4, SMTT(60) DEF Linked
    <3> QED
      BY <1>3, <2>2, <3>3, <3>4, <3>5
  <2> QED
    BY <2>1, <2>2
<1>14. ASSUME NEW d \in Core, d # c
       PROVE  Own(g, d) = Own(h, d) /\ Num(g, d) = Num(h, d) /\ Linked(g, d, u)
  <2>1. \A n \in Own(h, d) : n \in Node /\ n \notin {w, tl}
    <3>1. tl # None => tl \notin Own(h, d)
      BY <1>1, <1>3, <1>14 DEF Apart
    <3>2. \A n \in Own(h, d) : n \in Node
      <4>1. h.lists[d] # None => h.lists[d] \in Node /\ h.node[h.lists[d]].prev \in Node
        BY <1>1, <1>2 DEF NodeOrNone, Linked
      <4> QED
        BY <4>1 DEF Own
    <3> QED
      BY <1>7, <3>1, <3>2, ITCAssumption
  <2>2. \A n \in Own(h, d) : g.node[n] = h.node[n]
    BY <1>9, <2>1
  <2>3. g.lists[d] = h.lists[d]
    BY <1>10, <1>14
  <2> QED
    BY <1>1, <2>2, <2>3, OwnStays
<1>15. Apart(g, G)
  <2>1. \A d \in Core : Own(g, d) = IF d = c THEN Own(h, d) \cup {w} ELSE Own(h, d)
    BY <1>13, <1>14
  <2>2. G \cap g.unused = {}
    BY <1>1, <1>11 DEF Apart
  <2>3. \A d \in Core : Own(g, d) \cap (G \cup g.unused) = {}
    BY <1>1, <1>11, <2>1 DEF Apart
  <2>4. \A d, e \in Core : d # e => Own(g, d) \cap Own(g, e) = {}
    <3>1. \A d, e \in Core : d # e => Own(h, d) \cap Own(h, e) = {}
      BY <1>1 DEF Apart
    <3> QED
      BY <1>7, <2>1, <3>1
  <2>5. ASSUME NEW n \in Node PROVE n \in G \/ n \in g.unused \/ \E d \in Core : n \in Own(g, d)
    <3>1. n \in F \/ n \in h.unused \/ \E d \in Core : n \in Own(h, d)
      BY <1>1 DEF Apart
    <3>2. w \in Own(g, c)
      BY <1>13
    <3> QED
      BY <1>11, <2>1, <3>1, <3>2
  <2> QED
    BY <2>2, <2>3, <2>4, <2>5 DEF Apart
<1>16. HeapOK(g, G, u)
  BY <1>1, <1>9, <1>12, <1>13, <1>14, <1>15 DEF HeapOK
<1> QED
  BY <1>4, <1>9, <1>10, <1>13, <1>14, <1>16 DEF g, w

\* The oldest message of a core is fetched, or its only one is flushed.
LEMMA UnlinkKeeps ==
  ASSUME NEW h, NEW F, NEW t, HeapOK(h, F, t), NEW c \in Core, h.lists[c] # None
  PROVE  LET w == h.node[h.lists[c]].prev
             g == Unlink(h, c, w)
         IN /\ HeapOK(g, F \cup {w}, t)
            /\ Num(g, c) = Num(h, c) - (IF h.node[w].terminated THEN 1 ELSE 0)
            /\ \A d \in Core : d # c => Num(g, d) = Num(h, d)
<1> DEFINE tl == h.lists[c]
           w  == h.node[tl].prev
           g  == Unlink(h, c, w)
           G  == F \cup {w}
<1>1. /\ h \in Heaps /\ t \in Nat /\ F \subseteq Node /\ Free(h, F) /\ Apart(h, F) /\ h.ok = TRUE
      /\ \A d \in Core : Linked(h, d, t)
  BY DEF HeapOK
<1>2. /\ tl \in Node /\ h.lists \in [Core -> NodeOrNone] /\ h.node \in [Node -> NodeRec]
  BY <1>1 DEF Heaps, NodeOrNone
<1>3. /\ w \in Node /\ h.node[w].prev = tl /\ h.node[w].next = tl /\ h.node[tl].next = w
      /\ w # tl => h.node[w].terminated
      /\ h.node[w].startTime <= h.node[tl].startTime /\ h.node[tl].startTime <= t
  BY <1>1 DEF Linked
<1>4. Own(h, c) = {tl, w}
  BY DEF Own
<1>5. g \in Heaps /\ g.ok = h.ok /\ DropsMessage(h, c, w, g)
  BY <1>1, <1>2, <1>3, UnlinkIs
<1>6. g.free = w /\ g.unused = h.unused /\ g.node[w].next = h.free
  BY <1>5 DEF DropsMessage
<1>7. w = tl =>
        /\ g.lists = [h.lists EXCEPT ![c] = None]
        /\ \A n \in Node : n # w => g.node[n] = h.node[n]
  BY <1>3, <1>5 DEF DropsMessage
<1>7a. w # tl =>
         /\ g.lists = h.lists
         /\ \A n \in Node : n \notin {w, tl} => g.node[n] = h.node[n]
         /\ g.node[tl].prev = tl /\ g.node[tl].next = tl
         /\ g.node[tl].terminated = h.node[tl].terminated
         /\ g.node[tl].startTime = h.node[tl].startTime
  BY <1>3, <1>5 DEF DropsMessage
<1> HIDE DEF g, w, tl
<1>8. /\ \A n \in Node : n \notin {w, tl} => g.node[n] = h.node[n]
      /\ \A d \in Core : d # c => g.lists[d] = h.lists[d]
  BY <1>2, <1>7, <1>7a
<1>9. w \notin F /\ tl \notin F /\ w \notin h.unused
  BY <1>1, <1>4 DEF Apart
<1>10. Free(g, G)
  <2>1. \A n \in F : g.node[n].next = h.node[n].next
    <3>1. \A n \in F : n \in Node /\ n \notin {w, tl}
      BY <1>1, <1>9
    <3> QED
      BY <1>8, <3>1
  <2> QED
    BY <1>1, <1>3, <1>6, <1>9, <2>1, FreeAdded
<1>11. /\ Own(g, c) = Own(h, c) \ {w} /\ Linked(g, c, t)
       /\ Num(g, c) = Num(h, c) - (IF h.node[w].terminated THEN 1 ELSE 0)
  <2>1. CASE w = tl
    <3>1. g.lists[c] = None
      BY <1>2, <1>7, <2>1
    <3>2. h.lists[c] = tl /\ h.node[tl].prev = tl /\ tl # None
      BY <2>1 DEF tl, w
    <3>3. Num(h, c) = IF h.node[tl].terminated THEN 1 ELSE 0
      BY <3>2 DEF Num
    <3> QED
      BY <1>4, <2>1, <3>1, <3>3 DEF Own, Num, Linked
  <2>2. CASE w # tl
    <3>1. g.lists[c] = tl /\ tl # None
      BY <1>7a, <2>2 DEF tl
    <3>2. h.lists[c] = tl /\ h.node[tl].prev = w
      BY DEF tl, w
    <3>3. Own(g, c) = {tl}
      BY <1>7a, <2>2, <3>1 DEF Own
    <3>4. Num(h, c) = (IF h.node[tl].terminated THEN 1 ELSE 0) + 1
      BY <2>2, <3>1, <3>2 DEF Num
    <3>5. Num(g, c) = IF h.node[tl].terminated THEN 1 ELSE 0
      BY <1>7a, <2>2, <3>1 DEF Num
    <3>6. Linked(g, c, t)
      <4>1. g.node[tl].startTime \in Nat
        BY <1>2, <1>5 DEF Heaps, NodeRec
      <4> QED
        BY <1>2, <1>3, <1>7a, <2>2, <3>1, <4>1 DEF Linked
    <3> QED
      BY <1>3, <1>4, <2>2, <3>3, <3>4, <3>5, <3>6
  <2> QED
    BY <2>1, <2>2
<1>12. ASSUME NEW d \in Core, d # c
       PROVE  Own(g, d) = Own(h, d) /\ Num(g, d) = Num(h, d) /\ Linked(g, d, t)
  <2>1. \A n \in Own(h, d) : n \in Node /\ n \notin {w, tl}
    <3>1. w \notin Own(h, d) /\ tl \notin Own(h, d)
      BY <1>1, <1>4, <1>12 DEF Apart
    <3>2. \A n \in Own(h, d) : n \in Node
      <4>1. h.lists[d] # None => h.lists[d] \in Node /\ h.node[h.lists[d]].prev \in Node
        BY <1>1, <1>2 DEF NodeOrNone, Linked
      <4> QED
        BY <4>1 DEF Own
    <3> QED
      BY <3>1, <3>2
  <2>2. \A n \in Own(h, d) : g.node[n] = h.node[n]
    BY <1>8, <2>1
  <2>3. g.lists[d] = h.lists[d] /\ t <= t
    BY <1>1, <1>8, <1>12
  <2> QED
    BY <1>1, <2>2, <2>3, OwnStays
<1>13. Apart(g, G)
  <2>1. \A d \in Core : Own(g, d) = IF d = c THEN Own(h, d) \ {w} ELSE Own(h, d)
    BY <1>11, <1>12
  <2>2. G \cap g.unused = {}
    BY <1>1, <1>6, <1>9 DEF Apart
  <2>3. \A d \in Core : Own(g, d) \cap (G \cup g.unused) = {}
    <3>1. \A d \in Core : d # c => w \notin Own(h, d)
      BY <1>1, <1>4 DEF Apart
    <3> QED
      BY <1>1, <1>6, <2>1, <3>1 DEF Apart
  <2>4. \A d, e \in Core : d # e => Own(g, d) \cap Own(g, e) = {}
    <3>1. \A d, e \in Core : d # e => Own(h, d) \cap Own(h, e) = {}
      BY <1>1 DEF Apart
    <3> QED
      BY <2>1, <3>1
  <2>5. ASSUME NEW n \in Node PROVE n \in G \/ n \in g.unused \/ \E d \in Core : n \in Own(g, d)
    <3>1. n \in F \/ n \in h.unused \/ \E d \in Core : n \in Own(h, d)
      BY <1>1 DEF Apart
    <3> QED
      BY <1>6, <2>1, <3>1
  <2> QED
    BY <2>2, <2>3, <2>4, <2>5 DEF Apart
<1>14. HeapOK(g, G, t)
  BY <1>1, <1>3, <1>5, <1>10, <1>11, <1>12, <1>13 DEF HeapOK
<1> QED
  BY <1>11, <1>12, <1>14 DEF g, w, tl

-----------------------------------------------------------------------------
(* The lists in the steps.                                                 *)

\* At most two messages of a core wait, and no word ends two.
TwoWait ==
  /\ MaxPending <= 1
  /\ \A w \in Words : EndsOnce(w)

ListsOK ==
  /\ TypesOK /\ crashed = FALSE
  /\ \E F : HeapOK(Heap, F, clock)
  /\ \A c \in Core : ring[c].numMsgs = Num(Heap, c)

\* A step to such a heap.
LEMMA ListsBecome ==
  ASSUME ListsOK, NEW c \in Core, NEW h, NEW F, NEW n, HeapBecomes(h, c, n),
         HeapOK(h, F, clock'), n = Num(h, c), \A d \in Core : d # c => Num(h, d) = Num(Heap, d)
  PROVE  ListsOK'
<1>1. h \in Heaps /\ h.ok = TRUE /\ clock' \in Nat
  BY DEF HeapOK
<1>2. TypesOK'
  BY <1>1, HeapKeepsTypes DEF ListsOK
<1>3. Heap' = h /\ crashed' = FALSE /\ CountBecomes(c, n)
  BY <1>1 DEF HeapBecomes
<1>4. HeapOK(Heap', F, clock')
  BY <1>3
<1>5. \A d \in Core : ring'[d].numMsgs = Num(Heap', d)
  BY <1>3 DEF CountBecomes, ListsOK
<1> QED
  BY <1>2, <1>3, <1>4, <1>5 DEF ListsOK

\* A step that changes nothing of them.
LEMMA ListsStay ==
  ASSUME ListsOK, Heap' = Heap, ring' = ring, crashed' = crashed, clock' = clock
  PROVE  ListsOK'
<1>1. PICK F : HeapOK(Heap, F, clock)
  BY DEF ListsOK
<1>2. HeapOK(Heap', F, clock')
  BY <1>1
<1>3. TypesOK'
  BY DEF ListsOK, TypesOK, Heaps, NodeRec, NodeOrNone, Rings, Index, Char
<1>4. \A d \in Core : ring'[d].numMsgs = Num(Heap', d)
  BY DEF ListsOK
<1> QED
  BY <1>2, <1>3, <1>4 DEF ListsOK

\* Time passes.
LEMMA LaterOK ==
  ASSUME NEW h, NEW F, NEW t, HeapOK(h, F, t), NEW u \in Nat, t <= u
  PROVE  HeapOK(h, F, u)
<1>1. h \in Heaps /\ t \in Nat /\ \A c \in Core : Linked(h, c, t)
  BY DEF HeapOK
<1>2. \A c \in Core : Linked(h, c, u)
  BY <1>1, OwnStays
<1> QED
  BY <1>2 DEF HeapOK

\* Of a core that has a message in progress, and of one that has none.
LEMMA OpenIs ==
  ASSUME ListsOK, NEW c \in Core
  PROVE  /\ Heap.lists[c] = tsList[c] /\ Heap.node = node
         /\ Open(c) => tsList[c] \in Node /\ ~Heap.node[tsList[c]].terminated
         /\ ~Open(c) => (Heap.lists[c] # None => Heap.node[Heap.lists[c]].terminated)
<1>1. Heap.lists = tsList /\ Heap.node = node /\ tsList \in [Core -> NodeOrNone]
  BY DEF Heap, ListsOK, TypesOK, Heaps
<1> QED
  BY <1>1 DEF Open, NodeOrNone

\* print, for a word.
LEMMA WordKeepsLists ==
  ASSUME TwoWait, ListsOK, NEW c \in Core, NEW w \in Words, PrintWord(c, w)
  PROVE  ListsOK'
<1> DEFINE h == IF Open(c) THEN Heap ELSE NewMessage(Heap, c, clock')
           s == PutAll(ring[c], w)
           g == IF h.ok THEN Wrote(h, h.lists[c], clock', s.ended) ELSE h
<1>1. TypesOK /\ Heap \in Heaps /\ clock \in Nat /\ ring[c].numMsgs = Num(Heap, c)
  BY DEF ListsOK, TypesOK
<1>2. PICK F : HeapOK(Heap, F, clock)
  BY DEF ListsOK
<1>3. /\ CanTakeFrom(Heap) /\ clock' = clock + 1 /\ clock' \in Nat
      /\ ring[c] \in Rings /\ ring[c].numMsgs \in Nat /\ ring[c].numMsgs <= MaxPending
  BY <1>1, WriteHeap DEF PrintWord
<1>4. Num(Heap, c) <= 1
  BY <1>1, <1>3, ITCAssumption DEF TwoWait
<1>5. s.ended \in BOOLEAN /\ HeapBecomes(g, c, s.r.numMsgs)
  BY <1>1, PrintWordDoes
<1>6. s.r.numMsgs = Num(Heap, c) + (IF s.ended THEN 1 ELSE 0)
  BY <1>1, <1>3, PutAllIs DEF TwoWait
<1>7. \E G : /\ HeapOK(h, G, clock') /\ h.lists[c] \in Node
             /\ h.node[h.lists[c]].terminated = FALSE
             /\ \A d \in Core : Num(h, d) = Num(Heap, d)
  <2>1. CASE Open(c)
    <3>1. HeapOK(Heap, F, clock')
      BY <1>1, <1>2, <1>3, LaterOK
    <3>2. Heap.lists[c] \in Node /\ ~Heap.node[Heap.lists[c]].terminated
      BY <2>1, OpenIs
    <3>3. Heap.node[Heap.lists[c]].terminated = FALSE
      BY <1>1, <3>2 DEF Heaps, NodeRec
    <3> QED
      BY <2>1, <3>1, <3>2, <3>3
  <2>2. CASE ~Open(c)
    <3> DEFINE m == NewMessage(Heap, c, clock')
    <3>1. Heap.lists[c] # None => Heap.node[Heap.lists[c]].terminated
      BY <2>2, OpenIs
    <3>2. clock <= clock'
      BY <1>1, <1>3
    <3>3. /\ HeapOK(m, F \ {Take(Heap).w}, clock')
          /\ m.lists[c] \in Node /\ ~m.node[m.lists[c]].terminated
          /\ \A d \in Core : Num(m, d) = Num(Heap, d)
      BY <1>2, <1>3, <1>4, <3>1, <3>2, NewMessageKeeps
    <3> HIDE DEF m
    <3>4. m.node[m.lists[c]].terminated = FALSE
      BY <3>3 DEF HeapOK, Heaps, NodeRec
    <3>5. h = m
      BY <2>2 DEF m
    <3> QED
      BY <3>3, <3>4, <3>5
  <2> QED
    BY <2>1, <2>2
<1>8. PICK G : /\ HeapOK(h, G, clock') /\ h.lists[c] \in Node
               /\ h.node[h.lists[c]].terminated = FALSE
               /\ \A d \in Core : Num(h, d) = Num(Heap, d)
  BY <1>7
<1> HIDE DEF h, s
<1> DEFINE x == Wrote(h, h.lists[c], clock', s.ended)
<1>9. g = x /\ h \in Heaps /\ h.lists[c] # None
  BY <1>8, ITCAssumption DEF HeapOK
<1>10. /\ SameLists(x, h)
       /\ x.node[h.lists[c]].terminated = (h.node[h.lists[c]].terminated \/ s.ended)
       /\ \A m \in Node : m # h.lists[c] => x.node[m].terminated = h.node[m].terminated
  BY <1>3, <1>5, <1>8, <1>9, WroteIs
<1> HIDE DEF g, x
<1>11. /\ HeapOK(x, G, clock')
       /\ Num(x, c) = Num(h, c) + (IF s.ended /\ ~h.node[h.lists[c]].terminated THEN 1 ELSE 0)
       /\ \A d \in Core : d # c => Num(x, d) = Num(h, d)
  BY <1>5, <1>8, <1>9, <1>10, MarkKeeps, SMTT(60)
<1>12. Num(x, c) = s.r.numMsgs
  BY <1>6, <1>8, <1>11
<1> QED
  BY <1>5, <1>8, <1>9, <1>11, <1>12, ListsBecome

\* print, for a string.
LEMMA StringKeepsLists ==
  ASSUME TwoWait, ListsOK, NEW c \in Core, NEW str \in Strings, PrintString(c, str)
  PROVE  ListsOK'
<1> DEFINE k == IF Open(c) THEN Ended(Heap, tsList[c]) ELSE Heap
           h == NewMessage(k, c, clock')
           g == IF h.ok THEN Ended(h, h.lists[c]) ELSE h
           n == ring[c].numMsgs + (IF Open(c) THEN 2 ELSE 1)
<1>1. TypesOK /\ Heap \in Heaps /\ clock \in Nat /\ ring[c].numMsgs = Num(Heap, c)
  BY DEF ListsOK, TypesOK
<1>2. PICK F : HeapOK(Heap, F, clock)
  BY DEF ListsOK
<1>3. /\ clock' = clock + 1 /\ clock' \in Nat /\ clock <= clock'
      /\ ring[c].numMsgs \in Nat
      /\ ring[c].numMsgs + (IF Open(c) THEN 1 ELSE 0) <= MaxPending
  <2>1. /\ MayWrite(c)
        /\ ring[c].numMsgs + (IF Open(c) THEN 1 ELSE 0) <= MaxPending
    BY DEF PrintString, MayWriteString
  <2>2. /\ clock' = clock + 1 /\ clock' \in Nat /\ ring[c].numMsgs \in Nat
    BY <1>1, <2>1, WriteHeap
  <2> QED
    BY <1>1, <2>1, <2>2
<1>4. k \in Heaps /\ CanTakeFrom(k) /\ HeapBecomes(g, c, n)
  BY <1>1, PrintStringDoes
<1>5. /\ HeapOK(k, F, clock)
      /\ Num(k, c) = Num(Heap, c) + (IF Open(c) THEN 1 ELSE 0)
      /\ \A d \in Core : d # c => Num(k, d) = Num(Heap, d)
      /\ k.lists[c] # None => k.node[k.lists[c]].terminated
  <2>1. CASE Open(c)
    <3> DEFINE tl == tsList[c]
               x == Ended(Heap, tl)
    <3>1. /\ Heap.lists[c] = tl /\ tl \in Node /\ ~Heap.node[tl].terminated /\ tl # None
      BY <2>1, OpenIs, ITCAssumption
    <3> HIDE DEF tl
    <3>2. /\ SameLists(x, Heap) /\ x.node[tl].terminated = TRUE
          /\ \A m \in Node : m # tl => x.node[m].terminated = Heap.node[m].terminated
      BY <1>1, <3>1, EndedIs
    <3> HIDE DEF x
    <3> DEFINE b == TRUE
    <3>3. /\ b \in BOOLEAN /\ Heap.lists[c] # None
          /\ x.node[Heap.lists[c]].terminated = (Heap.node[Heap.lists[c]].terminated \/ b)
          /\ \A m \in Node : m # Heap.lists[c] => x.node[m].terminated = Heap.node[m].terminated
      BY <3>1, <3>2, Zenon
    <3>3a. b
      OBVIOUS
    <3> HIDE DEF b
    <3>4. /\ HeapOK(x, F, clock)
          /\ Num(x, c) = Num(Heap, c) + (IF b /\ ~Heap.node[tl].terminated THEN 1 ELSE 0)
          /\ \A d \in Core : d # c => Num(x, d) = Num(Heap, d)
      BY <1>2, <3>1, <3>2, <3>3, MarkKeeps
    <3>5. x.lists[c] = tl /\ x.node[tl].terminated
      BY <3>1, <3>2 DEF SameLists
    <3>6. k = x
      BY <2>1 DEF x, tl
    <3> QED
      BY <2>1, <3>1, <3>3a, <3>4, <3>5, <3>6
  <2>2. CASE ~Open(c)
    <3>1. Num(Heap, c) + 0 = Num(Heap, c)
      BY <1>1, <1>3
    <3> QED
      BY <1>2, <2>2, <3>1, OpenIs
  <2> QED
    BY <2>1, <2>2
<1>6. Num(k, c) <= 1 /\ Num(k, c) \in Nat
  BY <1>1, <1>3, <1>5, ITCAssumption DEF TwoWait
<1> HIDE DEF k
<1>7. /\ HeapOK(h, F \ {Take(k).w}, clock')
      /\ h.lists[c] \in Node /\ ~h.node[h.lists[c]].terminated
      /\ \A d \in Core : Num(h, d) = Num(k, d)
  BY <1>3, <1>4, <1>5, <1>6, NewMessageKeeps, ZenonT(60)
<1> HIDE DEF h
<1> DEFINE x == Ended(h, h.lists[c])
           G == F \ {Take(k).w}
<1>8. g = x /\ h \in Heaps /\ h.lists[c] # None
  BY <1>7, ITCAssumption DEF HeapOK
<1>9. /\ SameLists(x, h) /\ x.node[h.lists[c]].terminated = TRUE
      /\ \A m \in Node : m # h.lists[c] => x.node[m].terminated = h.node[m].terminated
  BY <1>7, <1>8, EndedIs
<1> HIDE DEF g, x
<1> DEFINE b == TRUE
<1>10. b \in BOOLEAN /\ x.node[h.lists[c]].terminated = (h.node[h.lists[c]].terminated \/ b)
  BY <1>9, Zenon
<1>10a. b
  OBVIOUS
<1> HIDE DEF b
<1>11. /\ HeapOK(x, G, clock')
       /\ Num(x, c) = Num(h, c) + (IF b /\ ~h.node[h.lists[c]].terminated THEN 1 ELSE 0)
       /\ \A d \in Core : d # c => Num(x, d) = Num(h, d)
  BY <1>7, <1>8, <1>9, <1>10, MarkKeeps, SMTT(60)
<1>12. Num(x, c) = n
  BY <1>1, <1>3, <1>5, <1>6, <1>7, <1>10a, <1>11
<1>13. \A d \in Core : d # c => Num(x, d) = Num(Heap, d)
  BY <1>5, <1>7, <1>11
<1> HIDE DEF n
<1> QED
  BY <1>4, <1>8, <1>11, <1>12, <1>13, ListsBecome

\* The oldest node of a core, when messages of it wait.
LEMMA OldestIs ==
  ASSUME ListsOK, NEW c \in Core, ring[c].numMsgs > 0
  PROVE  /\ tsList[c] \in Node /\ node[tsList[c]].prev \in Node
         /\ node[node[tsList[c]].prev].terminated
<1>1. PICK F : HeapOK(Heap, F, clock)
  BY DEF ListsOK
<1>2. Heap.lists = tsList /\ Heap.node = node /\ Heap \in Heaps
  BY DEF Heap, ListsOK, TypesOK
<1>3. Num(Heap, c) > 0 /\ Linked(Heap, c, clock)
  BY <1>1 DEF ListsOK, HeapOK
<1>4. tsList[c] # None
  BY <1>2, <1>3 DEF Num
<1>5. tsList[c] \in Node
  BY <1>2, <1>4 DEF Heaps, NodeOrNone
<1>6. node[tsList[c]].prev \in Node
      /\ (node[tsList[c]].prev # tsList[c] => node[node[tsList[c]].prev].terminated)
  BY <1>2, <1>3, <1>4 DEF Linked
<1>7. CASE node[tsList[c]].prev = tsList[c]
  <2>1. node[tsList[c]].terminated
    BY <1>2, <1>3, <1>4, <1>7 DEF Num
  <2> QED
    BY <1>5, <1>6, <1>7, <2>1
<1> QED
  BY <1>5, <1>6, <1>7

\* getITCPrintMsg.
LEMMA GetKeepsLists ==
  ASSUME ListsOK, NEW c \in Core, NEW len \in DstLens, Get(c, len), clock' = clock
  PROVE  ListsOK'
<1> DEFINE old == node[tsList[c]].prev
           g == Unlink(Heap, c, old)
           n == ring[c].numMsgs - 1
<1>1. TypesOK /\ ring[c].numMsgs > 0 /\ ring[c].numMsgs = Num(Heap, c)
  BY GetDoes DEF ListsOK
<1>2. tsList[c] \in Node /\ old \in Node /\ node[old].terminated
  BY <1>1, OldestIs
<1>3. HeapBecomes(g, c, n)
  BY <1>1, <1>2, GetDoes, ITCAssumption
<1>4. PICK F : HeapOK(Heap, F, clock)
  BY DEF ListsOK
<1>5. Heap.lists[c] = tsList[c] /\ Heap.node = node /\ Heap.lists[c] # None
  BY <1>2, ITCAssumption DEF Heap
<1>6. /\ HeapOK(g, F \cup {old}, clock)
      /\ Num(g, c) = Num(Heap, c) - (IF node[old].terminated THEN 1 ELSE 0)
      /\ \A d \in Core : d # c => Num(g, d) = Num(Heap, d)
  BY <1>4, <1>5, UnlinkKeeps, SMTT(60)
<1> HIDE DEF g
<1>7. n = Num(g, c)
  BY <1>1, <1>2, <1>6
<1> HIDE DEF n
<1> QED
  BY <1>3, <1>6, <1>7, ListsBecome

\* flushITCPrintMsg.
LEMMA FlushKeepsLists ==
  ASSUME ListsOK, NEW c \in Core, NEW len \in DstLens, Flush(c, len)
  PROVE  ListsOK'
<1>1. clock' = clock /\ TypesOK /\ ring[c].numMsgs = Num(Heap, c) /\ ring[c].numMsgs \in Nat
  BY DEF Flush, ListsOK, TypesOK, Rings
<1>2. CASE ring[c].numMsgs > 0
  BY <1>1, <1>2, GetKeepsLists DEF Flush
<1>3. CASE ~(ring[c].numMsgs > 0)
  <2> DEFINE tl == tsList[c]
             g == Unlink(Heap, c, tl)
             n == ring[c].numMsgs
  <2>1. CASE NothingChanges
    BY <1>1, <2>1, ListsStay DEF NothingChanges
  <2>2. CASE tl \in Node /\ HeapBecomes(g, c, n)
    <3>1. PICK F : HeapOK(Heap, F, clock)
      BY DEF ListsOK
    <3>2. Heap.lists[c] = tl /\ Heap.node = node /\ Heap.lists[c] # None /\ tl # None
      BY <2>2, ITCAssumption DEF Heap
    <3>3. Num(Heap, c) = 0
      BY <1>1, <1>3
    <3>4. node[tl].prev = tl /\ ~node[tl].terminated
      BY <3>2, <3>3 DEF Num
    <3> DEFINE old == Heap.node[Heap.lists[c]].prev
               u == Unlink(Heap, c, old)
    <3>5. /\ HeapOK(u, F \cup {old}, clock)
          /\ Num(u, c) = Num(Heap, c) - (IF Heap.node[old].terminated THEN 1 ELSE 0)
          /\ \A d \in Core : d # c => Num(u, d) = Num(Heap, d)
      BY <3>1, <3>2, UnlinkKeeps
    <3>6. g = u /\ old = tl /\ (IF Heap.node[old].terminated THEN 1 ELSE 0) = 0
      BY <3>2, <3>4
    <3> HIDE DEF u, g, old
    <3>7. n = Num(g, c)
      BY <1>1, <3>3, <3>5, <3>6
    <3> HIDE DEF n
    <3> QED
      BY <1>1, <2>2, <3>5, <3>6, <3>7, ListsBecome
  <2> QED
    BY <1>1, <1>3, <2>1, <2>2, FlushDoes
<1> QED
  BY <1>2, <1>3

-----------------------------------------------------------------------------
(* The sets that the properties speak of.                                  *)

\* A function that goes from node to node by nx.
LEMMA Follows ==
  ASSUME NEW N \in Nat, NEW a \in NodeOrNone, NEW nx \in [Node -> NodeOrNone]
  PROVE  \E g \in [0..N -> NodeOrNone] :
           /\ g[0] = a
           /\ \A n \in 1..N : g[n] = IF g[n - 1] = None THEN None ELSE nx[g[n - 1]]
<1> DEFINE S == NodeOrNone
           step == [n \in 1..N |-> [x \in S |-> IF x = None THEN None ELSE nx[x]]]
<1>1. step \in Steps(N, S)
  BY DEF Steps, NodeOrNone
<1>2. \A n \in 1..N, x \in S : step[n][x] = IF x = None THEN None ELSE nx[x]
  OBVIOUS
<1> HIDE DEF step
<1>3. Walks(N, S, a, step) # {}
  BY <1>1, Iterates
<1>4. PICK g \in [0..N -> S] : g[0] = a /\ \A n \in 1..N : g[n] = step[n][g[n - 1]]
  BY <1>3 DEF Walks
<1>5. \A n \in 1..N : n - 1 \in 0..N
  OBVIOUS
<1> QED
  BY <1>2, <1>4, <1>5

\* The nodes of a core are the newest and the one before it.
LEMMA NodesOfIs ==
  ASSUME ListsOK, NEW c \in Core
  PROVE  NodesOf(c) = Own(Heap, c)
<1> DEFINE N == Cardinality(Node)
           tl == tsList[c]
           o == node[tl].prev
           Is(w) == w = [n \in 0..N |->
                           IF n = 0 THEN tsList[c]
                           ELSE IF w[n - 1] = None THEN None ELSE node[w[n - 1]].prev]
           w == CHOOSE w : Is(w)
           nx == [n \in Node |-> node[n].prev]
<1>1. /\ N \in Nat /\ node \in [Node -> NodeRec] /\ tl \in NodeOrNone
      /\ Heap.lists = tsList /\ Heap.node = node
  BY ITCAssumption, FS_CardinalityType DEF ListsOK, TypesOK, Heap, Heaps
<1>2. nx \in [Node -> NodeOrNone]
  BY <1>1 DEF NodeRec
<1>3. PICK g \in [0..N -> NodeOrNone] :
        /\ g[0] = tl
        /\ \A n \in 1..N : g[n] = IF g[n - 1] = None THEN None ELSE nx[g[n - 1]]
  BY <1>1, <1>2, Follows, ZenonT(60)
<1>4. Is(g)
  <2>1. \A n \in 0..N : n # 0 => n \in 1..N /\ n - 1 \in 0..N
    BY <1>1
  <2>2. \A n \in 0..N : g[n] = IF n = 0 THEN tsList[c]
                               ELSE IF g[n - 1] = None THEN None ELSE node[g[n - 1]].prev
    <3> SUFFICES ASSUME NEW n \in 0..N
                 PROVE  g[n] = IF n = 0 THEN tsList[c]
                               ELSE IF g[n - 1] = None THEN None ELSE node[g[n - 1]].prev
      OBVIOUS
    <3>1. CASE n = 0
      BY <1>3, <3>1
    <3>2. CASE n # 0
      <4>1. n \in 1..N /\ g[n - 1] \in NodeOrNone
        BY <2>1, <3>2
      <4>2. g[n - 1] # None => nx[g[n - 1]] = node[g[n - 1]].prev
        BY <4>1 DEF NodeOrNone
      <4> QED
        BY <1>3, <3>2, <4>1, <4>2
    <3> QED
      BY <3>1, <3>2
  <2> QED
    BY <2>2
<1>5. Is(w)
  BY <1>4
<1>6. Older(c) = w
  BY DEF Older
<1> HIDE DEF w, nx
<1>7. /\ DOMAIN w = 0..N /\ w[0] = tl
      /\ \A n \in 1..N : w[n] = IF w[n - 1] = None THEN None ELSE node[w[n - 1]].prev
  BY <1>1, <1>5
<1> HIDE DEF N
<1>8. CASE tl = None
  <2> DEFINE G == {n \in 0..N : w[n] = None}
  <2>1. 0 \in G /\ \A n \in 1..N : n - 1 \in G => n \in G
    BY <1>1, <1>7, <1>8
  <2> HIDE DEF G
  <2>2. \A n \in 0..N : n \in G
    BY <1>1, <2>1, Induct
  <2>3. NodesOf(c) = {}
    BY <1>6, <1>7, <2>2 DEF NodesOf, G
  <2> QED
    BY <1>1, <1>8, <2>3 DEF Own
<1>9. CASE tl # None
  <2>1. tl \in Node /\ o \in Node /\ node[o].prev = tl
    <3>1. Linked(Heap, c, clock)
      BY DEF ListsOK, HeapOK
    <3> QED
      BY <1>1, <1>9, <3>1 DEF Linked, NodeOrNone
  <2>2. tl # None /\ o # None
    BY <2>1, ITCAssumption
  <2>3. 1 \in 1..N
    <3>1. N # 0
      BY <2>1, ITCAssumption, FS_EmptySet DEF N
    <3> QED
      BY <1>1, <3>1
  <2>4. w[1] = o
    BY <1>7, <2>2, <2>3
  <2> DEFINE G == {n \in 0..N : w[n] \in {tl, o}}
  <2>5. 0 \in G
    BY <1>1, <1>7
  <2>6. ASSUME NEW n \in 1..N, n - 1 \in G PROVE n \in G
    <3>1. w[n] = node[w[n - 1]].prev
      BY <1>7, <2>2, <2>6
    <3> QED
      BY <2>1, <2>6, <3>1
  <2> HIDE DEF G
  <2>7. \A n \in 0..N : n \in G
    BY <1>1, <2>5, <2>6, Induct
  <2>8. NodesOf(c) = {tl, o}
    <3>1. NodesOf(c) \subseteq {tl, o}
      BY <1>6, <1>7, <2>7 DEF NodesOf, G
    <3>2. tl \in NodesOf(c)
      BY <1>1, <1>6, <1>7, <2>2 DEF NodesOf
    <3>3. o \in NodesOf(c)
      BY <1>1, <1>6, <1>7, <2>2, <2>3, <2>4 DEF NodesOf
    <3> QED
      BY <3>1, <3>2, <3>3
  <2> QED
    BY <1>1, <1>9, <2>8 DEF Own
<1> QED
  BY <1>8, <1>9

\* FreeNodes is the free list, whole.
LEMMA FreeNodesIs ==
  ASSUME TypesOK, NEW F \in SUBSET Node, Free(Heap, F)
  PROVE  FreeNodes = F
<1> DEFINE N == Cardinality(Node)
           Is(w) == w = [n \in 0..N |->
                           IF n = 0 THEN freeList
                           ELSE IF w[n - 1] = None THEN None ELSE node[w[n - 1]].next]
           w == CHOOSE w : Is(w)
           nx == [n \in Node |-> node[n].next]
<1>1. /\ N \in Nat /\ node \in [Node -> NodeRec] /\ freeList \in NodeOrNone
      /\ Heap.free = freeList /\ Heap.node = node
  BY ITCAssumption, FS_CardinalityType DEF TypesOK, Heap, Heaps
<1>2. nx \in [Node -> NodeOrNone]
  BY <1>1 DEF NodeRec
<1>3. PICK g \in [0..N -> NodeOrNone] :
        /\ g[0] = freeList
        /\ \A n \in 1..N : g[n] = IF g[n - 1] = None THEN None ELSE nx[g[n - 1]]
  BY <1>1, <1>2, Follows, ZenonT(60)
<1>4. Is(g)
  <2>1. \A n \in 0..N : n # 0 => n \in 1..N /\ n - 1 \in 0..N
    BY <1>1
  <2>2. \A n \in 0..N : g[n] = IF n = 0 THEN freeList
                               ELSE IF g[n - 1] = None THEN None ELSE node[g[n - 1]].next
    <3> SUFFICES ASSUME NEW n \in 0..N
                 PROVE  g[n] = IF n = 0 THEN freeList
                               ELSE IF g[n - 1] = None THEN None ELSE node[g[n - 1]].next
      OBVIOUS
    <3>1. CASE n = 0
      BY <1>3, <3>1
    <3>2. CASE n # 0
      <4>1. n \in 1..N /\ g[n - 1] \in NodeOrNone
        BY <2>1, <3>2
      <4>2. g[n - 1] # None => nx[g[n - 1]] = node[g[n - 1]].next
        BY <4>1 DEF NodeOrNone
      <4> QED
        BY <1>3, <3>2, <4>1, <4>2
    <3> QED
      BY <3>1, <3>2
  <2> QED
    BY <2>2
<1>5. Is(w)
  BY <1>4
<1>6. FreeNodes = {w[n] : n \in DOMAIN w} \ {None}
  BY DEF FreeNodes
<1> HIDE DEF w, nx
<1>7. /\ DOMAIN w = 0..N /\ w[0] = freeList
      /\ \A n \in 1..N : w[n] = IF w[n - 1] = None THEN None ELSE node[w[n - 1]].next
  BY <1>1, <1>5
<1>8a. PICK m \in Nat : \E f : IsChain(Heap, m, f) /\ F = NodesIn(m, f)
  BY DEF Free
<1>8. PICK f : IsChain(Heap, m, f) /\ F = NodesIn(m, f)
  BY <1>8a
<1>9. /\ f \in [0..m -> NodeOrNone] /\ f[0] = None /\ f[m] = freeList
      /\ \A i \in 1..m : f[i] \in Node /\ node[f[i]].next = f[i - 1]
      /\ \A i, j \in 1..m : f[i] = f[j] => i = j
  BY <1>1, <1>8 DEF IsChain
<1>10. m <= N
  <2> DEFINE e == [i \in 1..m |-> f[i]]
  <2>1. e \in Injection(1..m, Node)
    BY <1>9 DEF Injection, IsInjective
  <2>2. Cardinality(1..m) <= N /\ Cardinality(1..m) = m
    <3> HIDE DEF e
    <3>1. Cardinality(1..m) <= Cardinality(Node)
      BY <2>1, ITCAssumption, FS_Injection
    <3>2. Cardinality(1..m) = m
      BY FS_Interval
    <3> QED
      BY <3>1, <3>2
  <2> QED
    BY <2>2
<1> HIDE DEF N
<1> DEFINE G == {n \in 0..N : w[n] = IF n <= m THEN f[m - n] ELSE None}
<1>11. 0 \in G
  BY <1>1, <1>7, <1>9
<1>12. ASSUME NEW n \in 1..N, n - 1 \in G PROVE n \in G
  <2>1. w[n - 1] = IF n - 1 <= m THEN f[m - (n - 1)] ELSE None
    BY <1>12
  <2>2. w[n] = IF w[n - 1] = None THEN None ELSE node[w[n - 1]].next
    BY <1>7
  <2>3. CASE n <= m
    <3> DEFINE i == m - (n - 1)
    <3>1. i \in 1..m /\ i - 1 = m - n /\ n - 1 <= m
      BY <1>1, <2>3
    <3>2. w[n - 1] = f[i]
      BY <2>1, <3>1
    <3> HIDE DEF i
    <3>3. f[i] # None /\ node[f[i]].next = f[i - 1]
      BY <1>9, <3>1, ITCAssumption
    <3>4. w[n] = f[m - n]
      BY <2>2, <3>1, <3>2, <3>3
    <3> QED
      BY <2>3, <3>4
  <2>4. CASE n = m + 1
    <3>1. n - 1 <= m /\ m - (n - 1) = 0 /\ ~(n <= m)
      BY <1>1, <2>4
    <3>2. w[n - 1] = None
      BY <1>9, <2>1, <3>1
    <3> QED
      BY <2>2, <3>1, <3>2
  <2>5. CASE n > m + 1
    <3>1. ~(n - 1 <= m) /\ ~(n <= m)
      BY <1>1, <2>5
    <3> QED
      BY <2>1, <2>2, <3>1
  <2> QED
    BY <1>1, <2>3, <2>4, <2>5
<1> HIDE DEF G
<1>13. \A n \in 0..N : n \in G
  BY <1>1, <1>11, <1>12, Induct
<1>14. \A n \in 0..N : w[n] = IF n <= m THEN f[m - n] ELSE None
  BY <1>13 DEF G
<1>15. F = {f[i] : i \in 1..m}
  BY <1>8 DEF NodesIn
<1>16. FreeNodes \subseteq F
  <2> SUFFICES ASSUME NEW n \in 0..N, w[n] # None PROVE w[n] \in F
    BY <1>6, <1>7
  <2>1. n <= m /\ w[n] = f[m - n]
    BY <1>14
  <2>2. m - n # 0
    BY <1>9, <2>1
  <2>3. m - n \in 1..m
    BY <1>1, <2>1, <2>2
  <2> QED
    BY <1>15, <2>1, <2>3
<1>17. F \subseteq FreeNodes
  <2> SUFFICES ASSUME NEW i \in 1..m PROVE f[i] \in FreeNodes
    BY <1>15
  <2>1. m - i \in 0..N /\ m - i <= m /\ m - (m - i) = i
    BY <1>1, <1>10
  <2>2. w[m - i] = f[i]
    BY <1>14, <2>1
  <2>3. f[i] # None
    BY <1>9, ITCAssumption
  <2> QED
    BY <1>6, <1>7, <2>1, <2>2, <2>3
<1> QED
  BY <1>16, <1>17

\* At the start nothing is on a list.
LEMMA InitLists == Init => ListsOK
<1> SUFFICES ASSUME Init PROVE ListsOK
  OBVIOUS
<1>1. TypesOK /\ Heap \in Heaps
  BY InitTypes DEF TypesOK
<1>2. /\ tsList = [c \in Core |-> None] /\ freeList = None /\ unused = Node /\ clock = 0
      /\ crashed = FALSE /\ ring = [c \in Core |-> NewRing]
  BY DEF Init
<1>3. /\ Heap.lists = tsList /\ Heap.free = None /\ Heap.unused = Node /\ Heap.ok = TRUE
  BY <1>2 DEF Heap
<1>4. \A c \in Core : Own(Heap, c) = {} /\ Num(Heap, c) = 0 /\ Linked(Heap, c, clock)
  BY <1>2, <1>3 DEF Own, Num, Linked
<1>5. Apart(Heap, {})
  BY <1>3, <1>4 DEF Apart
<1>6. Free(Heap, {})
  <2> DEFINE f == [i \in 0..0 |-> None]
  <2>1. f \in [0..0 -> NodeOrNone] /\ f[0] = None /\ 1..0 = {}
    BY DEF NodeOrNone
  <2> HIDE DEF f
  <2>2. IsChain(Heap, 0, f) /\ {} = NodesIn(0, f)
    BY <1>3, <2>1 DEF IsChain, NodesIn
  <2> QED
    BY <2>2 DEF Free
<1>7. HeapOK(Heap, {}, clock)
  BY <1>1, <1>2, <1>3, <1>4, <1>5, <1>6 DEF HeapOK
<1>8. \A c \in Core : ring[c].numMsgs = Num(Heap, c)
  BY <1>2, <1>4 DEF NewRing
<1> QED
  BY <1>1, <1>2, <1>7, <1>8 DEF ListsOK

\* Every step keeps the lists.
LEMMA StepLists ==
  ASSUME TwoWait
  PROVE  ListsOK /\ [Next]_vars => ListsOK'
<1> SUFFICES ASSUME ListsOK, [Next]_vars PROVE ListsOK'
  OBVIOUS
<1>1. ASSUME NEW c \in Core, NEW len \in DstLens, Fetch(c, len) PROVE ListsOK'
  BY <1>1, GetKeepsLists DEF Fetch
<1>2. CASE UNCHANGED vars
  BY <1>2, ListsStay DEF vars, Heap
<1> QED
  BY <1>1, <1>2, WordKeepsLists, StringKeepsLists, FlushKeepsLists DEF Next

\* As long as at most two messages of a core wait, a message that haveITCPrintMsgs
\* announces is there for getITCPrintMsg: its node is the one it looks at, ended.
\* No null pointer is followed on the way there.
THEOREM AnnouncedAreThere == TwoWait /\ Spec => [](AnnouncedCanBeFetched /\ ~crashed)
<1> SUFFICES ASSUME TwoWait PROVE Spec => [](AnnouncedCanBeFetched /\ ~crashed)
  OBVIOUS
<1>1. ListsOK => AnnouncedCanBeFetched /\ ~crashed
  <2>1. ASSUME ListsOK, NEW c \in Core, ring[c].numMsgs > 0
        PROVE  /\ tsList[c] # None /\ node[tsList[c]].prev # None
               /\ node[node[tsList[c]].prev].terminated
    BY <2>1, OldestIs, ITCAssumption
  <2> QED
    BY <2>1 DEF AnnouncedCanBeFetched, ListsOK
<1> QED
  BY <1>1, InitLists, StepLists, PTL DEF Spec

\* tsl->prev of the newest node is the oldest message of its core, what the
\* comments in getITCPrintMsg say, as long as at most two wait.
THEOREM OldestIsPrev == TwoWait /\ Spec => []PrevIsOldest
<1> SUFFICES ASSUME TwoWait PROVE Spec => []PrevIsOldest
  OBVIOUS
<1>1. ASSUME ListsOK, NEW c \in Core, tsList[c] # None
      PROVE  /\ node[tsList[c]].prev # None
             /\ \A w \in NodesOf(c) : node[node[tsList[c]].prev].startTime <= node[w].startTime
  <2> DEFINE tl == tsList[c]
             o == node[tl].prev
  <2>1. Heap.lists = tsList /\ Heap.node = node /\ node \in [Node -> NodeRec]
    BY <1>1 DEF Heap, ListsOK, TypesOK, Heaps
  <2>2. Linked(Heap, c, clock)
    BY <1>1 DEF ListsOK, HeapOK
  <2>3. o \in Node /\ node[o].startTime <= node[tl].startTime
    BY <1>1, <2>1, <2>2 DEF Linked
  <2>4. NodesOf(c) = {tl, o}
    BY <1>1, <2>1, NodesOfIs DEF Own
  <2>5. node[o].startTime \in Nat
    BY <2>1, <2>3 DEF NodeRec
  <2> HIDE DEF o, tl
  <2>6. \A w \in {tl, o} : node[o].startTime <= node[w].startTime
    BY <2>3, <2>5
  <2> QED
    BY <2>3, <2>4, <2>6, ITCAssumption DEF o, tl
<1>2. ListsOK => PrevIsOldest
  BY <1>1 DEF PrevIsOldest
<1> QED
  BY <1>2, InitLists, StepLists, PTL DEF Spec

\* No node is lost and none is on two lists: the nodes that print takes and
\* getITCPrintMsg and flushITCPrintMsg give back move between the lists of the
\* cores and the free list whole, and each core has one for each message.
THEOREM NodesStayOwned == TwoWait /\ Spec => []NodesAreOwned
<1> SUFFICES ASSUME TwoWait PROVE Spec => []NodesAreOwned
  OBVIOUS
<1>1. ListsOK => NodesAreOwned
  <2> SUFFICES ASSUME ListsOK PROVE NodesAreOwned
    OBVIOUS
  <2>1. PICK F : HeapOK(Heap, F, clock)
    BY DEF ListsOK
  <2>2. /\ Heap.lists = tsList /\ Heap.node = node /\ Heap.unused = unused
        /\ Heap \in Heaps /\ TypesOK /\ F \in SUBSET Node
        /\ Free(Heap, F) /\ Apart(Heap, F)
    BY <2>1 DEF Heap, ListsOK, TypesOK, HeapOK
  <2>3. FreeNodes = F
    BY <2>2, FreeNodesIs
  <2>4. \A c \in Core : NodesOf(c) = Own(Heap, c)
    BY NodesOfIs
  <2>5. \A c \in Core :
          /\ NodesOf(c) \cap (FreeNodes \cup unused) = {}
          /\ \A d \in Core \ {c} : NodesOf(c) \cap NodesOf(d) = {}
    BY <2>2, <2>3, <2>4 DEF Apart
  <2>6. ASSUME NEW c \in Core
        PROVE  /\ Cardinality(NodesOf(c)) = ring[c].numMsgs + (IF Open(c) THEN 1 ELSE 0)
               /\ \A w \in NodesOf(c) : node[w].prev # None /\ node[node[w].prev].next = w
               /\ NodesOf(c) \subseteq Node
    <3> DEFINE tl == tsList[c]
               o == node[tl].prev
    <3>1. ring[c].numMsgs = Num(Heap, c) /\ Linked(Heap, c, clock)
      BY <2>1 DEF ListsOK, HeapOK
    <3>2. tl \in NodeOrNone /\ node \in [Node -> NodeRec]
      BY <2>2 DEF Heaps
    <3>3. CASE tl = None
      <4>1. NodesOf(c) = {} /\ ring[c].numMsgs = 0 /\ ~Open(c)
        BY <2>2, <2>4, <3>1, <3>3 DEF Own, Num, Open
      <4> QED
        BY <4>1, FS_EmptySet
    <3>4. CASE tl # None
      <4>1. /\ tl \in Node /\ o \in Node /\ node[o].prev = tl /\ node[o].next = tl
            /\ node[tl].next = o
        BY <2>2, <3>1, <3>2, <3>4 DEF Linked, NodeOrNone
      <4>2. NodesOf(c) = {tl, o}
        BY <2>2, <2>4, <3>4 DEF Own
      <4>3. ring[c].numMsgs = (IF node[tl].terminated THEN 1 ELSE 0) + (IF o = tl THEN 0 ELSE 1)
        BY <2>2, <3>1, <3>4 DEF Num
      <4>4. Open(c) <=> ~node[tl].terminated
        BY <3>4 DEF Open
      <4> HIDE DEF o, tl
      <4>5. Cardinality({tl, o}) = IF o = tl THEN 1 ELSE 2
        <5>1. IsFiniteSet({tl}) /\ Cardinality({tl}) = 1
          BY FS_Singleton
        <5>2. Cardinality({tl} \cup {o}) = IF o \in {tl} THEN 1 ELSE 2
          BY <5>1, FS_AddElement
        <5>3. {tl} \cup {o} = {tl, o}
          OBVIOUS
        <5> QED
          BY <5>2, <5>3
      <4>6. Cardinality(NodesOf(c)) = ring[c].numMsgs + (IF Open(c) THEN 1 ELSE 0)
        <5>1. CASE Open(c)
          BY <4>2, <4>3, <4>4, <4>5, <5>1
        <5>2. CASE ~Open(c)
          BY <4>2, <4>3, <4>4, <4>5, <5>2
        <5> QED
          BY <5>1, <5>2
      <4>7. \A w \in {tl, o} : node[w].prev # None /\ node[node[w].prev].next = w
        <5>1. node[tl].prev = o
          BY DEF o
        <5> QED
          BY <4>1, <5>1, ITCAssumption
      <4> QED
        BY <4>1, <4>2, <4>6, <4>7
    <3> QED
      BY <3>3, <3>4
  <2>7. FreeNodes \cup unused \cup UNION {NodesOf(c) : c \in Core} = Node
    <3>1. unused \subseteq Node
      BY <2>2 DEF Heaps
    <3>2. \A n \in Node : n \in FreeNodes \/ n \in unused \/ \E c \in Core : n \in NodesOf(c)
      BY <2>2, <2>3, <2>4 DEF Apart
    <3> QED
      BY <2>2, <2>3, <2>6, <3>1, <3>2
  <2> QED
    BY <2>5, <2>6, <2>7 DEF NodesAreOwned
<1> QED
  BY <1>1, InitLists, StepLists, PTL DEF Spec
=============================================================================
