----------------------------- MODULE StreamProofs -----------------------------
(***************************************************************************)
(* TraceSystem implements ExecutionStream for each core: proofs that build *)
(* on the invariant SysInv of TraceSystemProofs.                           *)
(*                                                                         *)
(* What a core executed and is not yet returned is in three places: with   *)
(* the decoder (pending), under way (covers of the messages in the         *)
(* channel) and with the encoder (run).  A step moves instructions from    *)
(* one place to the next, which does not change the whole; the core adds   *)
(* one at the end, the decoder returns the first one, and where messages   *)
(* are lost a part is cut out.                                             *)
(*                                                                         *)
(* The second part has the marks of handlers: an invariant of its own      *)
(* follows each mark from the message that announces a handler to the      *)
(* first instruction of the handler.                                       *)
(***************************************************************************)
EXTENDS TraceSystemProofs

-----------------------------------------------------------------------------
(* The addresses of what was executed.                                     *)

\* The addresses are a sequence as long as the entries.
LEMMA AddressesAre ==
  ASSUME NEW q \in Seq(Entry)
  PROVE  /\ Addresses(q) \in Seq(DOMAIN Code) /\ Len(Addresses(q)) = Len(q)
         /\ \A n \in 1..Len(q) : Addresses(q)[n] = q[n].address
<1>1. Len(q) \in Nat /\ \A n \in 1..Len(q) : q[n] \in Entry
  BY LenProperties, ElementOfSeq
<1>2. \A n \in 1..Len(q) : q[n].address \in DOMAIN Code
  BY <1>1 DEF Entry
<1> DEFINE A == DOMAIN Code
<1> HIDE DEF A
<1>3. Addresses(q) \in [1..Len(q) -> A]
  BY <1>2 DEF Addresses, A
<1>4. Addresses(q) \in Seq(A) /\ Len(Addresses(q)) = Len(q)
  BY <1>1, <1>3
<1> QED
  BY <1>4 DEF Addresses, A

\* Without a part in the middle they are what a gap leaves.
LEMMA GapLeaves ==
  ASSUME NEW x \in Seq(Entry), NEW y \in Seq(Entry), NEW z \in Seq(Entry)
  PROVE  LET e == Addresses(x \o y \o z) IN
         \E i \in 0..Len(e) : \E j \in i..Len(e) :
            Addresses(x \o z) = SubSeq(e, 1, i) \o SubSeq(e, j + 1, Len(e))
<1> DEFINE A == DOMAIN Code
           xy == x \o y
           e == Addresses(xy \o z)
           f == Addresses(x \o z)
           l == Len(x)
           m == Len(y)
           n == Len(z)
           i == l
           j == l + m
           g == SubSeq(e, 1, i)
           h == SubSeq(e, j + 1, Len(e))
<1>1. l \in Nat /\ m \in Nat /\ n \in Nat
  BY LenProperties
<1>2. /\ xy \in Seq(Entry) /\ Len(xy) = l + m
      /\ \A k \in 1..l + m : xy[k] = IF k <= l THEN x[k] ELSE y[k - l]
  BY ConcatProperties
<1>3. /\ x \o z \in Seq(Entry) /\ Len(x \o z) = l + n
      /\ \A k \in 1..l + n : (x \o z)[k] = IF k <= l THEN x[k] ELSE z[k - l]
  BY ConcatProperties
<1> HIDE DEF xy
<1>4. /\ xy \o z \in Seq(Entry) /\ Len(xy \o z) = l + m + n
      /\ \A k \in 1..l + m + n : (xy \o z)[k] = IF k <= l + m THEN xy[k] ELSE z[k - (l + m)]
  <2> HIDE DEF l, m, n
  <2>1. /\ xy \o z \in Seq(Entry) /\ Len(xy \o z) = Len(xy) + Len(z)
        /\ \A k \in 1..Len(xy) + Len(z) :
             (xy \o z)[k] = IF k <= Len(xy) THEN xy[k] ELSE z[k - Len(xy)]
    BY <1>2, ConcatProperties
  <2> QED
    BY <1>2, <2>1 DEF n
<1>5. /\ e \in Seq(A) /\ Len(e) = l + m + n
      /\ \A k \in 1..l + m + n : e[k] = (xy \o z)[k].address
  BY <1>4, AddressesAre
<1>6. /\ f \in Seq(A) /\ Len(f) = l + n
      /\ \A k \in 1..l + n : f[k] = (x \o z)[k].address
  BY <1>3, AddressesAre
<1> HIDE DEF e, f, A, l, m, n
<1>7. \A k \in 1..l + m + n : e[k] \in A
  BY <1>5, ElementOfSeq
<1>8. /\ g \in Seq(A) /\ Len(g) = l
      /\ \A k \in 1..l : g[k] = e[k]
  <2>1. \A k \in 1..l : e[k] \in A
    BY <1>1, <1>7
  <2>2. /\ g \in Seq(A) /\ Len(g) = (IF 1 <= l THEN l - 1 + 1 ELSE 0)
        /\ \A k \in 1..l - 1 + 1 : g[k] = e[1 + k - 1]
    BY <1>1, <2>1, SubSeqProperties
  <2> HIDE DEF g
  <2> QED
    BY <1>1, <2>2
<1>9. /\ h \in Seq(A) /\ Len(h) = n
      /\ \A k \in 1..n : h[k] = e[l + m + k]
  <2>1. \A k \in l + m + 1..l + m + n : e[k] \in A
    BY <1>1, <1>7
  <2> DEFINE a == l + m + 1
             b == l + m + n
  <2>2. a \in Int /\ b \in Int /\ b - a + 1 = n /\ \A k \in 1..n : a + k - 1 = l + m + k
    BY <1>1
  <2>3. h = SubSeq(e, a, b)
    BY <1>5
  <2> HIDE DEF a, b, h
  <2>4. /\ h \in Seq(A) /\ Len(h) = (IF a <= b THEN b - a + 1 ELSE 0)
        /\ \A k \in 1..b - a + 1 : h[k] = e[a + k - 1]
    BY <2>1, <2>2, <2>3, SubSeqProperties DEF a, b
  <2>5. (a <= b <=> 1 <= n) /\ (n = 0 \/ 1 <= n)
    BY <1>1 DEF a, b
  <2>6. Len(h) = n
    BY <1>1, <2>2, <2>4, <2>5
  <2>7. \A k \in 1..n : h[k] = e[a + k - 1]
    BY <2>2, <2>4
  <2> HIDE DEF a, b
  <2>8. \A k \in 1..n : h[k] = e[l + m + k]
    BY <2>2, <2>7
  <2> QED
    BY <2>4, <2>6, <2>8
<1> HIDE DEF g, h
<1>10. /\ g \o h \in Seq(A) /\ Len(g \o h) = l + n
       /\ \A k \in 1..l + n : (g \o h)[k] = IF k <= l THEN g[k] ELSE h[k - l]
  BY <1>8, <1>9, ConcatProperties
<1>11. ASSUME NEW k \in 1..l + n PROVE f[k] = (g \o h)[k]
  <2>1. CASE k <= l
    <3>1. k \in 1..l /\ k \in 1..l + m /\ k \in 1..l + m + n /\ k <= l + m
      BY <1>1, <2>1
    <3>2. f[k] = x[k].address
      BY <1>3, <1>6, <2>1
    <3>3. (g \o h)[k] = e[k]
      BY <1>8, <1>10, <2>1, <3>1
    <3>4. e[k] = x[k].address
      BY <1>2, <1>4, <1>5, <2>1, <3>1
    <3> QED
      BY <3>2, <3>3, <3>4
  <2>2. CASE k > l
    <3>1. /\ ~(k <= l) /\ k - l \in 1..n /\ l + m + (k - l) \in 1..l + m + n
          /\ ~(l + m + (k - l) <= l + m) /\ l + m + (k - l) - (l + m) = k - l
      BY <1>1, <2>2
    <3>2. f[k] = z[k - l].address
      BY <1>3, <1>6, <3>1
    <3>3. (g \o h)[k] = e[l + m + (k - l)]
      BY <1>9, <1>10, <3>1
    <3> DEFINE d == l + m + (k - l)
    <3>4. d \in 1..l + m + n /\ ~(d <= l + m) /\ d - (l + m) = k - l
      BY <1>1, <2>2, <3>1
    <3> HIDE DEF d
    <3>5. e[d] = z[d - (l + m)].address
      BY <1>4, <1>5, <3>4
    <3>6. e[l + m + (k - l)] = z[k - l].address
      BY <3>4, <3>5 DEF d
    <3> QED
      BY <3>2, <3>3, <3>6
  <2>3. k <= l \/ k > l
    BY <1>1
  <2> QED
    BY <2>1, <2>2, <2>3
<1>12. f = g \o h
  BY <1>6, <1>10, <1>11, SeqEqual
<1>13. i \in 0..Len(e) /\ j \in i..Len(e)
  BY <1>1, <1>5
<1> QED
  BY <1>12, <1>13 DEF g, h, e, f, xy

-----------------------------------------------------------------------------
(* What messages under way account for.                                    *)

Queued == [msg: Message, covers: Seq(Entry)]
Share(e, c) == IF e.msg.core = c THEN e.covers ELSE <<>>

\* It is that of the first n messages, for one n after the other.
LEMMA CoveredIs ==
  ASSUME NEW q \in Seq(Queued), NEW c
  PROVE  \E g \in [0..Len(q) -> Seq(Entry)] :
           /\ g[0] = <<>> /\ CoveredBy(q, c) = g[Len(q)]
           /\ \A n \in 1..Len(q) : g[n] = g[n - 1] \o Share(q[n], c)
<1> DEFINE l == Len(q)
           S == Seq(Entry)
           Is(f) == f = [n \in 0..l |-> IF n = 0 THEN <<>> ELSE f[n - 1] \o Share(q[n], c)]
           upTo == CHOOSE f : Is(f)
           step == [n \in 1..l |-> [x \in S |-> x \o Share(q[n], c)]]
<1>1. l \in Nat /\ \A n \in 1..l : q[n] \in Queued
  BY LenProperties, ElementOfSeq
<1>2. <<>> \in S /\ \A n \in 1..l : Share(q[n], c) \in S
  BY <1>1 DEF Share, Queued
<1>3. step \in Steps(l, S)
  <2>1. \A n \in 1..l, x \in S : x \o Share(q[n], c) \in S
    BY <1>2, ConcatProperties
  <2> HIDE DEF S, l
  <2> QED
    BY <2>1 DEF Steps
<1>4. \A n \in 1..l, x \in S : step[n][x] = x \o Share(q[n], c)
  OBVIOUS
<1>5. CoveredBy(q, c) = upTo[l]
  BY DEF CoveredBy, Share
<1> HIDE DEF l, step, S
<1>6. PICK g \in [0..l -> S] : g[0] = <<>> /\ \A n \in 1..l : g[n] = step[n][g[n - 1]]
  <2>1. Walks(l, S, <<>>, step) # {}
    BY <1>1, <1>2, <1>3, Iterates
  <2> QED
    BY <2>1 DEF Walks
<1>7. \A n \in 1..l : g[n] = g[n - 1] \o Share(q[n], c)
  <2>1. \A n \in 1..l : n - 1 \in 0..l
    BY <1>1
  <2> QED
    BY <1>4, <1>6, <2>1
<1>8. Is(g)
  <2>1. \A n \in 0..l : n # 0 => n \in 1..l
    BY <1>1
  <2>2. \A n \in 0..l : g[n] = IF n = 0 THEN <<>> ELSE g[n - 1] \o Share(q[n], c)
    BY <1>6, <1>7, <2>1
  <2> QED
    BY <1>6, <2>2
<1>9. Is(upTo)
  <2> HIDE DEF Is
  <2> QED
    BY <1>8
<1> HIDE DEF upTo
<1>10. /\ \A n \in 0..l : upTo[n] = IF n = 0 THEN <<>> ELSE upTo[n - 1] \o Share(q[n], c)
       /\ DOMAIN upTo = 0..l
  BY <1>9
<1> HIDE DEF Is
<1>11. \A n \in 0..l : upTo[n] = g[n]
  <2> DEFINE G == {n \in 0..l : upTo[n] = g[n]}
  <2>1. 0 \in G
    BY <1>1, <1>6, <1>10
  <2>2. ASSUME NEW n \in 1..l, n - 1 \in G PROVE n \in G
    <3>1. n \in 0..l /\ n # 0
      BY <1>1
    <3> QED
      BY <1>7, <1>10, <2>2, <3>1
  <2> HIDE DEF G
  <2>3. \A n \in 0..l : n \in G
    BY <1>1, <2>1, <2>2, Induct
  <2> QED
    BY <2>3 DEF G
<1>12. l \in 0..l
  BY <1>1
<1> QED
  BY <1>5, <1>6, <1>7, <1>11, <1>12 DEF l, S

\* It is a sequence of entries.
LEMMA CoveredType ==
  ASSUME NEW q \in Seq(Queued), NEW c
  PROVE  CoveredBy(q, c) \in Seq(Entry)
<1>1. PICK g \in [0..Len(q) -> Seq(Entry)] : CoveredBy(q, c) = g[Len(q)]
  BY CoveredIs
<1>2. Len(q) \in 0..Len(q)
  BY LenProperties
<1> DEFINE S == Seq(Entry)
           l == Len(q)
<1> HIDE DEF S, l
<1> QED
  BY <1>1, <1>2 DEF S, l

\* No message accounts for anything.
LEMMA CoveredNone == \A c : CoveredBy(<<>>, c) = <<>>
<1> TAKE c
<1>1. <<>> \in Seq(Queued) /\ Len(<<>>) = 0
  BY EmptySeq
<1> QED
  BY <1>1, CoveredIs

\* One message does for its core.
LEMMA CoveredOne ==
  ASSUME NEW q \in Seq(Queued), Len(q) = 1, NEW c
  PROVE  CoveredBy(q, c) = Share(q[1], c)
<1> DEFINE Is(l) == \E g \in [0..l -> Seq(Entry)] :
                      /\ g[0] = <<>> /\ CoveredBy(q, c) = g[l]
                      /\ \A n \in 1..l : g[n] = g[n - 1] \o Share(q[n], c)
<1>1. Is(Len(q))
  BY CoveredIs, Zenon
<1>2. PICK g \in [0..1 -> Seq(Entry)] :
        /\ g[0] = <<>> /\ CoveredBy(q, c) = g[1]
        /\ \A n \in 1..1 : g[n] = g[n - 1] \o Share(q[n], c)
  <2>1. Is(1)
    <3> HIDE DEF Is
    <3> QED
      BY <1>1
  <2> QED
    BY <2>1
<1>3. g[1] = <<>> \o Share(q[1], c)
  <2>1. 1 \in 1..1 /\ 1 - 1 = 0
    OBVIOUS
  <2> QED
    BY <1>2, <2>1
<1>4. q[1] \in Queued
  <2>1. 1 \in 1..Len(q)
    OBVIOUS
  <2> QED
    BY <2>1, ElementOfSeq
<1>5. Share(q[1], c) \in Seq(Entry)
  BY <1>4 DEF Queued, Share
<1>6. <<>> \o Share(q[1], c) = Share(q[1], c)
  BY <1>5, ConcatEmptySeq
<1> QED
  BY <1>2, <1>3, <1>6

\* Two messages that account for nothing.
LEMMA CoveredByNeither ==
  ASSUME NEW q \in Seq(Queued), Len(q) = 2, q[1].covers = <<>>, q[2].covers = <<>>, NEW c
  PROVE  CoveredBy(q, c) = <<>>
<1> DEFINE Is(l) == \E g \in [0..l -> Seq(Entry)] :
                      /\ g[0] = <<>> /\ CoveredBy(q, c) = g[l]
                      /\ \A n \in 1..l : g[n] = g[n - 1] \o Share(q[n], c)
<1>1. Is(Len(q))
  BY CoveredIs, Zenon
<1>2. PICK g \in [0..2 -> Seq(Entry)] :
        /\ g[0] = <<>> /\ CoveredBy(q, c) = g[2]
        /\ \A n \in 1..2 : g[n] = g[n - 1] \o Share(q[n], c)
  <2>1. Is(2)
    <3> HIDE DEF Is
    <3> QED
      BY <1>1
  <2> QED
    BY <2>1
<1>3. Share(q[1], c) = <<>> /\ Share(q[2], c) = <<>>
  BY DEF Share
<1>4. <<>> \o <<>> = <<>>
  BY EmptySeq, ConcatEmptySeq
<1>5. g[1] = <<>>
  BY <1>2, <1>3, <1>4
<1>6. g[2] = <<>>
  BY <1>2, <1>3, <1>4, <1>5
<1> QED
  BY <1>2, <1>6

-----------------------------------------------------------------------------
(* Steps of the abstract specification.                                    *)

\* Nothing but a part in the middle is missing, and nothing is returned.
LEMMA CutStep ==
  ASSUME NEW c, NEW x \in Seq(Entry), NEW y \in Seq(Entry), NEW z \in Seq(Entry),
         Executed(c) = Addresses(x \o y \o z), Executed(c)' = Addresses(x \o z),
         Returned(c)' = <<>>
  PROVE  Stream(c)!Next
<1> DEFINE e == Addresses(x \o y \o z)
           f == Addresses(x \o z)
<1>1. \E i \in 0..Len(e) : \E j \in i..Len(e) : f = SubSeq(e, 1, i) \o SubSeq(e, j + 1, Len(e))
  BY GapLeaves
<1> HIDE DEF e, f
<1>2. Executed(c) = e /\ Executed(c)' = f
  BY DEF e, f
<1>3. Stream(c)!Gap
  BY <1>1, <1>2 DEF Stream!Gap
<1> QED
  BY <1>3 DEF Stream!Next

\* Nothing changes, and nothing is returned.
LEMMA KeptStep ==
  ASSUME NEW c, NEW x \in Seq(Entry), Executed(c) = Addresses(x), Executed(c)' = Addresses(x),
         Returned(c)' = <<>>
  PROVE  Stream(c)!Next
<1>1. <<>> \in Seq(Entry) /\ x \o <<>> = x /\ x \o <<>> \o <<>> = x
  BY EmptySeq, ConcatEmptySeq
<1> QED
  BY <1>1, CutStep

\* One more instruction was executed.
LEMMA GrownStep ==
  ASSUME NEW c, NEW x \in Seq(Entry), NEW n \in Entry,
         Executed(c) = Addresses(x), Executed(c)' = Addresses(Append(x, n)),
         Returned(c)' = <<>>
  PROVE  Stream(c)!Next
<1> DEFINE A == DOMAIN Code
           e == Addresses(x)
           f == Addresses(Append(x, n))
           l == Len(x)
<1>1. /\ Append(x, n) \in Seq(Entry) /\ Len(Append(x, n)) = l + 1 /\ l \in Nat
      /\ \A k \in 1..l : Append(x, n)[k] = x[k]
  BY AppendProperties, LenProperties
<1>2. e \in Seq(A) /\ Len(e) = l /\ \A k \in 1..l : e[k] = x[k].address
  BY AddressesAre
<1>3. f \in Seq(A) /\ Len(f) = l + 1 /\ \A k \in 1..l + 1 : f[k] = Append(x, n)[k].address
  BY <1>1, AddressesAre
<1> HIDE DEF e, f, A, l
<1>4. \A k \in 1..l : k \in 1..l + 1
  BY <1>1
<1>5. \A k \in 1..l : f[k] \in A /\ f[k] = e[k]
  BY <1>1, <1>2, <1>3, <1>4, ElementOfSeq
<1> DEFINE g == SubSeq(f, 1, l)
<1>6. g \in Seq(A) /\ Len(g) = l /\ \A k \in 1..l : g[k] = f[k]
  <2>1. /\ g \in Seq(A) /\ Len(g) = (IF 1 <= l THEN l - 1 + 1 ELSE 0)
        /\ \A k \in 1..l - 1 + 1 : g[k] = f[1 + k - 1]
    BY <1>1, <1>5, SubSeqProperties
  <2> HIDE DEF g
  <2> QED
    BY <1>1, <2>1
<1> HIDE DEF g
<1>7. g = e
  BY <1>2, <1>5, <1>6, SeqEqual
<1>8. Executed(c) = e /\ Executed(c)' = f
  BY DEF e, f
<1>9. Stream(c)!Execute
  BY <1>2, <1>3, <1>7, <1>8 DEF Stream!Execute, g
<1> QED
  BY <1>9 DEF Stream!Next

\* The first instruction is returned.
LEMMA ReturnedStep ==
  ASSUME NEW c, NEW x \in Seq(Entry), x # <<>>,
         Executed(c) = Addresses(x), Executed(c)' = Addresses(Tail(x)),
         Returned(c)' = <<Head(x).address>>
  PROVE  Stream(c)!Next
<1> DEFINE A == DOMAIN Code
           e == Addresses(x)
           f == Addresses(Tail(x))
           l == Len(x)
<1>1. /\ Tail(x) \in Seq(Entry) /\ Len(Tail(x)) = l - 1 /\ l \in Nat \ {0}
      /\ \A k \in 1..l - 1 : Tail(x)[k] = x[k + 1]
  <2>1. /\ Tail(x) \in Seq(Entry) /\ Len(Tail(x)) = l - 1
        /\ \A k \in 1..Len(Tail(x)) : Tail(x)[k] = x[k + 1]
    BY HeadTailProperties
  <2> QED
    BY <2>1, EmptySeq
<1>2. e \in Seq(A) /\ Len(e) = l /\ \A k \in 1..l : e[k] = x[k].address
  BY AddressesAre
<1>3. f \in Seq(A) /\ Len(f) = l - 1 /\ \A k \in 1..l - 1 : f[k] = Tail(x)[k].address
  BY <1>1, AddressesAre
<1>4. Head(x) = x[1]
  OBVIOUS
<1> HIDE DEF e, f, A, l
<1>5. e # <<>>
  BY <1>1, <1>2
<1>6. /\ Head(e) = e[1] /\ Tail(e) \in Seq(A) /\ Len(Tail(e)) = l - 1
      /\ \A k \in 1..l - 1 : Tail(e)[k] = e[k + 1]
  BY <1>2, <1>5, HeadTailProperties
<1>7. \A k \in 1..l - 1 : k + 1 \in 1..l
  BY <1>1
<1>8. \A k \in 1..l - 1 : f[k] = Tail(e)[k]
  BY <1>1, <1>2, <1>3, <1>6, <1>7
<1>9. f = Tail(e)
  BY <1>3, <1>6, <1>8, SeqEqual
<1>10. Head(e) = Head(x).address
  <2>1. 1 \in 1..l
    BY <1>1
  <2> QED
    BY <1>2, <1>4, <1>6, <2>1
<1>11. Executed(c) = e /\ Executed(c)' = f
  BY DEF e, f
<1>12. Stream(c)!Return
  BY <1>5, <1>9, <1>10, <1>11 DEF Stream!Return
<1> QED
  BY <1>12 DEF Stream!Next

-----------------------------------------------------------------------------
(* The steps of the cores.                                                 *)

\* What core d executed and had not sent, r, is sent, or kept, or lost.
Moves(d, r) ==
  /\ \A c \in Core : c # d => target'[c] = target[c]
  /\ \/ channel' = <<>> /\ target'[d].run \in {r, <<>>}
     \/ /\ Len(channel') = 1 /\ channel'[1].msg.core = d /\ channel'[1].covers \in {r, <<>>}
        /\ target'[d].run = <<>>
     \/ /\ Len(channel') = 2 /\ channel'[1].covers = <<>> /\ channel'[2].covers = <<>>
        /\ target'[d].run = <<>>

\* Core d executed an instruction, or none.
Progress(d) ==
  \E r : /\ r = target[d].run \/ \E n \in Entry : r = Append(target[d].run, n)
         /\ Moves(d, r)

\* t is an encoder, or was made from one, that still has to send r.
Carries(t, r) == "run" \in DOMAIN t /\ t.run = r

\* A message of core c, or one made from it.
From(m, c) == "core" \in DOMAIN m /\ m.core = c

\* Where the encoder sends a message it is with it, or lost.
LEMMA SendMoves ==
  ASSUME SysInv, channel = <<>>, NEW c \in Core, NEW m, From(m, c), NEW t, NEW r, Carries(t, r),
         Send(c, m, t)
  PROVE  Moves(c, r)
<1>1. target \in [Core -> Encoder]
  BY DEF SysInv
<1> DEFINE e == [msg |-> m, covers |-> t.run]
           u == [t EXCEPT !.run = <<>>]
           x == [NewTarget(0) EXCEPT !.mode = "lost"]
<1>2. u.run = <<>> /\ e.msg = m /\ e.covers = r
  BY DEF Carries
<1>3. x.run = <<>>
  BY DEF NewTarget
<1>4. CASE channel' = Append(channel, e) /\ target' = [target EXCEPT ![c] = u]
  <2> HIDE DEF e, u
  <2>1. Append(channel, e) = <<e>> /\ Len(<<e>>) = 1 /\ <<e>>[1] = e
    OBVIOUS
  <2>2. target'[c] = u /\ \A d \in Core : d # c => target'[d] = target[d]
    BY <1>1, <1>4
  <2> QED
    BY <1>2, <1>4, <2>1, <2>2 DEF Moves, From
<1>5. CASE target' = [target EXCEPT ![c] = x] /\ UNCHANGED channel
  <2> HIDE DEF x
  <2>1. target'[c] = x /\ \A d \in Core : d # c => target'[d] = target[d]
    BY <1>1, <1>5
  <2> QED
    BY <1>3, <1>5, <2>1 DEF Moves
<1> QED
  BY <1>4, <1>5 DEF Send

\* Where it sends nothing it is kept.
LEMMA QuietMoves ==
  ASSUME SysInv, channel = <<>>, NEW c \in Core, NEW t, NEW r, Carries(t, r), Quiet(c, t)
  PROVE  Moves(c, r)
<1>1. target'[c] = t /\ \A d \in Core : d # c => target'[d] = target[d]
  BY DEF SysInv, Quiet
<1> QED
  BY <1>1 DEF Moves, Quiet, Carries

\* A message is that of its core, whatever else is set.
LEMMA MessagesFrom ==
  ASSUME NEW c, NEW tcode, NEW t
  PROVE  From(Message0(c, tcode, t), c) /\ From(Full(c), c)
BY DEF Message0, From, NoMsg, Full

\* What the encoder clears of itself is not what it has to send.
LEMMA StillCarries ==
  ASSUME NEW t, NEW r, Carries(t, r)
  PROVE  /\ Carries(Synced(t), r) /\ Carries([t EXCEPT !.i_cnt = 0], r)
         /\ Carries([t EXCEPT !.hist = <<>>], r)
         /\ Carries([t EXCEPT !.i_cnt = 0, !.hist = <<>>, !.ref = t.pc], r)
BY DEF Carries, Synced

\* Both kinds of messages with an address.
LEMMA SendAddressMoves ==
  ASSUME SysInv, channel = <<>>, NEW c \in Core, NEW t, NEW r, Carries(t, r), NEW b,
         SendAddress(c, t, b)
  PROVE  Moves(c, r)
<1> DEFINE m0 == Message0(c, IndirectTCode, t)
           m == [m0 EXCEPT !.history = IF traceMode = "HTM" THEN HistoryRegister(t.hist) ELSE 0,
                           !.b_type = b]
           sent == [t EXCEPT !.i_cnt = 0, !.hist = <<>>, !.ref = t.pc]
           m1 == [m EXCEPT !.addr = XorOf[t.ref, t.pc]]
           m2 == [m EXCEPT !.addr = t.pc, !.tcode = IndirectSyncTCode]
<1>1. From(m0, c)
  BY MessagesFrom
<1> HIDE DEF m0
<1>2. From(m, c)
  BY <1>1 DEF From
<1> HIDE DEF m
<1>3. From(m1, c) /\ From(m2, c)
  BY <1>2 DEF From
<1>4. Carries(sent, r) /\ Carries(Synced(t), r)
  BY StillCarries
<1>5. Send(c, m1, sent) \/ Send(c, m2, Synced(t))
  BY DEF SendAddress, m, m0
<1> HIDE DEF m1, m2, sent
<1> QED
  BY <1>3, <1>4, <1>5, SendMoves

\* An instruction that is executed is added.
LEMMA RanCarries ==
  ASSUME SysInv, NEW c \in Core, Ready(c), NEW next
  PROVE  \E n \in Entry : Carries(Ran(target[c], next), Append(target[c].run, n))
<1> DEFINE t == target[c]
           n == [address |-> t.pc, isr |-> t.trap]
<1>1. t \in Encoder /\ t.pc \in DOMAIN Code
  BY CoreAtRest DEF TargetOK
<1>2. n \in Entry
  BY <1>1 DEF Entry, Encoder
<1> HIDE DEF t
<1>3. Carries(Ran(t, next), Append(t.run, n))
  BY <1>1 DEF Ran, Carries, Encoder
<1> QED
  BY <1>2, <1>3 DEF t

\* Whatever an instruction does to the encoder, it is added or lost.
LEMMA RunProgress ==
  ASSUME SysInv, NEW c \in Core, Ready(c), NEW next,
         \A r : Carries(Ran(target[c], next), r) => Moves(c, r)
  PROVE  Progress(c)
<1>1. PICK n \in Entry : Carries(Ran(target[c], next), Append(target[c].run, n))
  BY RanCarries
<1> QED
  BY <1>1 DEF Progress

\* Straight-line code and direct jumps.
LEMMA RunDirectMoves ==
  ASSUME SysInv, NEW c \in Core, RunDirect(c)
  PROVE  Progress(c)
<1> DEFINE t == target[c]
           next == t.pc + IF Code[t.pc].type = "OTHER" THEN Code[t.pc].size ELSE Code[t.pc].imm
<1>1. Ready(c) /\ Quiet(c, Ran(t, next)) /\ channel = <<>>
  BY DEF RunDirect, Runs, CanRun, Ready, Idle
<1> HIDE DEF next
<1> QED
  BY <1>1, QuietMoves, RunProgress

\* A branch, taken or not, in a branch trace.
LEMMA RunBranchBTMMoves ==
  ASSUME SysInv, NEW c \in Core, NEW taken \in BOOLEAN, RunBranchBTM(c, taken)
  PROVE  Progress(c)
<1> DEFINE t == target[c]
           i == Code[t.pc]
           next == t.pc + IF taken THEN i.imm ELSE i.size
           u == Ran(t, next)
           m0 == Message0(c, "DIRECT_BRANCH", u)
           m1 == Message0(c, "DIRECT_BRANCH_WS", u)
           m2 == [m1 EXCEPT !.addr = u.pc]
           sent == [u EXCEPT !.i_cnt = 0]
<1>1. Ready(c) /\ channel = <<>>
  BY DEF RunBranchBTM, Runs, CanRun, Ready, Idle
<1>2. Quiet(c, u) \/ Send(c, m0, sent) \/ Send(c, m2, Synced(u))
  BY DEF RunBranchBTM
<1>3. From(m0, c) /\ From(m1, c)
  BY MessagesFrom
<1> HIDE DEF m0, m1
<1>4. From(m2, c)
  BY <1>3 DEF From
<1> HIDE DEF m2
<1>5. ASSUME NEW r, Carries(u, r) PROVE Moves(c, r)
  <2> HIDE DEF u
  <2>1. Carries(sent, r) /\ Carries(Synced(u), r)
    BY <1>5, StillCarries
  <2> HIDE DEF sent
  <2> QED
    BY <1>1, <1>2, <1>3, <1>4, <1>5, <2>1, QuietMoves, SendMoves
<1> HIDE DEF next
<1> QED
  BY <1>1, <1>5, RunProgress DEF u

\* A branch in a history trace.
LEMMA RunBranchHTMMoves ==
  ASSUME SysInv, NEW c \in Core, NEW taken \in BOOLEAN, RunBranchHTM(c, taken)
  PROVE  Progress(c)
<1> DEFINE t == target[c]
           i == Code[t.pc]
           next == t.pc + IF taken THEN i.imm ELSE i.size
           v == Ran(t, next)
           u == [v EXCEPT !.hist = Append(@, taken)]
           sent == [u EXCEPT !.hist = <<>>]
           full == Full(c)
           m1 == [full EXCEPT !.rCode = 1, !.history = HistoryRegister(u.hist)]
           m2 == [full EXCEPT !.rCode = IF taken THEN 9 ELSE 8, !.count = HistMax]
<1>1. Ready(c) /\ channel = <<>>
  BY DEF RunBranchHTM, Runs, CanRun, Ready, Idle
<1>2. Quiet(c, u) \/ Send(c, m1, sent) \/ Send(c, m2, sent)
  BY DEF RunBranchHTM, Full
<1>3. From(full, c)
  BY MessagesFrom
<1> HIDE DEF full
<1>4. From(m1, c) /\ From(m2, c)
  BY <1>3 DEF From
<1> HIDE DEF m1, m2
<1>5. ASSUME NEW r, Carries(v, r) PROVE Moves(c, r)
  <2> HIDE DEF v
  <2>1. Carries(u, r)
    BY <1>5 DEF Carries
  <2> HIDE DEF u
  <2>2. Carries(sent, r)
    BY <2>1, StillCarries
  <2> HIDE DEF sent
  <2> QED
    BY <1>1, <1>2, <1>4, <2>1, <2>2, QuietMoves, SendMoves
<1> HIDE DEF next
<1> QED
  BY <1>1, <1>5, RunProgress DEF v

\* An indirect jump.
LEMMA RunIndirectMoves ==
  ASSUME SysInv, NEW c \in Core, NEW next, RunIndirect(c, next)
  PROVE  Progress(c)
<1> DEFINE u == Ran(target[c], next)
<1>1. Ready(c) /\ channel = <<>>
  BY DEF RunIndirect, Runs, CanRun, Ready, Idle
<1>2. Quiet(c, u) \/ SendAddress(c, u, "OTHER")
  BY DEF RunIndirect
<1> HIDE DEF u
<1>3. \A r : Carries(u, r) => Moves(c, r)
  BY <1>1, <1>2, QuietMoves, SendAddressMoves
<1> QED
  BY <1>1, <1>3, RunProgress DEF u

\* An instruction that traps, or returns from a trap.
LEMMA RunTrapMoves ==
  ASSUME SysInv, NEW c \in Core, NEW next, RunTrap(c, next)
  PROVE  Progress(c)
<1> DEFINE traps == Code[target[c].pc].type = "ECALL"
           v == Ran(target[c], next)
           u == [v EXCEPT !.trap = traps]
           b == IF traps THEN "EXCEPTION" ELSE "OTHER"
<1>1. Ready(c) /\ channel = <<>>
  BY DEF RunTrap, Runs, CanRun, Ready, Idle
<1>2. SendAddress(c, u, b)
  BY DEF RunTrap
<1> HIDE DEF v, traps
<1>3. ASSUME NEW r, Carries(v, r) PROVE Moves(c, r)
  <2>1. Carries(u, r)
    BY <1>3 DEF Carries
  <2> HIDE DEF u, b
  <2> QED
    BY <1>1, <1>2, <2>1, SendAddressMoves
<1> QED
  BY <1>1, <1>3, RunProgress DEF v

\* Where no instruction is executed.
LEMMA NoRunProgress ==
  ASSUME NEW c \in Core, Moves(c, target[c].run)
  PROVE  Progress(c)
BY DEF Progress

\* An encoder carries what it has to send.
LEMMA TargetCarries ==
  ASSUME SysInv, NEW c \in Core
  PROVE  Carries(target[c], target[c].run)
BY DEF SysInv, Encoder, Carries

\* An interrupt between two instructions.
LEMMA InterruptMoves ==
  ASSUME SysInv, NEW c \in Core, NEW handler, Interrupt(c, handler)
  PROVE  Progress(c)
<1> DEFINE t == target[c]
           u == [t EXCEPT !.pc = handler, !.trap = TRUE]
<1>1. channel = <<>> /\ SendAddress(c, u, "EXCEPTION")
  BY DEF Interrupt, Ready, Idle
<1>2. Carries(t, t.run)
  BY TargetCarries
<1> HIDE DEF t
<1>3. Carries(u, t.run)
  BY <1>2 DEF Carries
<1> HIDE DEF u
<1>4. Moves(c, t.run)
  BY <1>1, <1>3, SendAddressMoves
<1> QED
  BY <1>4, NoRunProgress DEF t

\* A count that is sent.
LEMMA SendCountMoves ==
  ASSUME SysInv, NEW c \in Core, SendCount(c)
  PROVE  Progress(c)
<1> DEFINE t == target[c]
           m0 == Message0(c, "RESOURCEFULL", t)
           m1 == Message0(c, "SYNC", t)
           m2 == [m1 EXCEPT !.addr = t.pc]
           sent == [t EXCEPT !.i_cnt = 0]
<1>1. channel = <<>> /\ (Send(c, m0, sent) \/ Send(c, m2, Synced(t)))
  BY DEF SendCount, Ready, Idle
<1>2. Carries(t, t.run) /\ From(m0, c) /\ From(m1, c)
  BY TargetCarries, MessagesFrom
<1> HIDE DEF t, m0, m1
<1>3. Carries(sent, t.run) /\ Carries(Synced(t), t.run)
  BY <1>2, StillCarries
<1>4. From(m2, c)
  BY <1>2 DEF From
<1> HIDE DEF m2, sent
<1>5. Moves(c, t.run)
  BY <1>1, <1>2, <1>3, <1>4, SendMoves
<1> QED
  BY <1>5, NoRunProgress DEF t

\* The end of tracing.
LEMMA StopTraceMoves ==
  ASSUME SysInv, NEW c \in Core, StopTrace(c)
  PROVE  Progress(c)
<1> DEFINE t == target[c]
           m0 == Message0(c, "CORRELATION", t)
           m1 == [m0 EXCEPT !.cdf = 1, !.history = HistoryRegister(t.hist)]
           m == IF traceMode = "BTM" THEN m0 ELSE m1
           u == [NewTarget(0) EXCEPT !.run = t.run]
<1>1. channel = <<>> /\ Send(c, m, u)
  BY DEF StopTrace, Ready, Idle
<1>2. From(m0, c)
  BY MessagesFrom
<1> HIDE DEF t, m0
<1>3. From(m, c)
  BY <1>2 DEF From
<1>4. Carries(u, t.run)
  BY DEF Carries, NewTarget
<1> HIDE DEF m, u
<1>5. Moves(c, t.run)
  BY <1>1, <1>3, <1>4, SendMoves
<1> QED
  BY <1>5, NoRunProgress DEF t

\* A start, of which nothing executed is part.
LEMMA StartTraceMoves ==
  ASSUME SysInv, NEW c \in Core, NEW a, StartTrace(c, a)
  PROVE  Progress(c)
<1> DEFINE t == [NewTarget(a) EXCEPT !.mode = "on", !.ref = a]
           m0 == Message0(c, "SYNC", t)
           m1 == [m0 EXCEPT !.addr = a]
           sync == [msg |-> m1, covers |-> <<>>]
           error == [msg |-> Message0(c, "ERROR", t), covers |-> <<>>]
<1>1. /\ channel' = IF target[c].mode = "lost" THEN <<error, sync>> ELSE <<sync>>
      /\ target' = [target EXCEPT ![c] = t]
  BY DEF StartTrace
<1>2. t.run = <<>>
  BY DEF NewTarget
<1>3. From(m0, c)
  BY MessagesFrom
<1> HIDE DEF m0, t
<1>4. sync.msg.core = c /\ sync.covers = <<>> /\ error.covers = <<>>
  BY <1>3 DEF From
<1> HIDE DEF sync, error
<1>5. target'[c] = t /\ \A d \in Core : d # c => target'[d] = target[d]
  BY <1>1 DEF SysInv
<1>6. CASE channel' = <<error, sync>>
  <2>1. Len(<<error, sync>>) = 2 /\ <<error, sync>>[1] = error /\ <<error, sync>>[2] = sync
    OBVIOUS
  <2> QED
    BY <1>2, <1>4, <1>5, <1>6, <2>1, NoRunProgress DEF Moves
<1>7. CASE channel' = <<sync>>
  <2>1. Len(<<sync>>) = 1 /\ <<sync>>[1] = sync
    OBVIOUS
  <2> QED
    BY <1>2, <1>4, <1>5, <1>7, <2>1, NoRunProgress DEF Moves
<1> QED
  BY <1>1, <1>6, <1>7

\* Whatever a core does.
LEMMA TargetMoves ==
  ASSUME SysInv, TargetStep
  PROVE  \E d \in Core : Progress(d) /\ channel = <<>>
<1>1. PICK c \in Core : Target(c)
  BY DEF TargetStep
<1>2. channel = <<>>
  BY <1>1 DEF Target, RunDirect, SendCount, StopTrace, RunBranchBTM, RunBranchHTM, RunIndirect, RunTrap,
              Interrupt, StartTrace, Runs, CanRun, Ready, Idle
<1>3. CASE \E taken \in BOOLEAN : RunBranchBTM(c, taken) \/ RunBranchHTM(c, taken)
  BY <1>2, <1>3, RunBranchBTMMoves, RunBranchHTMMoves
<1>4. CASE \E a \in Targets \cup {Top(target[c].calls)} : a # NoAddr /\ RunIndirect(c, a)
  BY <1>2, <1>4, RunIndirectMoves
<1>5. CASE \E a \in Targets : RunTrap(c, a) \/ Interrupt(c, a) \/ StartTrace(c, a)
  BY <1>2, <1>5, RunTrapMoves, InterruptMoves, StartTraceMoves
<1> QED
  BY <1>1, <1>2, <1>3, <1>4, <1>5, RunDirectMoves, SendCountMoves, StopTraceMoves DEF Target

-----------------------------------------------------------------------------
(* Every step is one of the abstract specification.                        *)

\* The three places have instructions.
LEMMA PlacesTyped ==
  ASSUME SysInv, NEW c \in Core
  PROVE  /\ pending[c] \in Seq(Entry) /\ channel \in Seq(Queued)
         /\ CoveredBy(channel, c) \in Seq(Entry) /\ target[c].run \in Seq(Entry)
<1>1. pending[c] \in Seq(Entry) /\ channel \in Seq(Queued) /\ target[c].run \in Seq(Entry)
  BY DEF SysInv, Queued, Encoder
<1> QED
  BY <1>1, CoveredType

\* Of what core c executed nothing is under way in an empty channel.
LEMMA NothingUnderWay ==
  ASSUME NEW c, NEW p \in Seq(Entry), NEW r
  PROVE  p \o CoveredBy(<<>>, c) \o r = p \o r
BY CoveredNone, ConcatEmptySeq

\* The step of a core: nothing changes for the others.
LEMMA TargetStream ==
  ASSUME SysInv, SysInv', TargetStep, NEW c \in Core
  PROVE  Stream(c)!Next
<1> PICK d \in Core : Progress(d) /\ channel = <<>>
  BY TargetMoves
<1>1. UNCHANGED pending /\ Returned(c)' = <<>>
  BY DEF TargetStep, Returned
<1> DEFINE P == pending[c]
           q == channel'
           s == target[c].run
           v == target'[c].run
<1>2. P \in Seq(Entry) /\ s \in Seq(Entry) /\ v \in Seq(Entry) /\ q \in Seq(Queued)
  BY PlacesTyped DEF SysInv, Queued, Encoder
<1>3. Executed(c) = Addresses(P \o s)
  BY <1>2, NothingUnderWay DEF Executed
<1>4. Executed(c)' = Addresses(P \o CoveredBy(q, c) \o v)
  BY <1>1 DEF Executed
<1>5. PICK r : /\ r = target[d].run \/ \E n \in Entry : r = Append(target[d].run, n)
               /\ Moves(d, r)
  BY DEF Progress
<1>6. P \o s \in Seq(Entry)
  BY <1>2, ConcatProperties
<1>7. ASSUME NEW x \in Seq(Entry) PROVE <<>> \o x = x /\ x \o <<>> = x
  BY ConcatEmptySeq
<1> HIDE DEF P, q, s, v
<1>8. CASE c # d
  <2>1. v = s
    BY <1>5, <1>8 DEF Moves, s, v
  <2>2. CoveredBy(q, c) = <<>>
    <3>1. CASE q = <<>>
      BY <3>1, CoveredNone
    <3>2. CASE Len(q) = 1 /\ q[1].msg.core = d
      BY <1>2, <1>8, <3>2, CoveredOne DEF Share
    <3>3. CASE Len(q) = 2 /\ q[1].covers = <<>> /\ q[2].covers = <<>>
      BY <1>2, <3>3, CoveredByNeither
    <3> QED
      BY <1>5, <3>1, <3>2, <3>3 DEF Moves, q
  <2>3. Executed(c)' = Addresses(P \o s)
    BY <1>2, <1>4, <1>7, <2>1, <2>2
  <2> QED
    BY <1>1, <1>3, <1>6, <2>3, KeptStep
<1>9. CASE c = d
  <2>1. r \in Seq(Entry) /\ (r = s \/ \E n \in Entry : r = Append(s, n))
    <3>1. r = s \/ \E n \in Entry : r = Append(s, n)
      BY <1>5, <1>9 DEF s
    <3>2. \A n \in Entry : Append(s, n) \in Seq(Entry)
      BY <1>2, AppendProperties
    <3> QED
      BY <1>2, <3>1, <3>2
  <2>2. CoveredBy(q, c) \o v \in {r, <<>>} /\ CoveredBy(q, c) \in Seq(Entry)
    <3>1. CASE q = <<>> /\ v \in {r, <<>>}
      <4>1. CoveredBy(q, c) = <<>> /\ <<>> \in Seq(Entry)
        BY <3>1, CoveredNone
      <4>2. CoveredBy(q, c) \o v = v
        BY <1>2, <1>7, <4>1
      <4> QED
        BY <3>1, <4>1, <4>2
    <3>2. CASE Len(q) = 1 /\ q[1].msg.core = d /\ q[1].covers \in {r, <<>>} /\ v = <<>>
      <4>1. CoveredBy(q, c) \in {r, <<>>} /\ <<>> \in Seq(Entry)
        BY <1>2, <1>9, <3>2, CoveredOne DEF Share
      <4> QED
        BY <1>7, <2>1, <3>2, <4>1
    <3>3. CASE Len(q) = 2 /\ q[1].covers = <<>> /\ q[2].covers = <<>> /\ v = <<>>
      BY <1>2, <1>7, <3>3, CoveredByNeither
    <3> QED
      BY <1>5, <1>9, <3>1, <3>2, <3>3 DEF Moves, q, v
  <2>3. P \o CoveredBy(q, c) \o v = P \o (CoveredBy(q, c) \o v)
    <3> DEFINE k == CoveredBy(q, c)
    <3>1. k \in Seq(Entry)
      BY <2>2
    <3> HIDE DEF k
    <3>2. P \o k \o v = P \o (k \o v)
      BY <1>2, <3>1, ConcatAssociative
    <3> QED
      BY <3>2 DEF k
  <2>4. CASE CoveredBy(q, c) \o v = <<>>
    <3>1. Executed(c)' = Addresses(P \o <<>>)
      BY <1>4, <2>3, <2>4
    <3>2. Executed(c) = Addresses(P \o s \o <<>>)
      BY <1>3, <1>6, <1>7
    <3> QED
      BY <1>1, <1>2, <3>1, <3>2, EmptySeq, CutStep
  <2>5. CASE CoveredBy(q, c) \o v = r /\ r = s
    <3>1. Executed(c)' = Addresses(P \o s)
      BY <1>4, <2>3, <2>5
    <3> QED
      BY <1>1, <1>3, <1>6, <3>1, KeptStep
  <2>6. CASE CoveredBy(q, c) \o v = r /\ \E n \in Entry : r = Append(s, n)
    <3>1. PICK n \in Entry : r = Append(s, n)
      BY <2>6
    <3>2. P \o Append(s, n) = Append(P \o s, n)
      <4>1. <<n>> \in Seq(Entry)
        OBVIOUS
      <4>2. Append(s, n) = s \o <<n>> /\ Append(P \o s, n) = (P \o s) \o <<n>>
        BY <1>2, <1>6, AppendIsConcat
      <4> QED
        BY <1>2, <4>1, <4>2, ConcatAssociative
    <3>3. Executed(c)' = Addresses(Append(P \o s, n))
      BY <1>4, <2>3, <2>6, <3>1, <3>2
    <3> QED
      BY <1>1, <1>3, <1>6, <3>3, GrownStep
  <2> QED
    BY <2>1, <2>2, <2>4, <2>5, <2>6
<1> QED
  BY <1>8, <1>9

\* What the decoder reads it has to return; an error message takes away what
\* it had to.
LEMMA ReadStream ==
  ASSUME SysInv, SysInv', ReadStep, NEW c \in Core
  PROVE  Stream(c)!Next
<1> DEFINE h == Head(channel)
           P == pending[c]
           s == target[c].run
<1>1. /\ channel # <<>> /\ channel' = Tail(channel) /\ UNCHANGED target /\ Read(h.msg)
      /\ pending' = [pending EXCEPT ![h.msg.core] = IF h.msg.tcode = "ERROR" THEN <<>> ELSE @ \o h.covers]
  BY DEF ReadStep
<1>2. Returned(c)' = <<>> /\ readNewTraceMessage
  BY <1>1 DEF Read, Returned
<1>3. /\ P \in Seq(Entry) /\ s \in Seq(Entry) /\ channel \in Seq(Queued)
      /\ pending \in [Core -> Seq(Entry)]
  BY PlacesTyped DEF SysInv
<1>4. h = channel[1] /\ h \in Queued /\ h.msg.core \in Core /\ h.covers \in Seq(Entry)
  <2>1. h = channel[1] /\ h \in Queued
    BY <1>1, <1>3, HeadTailProperties
  <2> HIDE DEF h
  <2> QED
    BY <2>1 DEF Queued, Message
<1>5. Arriving(h.msg.core)
  BY <1>1, <1>2, <1>4 DEF SysInv, Busy
<1>6. ASSUME NEW x \in Seq(Entry) PROVE <<>> \o x = x /\ x \o <<>> = x
  BY ConcatEmptySeq
<1>7. P \o s \in Seq(Entry)
  BY <1>3, ConcatProperties
<1>8. Executed(c) = Addresses(P \o CoveredBy(channel, c) \o s)
  BY DEF Executed
<1>9. Executed(c)' = Addresses(pending'[c] \o CoveredBy(channel', c) \o s)
  BY <1>1 DEF Executed
<1> HIDE DEF h, P, s
<1>10. CASE /\ h.msg.tcode = "ERROR" /\ h.covers = <<>>
            /\ Len(channel) = 2 /\ channel[2].covers = <<>>
  <2>1. CoveredBy(channel, c) = <<>>
    BY <1>3, <1>4, <1>10, CoveredByNeither
  <2>2. CoveredBy(channel', c) = <<>>
    <3>1. Tail(channel) \in Seq(Queued) /\ Len(Tail(channel)) = 1 /\ Tail(channel)[1] = channel[2]
      <4>1. /\ Tail(channel) \in Seq(Queued) /\ Len(Tail(channel)) = Len(channel) - 1
            /\ \A i \in 1..Len(Tail(channel)) : Tail(channel)[i] = channel[i + 1]
        BY <1>1, <1>3, HeadTailProperties
      <4> DEFINE t == Tail(channel)
      <4> HIDE DEF t
      <4>2. Len(t) = 1 /\ 1 \in 1..Len(t) /\ 1 + 1 = 2
        <5>1. Len(t) = 2 - 1
          BY <1>10, <4>1 DEF t
        <5> QED
          BY <5>1
      <4>3. \A i \in 1..Len(t) : t[i] = channel[i + 1]
        BY <4>1 DEF t
      <4>4. t[1] = channel[2]
        BY <4>2, <4>3
      <4> QED
        BY <4>1, <4>2, <4>4 DEF t
    <3> QED
      BY <1>1, <1>10, <3>1, CoveredOne DEF Share
  <2>3. Executed(c) = Addresses(P \o s) /\ Executed(c)' = Addresses(pending'[c] \o s)
    <3>1. pending'[c] \in Seq(Entry)
      BY DEF SysInv
    <3> QED
      BY <1>3, <1>6, <1>8, <1>9, <2>1, <2>2, <3>1
  <2>4. CASE pending'[c] = P
    BY <1>2, <1>7, <2>3, <2>4, KeptStep
  <2>5. CASE pending'[c] = <<>>
    <3>1. Executed(c) = Addresses(<<>> \o P \o s)
      BY <1>3, <1>6, <2>3
    <3> QED
      BY <1>2, <1>3, <2>3, <2>5, <3>1, EmptySeq, CutStep
  <2> QED
    BY <1>1, <1>3, <1>10, <2>4, <2>5 DEF P
<1>11. CASE Len(channel) = 1 /\ h.msg.tcode # "ERROR"
  <2>1. CoveredBy(channel, c) = Share(h, c)
    BY <1>3, <1>4, <1>11, CoveredOne
  <2>2. CoveredBy(channel', c) = <<>>
    <3>1. Tail(channel) = <<>>
      <4>1. Len(Tail(channel)) = 0 /\ Tail(channel) \in Seq(Queued)
        BY <1>1, <1>3, <1>11, HeadTailProperties
      <4> QED
        BY <4>1, EmptySeq
    <3> QED
      BY <1>1, <3>1, CoveredNone
  <2>3. pending'[c] = P \o Share(h, c)
    BY <1>1, <1>3, <1>6, <1>11 DEF Share, P
  <2>4. P \o Share(h, c) \in Seq(Entry) /\ P \o Share(h, c) \o s \in Seq(Entry)
    BY <1>3, <1>4, ConcatProperties, EmptySeq DEF Share
  <2>5. /\ Executed(c) = Addresses(P \o Share(h, c) \o s)
        /\ Executed(c)' = Addresses(P \o Share(h, c) \o s)
    BY <1>6, <1>8, <1>9, <2>1, <2>2, <2>3, <2>4
  <2> QED
    BY <1>2, <2>4, <2>5, KeptStep
<1>12. h.msg.tcode = "ERROR" => ~\E k, Q, t : Incoming(k, h.msg, Q, t)
  <2> SUFFICES ASSUME h.msg.tcode = "ERROR", NEW k, NEW Q, NEW t, Incoming(k, h.msg, Q, t) PROVE FALSE
    OBVIOUS
  <2>1. ~Starts(h.msg, t)
    BY DEF Starts
  <2>2. PICK x, tr : WorkPath(x, h.msg, Q, t, tr)
    BY <2>1 DEF Incoming, InWork
  <2>3. EndsPath(x, h.msg, Q, t, tr)
    BY <2>2 DEF WorkPath
  <2> QED
    BY <2>3 DEF EndsPath, IndirectTCodes, SyncingTCodes
<1> QED
  BY <1>5, <1>10, <1>11, <1>12 DEF Arriving, Restarts, h

\* The core of an instruction returned is the one whose message is in work.
LEMMA ReturnsOfCurrent ==
  ASSUME Decode, Returns
  PROVE  instInfo'.core = currentCore
<1>1. CASE FirstSync \/ FirstSkip \/ FirstError \/ FirstRefuse \/ CountsExhausted \/ NoInstructionThere
  BY <1>1 DEF FirstSync, FirstSkip, FirstError, FirstRefuse, CountsExhausted, NoInstructionThere,
              Silent, Returns
<1>2. CASE FirstSyncICT
  BY <1>2 DEF FirstSyncICT, Fail, EventInst, Returns
<1>3. CASE GetMsgWithCount \/ GetNextMsg
  BY <1>3 DEF GetMsgWithCount, GetNextMsg, TakeCounts, RetireICT, LoseTrace, RetireOther, Refuse,
              Fail, Silent, EventInst, Returns
<1>4. CASE NextInst
  BY <1>4 DEF NextInst, Fail, Returns
<1>5. CASE RetireMessage \/ RetireCorrelation
  BY <1>5 DEF RetireMessage, RetireCorrelation, Silent, Returns
<1> QED
  BY <1>1, <1>2, <1>3, <1>4, <1>5 DEF Decode

\* The decoder returns the first instruction that its core has left.
LEMMA DecodeStream ==
  ASSUME SysInv, SysInv', DecodeStep, StreamStep, NEW c \in Core
  PROVE  Stream(c)!Next
<1> DEFINE P == pending[c]
           f == CoveredBy(channel, c)
           s == target[c].run
           b == currentCore
<1>1. /\ UNCHANGED <<target, channel>>
      /\ pending' = IF Returns /\ pending[b] # <<>> THEN [pending EXCEPT ![b] = Tail(@)] ELSE pending
      /\ Decode
  BY DEF DecodeStep
<1>2. /\ P \in Seq(Entry) /\ f \in Seq(Entry) /\ s \in Seq(Entry) /\ pending \in [Core -> Seq(Entry)]
      /\ b \in Core
  BY PlacesTyped DEF SysInv, IInv, TypeOK
<1>3. /\ Executed(c) = Addresses(P \o f \o s)
      /\ Executed(c)' = Addresses(pending'[c] \o f \o s)
  BY <1>1 DEF Executed
<1>4. P \o f \in Seq(Entry) /\ P \o f \o s \in Seq(Entry) /\ f \o s \in Seq(Entry)
      /\ P \o f \o s = P \o (f \o s)
  <2> HIDE DEF P, f, s
  <2>1. P \o f \in Seq(Entry) /\ f \o s \in Seq(Entry)
    BY <1>2, ConcatProperties
  <2>2. (P \o f) \o s \in Seq(Entry)
    BY <1>2, <2>1, ConcatProperties
  <2>3. (P \o f) \o s = P \o (f \o s)
    BY <1>2, ConcatAssociative
  <2> QED
    BY <2>1, <2>2, <2>3
<1> HIDE DEF f, s, P
<1>5. CASE ~(Returns /\ b = c)
  <2>1. pending'[c] = P
    BY <1>1, <1>2, <1>5 DEF P
  <2>2. Returned(c)' = <<>>
    BY <1>1, <1>5, ReturnsOfCurrent DEF Returned, Returns
  <2> QED
    BY <1>3, <1>4, <2>1, <2>2, KeptStep
<1>6. CASE Returns /\ b = c
  <2>1. P # <<>> /\ instInfo'.address = Head(P).address /\ instInfo'.core = c
    BY <1>1, <1>6, ReturnsOfCurrent DEF StreamStep, P
  <2>2. pending'[c] = Tail(P)
    BY <1>1, <1>2, <1>6, <2>1 DEF P
  <2>3. Returned(c)' = <<Head(P).address>>
    BY <1>6, <2>1 DEF Returned, Returns
  <2> DEFINE x == P \o (f \o s)
  <2>4. x # <<>> /\ Head(x) = Head(P) /\ Tail(x) = Tail(P) \o (f \o s)
    BY <1>2, <1>4, <2>1
  <2>5. Tail(P) \o f \o s = Tail(P) \o (f \o s)
    <3> DEFINE t == Tail(P)
    <3>1. t \in Seq(Entry)
      BY <1>2, <2>1, HeadTailProperties
    <3> HIDE DEF t
    <3> DEFINE E == Seq(Entry)
    <3>2. \A k, l, m \in E : (k \o l) \o m = k \o (l \o m)
      BY ConcatAssociative
    <3>3. t \in E /\ f \in E /\ s \in E
      BY <1>2, <3>1
    <3> HIDE DEF E
    <3>4. (t \o f) \o s = t \o (f \o s)
      BY <3>2, <3>3
    <3> QED
      BY <3>4 DEF t
  <2>6. x \in Seq(Entry) /\ Executed(c) = Addresses(x) /\ Executed(c)' = Addresses(Tail(x))
    BY <1>3, <1>4, <2>2, <2>4, <2>5
  <2> HIDE DEF x
  <2> QED
    BY <2>3, <2>4, <2>6, ReturnedStep
<1> QED
  BY <1>5, <1>6

\* TraceSystem implements ExecutionStream for every core: the decoder returns
\* what the core executed, in order and once, with gaps only where messages were
\* lost.
THEOREM ImplementsExecutionStream == ASSUME CallsFit PROVE SysSpec => ReturnsTheExecution
<1>1. SysInit => \A c \in Core : Stream(c)!Init
  <2> SUFFICES ASSUME SysInit, NEW c \in Core PROVE Stream(c)!Init
    OBVIOUS
  <2>1. Returned(c) = <<>>
    BY DEF SysInit, Init, Returned
  <2>2. pending[c] = <<>> /\ channel = <<>> /\ target[c].run = <<>>
    BY DEF SysInit, NewTarget
  <2>3. CoveredBy(channel, c) = <<>>
    BY <2>2, CoveredNone
  <2>4. pending[c] \o CoveredBy(channel, c) \o target[c].run = <<>> /\ <<>> \in Seq(Entry)
    BY <2>2, <2>3, EmptySeq, ConcatEmptySeq
  <2>5. Executed(c) = Addresses(<<>>)
    BY <2>4 DEF Executed
  <2>6. Addresses(<<>>) = <<>>
    BY <2>4, EmptySeq, AddressesAre
  <2> QED
    BY <2>1, <2>5, <2>6 DEF Stream!Init
<1>2. SysInv /\ SysInv' /\ [SysNext]_sysVars
        => [\A c \in Core : [Stream(c)!Next]_<<Executed(c), Returned(c)>>]_sysVars
  <2> SUFFICES ASSUME SysInv, SysInv', SysNext, NEW c \in Core PROVE Stream(c)!Next
    OBVIOUS
  <2>1. CASE TargetStep
    BY <2>1, TargetStream
  <2>2. CASE ReadStep
    BY <2>2, ReadStream
  <2>3. CASE DecodeStep
    BY <2>3, SysStep, DecodeStream DEF SysNext
  <2> QED
    BY <2>1, <2>2, <2>3 DEF SysNext
<1> QED
  BY <1>1, <1>2, SysInvariance, PTL DEF SysSpec, ReturnsTheExecution

-----------------------------------------------------------------------------
(* Handlers.                                                               *)
(*                                                                         *)
(* Where no message is lost and tracing goes on, the first instruction     *)
(* ahead is the one that the decoder has a mark for, the encoder has its   *)
(* trap bit when nothing is ahead, and a message that announces a handler  *)
(* stands between the two.                                                 *)

\* Of q, to be returned, only the first may begin a handler, and isr says whether
\* it does; what comes after q does if flag, in a message behind q, says so.
MarksOf(q, isr, trap, flag) ==
  /\ \A n \in 2..Len(q) : ~q[n].isr
  /\ q # <<>> => isr = q[1].isr
  /\ trap = (flag \/ (q = <<>> /\ isr))

Marked(c) ==
  LET k == core[c]
      t == target[c]
      m == IF readNewTraceMessage THEN Head(channel).msg ELSE nm
      q == IF readNewTraceMessage THEN pending[c] \o Head(channel).covers ELSE pending[c]
  IN /\ IF Busy(c) THEN t.run = <<>> /\ MarksOf(q, k.enterISR, t.trap, EntersISR(m))
                   ELSE MarksOf(pending[c] \o t.run, k.enterISR, t.trap, FALSE)
     /\ t.mode # "lost"
     /\ t.mode = "off" => t.run = <<>> /\ ~t.trap

MarksInv ==
  /\ Len(channel) <= 1 /\ (~readNewTraceMessage => channel = <<>>)
  /\ \A c \in Core : Marked(c)

\* An instruction behind the others is the first of a handler if the encoder says so.
LEMMA MarksGrow ==
  ASSUME NEW q \in Seq(Entry), NEW isr \in BOOLEAN, NEW trap \in BOOLEAN,
         MarksOf(q, isr, trap, FALSE), NEW n \in Entry, n.isr = trap, NEW flag \in BOOLEAN
  PROVE  MarksOf(Append(q, n), isr, flag, flag)
<1>1. /\ Len(q) \in Nat /\ Len(Append(q, n)) = Len(q) + 1
      /\ \A i \in 1..Len(q) : Append(q, n)[i] = q[i]
      /\ Append(q, n)[Len(q) + 1] = n
  BY LenProperties, AppendProperties
<1>2. Append(q, n) # <<>>
  BY <1>1
<1> DEFINE p == Append(q, n)
<1> HIDE DEF p
<1>3. CASE q = <<>>
  <2>1. Len(q) = 0 /\ p[1] = n /\ Len(p) = 1
    BY <1>1, <1>3 DEF p
  <2>2. n.isr = isr
    BY <1>3 DEF MarksOf
  <2>3. isr = p[1].isr /\ \A i \in 2..Len(p) : ~p[i].isr
    BY <2>1, <2>2
  <2> QED
    BY <1>2, <2>3 DEF MarksOf, p
<1>4. CASE q # <<>>
  <2>1. Len(q) \in Nat \ {0}
    BY <1>1, <1>4, EmptySeq
  <2>2. ~trap
    BY <1>4 DEF MarksOf
  <2>3. p[1] = q[1]
    <3>1. 1 \in 1..Len(q)
      BY <2>1
    <3> QED
      BY <1>1, <3>1 DEF p
  <2>4. ASSUME NEW i \in 2..Len(p) PROVE ~p[i].isr
    <3>1. i = Len(q) + 1 \/ (i \in 2..Len(q) /\ i \in 1..Len(q))
      BY <1>1, <2>1 DEF p
    <3>2. CASE i = Len(q) + 1
      BY <1>1, <2>2, <3>2 DEF p
    <3>3. CASE i \in 2..Len(q) /\ i \in 1..Len(q)
      <4>1. p[i] = q[i]
        BY <1>1, <3>3 DEF p
      <4>2. ~q[i].isr
        BY <3>3 DEF MarksOf
      <4> QED
        BY <4>1, <4>2
    <3> QED
      BY <3>1, <3>2, <3>3
  <2>5. isr = p[1].isr
    BY <1>4, <2>3 DEF MarksOf
  <2> QED
    BY <1>2, <2>4, <2>5 DEF MarksOf, p
<1> QED
  BY <1>3, <1>4

\* The first instruction is returned, and its mark with it.
LEMMA MarksTail ==
  ASSUME NEW q \in Seq(Entry), q # <<>>, NEW isr \in BOOLEAN, NEW trap \in BOOLEAN,
         NEW flag \in BOOLEAN, MarksOf(q, isr, trap, flag)
  PROVE  MarksOf(Tail(q), FALSE, trap, flag)
<1>1. /\ Len(q) \in Nat /\ Len(q) # 0 /\ Tail(q) \in Seq(Entry) /\ Len(Tail(q)) = Len(q) - 1
      /\ \A i \in 1..Len(Tail(q)) : Tail(q)[i] = q[i + 1]
  BY LenProperties, EmptySeq, HeadTailProperties
<1> DEFINE p == Tail(q)
<1> HIDE DEF p
<1>2. \A i \in 1..Len(p) : i + 1 \in 2..Len(q) /\ p[i] = q[i + 1]
  BY <1>1 DEF p
<1>3. \A i \in 1..Len(p) : ~p[i].isr
  BY <1>2 DEF MarksOf
<1>4. p # <<>> => 1 \in 1..Len(p)
  <2>1. p \in Seq(Entry) /\ Len(p) \in Nat
    BY <1>1 DEF p
  <2> QED
    BY <2>1, EmptySeq
<1>5. \A i \in 1..Len(p) : p[i].isr \in BOOLEAN
  <2>1. p \in Seq(Entry)
    BY <1>1 DEF p
  <2>2. \A i \in 1..Len(p) : p[i] \in Entry
    BY <2>1, ElementOfSeq
  <2> QED
    BY <2>2 DEF Entry
<1>6. p # <<>> => FALSE = p[1].isr
  BY <1>3, <1>4, <1>5
<1>7. \A i \in 2..Len(p) : ~p[i].isr
  <2>1. \A i \in 2..Len(p) : i \in 1..Len(p)
    BY <1>1 DEF p
  <2> QED
    BY <1>3, <2>1
<1>8. trap = flag
  BY DEF MarksOf
<1>9. trap = (flag \/ (p = <<>> /\ FALSE))
  BY <1>8
<1>10. MarksOf(p, FALSE, trap, flag)
  BY <1>6, <1>7, <1>9 DEF MarksOf
<1> QED
  BY <1>10 DEF p

\* An announcement becomes the mark where nothing is ahead of it.
LEMMA MarksRetire ==
  ASSUME NEW q, NEW isr \in BOOLEAN, NEW trap \in BOOLEAN, NEW flag \in BOOLEAN,
         MarksOf(q, isr, trap, flag), flag => q = <<>>
  PROVE  MarksOf(q, isr \/ flag, trap, FALSE)
BY Zenon DEF MarksOf

\* A trap behind what is ahead.
LEMMA MarksSend ==
  ASSUME NEW q, NEW isr \in BOOLEAN, NEW trap \in BOOLEAN, MarksOf(q, isr, trap, FALSE),
         NEW flag \in BOOLEAN
  PROVE  MarksOf(q, isr, flag \/ trap, flag)
BY Zenon DEF MarksOf


\* Core d goes on with r to send and trap bit b; its message says flag.
Goes(d, r, b, flag) ==
  /\ \A c \in Core : c # d => target'[c] = target[c]
  /\ target'[d].mode = "on" /\ target'[d].trap = b
  /\ \/ channel' = <<>> /\ target'[d].run = r /\ ~flag
     \/ /\ Len(channel') = 1 /\ channel'[1].msg.core = d /\ channel'[1].covers = r
        /\ EntersISR(channel'[1].msg) = flag /\ target'[d].run = <<>>

\* It executed an instruction, and traps where its message says so, or it
\* executed none.
Advances(d) ==
  \E flag \in BOOLEAN :
    \/ \E n \in Entry : /\ n.isr = target[d].trap
                        /\ Goes(d, Append(target[d].run, n), flag, flag)
    \/ Goes(d, target[d].run, flag \/ target[d].trap, flag)

\* t is an encoder, or was made from one, that is on, has r to send and trap bit b.
Bears(t, r, b) ==
  /\ {"run", "trap", "mode"} \subseteq DOMAIN t
  /\ t.run = r /\ t.trap = b /\ t.mode = "on"

\* A message of core c, or one made from it, that announces a handler if flag.
Announces(m, c, flag) ==
  /\ {"core", "tcode", "b_type"} \subseteq DOMAIN m
  /\ m.core = c /\ EntersISR(m) = flag

\* A message that is sent where none can be lost.
LEMMA SendGoes ==
  ASSUME ~Lossy, SysInv, channel = <<>>, NEW c \in Core, NEW flag, NEW m, Announces(m, c, flag),
         NEW t, NEW r, NEW b, Bears(t, r, b), Send(c, m, t)
  PROVE  Goes(c, r, b, flag)
<1>1. target \in [Core -> Encoder]
  BY DEF SysInv
<1> DEFINE e == [msg |-> m, covers |-> t.run]
           u == [t EXCEPT !.run = <<>>]
<1>2. /\ u.run = <<>> /\ u.trap = b /\ u.mode = "on"
      /\ e.msg = m /\ e.covers = r
  BY DEF Bears
<1>3. channel' = Append(channel, e) /\ target' = [target EXCEPT ![c] = u]
  BY DEF Send
<1> HIDE DEF e, u
<1>4. Append(channel, e) = <<e>> /\ Len(<<e>>) = 1 /\ <<e>>[1] = e
  OBVIOUS
<1>5. target'[c] = u /\ \A d \in Core : d # c => target'[d] = target[d]
  BY <1>1, <1>3
<1>6. m.core = c /\ EntersISR(m) = flag
  BY DEF Announces
<1>7. channel'[1].msg = m /\ channel'[1].covers = r /\ Len(channel') = 1
  BY <1>2, <1>3, <1>4
<1> QED
  BY <1>2, <1>5, <1>6, <1>7 DEF Goes

\* Where nothing is sent.
LEMMA QuietGoes ==
  ASSUME SysInv, channel = <<>>, NEW c \in Core, NEW t, NEW r, NEW b, Bears(t, r, b), Quiet(c, t)
  PROVE  Goes(c, r, b, FALSE)
<1>1. target'[c] = t /\ \A d \in Core : d # c => target'[d] = target[d]
  BY DEF SysInv, Quiet
<1> QED
  BY <1>1 DEF Goes, Quiet, Bears

\* Messages of encoders do not announce handlers unless they are made to.
LEMMA MessagesAnnounce ==
  ASSUME NEW c, NEW tcode, NEW t
  PROVE  Announces(Message0(c, tcode, t), c, FALSE) /\ Announces(Full(c), c, FALSE)
BY DEF Message0, Announces, EntersISR, NoMsg, Full

\* The other fields say nothing of handlers.
LEMMA StillAnnounces ==
  ASSUME NEW m, NEW c, NEW flag, Announces(m, c, flag), NEW x, NEW y
  PROVE  /\ Announces([m EXCEPT !.addr = x], c, flag)
         /\ Announces([m EXCEPT !.rCode = x, !.history = y], c, flag)
         /\ Announces([m EXCEPT !.rCode = x, !.count = y], c, flag)
         /\ Announces([m EXCEPT !.cdf = x, !.history = y], c, flag)
BY DEF Announces, EntersISR

\* What the encoder clears of itself concerns neither run nor trap bit.
LEMMA StillBears ==
  ASSUME NEW t, NEW r, NEW b, Bears(t, r, b), NEW x
  PROVE  /\ Bears(Synced(t), r, b) /\ Bears([t EXCEPT !.i_cnt = 0], r, b)
         /\ Bears([t EXCEPT !.hist = x], r, b)
         /\ Bears([t EXCEPT !.i_cnt = 0, !.hist = <<>>, !.ref = t.pc], r, b)
BY DEF Bears, Synced

\* A message with an address, and its synchronising variant, announce what they
\* are sent for.
LEMMA SendAddressGoes ==
  ASSUME ~Lossy, SysInv, channel = <<>>, NEW c \in Core, NEW t, NEW r, NEW b, Bears(t, r, b),
         NEW type, SendAddress(c, t, type)
  PROVE  Goes(c, r, b, type = "EXCEPTION")
<1> DEFINE m0 == Message0(c, IndirectTCode, t)
           h == IF traceMode = "HTM" THEN HistoryRegister(t.hist) ELSE 0
           m == [m0 EXCEPT !.history = h, !.b_type = type]
           sent == [t EXCEPT !.i_cnt = 0, !.hist = <<>>, !.ref = t.pc]
           m1 == [m EXCEPT !.addr = XorOf[t.ref, t.pc]]
           m2 == [m EXCEPT !.addr = t.pc, !.tcode = IndirectSyncTCode]
           flag == type = "EXCEPTION"
<1>1. Send(c, m1, sent) \/ Send(c, m2, Synced(t))
  BY DEF SendAddress
<1>2. /\ {"core", "tcode", "b_type"} \subseteq DOMAIN m0
      /\ m0.core = c /\ m0.tcode = IndirectTCode
  BY DEF Message0, NoMsg
<1> HIDE DEF m0, h
<1>3. /\ {"core", "tcode", "b_type"} \subseteq DOMAIN m
      /\ m.core = c /\ m.tcode = IndirectTCode /\ m.b_type = type
  BY <1>2
<1> HIDE DEF m
<1>4. /\ IndirectTCode \in {"INDIRECT_BRANCH", "INDIRECTBRANCHHISTORY"}
      /\ IndirectSyncTCode \in {"INDIRECT_BRANCH_WS", "INDIRECTBRANCHHISTORY_WS"}
  BY DEF IndirectTCode, IndirectSyncTCode
<1>5. Announces(m1, c, flag)
  BY <1>3, <1>4 DEF Announces, EntersISR
<1>6. Announces(m2, c, flag)
  BY <1>3, <1>4 DEF Announces, EntersISR
<1>7. Bears(sent, r, b) /\ Bears(Synced(t), r, b)
  BY StillBears
<1> HIDE DEF m1, m2, sent
<1>8. CASE Send(c, m1, sent)
  BY <1>5, <1>7, <1>8, SendGoes
<1>9. CASE Send(c, m2, Synced(t))
  BY <1>6, <1>7, <1>9, SendGoes
<1> QED
  BY <1>1, <1>8, <1>9

\* An instruction that is executed is added, with the trap bit before it.
LEMMA RanBears ==
  ASSUME SysInv, NEW c \in Core, Ready(c), NEW next
  PROVE  \E n \in Entry : /\ n.isr = target[c].trap
                          /\ Bears(Ran(target[c], next), Append(target[c].run, n), FALSE)
<1> DEFINE t == target[c]
           n == [address |-> t.pc, isr |-> t.trap]
<1>1. t \in Encoder /\ t.pc \in DOMAIN Code /\ t.mode = "on"
  BY CoreAtRest DEF TargetOK
<1>2. n \in Entry /\ n.isr = t.trap
  BY <1>1 DEF Entry, Encoder
<1> HIDE DEF t
<1>3. Bears(Ran(t, next), Append(t.run, n), FALSE)
  BY <1>1 DEF Ran, Bears, Encoder
<1> QED
  BY <1>2, <1>3 DEF t

\* An instruction without a trap.
LEMMA RunAdvances ==
  ASSUME SysInv, NEW c \in Core, Ready(c), NEW next,
         \A r : Bears(Ran(target[c], next), r, FALSE) => Goes(c, r, FALSE, FALSE)
  PROVE  Advances(c)
<1>1. PICK n \in Entry : /\ n.isr = target[c].trap
                         /\ Bears(Ran(target[c], next), Append(target[c].run, n), FALSE)
  BY RanBears
<1> QED
  BY <1>1 DEF Advances

\* Straight-line code and direct jumps.
LEMMA RunDirectAdvances ==
  ASSUME SysInv, NEW c \in Core, RunDirect(c)
  PROVE  Advances(c)
<1> DEFINE t == target[c]
           next == t.pc + IF Code[t.pc].type = "OTHER" THEN Code[t.pc].size ELSE Code[t.pc].imm
<1>1. Ready(c) /\ Quiet(c, Ran(t, next)) /\ channel = <<>>
  BY DEF RunDirect, Runs, CanRun, Ready, Idle
<1> HIDE DEF next
<1> QED
  BY <1>1, QuietGoes, RunAdvances

\* A branch, taken or not, in a branch trace.
LEMMA RunBranchBTMAdvances ==
  ASSUME ~Lossy, SysInv, NEW c \in Core, NEW taken \in BOOLEAN, RunBranchBTM(c, taken)
  PROVE  Advances(c)
<1> DEFINE t == target[c]
           i == Code[t.pc]
           next == t.pc + IF taken THEN i.imm ELSE i.size
           u == Ran(t, next)
           m0 == Message0(c, "DIRECT_BRANCH", u)
           m1 == Message0(c, "DIRECT_BRANCH_WS", u)
           m2 == [m1 EXCEPT !.addr = u.pc]
           sent == [u EXCEPT !.i_cnt = 0]
<1>1. Ready(c) /\ channel = <<>>
  BY DEF RunBranchBTM, Runs, CanRun, Ready, Idle
<1>2. Quiet(c, u) \/ Send(c, m0, sent) \/ Send(c, m2, Synced(u))
  BY DEF RunBranchBTM
<1>3. Announces(m0, c, FALSE) /\ Announces(m1, c, FALSE)
  BY MessagesAnnounce
<1> HIDE DEF m0, m1
<1>4. Announces(m2, c, FALSE)
  BY <1>3, StillAnnounces
<1> HIDE DEF m2
<1>5. ASSUME NEW r, Bears(u, r, FALSE) PROVE Goes(c, r, FALSE, FALSE)
  <2> HIDE DEF u
  <2>1. Bears(sent, r, FALSE) /\ Bears(Synced(u), r, FALSE)
    BY <1>5, StillBears
  <2> HIDE DEF sent
  <2> QED
    BY <1>1, <1>2, <1>3, <1>4, <1>5, <2>1, QuietGoes, SendGoes
<1> HIDE DEF next
<1> QED
  BY <1>1, <1>5, RunAdvances DEF u


\* A branch in a history trace.
LEMMA RunBranchHTMAdvances ==
  ASSUME ~Lossy, SysInv, NEW c \in Core, NEW taken \in BOOLEAN, RunBranchHTM(c, taken)
  PROVE  Advances(c)
<1> DEFINE t == target[c]
           i == Code[t.pc]
           next == t.pc + IF taken THEN i.imm ELSE i.size
           v == Ran(t, next)
           h == Append(v.hist, taken)
           u == [v EXCEPT !.hist = h]
           sent == [u EXCEPT !.hist = <<>>]
           full == Full(c)
           register == HistoryRegister(u.hist)
           code == IF taken THEN 9 ELSE 8
           m1 == [full EXCEPT !.rCode = 1, !.history = register]
           m2 == [full EXCEPT !.rCode = code, !.count = HistMax]
<1>1. Ready(c) /\ channel = <<>>
  BY DEF RunBranchHTM, Runs, CanRun, Ready, Idle
<1>2. Quiet(c, u) \/ Send(c, m1, sent) \/ Send(c, m2, sent)
  BY DEF RunBranchHTM, Full
<1>3. Announces(full, c, FALSE)
  BY MessagesAnnounce
<1> HIDE DEF full, register, code
<1>4. Announces(m1, c, FALSE) /\ Announces(m2, c, FALSE)
  BY <1>3, StillAnnounces
<1> HIDE DEF m1, m2
<1>5. ASSUME NEW r, Bears(v, r, FALSE) PROVE Goes(c, r, FALSE, FALSE)
  <2> HIDE DEF v, h
  <2>1. Bears(u, r, FALSE)
    BY <1>5, StillBears
  <2> HIDE DEF u
  <2>2. Bears(sent, r, FALSE)
    BY <2>1, StillBears
  <2> HIDE DEF sent
  <2> QED
    BY <1>1, <1>2, <1>4, <2>1, <2>2, QuietGoes, SendGoes
<1> HIDE DEF next
<1> QED
  BY <1>1, <1>5, RunAdvances DEF v

\* An indirect jump announces no handler.
LEMMA RunIndirectAdvances ==
  ASSUME ~Lossy, SysInv, NEW c \in Core, NEW next, RunIndirect(c, next)
  PROVE  Advances(c)
<1> DEFINE u == Ran(target[c], next)
<1>1. Ready(c) /\ channel = <<>>
  BY DEF RunIndirect, Runs, CanRun, Ready, Idle
<1>2. Quiet(c, u) \/ SendAddress(c, u, "OTHER")
  BY DEF RunIndirect
<1> HIDE DEF u
<1>3. ("OTHER" = "EXCEPTION") = FALSE
  OBVIOUS
<1>4. \A r : Bears(u, r, FALSE) => Goes(c, r, FALSE, FALSE)
  BY <1>1, <1>2, <1>3, QuietGoes, SendAddressGoes
<1> QED
  BY <1>1, <1>4, RunAdvances DEF u

\* An instruction that traps announces one; one that returns from a trap does not.
LEMMA RunTrapAdvances ==
  ASSUME ~Lossy, SysInv, NEW c \in Core, NEW next, RunTrap(c, next)
  PROVE  Advances(c)
<1> DEFINE traps == Code[target[c].pc].type = "ECALL"
           v == Ran(target[c], next)
           u == [v EXCEPT !.trap = traps]
           b == IF traps THEN "EXCEPTION" ELSE "OTHER"
<1>1. Ready(c) /\ channel = <<>>
  BY DEF RunTrap, Runs, CanRun, Ready, Idle
<1>2. SendAddress(c, u, b)
  BY DEF RunTrap
<1>3. PICK n \in Entry : /\ n.isr = target[c].trap
                         /\ Bears(v, Append(target[c].run, n), FALSE)
  BY <1>1, RanBears
<1>4. traps \in BOOLEAN
  OBVIOUS
<1> HIDE DEF v, traps
<1> DEFINE r == Append(target[c].run, n)
<1> HIDE DEF r
<1>5. Bears(u, r, traps)
  BY <1>3 DEF Bears, r
<1>6. (b = "EXCEPTION") = traps
  BY <1>4
<1> HIDE DEF u, b
<1>7. Goes(c, r, traps, traps)
  BY <1>1, <1>2, <1>5, <1>6, SendAddressGoes
<1> QED
  BY <1>3, <1>4, <1>7 DEF Advances, r

\* An encoder that is on bears what it has to send.
LEMMA TargetBears ==
  ASSUME SysInv, NEW c \in Core, target[c].mode = "on"
  PROVE  Bears(target[c], target[c].run, target[c].trap) /\ target[c].trap \in BOOLEAN
BY DEF SysInv, Encoder, Bears

\* An interrupt between two instructions.
LEMMA InterruptAdvances ==
  ASSUME ~Lossy, SysInv, NEW c \in Core, NEW handler, Interrupt(c, handler)
  PROVE  Advances(c)
<1> DEFINE t == target[c]
           u == [t EXCEPT !.pc = handler, !.trap = TRUE]
<1>1. channel = <<>> /\ target[c].mode = "on" /\ SendAddress(c, u, "EXCEPTION")
  BY DEF Interrupt, Ready, Idle
<1>2. Bears(t, t.run, t.trap) /\ t.trap \in BOOLEAN
  BY <1>1, TargetBears
<1> HIDE DEF t
<1>3. Bears(u, t.run, TRUE)
  BY <1>2 DEF Bears
<1> HIDE DEF u
<1>4. ("EXCEPTION" = "EXCEPTION") = TRUE /\ (TRUE \/ t.trap) = TRUE
  BY <1>2
<1>5. Goes(c, t.run, TRUE \/ t.trap, TRUE)
  BY <1>1, <1>3, <1>4, SendAddressGoes
<1> QED
  BY <1>5 DEF Advances, t

\* A core that executes nothing and traps nowhere.
LEMMA StaysAdvances ==
  ASSUME NEW c \in Core, target[c].trap \in BOOLEAN, Goes(c, target[c].run, target[c].trap, FALSE)
  PROVE  Advances(c)
<1>1. (FALSE \/ target[c].trap) = target[c].trap
  OBVIOUS
<1>2. Goes(c, target[c].run, FALSE \/ target[c].trap, FALSE)
  BY <1>1
<1> QED
  BY <1>2 DEF Advances

\* A count that is sent.
LEMMA SendCountAdvances ==
  ASSUME ~Lossy, SysInv, NEW c \in Core, SendCount(c)
  PROVE  Advances(c)
<1> DEFINE t == target[c]
           m0 == Message0(c, "RESOURCEFULL", t)
           m1 == Message0(c, "SYNC", t)
           m2 == [m1 EXCEPT !.addr = t.pc]
           sent == [t EXCEPT !.i_cnt = 0]
<1>1. /\ channel = <<>> /\ target[c].mode = "on"
      /\ Send(c, m0, sent) \/ Send(c, m2, Synced(t))
  BY DEF SendCount, Ready, Idle
<1>2. Bears(t, t.run, t.trap) /\ t.trap \in BOOLEAN
  BY <1>1, TargetBears
<1>3. Announces(m0, c, FALSE) /\ Announces(m1, c, FALSE)
  BY MessagesAnnounce
<1> HIDE DEF t, m0, m1
<1>4. Bears(sent, t.run, t.trap) /\ Bears(Synced(t), t.run, t.trap)
  BY <1>2, StillBears
<1>5. Announces(m2, c, FALSE)
  BY <1>3, StillAnnounces
<1> HIDE DEF m2, sent
<1>6. Goes(c, t.run, t.trap, FALSE)
  BY <1>1, <1>3, <1>4, <1>5, SendGoes
<1> QED
  BY <1>2, <1>6, StaysAdvances DEF t

\* The start of a core, which has no mark to keep.
LEMMA StartTraceAdvances ==
  ASSUME SysInv, NEW c \in Core, Marked(c), NEW a, StartTrace(c, a)
  PROVE  Advances(c)
<1> DEFINE t == [NewTarget(a) EXCEPT !.mode = "on", !.ref = a]
           m0 == Message0(c, "SYNC", t)
           m1 == [m0 EXCEPT !.addr = a]
           sync == [msg |-> m1, covers |-> <<>>]
<1>1. target[c].mode = "off" /\ target[c].run = <<>> /\ target[c].trap = FALSE
  BY DEF StartTrace, Marked, SysInv, Encoder
<1>2. channel' = <<sync>> /\ target' = [target EXCEPT ![c] = t]
  BY <1>1 DEF StartTrace
<1>3. t.run = <<>> /\ t.trap = FALSE /\ t.mode = "on"
  BY DEF NewTarget
<1>4. Announces(m0, c, FALSE)
  BY MessagesAnnounce
<1> HIDE DEF m0, t
<1>5. Announces(m1, c, FALSE)
  BY <1>4, StillAnnounces
<1>6. sync.msg = m1 /\ sync.covers = <<>>
  OBVIOUS
<1> HIDE DEF sync, m1
<1>7. target'[c] = t /\ \A d \in Core : d # c => target'[d] = target[d]
  BY <1>2 DEF SysInv
<1>8. Len(<<sync>>) = 1 /\ <<sync>>[1] = sync
  OBVIOUS
<1>9. Goes(c, <<>>, FALSE, FALSE)
  BY <1>2, <1>3, <1>5, <1>6, <1>7, <1>8 DEF Goes, Announces
<1> QED
  BY <1>1, <1>9, StaysAdvances


\* Whatever a core does while tracing goes on.
LEMMA TargetAdvances ==
  ASSUME ~Lossy, ~Stops, SysInv, MarksInv, TargetStep
  PROVE  \E d \in Core : Advances(d) /\ Idle
<1>1. PICK c \in Core : Target(c)
  BY DEF TargetStep
<1>2. Idle
  BY <1>1 DEF Target, RunDirect, SendCount, StopTrace, RunBranchBTM, RunBranchHTM, RunIndirect, RunTrap,
              Interrupt, StartTrace, Runs, CanRun, Ready
<1>3. Marked(c)
  BY DEF MarksInv
<1>4. ~StopTrace(c)
  BY DEF StopTrace
<1>5. CASE \E taken \in BOOLEAN : RunBranchBTM(c, taken) \/ RunBranchHTM(c, taken)
  BY <1>2, <1>5, RunBranchBTMAdvances, RunBranchHTMAdvances
<1>6. CASE \E a \in Targets \cup {Top(target[c].calls)} : a # NoAddr /\ RunIndirect(c, a)
  BY <1>2, <1>6, RunIndirectAdvances
<1>7. CASE \E a \in Targets : RunTrap(c, a) \/ Interrupt(c, a) \/ StartTrace(c, a)
  BY <1>2, <1>3, <1>7, RunTrapAdvances, InterruptAdvances, StartTraceAdvances
<1> QED
  BY <1>1, <1>2, <1>4, <1>5, <1>6, <1>7, RunDirectAdvances, SendCountAdvances DEF Target

\* The marks of a core whose flag, trap bit, mode and instructions ahead are known.
LEMMA MarkedNext ==
  ASSUME NEW c, NEW q, NEW isr, NEW trap, NEW flag, MarksOf(q, isr, trap, flag),
         core'[c].enterISR = isr, target'[c].trap = trap, target'[c].mode # "lost",
         target'[c].mode = "off" => target'[c].run = <<>> /\ ~trap,
         NEW m, NEW r, target'[c].run = r,
         IF ~Busy(c)' THEN q = pending'[c] \o r /\ flag = FALSE
         ELSE /\ r = <<>> /\ flag = EntersISR(m)
              /\ m = (IF readNewTraceMessage' THEN Head(channel').msg ELSE nm')
              /\ q = (IF readNewTraceMessage' THEN pending'[c] \o Head(channel').covers ELSE pending'[c])
  PROVE  Marked(c)'
<1>1. CASE ~Busy(c)'
  <2>1. MarksOf(pending'[c] \o target'[c].run, core'[c].enterISR, target'[c].trap, FALSE)
    BY <1>1
  <2> QED
    BY <1>1, <2>1 DEF Marked
<1>2. CASE Busy(c)'
  <2>1. target'[c].run = <<>> /\ MarksOf(q, core'[c].enterISR, target'[c].trap, EntersISR(m))
    BY <1>2
  <2>2. EntersISR(IF readNewTraceMessage THEN Head(channel).msg ELSE nm)' <=> EntersISR(m)
    BY <1>2 DEF EntersISR
  <2> QED
    BY <1>2, <2>1 DEF Marked, EntersISR
<1> QED
  BY <1>1, <1>2

\* A core keeps its marks where nothing happens to it.
LEMMA MarkedStays ==
  ASSUME NEW c, Marked(c), ~Busy(c), ~Busy(c)',
         target'[c] = target[c], core'[c] = core[c], pending'[c] = pending[c]
  PROVE  Marked(c)'
<1> DEFINE q == pending[c] \o target[c].run
<1>1. /\ MarksOf(q, core[c].enterISR, target[c].trap, FALSE)
      /\ target[c].mode # "lost"
      /\ target[c].mode = "off" => target[c].run = <<>> /\ ~target[c].trap
  BY DEF Marked
<1>2. q = pending'[c] \o target[c].run
  OBVIOUS
<1> HIDE DEF q
<1> QED
  BY <1>1, <1>2, MarkedNext

\* A core that goes on keeps its marks.
LEMMA TargetMarks ==
  ASSUME ~Lossy, ~Stops, SysInv, SysInv', MarksInv, TargetStep
  PROVE  MarksInv'
<1>1. PICK d \in Core : Advances(d) /\ Idle
  BY TargetAdvances
<1>2. PICK flag \in BOOLEAN :
        \/ \E n \in Entry : /\ n.isr = target[d].trap
                            /\ Goes(d, Append(target[d].run, n), flag, flag)
        \/ Goes(d, target[d].run, flag \/ target[d].trap, flag)
  BY <1>1 DEF Advances
<1>3. UNCHANGED <<nm, readNewTraceMessage, core, pending>> /\ readNewTraceMessage /\ channel = <<>>
  BY <1>1 DEF TargetStep, Idle
<1>4. PICK r, b : Goes(d, r, b, flag)
  BY <1>2
<1>5. Len(channel') <= 1
  <2>1. Len(<<>>) = 0
    OBVIOUS
  <2> QED
    BY <1>4, <2>1 DEF Goes
<1>6. ASSUME NEW c \in Core PROVE ~Busy(c)
  BY <1>3 DEF Busy
<1>7. /\ pending \in [Core -> Seq(Entry)] /\ target \in [Core -> Encoder] /\ core \in [Core -> CoreState]
      /\ channel' \in Seq(Queued)
  BY DEF SysInv, IInv, TypeOK, Queued
<1>8. channel' # <<>> => Head(channel') = channel'[1]
  BY <1>7, HeadTailProperties
<1>9. ASSUME NEW c \in Core, c # d PROVE Marked(c)'
  <2>1. ~Busy(c)'
    <3>1. channel' # <<>> => Head(channel').msg.core = d
      BY <1>4, <1>8 DEF Goes
    <3> QED
      BY <1>3, <1>9, <3>1 DEF Busy
  <2>2. target'[c] = target[c] /\ core'[c] = core[c] /\ pending'[c] = pending[c]
    BY <1>3, <1>4, <1>9 DEF Goes
  <2>3. Marked(c)
    BY DEF MarksInv
  <2> QED
    BY <1>6, <2>1, <2>2, <2>3, MarkedStays
<1>10. Marked(d)'
  <2> DEFINE t == target[d]
             q == pending[d] \o t.run
             isr == core[d].enterISR
  <2>1. /\ MarksOf(q, isr, t.trap, FALSE) /\ q \in Seq(Entry) /\ isr \in BOOLEAN /\ t.trap \in BOOLEAN
        /\ pending[d] \in Seq(Entry) /\ t.run \in Seq(Entry)
    BY <1>6, <1>7, ConcatProperties DEF MarksInv, Marked, Encoder, CoreState
  <2>2. \E v, x : Goes(d, v, x, flag) /\ MarksOf(pending[d] \o v, isr, x, flag)
    <3>1. CASE \E n \in Entry : /\ n.isr = t.trap
                                /\ Goes(d, Append(t.run, n), flag, flag)
      <4>1. PICK n \in Entry : n.isr = t.trap /\ Goes(d, Append(t.run, n), flag, flag)
        BY <3>1
      <4> DEFINE P == pending[d]
                 s == t.run
      <4>2. P \in Seq(Entry) /\ s \in Seq(Entry) /\ P \o s \in Seq(Entry)
        BY <2>1
      <4>3. MarksOf(Append(q, n), isr, flag, flag)
        BY <2>1, <4>1, MarksGrow
      <4> HIDE DEF P, s
      <4>4. <<n>> \in Seq(Entry)
        OBVIOUS
      <4>5. Append(s, n) = s \o <<n>> /\ Append(P \o s, n) = (P \o s) \o <<n>>
        BY <4>2, AppendIsConcat
      <4>6. P \o Append(s, n) = Append(P \o s, n)
        BY <4>2, <4>4, <4>5, ConcatAssociative
      <4> QED
        BY <4>1, <4>3, <4>6 DEF P, s
    <3>2. CASE Goes(d, t.run, flag \/ t.trap, flag)
      BY <2>1, <3>2, MarksSend
    <3> QED
      BY <1>2, <3>1, <3>2
  <2>3. PICK v, x : Goes(d, v, x, flag) /\ MarksOf(pending[d] \o v, isr, x, flag)
    BY <2>2
  <2>4. core'[d].enterISR = isr /\ pending'[d] = pending[d] /\ readNewTraceMessage'
    BY <1>3
  <2>5. target'[d].trap = x /\ target'[d].mode = "on"
    BY <2>3 DEF Goes
  <2>6. CASE channel' = <<>> /\ target'[d].run = v /\ ~flag
    <3>1. ~Busy(d)'
      BY <2>4, <2>6 DEF Busy
    <3> QED
      BY <2>3, <2>4, <2>5, <2>6, <3>1, MarkedNext
  <2>7. CASE /\ Len(channel') = 1 /\ channel'[1].msg.core = d /\ channel'[1].covers = v
             /\ EntersISR(channel'[1].msg) = flag /\ target'[d].run = <<>>
    <3>1. channel' # <<>>
      BY <2>7
    <3>2. Head(channel') = channel'[1]
      BY <1>8, <3>1
    <3>3. Busy(d)'
      BY <2>4, <2>7, <3>1, <3>2 DEF Busy
    <3> QED
      BY <2>3, <2>4, <2>5, <2>7, <3>2, <3>3, MarkedNext
  <2> QED
    BY <2>3, <2>6, <2>7 DEF Goes
<1> QED
  BY <1>3, <1>5, <1>9, <1>10 DEF MarksInv

\* What is read is ahead as before.
LEMMA ReadMarks ==
  ASSUME SysInv, SysInv', MarksInv, ReadStep
  PROVE  MarksInv'
<1> DEFINE h == Head(channel)
           b == h.msg.core
<1>1. /\ channel # <<>> /\ channel' = Tail(channel) /\ UNCHANGED target /\ Read(h.msg)
      /\ pending' = [pending EXCEPT ![b] = IF h.msg.tcode = "ERROR" THEN <<>> ELSE @ \o h.covers]
  BY DEF ReadStep
<1>2. /\ readNewTraceMessage /\ ~readNewTraceMessage' /\ nm' = h.msg /\ UNCHANGED core
  <2>1. status' = "OK"
    BY DEF SysInv
  <2> QED
    BY <1>1, <2>1 DEF Read
<1>3. channel \in Seq(Queued) /\ pending \in [Core -> Seq(Entry)]
  BY DEF SysInv, Queued
<1>4. h = channel[1] /\ h \in Queued /\ b \in Core /\ h.covers \in Seq(Entry)
  <2>1. h = channel[1] /\ h \in Queued
    BY <1>1, <1>3, HeadTailProperties
  <2>2. b \in Core /\ h.covers \in Seq(Entry)
    <3> HIDE DEF h
    <3> QED
      BY <2>1 DEF Queued, Message
  <2> QED
    BY <2>1, <2>2
<1>5. Len(channel) = 1
  <2>1. Len(channel) \in Nat /\ Len(channel) <= 1
    BY <1>3, LenProperties DEF MarksInv
  <2>2. Len(channel) # 0
    BY <1>1, <1>3, EmptySeq
  <2> QED
    BY <2>1, <2>2
<1>6. channel' = <<>>
  <2>1. Len(Tail(channel)) = 0 /\ Tail(channel) \in Seq(Queued)
    BY <1>1, <1>3, <1>5, HeadTailProperties
  <2> QED
    BY <1>1, <2>1, EmptySeq
<1>7. h.msg.tcode # "ERROR"
  <2>1. Arriving(b)
    BY <1>1, <1>2, <1>4 DEF SysInv, Busy
  <2> SUFFICES ASSUME h.msg.tcode = "ERROR" PROVE FALSE
    OBVIOUS
  <2>2. Incoming(core[b], h.msg, pending[b] \o h.covers, target[b])
    BY <1>5, <2>1 DEF Arriving
  <2>3. ~Starts(h.msg, target[b])
    BY DEF Starts
  <2>4. PICK x, tr : WorkPath(x, h.msg, pending[b] \o h.covers, target[b], tr)
    BY <2>2, <2>3 DEF Incoming, InWork
  <2> QED
    BY <2>4 DEF WorkPath, EndsPath, IndirectTCodes, SyncingTCodes
<1>8. ASSUME NEW c \in Core PROVE Marked(c)'
  <2>1. Marked(c)
    BY DEF MarksInv
  <2>2. target'[c] = target[c] /\ core'[c] = core[c]
    BY <1>1, <1>2
  <2>3. CASE c # b
    <3>1. ~Busy(c) /\ ~Busy(c)'
      BY <1>2, <2>3 DEF Busy
    <3>2. pending'[c] = pending[c]
      BY <1>1, <1>3, <2>3
    <3> QED
      BY <2>1, <2>2, <3>1, <3>2, MarkedStays
  <2>4. CASE c = b
    <3>1. Busy(c) /\ Busy(c)'
      BY <1>1, <1>2, <2>4 DEF Busy
    <3>2. pending'[c] = pending[c] \o h.covers
      BY <1>1, <1>3, <1>7, <2>4
    <3> HIDE DEF h, b
    <3>3. /\ target[c].run = <<>>
          /\ MarksOf(pending[c] \o h.covers, core[c].enterISR, target[c].trap, EntersISR(h.msg))
          /\ target[c].mode # "lost"
          /\ target[c].mode = "off" => target[c].run = <<>> /\ ~target[c].trap
      BY <1>2, <2>1, <3>1 DEF Marked, h
    <3> QED
      BY <1>2, <2>2, <3>1, <3>2, <3>3, MarkedNext
  <2> QED
    BY <2>3, <2>4
<1>9. Len(channel') <= 1
  BY <1>6
<1> QED
  BY <1>6, <1>8, <1>9 DEF MarksInv


\* Handling a message sets no mark by itself.
LEMMA ProcessedMark ==
  ASSUME NEW m, m.ts = NoTs, NEW k, k \in CoreState,
         m.tcode \in {"DIRECT_BRANCH", "RESOURCEFULL"} \cup IndirectTCodes \cup SyncingTCodes
  PROVE  ProcessTraceMessage(m, k).k.enterISR = k.enterISR
<1>1. Stamp(m, k) = k
  BY DEF Stamp
<1>2. \A a : At(k, a).enterISR = k.enterISR
  BY DEF At, CoreState
<1>3. \A a : SyncAt(k, a).enterISR = k.enterISR
  <2> SUFFICES ASSUME NEW a PROVE SyncAt(k, a).enterISR = k.enterISR
    OBVIOUS
  <2> DEFINE l == At(k, a)
             y == ResetCounts(l.cnt)
  <2>1. l.enterISR = k.enterISR
    BY <1>2
  <2>2. SyncAt(k, a) = [l EXCEPT !.cnt = y, !.stack = EmptyStack]
    BY DEF SyncAt
  <2>3. "enterISR" \in DOMAIN l
    BY DEF At, CoreState
  <2> HIDE DEF l, y
  <2> QED
    BY <2>1, <2>2, <2>3
<1>4. m.tcode \in {"DIRECT_BRANCH", "RESOURCEFULL"} => ProcessTraceMessage(m, k) = Good(k)
  BY <1>1 DEF ProcessTraceMessage
<1>5. m.tcode \in IndirectTCodes =>
        ProcessTraceMessage(m, k) = Good(At(k, XorOf[k.lastFaddr, m.addr]))
  BY <1>1 DEF ProcessTraceMessage, IndirectTCodes
<1>6. m.tcode \in SyncingTCodes => ProcessTraceMessage(m, k) = Good(SyncAt(k, m.addr))
  BY <1>1 DEF ProcessTraceMessage, SyncingTCodes
<1>7. \A j : Good(j).k = j
  BY DEF Good
<1> DEFINE r == ProcessTraceMessage(m, k)
<1>8. r = Good(k) \/ (\E a : r = Good(At(k, a)) \/ r = Good(SyncAt(k, a)))
  BY <1>4, <1>5, <1>6
<1> HIDE DEF r
<1>9. r.k = k \/ (\E a : r.k = At(k, a) \/ r.k = SyncAt(k, a))
  BY <1>7, <1>8
<1>10. r.k.enterISR = k.enterISR
  BY <1>2, <1>3, <1>9
<1> QED
  BY <1>10 DEF r

\* The decoder's step, given the mark and what is ahead of its core after it.
LEMMA DecodeMarksOf ==
  ASSUME SysInv, MarksInv, ~readNewTraceMessage, UNCHANGED <<target, channel>>,
         NEW b, b = currentCore,
         NEW k, core' = [core EXCEPT ![b] = k],
         NEW Q \in Seq(Entry), pending' = [pending EXCEPT ![b] = Q],
         NEW flag, MarksOf(Q, k.enterISR, target[b].trap, flag),
         readNewTraceMessage' \in BOOLEAN,
         readNewTraceMessage' => flag = FALSE,
         ~readNewTraceMessage' => nm' = nm /\ flag = EntersISR(nm)
  PROVE  MarksInv'
<1>1. /\ b \in Core /\ nm.core = b /\ channel = <<>>
      /\ core \in [Core -> CoreState] /\ pending \in [Core -> Seq(Entry)]
  BY CoreInWork DEF MarksInv
<1>2. ASSUME NEW c \in Core, c # b PROVE Marked(c)'
  <2>1. ~Busy(c) /\ ~Busy(c)'
    BY <1>1, <1>2 DEF Busy
  <2>2. target'[c] = target[c] /\ core'[c] = core[c] /\ pending'[c] = pending[c]
    BY <1>1, <1>2
  <2>3. Marked(c)
    BY DEF MarksInv
  <2> QED
    BY <2>1, <2>2, <2>3, MarkedStays
<1>3. Marked(b)'
  <2>1. Busy(b) /\ Marked(b)
    BY <1>1 DEF Busy, MarksInv
  <2>2. /\ target[b].run = <<>> /\ target[b].mode # "lost"
        /\ target[b].mode = "off" => target[b].run = <<>> /\ ~target[b].trap
    BY <2>1 DEF Marked
  <2>3. core'[b] = k /\ pending'[b] = Q /\ target'[b] = target[b]
    BY <1>1
  <2>4. CASE readNewTraceMessage'
    <3>1. ~Busy(b)'
      BY <1>1, <2>4 DEF Busy
    <3>2. Q \o <<>> = Q
      BY ConcatEmptySeq
    <3>3. Q = pending'[b] \o <<>>
      BY <2>3, <3>2
    <3> QED
      BY <2>2, <2>3, <2>4, <3>1, <3>3, MarkedNext
  <2>5. CASE ~readNewTraceMessage'
    <3>1. Busy(b)'
      BY <1>1, <2>5 DEF Busy
    <3> QED
      BY <2>2, <2>3, <2>5, <3>1, MarkedNext
  <2> QED
    BY <2>4, <2>5
<1>4. Len(channel') <= 1
  BY DEF MarksInv
<1> QED
  BY <1>1, <1>2, <1>3, <1>4 DEF MarksInv


\* What is marked of the core whose message is in work.
LEMMA MarksInWork ==
  ASSUME SysInv, MarksInv, ~readNewTraceMessage
  PROVE  LET c == currentCore
             P == pending[c]
         IN /\ MarksOf(P, K.enterISR, target[c].trap, EntersISR(nm))
            /\ K.enterISR \in BOOLEAN /\ target[c].trap \in BOOLEAN /\ EntersISR(nm) \in BOOLEAN
            /\ channel = <<>> /\ P \in Seq(Entry)
<1>1. currentCore \in Core /\ nm.core = currentCore /\ K \in CoreState /\ target[currentCore] \in Encoder
  BY CoreInWork DEF TargetOK
<1>2. Marked(currentCore) /\ Busy(currentCore)
  BY <1>1 DEF MarksInv, Busy
<1>3. MarksOf(pending[currentCore], K.enterISR, target[currentCore].trap, EntersISR(nm))
  BY <1>2 DEF Marked, K
<1> QED
  BY <1>1, <1>3, CoreInWork DEF MarksInv, CoreState, Encoder, EntersISR

\* A step that returns nothing and sets no mark.
LEMMA UnmarkedStep ==
  ASSUME SysInv, MarksInv, DecodeStep, ~readNewTraceMessage, instInfo' = NoOutput,
         NEW k, core' = [core EXCEPT ![currentCore] = k], k.enterISR = K.enterISR,
         \/ readNewTraceMessage' = readNewTraceMessage /\ nm' = nm
         \/ readNewTraceMessage' = TRUE /\ ~EntersISR(nm)
  PROVE  MarksInv'
<1> DEFINE c == currentCore
           P == pending[c]
<1>1. /\ MarksOf(P, K.enterISR, target[c].trap, EntersISR(nm)) /\ EntersISR(nm) \in BOOLEAN
      /\ P \in Seq(Entry)
  BY MarksInWork
<1>2. pending' = [pending EXCEPT ![c] = P] /\ UNCHANGED <<target, channel>>
  BY NothingReturned DEF DecodeStep
<1>3. readNewTraceMessage \in BOOLEAN
  BY DEF SysInv, IInv, TypeOK
<1>4. CASE readNewTraceMessage' = readNewTraceMessage /\ nm' = nm
  BY <1>1, <1>2, <1>3, <1>4, DecodeMarksOf
<1>5. CASE readNewTraceMessage' = TRUE /\ ~EntersISR(nm)
  <2>1. MarksOf(P, K.enterISR, target[c].trap, FALSE)
    <3>1. EntersISR(nm) = FALSE
      BY <1>1, <1>5
    <3> QED
      BY <1>1, <3>1
  <2> QED
    BY <1>1, <1>2, <1>5, <2>1, DecodeMarksOf
<1> QED
  BY <1>4, <1>5

\* The instruction that is returned takes its mark with it.
LEMMA NextInstMarks ==
  ASSUME SysInv, SysInv', MarksInv, DecodeStep, NextInst
  PROVE  MarksInv' /\ (Returns => instInfo'.isr = Head(pending[currentCore]).isr)
<1> DEFINE c == currentCore
           P == pending[c]
<1>1. /\ ~readNewTraceMessage /\ K.state = "GETNEXTINSTRUCTION"
      /\ CurrentCountType(K.cnt) # "none" /\ UNCHANGED <<nm, currentCore>>
  BY DEF NextInst, InState
<1>2. P # <<>>
  BY <1>1, OnThePath
<1>3. /\ MarksOf(P, K.enterISR, target[c].trap, EntersISR(nm)) /\ P \in Seq(Entry)
      /\ K.enterISR \in BOOLEAN /\ target[c].trap \in BOOLEAN /\ EntersISR(nm) \in BOOLEAN
  BY <1>1, MarksInWork
<1>4. readNewTraceMessage \in BOOLEAN /\ pending \in [Core -> Seq(Entry)] /\ status' = "OK"
      /\ K \in CoreState
  BY <1>1, CoreInWork DEF SysInv, IInv, TypeOK
<1>5. UNCHANGED <<target, channel>>
  BY DEF DecodeStep
<1>6. PICK taken \in HistoryTaken(K.cnt) :
       LET r    == NextAddr(K, traceType, nm.tcode, taken)
           left == CurrentCountType(r.k.cnt) # "none"
       IN \/ /\ ~r.ok \/ (r.pc = NoAddr /\ r.brFlag # "unknown" /\ left)
             /\ Fail /\ UNCHANGED traceType
          \/ /\ r.ok /\ r.brFlag = "unknown"
             /\ Continue(K, "RETIREMESSAGE")
             /\ instInfo' = NoOutput /\ traceType' = r.type
          \/ /\ r.ok /\ r.brFlag # "unknown" /\ ~(r.pc = NoAddr /\ left)
             /\ Continue([r.k EXCEPT !.currentAddress = r.pc, !.enterISR = FALSE],
                         IF left THEN "GETNEXTINSTRUCTION" ELSE "RETIREMESSAGE")
             /\ instInfo' = [event |-> FALSE, core |-> currentCore, address |-> K.currentAddress,
                             crFlag |-> r.crFlag, isr |-> K.enterISR,
                             brFlag |-> r.brFlag, timestamp |-> K.lastTime]
             /\ traceType' = r.type
  BY DEF NextInst
<1> DEFINE r == NextAddr(K, traceType, nm.tcode, taken)
           left == CurrentCountType(r.k.cnt) # "none"
           s == IF left THEN "GETNEXTINSTRUCTION" ELSE "RETIREMESSAGE"
           j == [r.k EXCEPT !.currentAddress = r.pc, !.enterISR = FALSE]
           k == [j EXCEPT !.state = s]
<1>7. ~Fail
  BY <1>4 DEF Fail
<1>8. CASE Continue(K, "RETIREMESSAGE") /\ instInfo' = NoOutput
  <2> DEFINE x == [K EXCEPT !.state = "RETIREMESSAGE"]
  <2>1. core' = [core EXCEPT ![c] = x] /\ readNewTraceMessage' = readNewTraceMessage
    BY <1>8 DEF Continue, Become
  <2>2. x.enterISR = K.enterISR
    BY <1>4 DEF CoreState
  <2> HIDE DEF x
  <2>3. MarksInv'
    BY <1>1, <1>8, <2>1, <2>2, UnmarkedStep
  <2> QED
    BY <1>8, <2>3 DEF Returns
<1>9. CASE Continue(j, s) /\ instInfo'.event = FALSE /\ instInfo'.isr = K.enterISR /\ instInfo' # NoOutput
  <2>1. core' = [core EXCEPT ![c] = k] /\ readNewTraceMessage' = readNewTraceMessage
    BY <1>9 DEF Continue, Become
  <2>2. k.enterISR = FALSE
    <3>1. r.k \in CoreState
      <4>1. /\ CoreOK(K) /\ K.currentAddress \in DOMAIN Code /\ traceType \in {"BTM", "HTM"}
        BY <1>1, CoreInWork DEF NextInst, SysInv, IInv, TypeOK
      <4> QED
        BY <4>1, NextAddrType DEF CoreOK
    <3> HIDE DEF r, s
    <3>2. j.enterISR = FALSE /\ "enterISR" \in DOMAIN j
      BY <3>1 DEF CoreState
    <3> HIDE DEF j
    <3> QED
      BY <3>2
  <2> HIDE DEF k
  <2>3. pending' = [pending EXCEPT ![c] = Tail(P)] /\ Tail(P) \in Seq(Entry)
    BY <1>2, <1>3, <1>9, HeadTailProperties DEF DecodeStep, Returns
  <2>4. MarksOf(Tail(P), FALSE, target[c].trap, EntersISR(nm))
    BY <1>2, <1>3, MarksTail
  <2>5. MarksInv'
    BY <1>1, <1>3, <1>4, <1>5, <2>1, <2>2, <2>3, <2>4, DecodeMarksOf
  <2>6. Head(P) = P[1] /\ K.enterISR = P[1].isr
    BY <1>2, <1>3, HeadTailProperties DEF MarksOf
  <2> QED
    BY <1>9, <2>5, <2>6
<1>10. instInfo' = [event |-> FALSE, core |-> currentCore, address |-> K.currentAddress,
                    crFlag |-> r.crFlag, isr |-> K.enterISR,
                    brFlag |-> r.brFlag, timestamp |-> K.lastTime]
         => instInfo'.event = FALSE /\ instInfo'.isr = K.enterISR /\ instInfo' # NoOutput
  <2>1. DOMAIN NoOutput = {}
    BY DEF NoOutput
  <2> QED
    BY <2>1
<1> QED
  BY <1>6, <1>7, <1>8, <1>9, <1>10


\* A message that announces a handler is retired when nothing is ahead of it.
LEMMA RetireMarks ==
  ASSUME SysInv, MarksInv, DecodeStep, RetireMessage
  PROVE  MarksInv'
<1> DEFINE c == currentCore
           P == pending[c]
           t == target[c]
           x == ProcessTraceMessage(nm, K).k
           e == x.enterISR \/ EntersISR(nm)
           y == [x EXCEPT !.enterISR = e]
           j == [y EXCEPT !.state = "GETNEXTMSG"]
<1>1. /\ ~readNewTraceMessage /\ K.state = "RETIREMESSAGE"
      /\ nm.tcode \in TCodesWithCounts \ {"CORRELATION"}
      /\ instInfo' = NoOutput /\ readNewTraceMessage' = TRUE
  BY DEF RetireMessage, InState, Finish, Silent
<1>2. core' = [core EXCEPT ![c] = j]
  BY DEF RetireMessage, Finish, Become
<1>3. /\ CoreOK(K) /\ K \in CoreState /\ P \in Seq(Entry) /\ TargetOK(t)
  BY <1>1, CoreInWork
<1>4. /\ InWork(K, nm, P, t) /\ Sent(nm) /\ ~Outcomes(K.cnt) /\ (P # <<>> => WaitsForOutcome(K))
  BY <1>1, OnThePath
<1>5. /\ MarksOf(P, K.enterISR, t.trap, EntersISR(nm)) /\ K.enterISR \in BOOLEAN /\ t.trap \in BOOLEAN
      /\ EntersISR(nm) \in BOOLEAN
  BY <1>1, MarksInWork
<1>6. EntersISR(nm) => P = <<>>
  <2> SUFFICES ASSUME EntersISR(nm) PROVE P = <<>>
    OBVIOUS
  <2>1. PICK tr : WorkPath(K, nm, P, t, tr)
    BY <1>4 DEF InWork
  <2>2. t.hist = <<>>
    BY <2>1, EndCounts DEF WorkPath, EntersISR
  <2> HIDE DEF P, t
  <2> QED
    BY <1>3, <1>4, <2>1, <2>2, NothingWaits
<1>7. x.enterISR = K.enterISR /\ x \in CoreState
  <2>1. nm.ts = NoTs
    BY <1>4 DEF Sent
  <2>2. nm.tcode \in {"DIRECT_BRANCH", "RESOURCEFULL"} \cup IndirectTCodes \cup SyncingTCodes
    BY <1>1 DEF TCodesWithCounts, IndirectTCodes, SyncingTCodes
  <2>3. x.enterISR = K.enterISR
    BY <1>3, <2>1, <2>2, ProcessedMark
  <2>4. nm \in Message
    BY <1>1, CoreInWork
  <2>5. x \in CoreState
    BY <1>3, <2>4, ProcessTraceMessageType DEF MessageResult, CoreOK
  <2> QED
    BY <2>3, <2>5
<1> HIDE DEF x
<1>8. j.enterISR = (K.enterISR \/ EntersISR(nm))
  <2>1. y.enterISR = e /\ "enterISR" \in DOMAIN y
    BY <1>7 DEF CoreState
  <2> HIDE DEF y
  <2>2. j.enterISR = e
    BY <2>1
  <2> QED
    BY <1>7, <2>2
<1> HIDE DEF j
<1>9. MarksOf(P, j.enterISR, t.trap, FALSE)
  BY <1>5, <1>6, <1>8, MarksRetire
<1>10. pending' = [pending EXCEPT ![c] = P] /\ UNCHANGED <<target, channel>>
  BY <1>1, NothingReturned DEF DecodeStep
<1> QED
  BY <1>1, <1>2, <1>3, <1>9, <1>10, DecodeMarksOf

\* The first sync of a core sets no mark.
LEMMA FirstSyncMarks ==
  ASSUME SysInv, MarksInv, DecodeStep, FirstSync
  PROVE  MarksInv'
<1> DEFINE x == ProcessTraceMessage(nm, K).k
           j == [x EXCEPT !.state = "GETMSGWITHCOUNT"]
<1>1. /\ ~readNewTraceMessage /\ K.state = "GETFIRSTSYNCMSG"
      /\ instInfo' = NoOutput /\ readNewTraceMessage' = TRUE
      /\ core' = [core EXCEPT ![currentCore] = j]
  BY DEF FirstSync, InState, Finish, Become, Silent
<1>2. nm.tcode = "SYNC" /\ nm.ts = NoTs
  BY <1>1, MessageForUnsynced DEF Unsynced, Starts, Sent
<1>3. ~EntersISR(nm)
  BY <1>2 DEF EntersISR
<1>4. CoreOK(K) /\ K \in CoreState /\ nm \in Message
  BY <1>1, CoreInWork
<1>5. x.enterISR = K.enterISR
  BY <1>2, <1>4, ProcessedMark DEF SyncingTCodes
<1>6. x \in CoreState
  BY <1>4, ProcessTraceMessageType DEF MessageResult, CoreOK
<1> HIDE DEF x
<1>7. j.enterISR = K.enterISR
  BY <1>5, <1>6 DEF CoreState
<1> HIDE DEF j
<1> QED
  BY <1>1, <1>3, <1>7, UnmarkedStep

\* The end of a trace sets no mark.
LEMMA CorrelationMarks ==
  ASSUME SysInv, MarksInv, DecodeStep, RetireCorrelation
  PROVE  MarksInv'
<1> DEFINE j == [K EXCEPT !.state = "GETFIRSTSYNCMSG"]
<1>1. /\ ~readNewTraceMessage /\ nm.tcode = "CORRELATION" /\ K.state = "RETIREMESSAGE"
      /\ instInfo' = NoOutput /\ readNewTraceMessage' = TRUE
  BY DEF RetireCorrelation, InState, Silent
<1>2. nm.ts = NoTs
  BY <1>1, OnThePath DEF Sent
<1>3. core' = [core EXCEPT ![currentCore] = j]
  BY <1>2 DEF RetireCorrelation, Become, Stamp
<1>4. j.enterISR = K.enterISR
  BY <1>1, CoreInWork DEF CoreState
<1>5. ~EntersISR(nm)
  BY <1>1 DEF EntersISR
<1> HIDE DEF j
<1> QED
  BY <1>1, <1>3, <1>4, <1>5, UnmarkedStep

\* The counts of a message are taken over; none of the others comes here.
LEMMA WaitingMarks ==
  ASSUME SysInv, SysInv', MarksInv, DecodeStep, GetMsgWithCount \/ GetNextMsg
  PROVE  MarksInv'
<1>1. /\ ~readNewTraceMessage /\ Waiting(K)
      /\ \/ TakeCounts(ResetCounts(K.cnt)) \/ TakeCounts(K.cnt)
         \/ RetireICT \/ LoseTrace \/ RetireOther \/ Refuse
  BY DEF GetMsgWithCount, GetNextMsg, InState, Waiting
<1>2. channel = <<>>
  BY <1>1 DEF MarksInv
<1>3. nm.tcode \in TCodesWithCounts
  <2>1. Len(channel) # 1
    BY <1>2
  <2> QED
    BY <1>1, <2>1, MessageForWaiting
<1>4. PICK base : TakeCounts(base)
  BY <1>1, <1>3 DEF RetireICT, RetireOther, LoseTrace, Refuse, ICTTCodes, SupportedTCodes, TCodesWithCounts
<1> DEFINE r == SetCounts(base, nm)
           x == [K EXCEPT !.cnt = r.c]
           j == [x EXCEPT !.state = "GETNEXTINSTRUCTION"]
<1>5. status' = "OK"
  BY DEF SysInv
<1>6. Continue(x, "GETNEXTINSTRUCTION") /\ instInfo' = NoOutput /\ nm' = nm
  BY <1>4, <1>5 DEF TakeCounts, Fail, Silent
<1>7. core' = [core EXCEPT ![currentCore] = j] /\ readNewTraceMessage' = readNewTraceMessage
  BY <1>6 DEF Continue, Become
<1>8. K \in CoreState
  BY <1>1, CoreInWork
<1> HIDE DEF r
<1>9. x.enterISR = K.enterISR /\ "enterISR" \in DOMAIN x
  BY <1>8 DEF CoreState
<1> HIDE DEF x
<1>10. j.enterISR = K.enterISR
  BY <1>9
<1> HIDE DEF j
<1> QED
  BY <1>1, <1>6, <1>7, <1>10, UnmarkedStep

\* The decoder keeps and follows the marks.
LEMMA DecodeMarks ==
  ASSUME SysInv, SysInv', MarksInv, DecodeStep
  PROVE  /\ MarksInv'
         /\ Returns /\ pending[currentCore] # <<>> => instInfo'.isr = Head(pending[currentCore]).isr
<1>1. CASE NextInst
  BY <1>1, NextInstMarks
<1>2. CASE ~NextInst
  <2>1. CASE FirstSync
    BY <2>1, FirstSyncMarks DEF FirstSync, Silent, Returns
  <2>2. CASE FirstSyncICT \/ FirstSkip \/ FirstError \/ FirstRefuse
    <3>1. ~readNewTraceMessage /\ K.state = "GETFIRSTSYNCMSG" /\ nm.tcode # "SYNC"
      BY <2>2 DEF FirstSyncICT, FirstSkip, FirstError, FirstRefuse, InState, SupportedTCodes,
                  TCodesWithCounts
    <3>2. Starts(nm, target[currentCore])
      BY <3>1, MessageForUnsynced DEF Unsynced
    <3> QED
      BY <3>1, <3>2 DEF Starts
  <2>3. CASE GetMsgWithCount \/ GetNextMsg
    <3>1. ~Returns
      BY <2>3 DEF GetMsgWithCount, GetNextMsg, TakeCounts, RetireICT, LoseTrace, RetireOther, Refuse,
                  Fail, Silent, EventInst, Returns
    <3> QED
      BY <2>3, <3>1, WaitingMarks
  <2>4. CASE CountsExhausted
    <3> DEFINE j == [K EXCEPT !.state = "RETIREMESSAGE"]
    <3>1. /\ ~readNewTraceMessage /\ instInfo' = NoOutput /\ nm' = nm
          /\ core' = [core EXCEPT ![currentCore] = j] /\ readNewTraceMessage' = readNewTraceMessage
      BY <2>4 DEF CountsExhausted, InState, Silent, Continue, Become
    <3>2. j.enterISR = K.enterISR
      BY <3>1, CoreInWork DEF CoreState
    <3> HIDE DEF j
    <3> QED
      BY <3>1, <3>2, UnmarkedStep DEF Returns
  <2>5. CASE NoInstructionThere
    BY <2>5 DEF NoInstructionThere, Fail, SysInv
  <2>6. CASE RetireMessage
    BY <2>6, RetireMarks DEF RetireMessage, Silent, Returns
  <2>7. CASE RetireCorrelation
    BY <2>7, CorrelationMarks DEF RetireCorrelation, Silent, Returns
  <2> QED
    BY <1>2, <2>1, <2>2, <2>3, <2>4, <2>5, <2>6, <2>7 DEF DecodeStep, Decode
<1> QED
  BY <1>1, <1>2

\* What HandlersAreMarked says of a step.
MarksStep ==
  Returns /\ pending[currentCore] # <<>> => instInfo'.isr = Head(pending[currentCore]).isr

\* At the start nothing is marked.
LEMMA SysInitMarks == SysInit => MarksInv
<1> SUFFICES ASSUME SysInit PROVE MarksInv
  OBVIOUS
<1>1. channel = <<>> /\ readNewTraceMessage /\ Len(<<>>) = 0
  BY DEF SysInit, Init
<1>2. ASSUME NEW c \in Core PROVE Marked(c)
  <2>1. /\ target[c].run = <<>> /\ target[c].trap = FALSE /\ target[c].mode = "off"
        /\ pending[c] = <<>> /\ core[c].enterISR = FALSE
    BY DEF SysInit, Init, NewTarget, NewCore
  <2>2. ~Busy(c)
    BY <1>1 DEF Busy
  <2>3. <<>> \o <<>> = <<>>
    BY EmptySeq, ConcatEmptySeq
  <2>4. MarksOf(<<>>, FALSE, FALSE, FALSE)
    <3>1. 2..Len(<<>>) = {}
      BY <1>1
    <3> QED
      BY <3>1 DEF MarksOf
  <2> QED
    BY <2>1, <2>2, <2>3, <2>4 DEF Marked
<1> QED
  BY <1>1, <1>2 DEF MarksInv

\* One step, and none.
LEMMA MarksKept ==
  ASSUME ~Lossy, ~Stops, SysInv, SysInv', MarksInv, [SysNext]_sysVars
  PROVE  MarksInv' /\ [MarksStep]_sysVars
<1>1. CASE TargetStep
  BY <1>1, TargetMarks DEF TargetStep, Returns, MarksStep
<1>2. CASE ReadStep
  BY <1>2, ReadMarks DEF ReadStep, Read, Returns, MarksStep
<1>3. CASE DecodeStep
  BY <1>3, DecodeMarks DEF MarksStep
<1>4. CASE UNCHANGED sysVars
  <2>1. UNCHANGED <<core, nm, readNewTraceMessage, target, channel, pending>>
    BY <1>4 DEF sysVars, vars
  <2>2. ASSUME NEW c \in Core PROVE Marked(c)'
    <3>1. Marked(c) /\ (Busy(c)' <=> Busy(c))
      BY <2>1 DEF MarksInv, Busy
    <3> QED
      BY <2>1, <3>1 DEF Marked, EntersISR, MarksOf
  <2>3. MarksInv'
    BY <2>1, <2>2 DEF MarksInv
  <2> QED
    BY <1>4, <2>3
<1> QED
  BY <1>1, <1>2, <1>3, <1>4 DEF SysNext

\* Where no message is lost and tracing goes on, the first instruction of each
\* handler, and no other, is marked as such.
THEOREM HandlersMarked == ASSUME CallsFit, ~Lossy, ~Stops PROVE SysSpec => HandlersAreMarked
<1>1. SysInv /\ SysInv' /\ MarksInv /\ [SysNext]_sysVars => MarksInv' /\ [MarksStep]_sysVars
  BY MarksKept
<1> QED
  BY <1>1, SysInitMarks, SysInvariance, PTL DEF SysSpec, HandlersAreMarked, MarksStep
=============================================================================
