--------------------------- MODULE SwtServerProofs ---------------------------
(***************************************************************************)
(* Proofs about SwtServer, for any number of clients and any size of the   *)
(* buffers.  The invariants are proved one after the other, each with the  *)
(* help of those before it; the refinement of Fanout comes last.           *)
(***************************************************************************)
EXTENDS SwtServer, FiniteSetTheorems, SequenceTheorems, TLAPS

Connection == [fd : Nat \ {0}, client : Client, bytesToSend : Seq(Nat)]

Peer == [state : {"away", "pending", "open", "gone"}, sock : Seq(Nat), got : Seq(Nat)]

MainThread == [pc : {"wait", "accept", "serial", "read", "recv", "send", "reopen"},
               it : Nat \ {0}, part : BOOLEAN]

PthreadModeData ==
  [selectRequestValid : BOOLEAN, selectResponseValid : BOOLEAN, selectResponseAck : BOOLEAN,
   selectResultReadSet : SUBSET Nat, serialLookahead : Seq(Nat)]

Types ==
  /\ mode \in {"threads", "select"}
  /\ dev \in [fifo : Seq(Nat), sent : Nat, dead : BOOLEAN, replugs : Nat]
  /\ peer \in [Client -> Peer]
  /\ backlog \in Seq(Client)
  /\ connections \in Seq(Connection)
  /\ serialFd \in (Nat \ {0}) \cup {None}
  /\ main \in MainThread
  /\ pmd \in PthreadModeData
  /\ sel \in [pc : {"idle", "walk", "select", "answer", "ack"},
              watch : SUBSET [fd : Nat \ {0}, client : Client], result : SUBSET Nat]
  /\ ser \in [pc : {"call", "read", "append"}, bytes : Seq(Nat)]
  /\ asleep \subseteq {"main", "select"}
  /\ heard \in Seq(Nat)

-----------------------------------------------------------------------------
(* Sequences.                                                              *)

\* The first n elements of a sequence, and the others.
LEMMA FrontAndRest ==
  ASSUME NEW S, NEW s \in Seq(S), NEW n \in 0..Len(s)
  PROVE  /\ Front(s, n) \in Seq(S) /\ Len(Front(s, n)) = n
         /\ \A i \in 1..n : Front(s, n)[i] = s[i]
         /\ Rest(s, n) \in Seq(S) /\ Len(Rest(s, n)) = Len(s) - n
         /\ \A i \in 1..(Len(s) - n) : Rest(s, n)[i] = s[n + i]
<1>1. Len(s) \in Nat /\ n \in Nat /\ \A i \in 1..Len(s) : s[i] \in S
  BY LenProperties
<1>2. /\ SubSeq(s, 1, n) \in Seq(S)
      /\ Len(SubSeq(s, 1, n)) = IF 1 <= n THEN n - 1 + 1 ELSE 0
      /\ \A i \in 1..(n - 1 + 1) : SubSeq(s, 1, n)[i] = s[1 + i - 1]
  BY <1>1, SubSeqProperties
<1>3. /\ SubSeq(s, n + 1, Len(s)) \in Seq(S)
      /\ Len(SubSeq(s, n + 1, Len(s))) = IF n + 1 <= Len(s) THEN Len(s) - (n + 1) + 1 ELSE 0
      /\ \A i \in 1..(Len(s) - (n + 1) + 1) : SubSeq(s, n + 1, Len(s))[i] = s[n + 1 + i - 1]
  <2>1. \A i \in (n + 1)..Len(s) : s[i] \in S
    BY <1>1
  <2> HIDE <1>1
  <2>2. n + 1 \in Int /\ Len(s) \in Int
    BY <1>1
  <2> QED
    BY <2>1, <2>2, SubSeqProperties
<1> QED
  BY <1>1, <1>2, <1>3 DEF Front, Rest

\* A sequence without its element i.
LEMMA WithoutElement ==
  ASSUME NEW S, NEW s \in Seq(S), NEW i \in 1..Len(s)
  PROVE  /\ Without(s, i) \in Seq(S) /\ Len(Without(s, i)) = Len(s) - 1
         /\ \A k \in 1..(Len(s) - 1) :
              Without(s, i)[k] = s[IF k < i THEN k ELSE k + 1]
<1>1. Len(s) - 1 \in Nat
  BY LenProperties
<1>2. \A k \in 1..(Len(s) - 1) : (IF k < i THEN s[k] ELSE s[k + 1]) \in S
  BY LenProperties
<1> QED
  BY <1>1, <1>2 DEF Without

\* A function on 1..n is a sequence of length n.
LEMMA FunctionIsSeq ==
  ASSUME NEW S, NEW n \in Nat, NEW f \in [1..n -> S]
  PROVE  f \in Seq(S) /\ Len(f) = n
OBVIOUS

\* The lesser of two lengths.
LEMMA LesserOf ==
  ASSUME NEW a \in Nat, NEW b \in Int
  PROVE  Lesser(a, b) \in {a, b} /\ Lesser(a, b) <= a /\ Lesser(a, b) <= b
         /\ (b >= 0 => Lesser(a, b) \in 0..a)
BY DEF Lesser

-----------------------------------------------------------------------------
(* Descriptors.                                                            *)

\* A new descriptor is one that is not in use, and not the server socket's.
LEMMA FreeFdIsFree ==
  ASSUME connections \in Seq(Connection), serialFd \in (Nat \ {0}) \cup {None}
  PROVE  FreeFd \in Nat \ {0} /\ FreeFd \notin OpenFds
<1> DEFINE N == Cardinality(OpenFds)
           Free == (1..(N + 1)) \ OpenFds
<1>1. IsFiniteSet(Fds)
  <2> DEFINE f == [i \in 1..Len(connections) |-> connections[i].fd]
  <2>1. IsFiniteSet(1..Len(connections)) /\ DOMAIN connections = 1..Len(connections)
    BY LenProperties, FS_Interval
  <2>2. f \in Surjection(1..Len(connections), Fds)
    BY <2>1 DEF Fds, Surjection
  <2> QED
    BY <2>1, <2>2, FS_Surjection
<1>2. IsFiniteSet(OpenFds) /\ N \in Nat
  <2>1. IsFiniteSet({serialFd} \ {None})
    BY FS_Singleton, FS_Difference
  <2>2. IsFiniteSet(OpenFds)
    BY <1>1, <2>1, FS_Union DEF OpenFds
  <2> QED
    BY <2>2, FS_CardinalityType
<1>3. Free # {}
  <2> SUFFICES ASSUME 1..(N + 1) \subseteq OpenFds
               PROVE  FALSE
    OBVIOUS
  <2>1. Cardinality(1..(N + 1)) = N + 1
    BY <1>2, FS_Interval
  <2>2. Cardinality(1..(N + 1)) <= N
    BY <1>2, FS_Subset
  <2> QED
    BY <1>2, <2>1, <2>2
<1> HIDE DEF N
<1>4. PICK n \in Free : \A k \in Free : ~(k < n)
  <2>1. Free \subseteq Nat
    BY <1>2
  <2>2. PICK n \in Free : \A k \in Free : ~(<<k, n>> \in OpToRel(<, Nat))
    BY <1>3, <2>1, WFMin, NatLessThanWellFounded
  <2> QED
    BY <2>1, <2>2 DEF OpToRel
<1>5. n \in 1..(N + 1) /\ n \notin OpenFds /\ \A k \in 1..(n - 1) : k \in OpenFds
  BY <1>2, <1>4
<1>6. FreeFd \in 1..(N + 1) /\ FreeFd \notin OpenFds
  BY <1>5 DEF FreeFd, N
<1> QED
  BY <1>2, <1>6

-----------------------------------------------------------------------------
(* The types of the variables.                                             *)

\* What the main thread does to the connections keeps their type.
LEMMA ConnectionTypes ==
  ASSUME Types
  PROVE  /\ \A i \in 1..Len(connections) : connections[i] \in Connection
         /\ \A chunk \in Seq(Nat) : Queued(chunk) \in Seq(Connection)
         /\ \A i \in 1..Len(connections) : Without(connections, i) \in Seq(Connection)
         /\ \A c \in Client : Append(connections, [fd |-> FreeFd, client |-> c, bytesToSend |-> <<>>])
                                \in Seq(Connection)
<1>1. \A i \in 1..Len(connections) : connections[i] \in Connection
  BY LenProperties DEF Types
<1>2. DOMAIN connections = 1..Len(connections) /\ Len(connections) \in Nat
  BY LenProperties DEF Types
<1>3. ASSUME NEW chunk \in Seq(Nat) PROVE Queued(chunk) \in Seq(Connection)
  <2>1. \A i \in 1..Len(connections) :
          /\ connections[i].bytesToSend \in Seq(Nat)
          /\ connections[i].bytesToSend \o chunk \in Seq(Nat)
    BY <1>1, ConcatProperties DEF Connection
  <2>2. ASSUME NEW i \in 1..Len(connections)
        PROVE  (IF Len(connections[i].bytesToSend) > Threshold THEN connections[i]
                ELSE [connections[i] EXCEPT !.bytesToSend = @ \o chunk]) \in Connection
    BY <1>1, <2>1 DEF Connection
  <2>3. Queued(chunk) \in [1..Len(connections) -> Connection]
    BY <1>2, <2>2, Zenon DEF Queued
  <2> QED
    BY <1>2, <2>3, FunctionIsSeq
<1>4. \A i \in 1..Len(connections) : Without(connections, i) \in Seq(Connection)
  BY WithoutElement DEF Types
<1>5. \A c \in Client : [fd |-> FreeFd, client |-> c, bytesToSend |-> <<>>] \in Connection
  BY FreeFdIsFree DEF Types, Connection
<1>6. ASSUME NEW c \in Client
      PROVE  Append(connections, [fd |-> FreeFd, client |-> c, bytesToSend |-> <<>>]) \in Seq(Connection)
  <2> DEFINE k == [fd |-> FreeFd, client |-> c, bytesToSend |-> <<>>]
  <2>1. k \in Connection
    BY <1>5
  <2> HIDE DEF k
  <2>2. Append(connections, k) \in Seq(Connection)
    BY <2>1, AppendProperties DEF Types
  <2> QED
    BY <2>2 DEF k
<1> QED
  BY <1>1, <1>3, <1>4, <1>6

\* The bytes at the front of a queue and those behind them.
LEMMA ChunkTypes ==
  ASSUME NEW q \in Seq(Nat), NEW n \in Nat \ {0}
  PROVE  /\ Lesser(Len(q), n) \in 0..Len(q) /\ Lesser(Len(q), n) <= n
         /\ Front(q, Lesser(Len(q), n)) \in Seq(Nat)
         /\ Rest(q, Lesser(Len(q), n)) \in Seq(Nat)
<1>1. Len(q) \in Nat /\ n \in Int /\ n >= 0
  BY LenProperties
<1>2. Lesser(Len(q), n) \in 0..Len(q) /\ Lesser(Len(q), n) <= n
  BY <1>1, LesserOf
<1> QED
  BY <1>2, FrontAndRest

\* The places the main thread goes to.
LEMMA MainThreadTypes ==
  ASSUME main \in MainThread
  PROVE  /\ \A pc \in {"wait", "accept", "serial", "read", "recv", "send", "reopen"} :
              Goto(pc) => main' \in MainThread
         /\ \A i \in Nat \ {0} : Stay(i) => main' \in MainThread
         /\ main' = [main EXCEPT !.part = TRUE] => main' \in MainThread
         /\ UNCHANGED main => main' \in MainThread
<1>1. \A pc \in {"wait", "accept", "serial", "read", "recv", "send", "reopen"} :
        [pc |-> pc, it |-> 1, part |-> FALSE] \in MainThread
  BY DEF MainThread
<1>2. \A i \in Nat \ {0} : [main EXCEPT !.it = i, !.part = FALSE] \in MainThread
  BY DEF MainThread
<1>3. [main EXCEPT !.part = TRUE] \in MainThread
  BY DEF MainThread
<1> QED
  BY <1>1, <1>2, <1>3 DEF Goto, Stay

\* The variables are of their types at the start.
LEMMA TypesInit == Init => Types
BY SwtAssumption DEF Init, Types, Peer, Connection, MainThread, PthreadModeData

\* The steps of the main thread up to the reading of the device.
LEMMA TypesWait ==
  ASSUME Types, WaitUsingThreads \/ WaitUsingSelect \/ Accept \/ CheckSerial
  PROVE  Types'
<1>1. CASE WaitUsingThreads
  <2>1. Request(pmd) \in PthreadModeData
    BY DEF Types, PthreadModeData, Request
  <2>2. pmd' \in PthreadModeData
    BY <1>1, <2>1 DEF WaitUsingThreads, PthreadModeData
  <2>3. main' \in MainThread
    BY <1>1, MainThreadTypes DEF WaitUsingThreads, Types
  <2>4. asleep' \subseteq {"main", "select"}
    BY <1>1 DEF WaitUsingThreads, Types
  <2> QED
    BY <1>1, <2>2, <2>3, <2>4 DEF WaitUsingThreads, Types
<1>2. CASE WaitUsingSelect
  <2>1. \A i \in 1..Len(connections) : connections[i].fd \in Nat
    BY ConnectionTypes DEF Connection
  <2>2. SocketsReady(Watched) \subseteq Nat
    BY <2>1, LenProperties DEF SocketsReady, Watched, ServerSocket, Types
  <2>3. (IF SerialReady THEN {serialFd} ELSE {}) \subseteq Nat
    BY DEF SerialReady, Types
  <2> DEFINE ready == SocketsReady(Watched) \cup (IF SerialReady THEN {serialFd} ELSE {})
  <2>4. ready \subseteq Nat
    BY <2>2, <2>3
  <2>5. pmd' = [pmd EXCEPT !.selectResultReadSet = ready]
    BY <1>2 DEF WaitUsingSelect
  <2> HIDE DEF ready
  <2>6. pmd' \in PthreadModeData
    BY <2>4, <2>5 DEF Types, PthreadModeData
  <2> QED
    BY <1>2, <2>6, MainThreadTypes DEF WaitUsingSelect, Types
<1>3. CASE Accept
  <2>1. CASE Readable(ServerSocket)
    <3>1. Head(backlog) \in Client /\ Tail(backlog) \in Seq(Client)
      BY <1>3, <2>1, HeadTailProperties DEF Accept, Types
    <3>2. connections' \in Seq(Connection)
      BY <1>3, <2>1, <3>1, ConnectionTypes DEF Accept
    <3> DEFINE c == Head(backlog)
    <3>3. peer' = [peer EXCEPT ![c].state = IF @ = "pending" THEN "open" ELSE @]
      BY <1>3, <2>1 DEF Accept
    <3> HIDE DEF c
    <3>4. c \in Client /\ peer \in [Client -> Peer]
      BY <3>1 DEF Types, c
    <3>5. peer' \in [Client -> Peer]
      BY <3>3, <3>4 DEF Peer
    <3> QED
      BY <1>3, <2>1, <3>1, <3>2, <3>5, MainThreadTypes DEF Accept, Types
  <2>2. CASE ~Readable(ServerSocket)
    BY <1>3, <2>2, MainThreadTypes DEF Accept, Types
  <2> QED
    BY <2>1, <2>2
<1>4. CASE CheckSerial
  BY <1>4, MainThreadTypes DEF CheckSerial, Types
<1> QED
  BY <1>1, <1>2, <1>3, <1>4

\* The steps in which the main thread reads the device's bytes.
LEMMA TypesRead ==
  ASSUME Types, ReadLookahead \/ ReadDevice
  PROVE  Types'
<1>1. ASSUME NEW chunk \in Seq(Nat), AfterRead(chunk)
      PROVE  /\ connections' \in Seq(Connection) /\ main' \in MainThread
             /\ serialFd' \in (Nat \ {0}) \cup {None}
  <2>1. main \in MainThread /\ connections \in Seq(Connection) /\ serialFd \in (Nat \ {0}) \cup {None}
    BY DEF Types
  <2>2. Queued(chunk) \in Seq(Connection)
    BY <1>1, ConnectionTypes
  <2> QED
    BY <1>1, <2>1, <2>2, MainThreadTypes DEF AfterRead
<1>2. CASE ReadLookahead
  <2> DEFINE q == pmd.serialLookahead
             n == Lesser(Len(q), BufLen)
  <2>1. Front(q, n) \in Seq(Nat) /\ Rest(q, n) \in Seq(Nat)
    BY ChunkTypes, SwtAssumption DEF Types, PthreadModeData
  <2>2. AfterRead(Front(q, n)) /\ pmd' = [pmd EXCEPT !.serialLookahead = Rest(q, n)]
    BY <1>2 DEF ReadLookahead
  <2> HIDE DEF n
  <2>3. pmd' \in PthreadModeData
    BY <2>1, <2>2 DEF Types, PthreadModeData
  <2> QED
    BY <1>1, <1>2, <2>1, <2>2, <2>3 DEF ReadLookahead, Broadcast, Types
<1>3. CASE ReadDevice
  <2> DEFINE q == dev.fifo
             n == Lesser(Len(q), BufLen)
  <2>1. Front(q, n) \in Seq(Nat) /\ Rest(q, n) \in Seq(Nat)
    BY ChunkTypes, SwtAssumption DEF Types
  <2>2. /\ AfterRead(Front(q, n)) /\ dev' = [dev EXCEPT !.fifo = Rest(q, n)]
        /\ heard' = heard \o Front(q, n)
    BY <1>3 DEF ReadDevice
  <2> HIDE DEF n
  <2>3. heard' \in Seq(Nat)
    BY <2>1, <2>2, ConcatProperties DEF Types
  <2>4. dev' \in [fifo : Seq(Nat), sent : Nat, dead : BOOLEAN, replugs : Nat]
    BY <2>1, <2>2 DEF Types
  <2> QED
    BY <1>1, <1>3, <2>1, <2>2, <2>3, <2>4 DEF ReadDevice, Types
<1> QED
  BY <1>2, <1>3

\* The steps in which it serves the clients and opens the device again.
LEMMA TypesServe ==
  ASSUME Types, Recv \/ Send \/ EndService \/ Reopen
  PROVE  Types'
<1>1. /\ Len(connections) \in Nat /\ main.it \in Nat \ {0} /\ main.it + 1 \in Nat \ {0}
      /\ main \in MainThread
  BY LenProperties DEF Types, MainThread
<1>2. CASE Recv
  <2>1. main' \in MainThread
    BY <1>1, <1>2, MainThreadTypes DEF Recv
  <2>2. connections' \in Seq(Connection)
    BY <1>1, <1>2, ConnectionTypes, SMTT(60) DEF Recv, Types, Drop
  <2> QED
    BY <1>2, <2>1, <2>2 DEF Recv, Types
<1>3. CASE Send
  <2> DEFINE k == connections[main.it]
             p == peer[k.client]
             n == Lesser(Len(k.bytesToSend), SockRoom - Len(p.sock))
  <2>1. main.it \in 1..Len(connections)
    <3>1. main.it <= Len(connections)
      BY <1>3 DEF Send
    <3> QED
      BY <1>1, <3>1
  <2>2. k \in Connection /\ k.client \in Client /\ p \in Peer /\ k.bytesToSend \in Seq(Nat)
    BY <2>1, ConnectionTypes DEF Connection, Types
  <2>3. main' \in MainThread
    BY <1>1, <1>3, MainThreadTypes DEF Send
  <2>4. CASE connections' = connections /\ peer' = peer
    BY <1>3, <2>3, <2>4 DEF Send, Types
  <2>5. CASE /\ n > 0
             /\ connections' = [connections EXCEPT ![main.it].bytesToSend = Sent(@, n)]
             /\ peer' = [peer EXCEPT ![k.client].sock = @ \o Front(k.bytesToSend, n)]
    <3>1. n \in 0..Len(k.bytesToSend)
      <4>1. Len(p.sock) \in Nat /\ Len(k.bytesToSend) \in Nat
        BY <2>2 DEF Peer
      <4>2. SockRoom - Len(p.sock) \in Int
        BY <4>1, SwtAssumption
      <4> QED
        <5> DEFINE a == Len(k.bytesToSend)
                   b == SockRoom - Len(p.sock)
        <5> HIDE DEF a, b
        <5>1. a \in Nat /\ b \in Int /\ Lesser(a, b) > 0
          BY <2>5, <4>1, <4>2 DEF a, b
        <5>2. Lesser(a, b) \in 0..a
          BY <5>1 DEF Lesser
        <5> QED
          BY <5>2 DEF a, b
    <3>2. Front(k.bytesToSend, n) \in Seq(Nat) /\ Sent(k.bytesToSend, n) \in Seq(Nat)
      BY <2>2, <3>1, FrontAndRest DEF Sent
    <3> HIDE DEF n
    <3>3. connections' \in Seq(Connection)
      <4>1. [k EXCEPT !.bytesToSend = Sent(@, n)] \in Connection
        BY <2>2, <3>2 DEF Connection
      <4>2. connections' = [connections EXCEPT ![main.it] = [k EXCEPT !.bytesToSend = Sent(@, n)]]
        BY <2>5
      <4> QED
        BY <2>1, <4>1, <4>2, ExceptSeq DEF Types
    <3>4. peer' \in [Client -> Peer]
      <4>1. p.sock \o Front(k.bytesToSend, n) \in Seq(Nat)
        BY <2>2, <3>2 DEF Peer
      <4> QED
        BY <2>2, <2>5, <4>1 DEF Types, Peer
    <3> QED
      BY <1>3, <2>3, <3>3, <3>4 DEF Send, Types
  <2>6. CASE Drop(main.it) /\ peer' = peer
    BY <1>3, <2>1, <2>3, <2>6, ConnectionTypes DEF Send, Types, Drop
  <2>7. CASE connections' = [connections EXCEPT ![main.it].bytesToSend = <<>>] /\ peer' = peer
    <3>1. [k EXCEPT !.bytesToSend = <<>>] \in Connection
      BY <2>2, EmptySeq DEF Connection
    <3>2. connections' \in Seq(Connection)
      BY <2>1, <2>7, <3>1, ExceptSeq DEF Types
    <3> QED
      BY <1>3, <2>3, <2>7, <3>2 DEF Send, Types
  <2> QED
    BY <1>3, <2>4, <2>5, <2>6, <2>7 DEF Send
<1>4. CASE EndService
  BY <1>1, <1>4, MainThreadTypes DEF EndService, Types
<1>5. CASE Reopen
  <2>1. FreeFd \in Nat \ {0}
    BY FreeFdIsFree DEF Types
  <2>2. dev \in [fifo : Seq(Nat), sent : Nat, dead : BOOLEAN, replugs : Nat]
        /\ dev' = [dev EXCEPT !.fifo = <<>>, !.dead = FALSE]
    BY <1>5 DEF Reopen, Types
  <2>3. dev' \in [fifo : Seq(Nat), sent : Nat, dead : BOOLEAN, replugs : Nat]
    BY <2>2, EmptySeq
  <2> QED
    BY <1>1, <1>5, <2>1, <2>3, MainThreadTypes DEF Reopen, Types
<1> QED
  BY <1>2, <1>3, <1>4, <1>5

\* The steps of the select thread.
LEMMA TypesSelect ==
  ASSUME Types, SelectThread
  PROVE  Types'
<1> DEFINE Watch == [fd : Nat \ {0}, client : Client]
           Sel == [pc : {"idle", "walk", "select", "answer", "ack"},
                   watch : SUBSET Watch, result : SUBSET Nat]
<1>1. sel \in Sel /\ pmd \in PthreadModeData
  BY DEF Types
<1>2. Watched \subseteq Watch
  <2>1. \A i \in DOMAIN connections : connections[i] \in Connection
    BY ConnectionTypes, LenProperties DEF Types
  <2> QED
    BY <2>1 DEF Watched, Connection
<1>3. ASSUME NEW watch \in SUBSET Watch
      PROVE  /\ {w.fd : w \in watch} \cup {ServerSocket} \subseteq Nat
             /\ SocketsReady(watch) \subseteq Nat
  BY DEF ServerSocket, SocketsReady
<1>4. CASE SelectAwaitsRequest
  <2>1. sel' \in Sel
    BY <1>1, <1>2, <1>4 DEF SelectAwaitsRequest
  <2>2. asleep' \subseteq {"main", "select"}
    BY <1>4 DEF SelectAwaitsRequest, Types
  <2> QED
    BY <1>4, <2>1, <2>2 DEF SelectAwaitsRequest, Types
<1>5. CASE SelectWalks
  <2>1. PICK seen \in SUBSET (sel.watch \ Watched) :
          LET watch == seen \cup (sel.watch \cap Watched)
              fds == {w.fd : w \in watch}
          IN sel' = IF fds \subseteq OpenFds
                    THEN [sel EXCEPT !.pc = "select", !.watch = watch]
                    ELSE [sel EXCEPT !.pc = "answer", !.result = fds \cup {ServerSocket}]
    BY <1>5 DEF SelectWalks
  <2> DEFINE watch == seen \cup (sel.watch \cap Watched)
             result == {w.fd : w \in watch} \cup {ServerSocket}
  <2>2. watch \in SUBSET Watch
    <3>1. sel.watch \subseteq Watch
      BY <1>1
    <3> HIDE DEF Watch
    <3> QED
      BY <1>2, <3>1
  <2>3. result \in SUBSET Nat
    BY <1>3, <2>2
  <2>4. \/ sel' = [sel EXCEPT !.pc = "select", !.watch = watch]
        \/ sel' = [sel EXCEPT !.pc = "answer", !.result = result]
    BY <2>1
  <2> HIDE DEF watch, result
  <2>5. sel' \in Sel
    BY <1>1, <2>2, <2>3, <2>4
  <2> QED
    BY <1>5, <2>5 DEF SelectWalks, Types
<1>6. CASE SelectReturns
  <2> DEFINE ready == SocketsReady(sel.watch)
  <2>1. ready \in SUBSET Nat /\ sel' = [sel EXCEPT !.pc = "answer", !.result = ready]
    BY <1>1, <1>3, <1>6 DEF SelectReturns
  <2> HIDE DEF ready
  <2>2. sel' \in Sel
    BY <1>1, <2>1
  <2> QED
    BY <1>6, <2>2 DEF SelectReturns, Types
<1>7. CASE SelectAnswers
  <2>1. pmd' \in PthreadModeData
    BY <1>1, <1>7 DEF SelectAnswers, PthreadModeData
  <2>2. sel' \in Sel
    BY <1>7 DEF SelectAnswers, Answered
  <2> QED
    BY <1>7, <2>1, <2>2 DEF SelectAnswers, Types
<1>8. CASE SelectAwaitsAck
  <2>1. sel' \in Sel
    BY <1>1, <1>8 DEF SelectAwaitsAck
  <2>2. asleep' \subseteq {"main", "select"}
    BY <1>8 DEF SelectAwaitsAck, Types
  <2> QED
    BY <1>8, <2>1, <2>2 DEF SelectAwaitsAck, Types
<1> QED
  BY <1>4, <1>5, <1>6, <1>7, <1>8 DEF SelectThread

\* The steps of the serial thread.
LEMMA TypesSerial ==
  ASSUME Types, SerialThread
  PROVE  Types'
<1> DEFINE Ser == [pc : {"call", "read", "append"}, bytes : Seq(Nat)]
           Dev == [fifo : Seq(Nat), sent : Nat, dead : BOOLEAN, replugs : Nat]
<1>1. ser \in Ser /\ dev \in Dev /\ pmd \in PthreadModeData
  BY DEF Types
<1>2. CASE SerialCalls
  <2>1. ser' \in Ser
    BY <1>1, <1>2 DEF SerialCalls
  <2> QED
    BY <1>2, <2>1 DEF SerialCalls, Types
<1>3. CASE SerialReads
  <2> DEFINE chunk == Front(dev.fifo, Lesser(Len(dev.fifo), BufLen))
             rest == Rest(dev.fifo, Lesser(Len(dev.fifo), BufLen))
  <2>1. chunk \in Seq(Nat) /\ rest \in Seq(Nat)
    BY <1>1, ChunkTypes, SwtAssumption
  <2>2. /\ ser' = [pc |-> "append", bytes |-> chunk] /\ dev' = [dev EXCEPT !.fifo = rest]
        /\ heard' = heard \o chunk
    BY <1>3 DEF SerialReads
  <2> HIDE DEF chunk, rest
  <2>3. ser' \in Ser
    BY <2>1, <2>2
  <2>4. dev' \in Dev
    BY <1>1, <2>1, <2>2
  <2>5. heard' \in Seq(Nat)
    BY <2>1, <2>2, ConcatProperties DEF Types
  <2> QED
    BY <1>3, <2>3, <2>4, <2>5 DEF SerialReads, Types
<1>4. CASE SerialAppends
  <2> DEFINE q == pmd.serialLookahead \o ser.bytes
  <2>1. q \in Seq(Nat)
    BY <1>1, ConcatProperties DEF PthreadModeData
  <2>2. pmd' = [pmd EXCEPT !.serialLookahead = q] /\ ser' = [pc |-> "call", bytes |-> <<>>]
    BY <1>4 DEF SerialAppends
  <2> HIDE DEF q
  <2>3. pmd' \in PthreadModeData
    BY <1>1, <2>1, <2>2 DEF PthreadModeData
  <2>4. ser' \in Ser
    BY <2>2, EmptySeq
  <2> QED
    BY <1>4, <2>3, <2>4 DEF SerialAppends, Broadcast, Types
<1> QED
  BY <1>2, <1>3, <1>4 DEF SerialThread

\* The steps of the device and the clients.
LEMMA TypesEnvironment ==
  ASSUME Types, Environment
  PROVE  Types'
<1> DEFINE Dev == [fifo : Seq(Nat), sent : Nat, dead : BOOLEAN, replugs : Nat]
<1>1. dev \in Dev /\ peer \in [Client -> Peer] /\ backlog \in Seq(Client)
  BY DEF Types
<1>2. CASE DeviceSends
  <2>1. Append(dev.fifo, dev.sent + 1) \in Seq(Nat) /\ dev.sent + 1 \in Nat
    BY <1>1, AppendProperties
  <2>2. dev' \in Dev
    BY <1>1, <1>2, <2>1 DEF DeviceSends
  <2> QED
    BY <1>2, <2>2 DEF DeviceSends, Quiet, Types
<1>3. CASE Replug
  <2>1. dev' = [dev EXCEPT !.dead = TRUE, !.fifo = <<>>, !.replugs = dev.replugs + 1]
    BY <1>3 DEF Replug
  <2>2. dev.replugs + 1 \in Nat /\ <<>> \in Seq(Nat)
    BY <1>1, EmptySeq
  <2>3. dev' \in Dev
    BY <1>1, <2>1, <2>2
  <2> QED
    BY <1>3, <2>3 DEF Replug, Quiet, Types
<1>4. ASSUME NEW c \in Client, Connect(c) PROVE Types'
  <2>1. peer' \in [Client -> Peer]
    BY <1>1, <1>4, ZenonT(60) DEF Connect, Peer
  <2>2. backlog' \in Seq(Client)
    BY <1>1, <1>4, AppendProperties DEF Connect
  <2> QED
    BY <1>4, <2>1, <2>2 DEF Connect, Quiet, Types
<1>5. ASSUME NEW c \in Client, ClientReads(c) PROVE Types'
  <2>1. peer[c].got \o peer[c].sock \in Seq(Nat)
    BY <1>1, ConcatProperties DEF Peer
  <2>2. [peer[c] EXCEPT !.sock = <<>>, !.got = peer[c].got \o peer[c].sock] \in Peer
    BY <1>1, <2>1, EmptySeq DEF Peer
  <2>3. peer' = [peer EXCEPT ![c].sock = <<>>, ![c].got = @ \o peer[c].sock]
    BY <1>5 DEF ClientReads
  <2>4. peer' = [peer EXCEPT ![c] = [peer[c] EXCEPT !.sock = <<>>, !.got = peer[c].got \o peer[c].sock]]
    BY <1>1, <2>3 DEF Peer
  <2>5. peer' \in [Client -> Peer]
    BY <1>1, <2>2, <2>4
  <2> QED
    BY <1>5, <2>5 DEF ClientReads, Quiet, Types
<1>6. ASSUME NEW c \in Client, Leave(c) PROVE Types'
  <2>1. peer' \in [Client -> Peer]
    BY <1>1, <1>6, EmptySeq DEF Leave, Peer
  <2> QED
    BY <1>6, <2>1 DEF Leave, Quiet, Types
<1> QED
  BY <1>2, <1>3, <1>4, <1>5, <1>6 DEF Environment

\* Every step keeps the types.
LEMMA TypesStep ==
  ASSUME Types, [Next]_vars
  PROVE  Types'
<1>1. UNCHANGED vars => Types'
  BY DEF Types, vars
<1> QED
  BY <1>1, TypesWait, TypesRead, TypesServe, TypesSelect, TypesSerial, TypesEnvironment
    DEF Next, Main

\* In every reachable state the variables have their types.
LEMMA TypesInvariant == Spec => []Types
BY TypesInit, TypesStep, PTL DEF Spec

-----------------------------------------------------------------------------
(* The handshake of the main and the select thread.                        *)

\* An acknowledged answer is that of a request that has ended.
Acknowledged ==
  sel.pc = "ack" /\ pmd.selectResponseAck /\ pmd.selectResponseValid => ~pmd.selectRequestValid

\* In select mode there are no other threads, and no lookahead.
OneThread ==
  mode = "select" =>
    /\ sel.pc = "idle" /\ asleep = {} /\ ser = [pc |-> "call", bytes |-> <<>>]
    /\ pmd.serialLookahead = <<>>

HInv == Handshake /\ NoLostWakeup /\ Acknowledged /\ OneThread

\* These invariants are about some variables only.
LEMMA HInvFrame ==
  ASSUME HInv, UNCHANGED <<mode, pmd, sel, ser, asleep>>, "main" \in asleep => UNCHANGED main
  PROVE  HInv'
BY DEF HInv, Handshake, NoLostWakeup, Acknowledged, OneThread, At

\* The main thread waits, or reads the lookahead.
LEMMA HInvMain ==
  ASSUME Types, HInv, Main
  PROVE  HInv'
<1>1. pmd \in PthreadModeData
  BY DEF Types
<1>2. CASE WaitUsingThreads
  <2> DEFINE asks == ~pmd.selectRequestValid
             p == Request(pmd)
             answered == p.selectResponseValid
             ack == [p EXCEPT !.selectResponseAck = TRUE, !.selectRequestValid = FALSE]
  <2>1. /\ p \in PthreadModeData /\ p.selectRequestValid
        /\ p.serialLookahead = pmd.serialLookahead
        /\ p.selectResponseAck = pmd.selectResponseAck
        /\ asks => ~answered
        /\ ~asks => p = pmd
    BY <1>1 DEF Request, PthreadModeData
  <2>2. /\ ack.selectResponseAck /\ ~ack.selectRequestValid
        /\ ack.selectResponseValid = answered /\ ack.serialLookahead = pmd.serialLookahead
    BY <2>1 DEF PthreadModeData
  <2>3. /\ mode = "threads" /\ At("wait") /\ "main" \notin asleep
        /\ UNCHANGED <<mode, sel, ser>>
    BY <1>2 DEF WaitUsingThreads
  <2>4. \/ answered /\ pmd' = ack /\ asleep' = {}
        \/ ~answered /\ pmd' = p /\ asleep' = IF asks THEN {} ELSE asleep
        \/ /\ ~answered /\ p.serialLookahead = <<>> /\ pmd' = p /\ UNCHANGED main
           /\ asleep' = (IF asks THEN {} ELSE asleep) \cup {"main"}
    BY <1>2 DEF WaitUsingThreads, Awaited
  <2> HIDE DEF p, ack
  <2>5. CASE answered /\ pmd' = ack /\ asleep' = {}
    BY <2>1, <2>2, <2>3, <2>5 DEF HInv, Handshake, NoLostWakeup, Acknowledged, OneThread
  <2>6. CASE ~answered /\ pmd' = p /\ asleep' = IF asks THEN {} ELSE asleep
    BY <2>1, <2>3, <2>6 DEF HInv, Handshake, NoLostWakeup, Acknowledged, OneThread
  <2>7. CASE /\ ~answered /\ p.serialLookahead = <<>> /\ pmd' = p /\ UNCHANGED main
             /\ asleep' = (IF asks THEN {} ELSE asleep) \cup {"main"}
    BY <2>1, <2>3, <2>7 DEF HInv, Handshake, NoLostWakeup, Acknowledged, OneThread, At
  <2> QED
    BY <2>4, <2>5, <2>6, <2>7
<1>3. CASE WaitUsingSelect
  <2>1. PICK ready : pmd' = [pmd EXCEPT !.selectResultReadSet = ready]
    BY <1>3 DEF WaitUsingSelect
  <2>2. /\ pmd'.selectRequestValid = pmd.selectRequestValid
        /\ pmd'.selectResponseValid = pmd.selectResponseValid
        /\ pmd'.selectResponseAck = pmd.selectResponseAck
        /\ pmd'.serialLookahead = pmd.serialLookahead
    BY <1>1, <2>1 DEF PthreadModeData
  <2>3. mode = "select" /\ UNCHANGED <<mode, sel, ser, asleep>>
    BY <1>3 DEF WaitUsingSelect
  <2> QED
    BY <2>2, <2>3 DEF HInv, Handshake, NoLostWakeup, Acknowledged, OneThread
<1>4. CASE ReadLookahead
  <2>1. PICK q : pmd' = [pmd EXCEPT !.serialLookahead = q]
    BY <1>4 DEF ReadLookahead
  <2>2. /\ pmd'.selectRequestValid = pmd.selectRequestValid
        /\ pmd'.selectResponseValid = pmd.selectResponseValid
        /\ pmd'.selectResponseAck = pmd.selectResponseAck
    BY <1>1, <2>1 DEF PthreadModeData
  <2>3. mode = "threads" /\ UNCHANGED <<mode, sel, ser>> /\ asleep' = {}
    BY <1>4 DEF ReadLookahead, Broadcast
  <2> QED
    BY <2>2, <2>3 DEF HInv, Handshake, NoLostWakeup, Acknowledged, OneThread
<1>5. "main" \in asleep => At("wait") /\ mode = "threads"
  BY DEF HInv, NoLostWakeup, OneThread, Types
<1>6. CASE Accept \/ CheckSerial \/ ReadDevice \/ Recv \/ Send \/ EndService \/ Reopen
  <2>1. UNCHANGED <<mode, pmd, sel, ser, asleep>>
    BY <1>6 DEF Accept, CheckSerial, ReadDevice, Recv, Send, EndService, Reopen
  <2>2. ~At("wait")
    BY <1>6 DEF Accept, CheckSerial, ReadDevice, Recv, Send, EndService, Reopen, At
  <2> QED
    BY <1>5, <2>1, <2>2, HInvFrame
<1> QED
  BY <1>2, <1>3, <1>4, <1>6 DEF Main

\* The select thread serves a request, answers it and waits for the
\* acknowledgement.
LEMMA HInvSelect ==
  ASSUME Types, HInv, SelectThread
  PROVE  HInv'
<1> DEFINE Sel == [pc : {"idle", "walk", "select", "answer", "ack"},
                   watch : SUBSET [fd : Nat \ {0}, client : Client], result : SUBSET Nat]
<1>1. pmd \in PthreadModeData /\ sel \in Sel /\ mode \in {"threads", "select"}
  BY DEF Types
<1>2. mode = "threads"
  BY <1>1 DEF SelectThread, HInv, OneThread, SelectAwaitsRequest, SelectWalks, SelectReturns,
              SelectAnswers, SelectAwaitsAck
<1>3. UNCHANGED <<mode, main, ser>>
  BY DEF SelectThread, SelectAwaitsRequest, SelectWalks, SelectReturns, SelectAnswers,
         SelectAwaitsAck
<1>4. CASE SelectAwaitsRequest
  <2>1. UNCHANGED pmd /\ sel.pc = "idle"
    BY <1>4 DEF SelectAwaitsRequest
  <2>2. \/ pmd.selectRequestValid /\ sel'.pc = "walk" /\ UNCHANGED asleep
        \/ ~pmd.selectRequestValid /\ UNCHANGED sel /\ asleep' = asleep \cup {"select"}
    BY <1>1, <1>4 DEF SelectAwaitsRequest
  <2> QED
    BY <1>1, <1>2, <1>3, <2>1, <2>2
      DEF HInv, Handshake, NoLostWakeup, Acknowledged, OneThread, At
<1>5. CASE SelectWalks \/ SelectReturns
  <2>1. /\ UNCHANGED <<pmd, asleep>> /\ sel.pc \in {"walk", "select"}
        /\ sel'.pc \in {"select", "answer"}
    BY <1>1, <1>5 DEF SelectWalks, SelectReturns
  <2> QED
    BY <1>1, <1>2, <1>3, <2>1 DEF HInv, Handshake, NoLostWakeup, Acknowledged, OneThread, At
<1>6. CASE SelectAnswers
  <2>1. /\ pmd'.selectRequestValid = pmd.selectRequestValid
        /\ pmd'.selectResponseValid /\ ~pmd'.selectResponseAck
    BY <1>1, <1>6 DEF SelectAnswers, PthreadModeData
  <2>2. sel.pc = "answer" /\ sel'.pc = "ack" /\ asleep' = {"select"}
    BY <1>6 DEF SelectAnswers, Answered
  <2> QED
    BY <1>2, <1>3, <2>1, <2>2 DEF HInv, Handshake, NoLostWakeup, Acknowledged, OneThread
<1>7. CASE SelectAwaitsAck
  <2>1. UNCHANGED pmd /\ sel.pc = "ack"
    BY <1>7 DEF SelectAwaitsAck
  <2>2. \/ pmd.selectResponseAck /\ sel'.pc = "idle" /\ UNCHANGED asleep /\ "select" \notin asleep
        \/ ~pmd.selectResponseAck /\ UNCHANGED sel /\ asleep' = asleep \cup {"select"}
    BY <1>1, <1>7 DEF SelectAwaitsAck
  <2> QED
    BY <1>1, <1>2, <1>3, <2>1, <2>2
      DEF HInv, Handshake, NoLostWakeup, Acknowledged, OneThread, At
<1> QED
  BY <1>4, <1>5, <1>6, <1>7 DEF SelectThread

\* The serial thread wakes the others when it has appended to the lookahead.
LEMMA HInvSerial ==
  ASSUME Types, HInv, SerialThread
  PROVE  HInv'
<1>1. pmd \in PthreadModeData /\ mode \in {"threads", "select"}
  BY DEF Types
<1>2. mode = "threads" /\ UNCHANGED <<mode, main, sel>>
  <2>1. mode = "select" => ser.pc = "call"
    BY DEF HInv, OneThread
  <2>2. mode = "threads" \/ ser.pc \in {"read", "append"}
    BY DEF SerialThread, SerialCalls, SerialReads, SerialAppends
  <2>3. UNCHANGED <<mode, main, sel>>
    BY DEF SerialThread, SerialCalls, SerialReads, SerialAppends
  <2> QED
    BY <1>1, <2>1, <2>2, <2>3
<1>3. CASE SerialCalls \/ SerialReads
  <2>1. UNCHANGED <<pmd, asleep>>
    BY <1>3 DEF SerialCalls, SerialReads
  <2> QED
    BY <1>2, <2>1 DEF HInv, Handshake, NoLostWakeup, Acknowledged, OneThread, At
<1>4. CASE SerialAppends
  <2>1. /\ pmd'.selectRequestValid = pmd.selectRequestValid
        /\ pmd'.selectResponseValid = pmd.selectResponseValid
        /\ pmd'.selectResponseAck = pmd.selectResponseAck
    BY <1>1, <1>4 DEF SerialAppends, PthreadModeData
  <2>2. asleep' = {}
    BY <1>4 DEF SerialAppends, Broadcast
  <2> QED
    BY <1>2, <2>1, <2>2 DEF HInv, Handshake, NoLostWakeup, Acknowledged, OneThread
<1> QED
  BY <1>3, <1>4 DEF SerialThread

\* The handshake and the sleeping threads, in every reachable state.
LEMMA HInvariant == Spec => []HInv
<1>1. Init => HInv
  BY DEF Init, HInv, Handshake, NoLostWakeup, Acknowledged, OneThread
<1>2. Environment \/ UNCHANGED vars => UNCHANGED <<mode, main, pmd, sel, ser, asleep>>
  BY DEF Environment, DeviceSends, Replug, Connect, ClientReads, Leave, Quiet, vars
<1>3. Types /\ HInv /\ [Next]_vars => HInv'
  BY <1>2, HInvMain, HInvSelect, HInvSerial, HInvFrame DEF Next
<1> QED
  BY <1>1, <1>3, TypesInvariant, PTL DEF Spec

\* The main and the select thread agree on where a request stands: the select
\* thread works on a request that has no valid answer yet, and an answer stays
\* until it is acknowledged (waitUsingThreadsAndConditionVar, selectThread).
THEOREM HandshakeHolds == Spec => []Handshake
BY HInvariant, PTL DEF HInv

\* No wakeup of a thread that waits for conditionSomethingChanged is lost: a
\* thread sleeps only while what it waits for is not so.
THEOREM NoWakeupIsLost == Spec => []NoLostWakeup
BY HInvariant, PTL DEF HInv

-----------------------------------------------------------------------------
(* The list of connections.                                                *)

\* Queueing bytes changes no descriptor and no client.
LEMMA QueuedConnections ==
  ASSUME Types, NEW chunk \in Seq(Nat)
  PROVE  /\ Queued(chunk) \in Seq(Connection) /\ Len(Queued(chunk)) = Len(connections)
         /\ \A i \in 1..Len(connections) :
              /\ Queued(chunk)[i].fd = connections[i].fd
              /\ Queued(chunk)[i].client = connections[i].client
              /\ Queued(chunk)[i].bytesToSend =
                   IF Len(connections[i].bytesToSend) > Threshold THEN connections[i].bytesToSend
                   ELSE connections[i].bytesToSend \o chunk
<1>1. /\ DOMAIN connections = 1..Len(connections) /\ Len(connections) \in Nat
      /\ \A i \in 1..Len(connections) : connections[i] \in Connection
  BY ConnectionTypes, LenProperties DEF Types
<1>2. Queued(chunk) \in Seq(Connection) /\ DOMAIN Queued(chunk) = 1..Len(connections)
  BY <1>1, ConnectionTypes DEF Queued
<1>3. ASSUME NEW i \in 1..Len(connections)
      PROVE  /\ Queued(chunk)[i].fd = connections[i].fd
             /\ Queued(chunk)[i].client = connections[i].client
             /\ Queued(chunk)[i].bytesToSend =
                  IF Len(connections[i].bytesToSend) > Threshold THEN connections[i].bytesToSend
                  ELSE connections[i].bytesToSend \o chunk
  BY <1>1 DEF Queued, Connection
<1>4. Len(Queued(chunk)) = Len(connections)
  BY <1>1, <1>2, LenProperties
<1> QED
  BY <1>2, <1>3, <1>4

\* What a step may do to the connections: accept a client, queue a chunk for
\* them, drop the one the main thread is at, or take bytes from its queue.
Accepts ==
  /\ At("accept") /\ Readable(ServerSocket) /\ backlog # <<>>
  /\ backlog' = Tail(backlog)
  /\ connections' = Append(connections, [fd |-> FreeFd, client |-> Head(backlog), bytesToSend |-> <<>>])
  /\ peer' = [peer EXCEPT ![Head(backlog)].state = IF @ = "pending" THEN "open" ELSE @]
  /\ Goto("serial") /\ UNCHANGED <<serialFd, heard, ser, pmd>>

Queues(chunk) ==
  /\ chunk \in Seq(Nat) /\ chunk # <<>> /\ Len(chunk) <= BufLen
  /\ At("read") /\ connections' = Queued(chunk)
  /\ Goto("read") \/ Goto("recv")
  /\ UNCHANGED <<serialFd, peer, backlog>>

Drops ==
  /\ main.it \in 1..Len(connections)
  /\ \/ /\ At("recv") /\ Readable(connections[main.it].fd)
        /\ peer[connections[main.it].client].state = "gone"
     \/ At("send") /\ peer[connections[main.it].client].state # "open"
  /\ Drop(main.it)
  /\ UNCHANGED <<main, serialFd, peer, backlog, heard, ser, pmd>>

TakesTo(q) ==
  /\ main.it \in 1..Len(connections) /\ At("send")
  /\ connections' = [connections EXCEPT ![main.it] = [@ EXCEPT !.bytesToSend = q]]
  /\ q \in Seq(Nat) /\ Len(q) <= Len(connections[main.it].bytesToSend)
  /\ LET k == connections[main.it] IN
     \/ peer[k.client].state # "open" /\ UNCHANGED peer
     \/ \E n \in 0..Len(k.bytesToSend) :
          /\ peer[k.client].state = "open"
          /\ q = Rest(k.bytesToSend, n)
          /\ peer' = [peer EXCEPT ![k.client].sock = @ \o Front(k.bytesToSend, n)]
  /\ Stay(main.it + 1) \/ main' = [main EXCEPT !.part = TRUE]
  /\ UNCHANGED <<serialFd, backlog>>

Leaves ==
  /\ UNCHANGED connections
  /\ \/ UNCHANGED <<peer, backlog>>
     \/ \E c \in Client : Connect(c) \/ ClientReads(c) \/ Leave(c)
  /\ \/ UNCHANGED serialFd
     \/ serialFd' = None
     \/ serialFd' = FreeFd
  /\ \/ UNCHANGED main
     \/ \E pc \in {"wait", "accept", "serial", "read", "recv", "send", "reopen"} : Goto(pc)
     \/ main.it <= Len(connections) /\ Stay(main.it + 1)

\* The reading of a chunk, from the lookahead or in select mode from the device.
Reads(chunk) ==
  /\ chunk \in Seq(Nat) /\ UNCHANGED ser
  /\ \/ /\ Len(chunk) <= Len(pmd.serialLookahead)
        /\ chunk = Front(pmd.serialLookahead, Len(chunk))
        /\ pmd' = [pmd EXCEPT !.serialLookahead = Rest(pmd.serialLookahead, Len(chunk))]
        /\ UNCHANGED heard
     \/ mode = "select" /\ heard' = heard \o chunk /\ UNCHANGED pmd

\* Either kind of read takes a chunk and, unless it is empty, queues it.
LEMMA ReadStep ==
  ASSUME Types, ReadLookahead \/ ReadDevice
  PROVE  \E chunk : Reads(chunk) /\ (IF chunk = <<>> THEN Leaves ELSE Queues(chunk))
<1> DEFINE q == IF mode = "select" THEN dev.fifo ELSE pmd.serialLookahead
           n == Lesser(Len(q), BufLen)
           chunk == Front(q, n)
<1>1. q \in Seq(Nat)
  BY DEF Types, PthreadModeData
<1>2. n \in 0..Len(q) /\ n <= BufLen
  BY <1>1, ChunkTypes, SwtAssumption
<1>3. AfterRead(chunk) /\ At("read") /\ UNCHANGED <<peer, backlog, ser>>
  BY DEF ReadLookahead, ReadDevice
<1>4. \/ mode = "select" /\ heard' = heard \o chunk /\ UNCHANGED pmd
      \/ /\ q = pmd.serialLookahead /\ UNCHANGED heard
         /\ pmd' = [pmd EXCEPT !.serialLookahead = Rest(q, n)]
  BY DEF ReadLookahead, ReadDevice
<1> HIDE DEF q, n
<1>5. chunk \in Seq(Nat) /\ Len(chunk) = n /\ Len(q) \in Nat
  BY <1>1, <1>2, FrontAndRest, LenProperties
<1> HIDE DEF chunk
<1>6. Reads(chunk)
  BY <1>2, <1>3, <1>4, <1>5 DEF Reads, chunk
<1>7. CASE chunk = <<>>
  BY <1>3, <1>6, <1>7 DEF AfterRead, Leaves
<1>8. CASE chunk # <<>>
  <2>1. Queues(chunk)
    BY <1>2, <1>3, <1>5, <1>8 DEF AfterRead, Queues
  <2> QED
    BY <1>6, <1>8, <2>1
<1> QED
  BY <1>7, <1>8

\* A step that passes nothing on.
Calm == Leaves \/ Accepts \/ Drops \/ \E q : TakesTo(q)

\* Steps other than the two reads pass nothing on.
LEMMA CalmStep ==
  ASSUME Types, [Next]_vars, ~(ReadLookahead \/ ReadDevice)
  PROVE  Calm
<1>1. /\ Len(connections) \in Nat /\ main.it \in Nat \ {0}
      /\ main.it <= Len(connections) => main.it \in 1..Len(connections)
      /\ \A i \in 1..Len(connections) : connections[i] \in Connection
  BY ConnectionTypes, LenProperties, SMTT(60) DEF Types, MainThread
<1>2. CASE WaitUsingThreads \/ WaitUsingSelect \/ CheckSerial \/ EndService \/ Reopen
  BY <1>2 DEF WaitUsingThreads, WaitUsingSelect, CheckSerial, EndService, Reopen, Leaves, Calm
<1>3. CASE Accept
  BY <1>3 DEF Accept, Accepts, Leaves, Calm
<1>7. CASE Recv
  <2>1. CASE main.it > Len(connections)
    BY <1>7, <2>1 DEF Recv, Leaves, Calm
  <2>2. CASE main.it <= Len(connections)
    BY <1>1, <1>7, <2>2 DEF Recv, Leaves, Drops, Calm
  <2> QED
    BY <1>1, <2>1, <2>2
<1>8. CASE Send
  <2> DEFINE k == connections[main.it]
             p == peer[k.client]
             n == Lesser(Len(k.bytesToSend), SockRoom - Len(p.sock))
  <2>1. main.it \in 1..Len(connections) /\ main.it <= Len(connections) /\ At("send")
    BY <1>1, <1>8 DEF Send
  <2>2. k \in Connection /\ k.bytesToSend \in Seq(Nat) /\ p \in Peer
    BY <1>1, <2>1 DEF Connection, Types
  <2>3. CASE k.bytesToSend = <<>>
    BY <1>8, <2>1, <2>3 DEF Send, Leaves, Calm
  <2>4. CASE k.bytesToSend # <<>> /\ p.state = "open"
    <3>1. n \in 0..Len(k.bytesToSend)
      <4>1. Len(k.bytesToSend) \in Nat /\ SockRoom - Len(p.sock) \in Int
        BY <2>2, LenProperties, SwtAssumption DEF Peer
      <4>2. n > 0
        BY <1>8, <2>4 DEF Send
      <4> QED
        BY <4>1, <4>2 DEF Lesser
    <3>2. /\ connections' = [connections EXCEPT ![main.it].bytesToSend = Sent(@, n)]
          /\ peer' = [peer EXCEPT ![k.client].sock = @ \o Front(k.bytesToSend, n)]
          /\ Stay(main.it + 1) \/ main' = [main EXCEPT !.part = TRUE]
          /\ UNCHANGED <<serialFd, backlog>>
      BY <1>8, <2>4 DEF Send
    <3>3. Sent(k.bytesToSend, n) \in Seq(Nat) /\ Len(Sent(k.bytesToSend, n)) <= Len(k.bytesToSend)
      <4> HIDE DEF n
      <4>1. Len(k.bytesToSend) \in Nat
        BY <2>2, LenProperties
      <4>2. /\ Rest(k.bytesToSend, n) \in Seq(Nat)
            /\ Len(Rest(k.bytesToSend, n)) = Len(k.bytesToSend) - n
        BY <2>2, <3>1, FrontAndRest, ZenonT(60)
      <4> QED
        BY <3>1, <4>1, <4>2 DEF Sent
    <3> HIDE DEF n
    <3> DEFINE q == Sent(k.bytesToSend, n)
    <3>4. connections' = [connections EXCEPT ![main.it] = [@ EXCEPT !.bytesToSend = q]]
      BY <3>2
    <3> HIDE DEF q
    <3>5. q \in Seq(Nat) /\ Len(q) <= Len(connections[main.it].bytesToSend)
      BY <3>3 DEF q
    <3>6. TakesTo(q)
      BY <2>1, <2>4, <3>1, <3>2, <3>4, <3>5 DEF TakesTo, Sent, q
    <3> QED
      BY <3>6 DEF Calm
  <2>5. CASE k.bytesToSend # <<>> /\ p.state # "open"
    <3>1. UNCHANGED <<serialFd, peer, backlog, heard, ser, pmd>>
      BY <1>8, <2>5 DEF Send
    <3>2. \/ Drop(main.it) /\ UNCHANGED main
          \/ /\ connections' = [connections EXCEPT ![main.it].bytesToSend = <<>>]
             /\ Stay(main.it + 1)
          \/ UNCHANGED connections /\ Stay(main.it + 1)
      BY <1>8, <2>5 DEF Send
    <3>3. CASE Drop(main.it) /\ UNCHANGED main
      BY <2>1, <2>5, <3>1, <3>3 DEF Drops, Calm
    <3>4. CASE /\ connections' = [connections EXCEPT ![main.it].bytesToSend = <<>>]
               /\ Stay(main.it + 1)
      <4>1. <<>> \in Seq(Nat) /\ Len(<<>>) <= Len(k.bytesToSend)
        BY <2>2, EmptySeq, LenProperties
      <4> QED
        BY <2>1, <2>5, <3>1, <3>4, <4>1 DEF TakesTo, Calm
    <3>5. CASE UNCHANGED connections /\ Stay(main.it + 1)
      BY <2>1, <3>1, <3>5 DEF Leaves, Calm
    <3> QED
      BY <3>2, <3>3, <3>4, <3>5
  <2> QED
    BY <2>3, <2>4, <2>5
<1>9. CASE SelectThread \/ SerialThread
  BY <1>9 DEF SelectThread, SelectAwaitsRequest, SelectWalks, SelectReturns, SelectAnswers,
              SelectAwaitsAck, SerialThread, SerialCalls, SerialReads, SerialAppends, Leaves,
              Calm
<1>10. CASE Environment \/ UNCHANGED vars
  BY <1>10 DEF Environment, DeviceSends, Replug, Connect, ClientReads, Leave, Quiet, vars,
              Leaves, Calm
<1> QED
  BY <1>2, <1>3, <1>7, <1>8, <1>9, <1>10 DEF Next, Main

\* Every step does one of these things to the connections.
LEMMA ConnectionsStep ==
  ASSUME Types, [Next]_vars
  PROVE  Leaves \/ Accepts \/ (\E chunk : Queues(chunk)) \/ Drops \/ (\E q : TakesTo(q))
BY CalmStep, ReadStep DEF Calm

\* The connections after one of these steps, element by element.
LEMMA AcceptedConnections ==
  ASSUME Types, Accepts
  PROVE  /\ Len(connections') = Len(connections) + 1
         /\ \A i \in 1..Len(connections) : connections'[i] = connections[i]
         /\ connections'[Len(connections) + 1]
              = [fd |-> FreeFd, client |-> Head(backlog), bytesToSend |-> <<>>]
         /\ Head(backlog) \in Client /\ FreeFd \in Nat \ {0} /\ FreeFd \notin OpenFds
<1> DEFINE k == [fd |-> FreeFd, client |-> Head(backlog), bytesToSend |-> <<>>]
<1>1. Head(backlog) \in Client /\ FreeFd \in Nat \ {0} /\ FreeFd \notin OpenFds
  BY FreeFdIsFree, HeadTailProperties DEF Types, Accepts
<1>2. k \in Connection
  BY <1>1, EmptySeq DEF Connection
<1>3. connections' = Append(connections, k) /\ connections \in Seq(Connection)
  BY DEF Accepts, Types
<1> HIDE DEF k
<1>4. /\ Len(connections') = Len(connections) + 1
      /\ \A i \in 1..Len(connections) : connections'[i] = connections[i]
      /\ connections'[Len(connections) + 1] = k
  BY <1>2, <1>3, AppendProperties
<1> QED
  BY <1>1, <1>4 DEF k

\* Dropping moves the connections behind the dropped one forward.
LEMMA DroppedConnections ==
  ASSUME Types, Drops
  PROVE  /\ Len(connections) \in Nat \ {0} /\ Len(connections') = Len(connections) - 1
         /\ \A k \in 1..(Len(connections) - 1) :
              connections'[k] = connections[IF k < main.it THEN k ELSE k + 1]
<1>1. connections' = Without(connections, main.it) /\ main.it \in 1..Len(connections)
  BY DEF Drops, Drop
<1>2. Len(connections) \in Nat
  BY LenProperties DEF Types
<1> QED
  BY <1>1, <1>2, WithoutElement, SMTT(60) DEF Types

\* Sending changes the queue of one connection.
LEMMA ServedConnections ==
  ASSUME Types, NEW q, TakesTo(q)
  PROVE  /\ Len(connections') = Len(connections)
         /\ connections[main.it] \in Connection
         /\ connections'[main.it] = [connections[main.it] EXCEPT !.bytesToSend = q]
         /\ \A i \in 1..Len(connections) : i # main.it => connections'[i] = connections[i]
<1> DEFINE k == [connections[main.it] EXCEPT !.bytesToSend = q]
<1>1. main.it \in 1..Len(connections) /\ connections[main.it] \in Connection /\ k \in Connection
  BY ConnectionTypes, ZenonT(60) DEF TakesTo, Connection
<1>2. connections' = [connections EXCEPT ![main.it] = k]
  BY DEF TakesTo
<1> HIDE DEF k
<1>3. /\ Len(connections') = Len(connections)
      /\ \A i \in 1..Len(connections) : connections'[i] = IF i = main.it THEN k ELSE connections[i]
  BY <1>1, <1>2, ExceptSeq DEF Types
<1> QED
  BY <1>1, <1>3 DEF k

\* Descriptors are distinct and queues are limited.
Limits ==
  /\ \A i, j \in 1..Len(connections) : i # j => connections[i].fd # connections[j].fd
  /\ \A i \in 1..Len(connections) :
       connections[i].fd # serialFd /\ Len(connections[i].bytesToSend) <= Threshold + BufLen
  /\ main.it <= Len(connections) + 1

\* Every step keeps the limits.
LEMMA LimitsStep ==
  ASSUME Types, Limits, [Next]_vars
  PROVE  Limits'
<1>1. /\ Len(connections) \in Nat /\ main.it \in Nat \ {0} /\ main \in MainThread
      /\ \A i \in 1..Len(connections) :
           /\ connections[i] \in Connection
           /\ connections[i].fd \in OpenFds /\ connections[i].fd \in Nat \ {0}
           /\ connections[i].bytesToSend \in Seq(Nat)
  <2>1. DOMAIN connections = 1..Len(connections) /\ Len(connections) \in Nat
    BY LenProperties DEF Types
  <2>2. \A i \in 1..Len(connections) : connections[i] \in Connection
    BY ConnectionTypes
  <2> QED
    BY <2>1, <2>2 DEF Types, MainThread, Connection, OpenFds, Fds
<1>2. /\ \A i \in Nat : Stay(i) => main'.it = i
      /\ \A pc : Goto(pc) => main'.it = 1
      /\ main' = [main EXCEPT !.part = TRUE] => main'.it = main.it
  <2>1. \A i \in Nat : [main EXCEPT !.it = i, !.part = FALSE].it = i
    BY <1>1 DEF MainThread
  <2>2. [main EXCEPT !.part = TRUE].it = main.it
    BY <1>1 DEF MainThread
  <2>3. \A pc : Goto(pc) => main'.it = 1
    BY DEF Goto
  <2> QED
    BY <2>1, <2>2, <2>3 DEF Stay
<1>3. CASE Leaves
  <2>1. main'.it <= Len(connections) + 1
    BY <1>1, <1>2, <1>3 DEF Leaves, Limits
  <2>2. \A i \in 1..Len(connections) : connections[i].fd # serialFd'
    <3>1. FreeFd \notin OpenFds
      BY FreeFdIsFree DEF Types
    <3> QED
      BY <1>1, <1>3, <3>1, SwtAssumption DEF Leaves, Limits
  <2> QED
    BY <1>3, <2>1, <2>2 DEF Leaves, Limits
<1>4. CASE Accepts
  <2>1. FreeFd # serialFd
    BY <1>4, AcceptedConnections, SwtAssumption DEF OpenFds
  <2>2. serialFd' = serialFd /\ main'.it = 1
    BY <1>2, <1>4 DEF Accepts
  <2>3. \A i \in 1..Len(connections) : connections[i].fd # FreeFd
    BY <1>1, <1>4, AcceptedConnections
  <2>4. Threshold + BufLen >= 0
    BY SwtAssumption
  <2>5. /\ Len(connections') = Len(connections) + 1
        /\ \A i \in 1..Len(connections) : connections'[i] = connections[i]
        /\ connections'[Len(connections) + 1].fd = FreeFd
        /\ connections'[Len(connections) + 1].bytesToSend = <<>>
    BY <1>4, AcceptedConnections
  <2>6. Len(<<>>) = 0
    OBVIOUS
  <2>7. \A i \in 1..Len(connections') : i \in 1..Len(connections) \/ i = Len(connections) + 1
    BY <1>1, <2>5
  <2>8. \A i, j \in 1..Len(connections') : i # j => connections'[i].fd # connections'[j].fd
    BY <2>3, <2>5, <2>7 DEF Limits
  <2>9. \A i \in 1..Len(connections') :
          /\ connections'[i].fd # serialFd'
          /\ Len(connections'[i].bytesToSend) <= Threshold + BufLen
    BY <2>1, <2>2, <2>4, <2>5, <2>6, <2>7 DEF Limits
  <2> QED
    BY <1>1, <2>2, <2>5, <2>8, <2>9 DEF Limits
<1>5. ASSUME NEW chunk, Queues(chunk) PROVE Limits'
  <2>1. /\ chunk \in Seq(Nat) /\ connections' = Queued(chunk) /\ Len(chunk) <= BufLen
        /\ serialFd' = serialFd /\ main'.it = 1
    BY <1>2, <1>5 DEF Queues
  <2>2. /\ Len(connections') = Len(connections)
        /\ \A i \in 1..Len(connections) : connections'[i].fd = connections[i].fd
    BY <2>1, QueuedConnections
  <2>3. ASSUME NEW i \in 1..Len(connections)
        PROVE  Len(connections'[i].bytesToSend) <= Threshold + BufLen
    <3>1. connections'[i].bytesToSend =
            IF Len(connections[i].bytesToSend) > Threshold THEN connections[i].bytesToSend
            ELSE connections[i].bytesToSend \o chunk
      BY <2>1, QueuedConnections
    <3>2. CASE Len(connections[i].bytesToSend) > Threshold
      BY <3>1, <3>2 DEF Limits
    <3>3. CASE ~(Len(connections[i].bytesToSend) > Threshold)
      <4>1. Len(connections[i].bytesToSend) \in Nat /\ Len(chunk) \in Nat
        BY <1>1, <2>1, LenProperties
      <4>2. Len(connections[i].bytesToSend \o chunk)
              = Len(connections[i].bytesToSend) + Len(chunk)
        BY <1>1, <2>1, ConcatProperties
      <4> QED
        BY <2>1, <3>1, <3>3, <4>1, <4>2, SwtAssumption
    <3> QED
      BY <3>2, <3>3
  <2> QED
    BY <1>1, <2>1, <2>2, <2>3, SMTT(60) DEF Limits
<1>6. CASE Drops
  <2>1. /\ main.it \in 1..Len(connections) /\ main' = main /\ serialFd' = serialFd
    BY <1>6 DEF Drops
  <2> DEFINE was(k) == IF k < main.it THEN k ELSE k + 1
  <2>2. /\ Len(connections') = Len(connections) - 1
        /\ \A k \in 1..Len(connections') : connections'[k] = connections[was(k)]
    BY <1>6, DroppedConnections
  <2>3. /\ \A k \in 1..Len(connections') : was(k) \in 1..Len(connections)
        /\ \A k, j \in 1..Len(connections') : k # j => was(k) # was(j)
    BY <1>1, <2>1, <2>2
  <2>4. main'.it <= Len(connections') + 1
    BY <1>1, <2>1, <2>2
  <2> HIDE DEF was
  <2> QED
    BY <2>1, <2>2, <2>3, <2>4 DEF Limits
<1>7. ASSUME NEW q, TakesTo(q) PROVE Limits'
  <2>1. /\ main.it \in 1..Len(connections) /\ serialFd' = serialFd
        /\ main'.it <= Len(connections) + 1
        /\ q \in Seq(Nat) /\ Len(q) <= Len(connections[main.it].bytesToSend)
    <3>1. /\ main.it \in 1..Len(connections) /\ serialFd' = serialFd
          /\ Stay(main.it + 1) \/ main' = [main EXCEPT !.part = TRUE]
          /\ q \in Seq(Nat) /\ Len(q) <= Len(connections[main.it].bytesToSend)
      BY <1>7 DEF TakesTo
    <3>2. main'.it = main.it + 1 \/ main'.it = main.it
      BY <1>1, <1>2, <3>1
    <3> QED
      BY <1>1, <3>1, <3>2
  <2>2. /\ connections'[main.it].fd = connections[main.it].fd
        /\ connections'[main.it].bytesToSend = q
    BY <1>7, ServedConnections, ZenonT(60) DEF Connection
  <2>3. \A i \in 1..Len(connections) : connections'[i].fd = connections[i].fd
    BY <1>7, <2>2, ServedConnections
  <2>4. \A i \in 1..Len(connections) : Len(connections'[i].bytesToSend) <= Threshold + BufLen
    <3>1. Len(q) \in Nat /\ Len(connections[main.it].bytesToSend) \in Nat
      BY <1>1, <2>1, LenProperties
    <3>2. Len(q) <= Threshold + BufLen
      BY <2>1, <3>1, SwtAssumption DEF Limits
    <3> QED
      BY <1>7, <2>2, <3>2, ServedConnections DEF Limits
  <2>5. Len(connections') = Len(connections)
    BY <1>7, ServedConnections
  <2> QED
    BY <1>1, <2>1, <2>3, <2>4, <2>5 DEF Limits
<1> QED
  BY <1>3, <1>4, <1>5, <1>6, <1>7, ConnectionsStep

\* Descriptors stay distinct and queues within their limit.
LEMMA LimitsInvariant == Spec => []Limits
<1>1. Init => Limits
  BY DEF Init, Limits
<1> QED
  BY <1>1, LimitsStep, TypesInvariant, PTL DEF Spec

\* Descriptors in use are distinct, also when a client comes while the device is
\* closed; no queue grows beyond the limit by more than a buffer; and the place
\* in the list of connections stays inside it while connections are erased.
THEOREM TypeCorrect == Spec => []TypeOK
<1>1. Types /\ Limits => TypeOK
  <2> SUFFICES ASSUME Types, Limits
               PROVE  TypeOK
    OBVIOUS
  <2>1. DOMAIN connections = 1..Len(connections) /\ Len(connections) \in Nat
    BY LenProperties DEF Types
  <2>2. \A i \in 1..Len(connections) : connections[i].fd # ServerSocket
    BY ConnectionTypes DEF Connection, ServerSocket
  <2>3. main.it \in 1..(Len(connections) + 1)
    BY <2>1 DEF Types, MainThread, Limits
  <2> QED
    BY <2>1, <2>2, <2>3 DEF Types, Limits, TypeOK, MainThread
<1> QED
  BY <1>1, LimitsInvariant, TypesInvariant, PTL

\* While the select thread walks the connections without the mutex, no
\* connection is added, and one goes only because a send to it failed.
THEOREM WalkedListIsQuiet == Spec => ListIsQuiet
<1> DEFINE QuietStep == sel.pc = "walk" /\ Watched' # Watched => At("send") /\ Watched' \subseteq Watched
<1>1. ASSUME Types, HInv, [Next]_vars PROVE QuietStep
  <2> SUFFICES ASSUME sel.pc = "walk"
               PROVE  \/ Watched' = Watched
                      \/ At("send") /\ Watched' \subseteq Watched
    OBVIOUS
  <2>1. \A fd : ~Readable(fd)
    BY <1>1 DEF Readable, HInv, Handshake, OneThread, Types
  <2>2. /\ DOMAIN connections = 1..Len(connections) /\ DOMAIN connections' = 1..Len(connections')
        /\ Len(connections) \in Nat
    <3>1. Types'
      BY <1>1, TypesStep
    <3> QED
      BY <1>1, <3>1, LenProperties DEF Types
  <2>3. CASE Leaves
    BY <2>3 DEF Leaves, Watched
  <2>4. ASSUME NEW chunk, Queues(chunk) PROVE Watched' = Watched
    <3>1. /\ Len(connections') = Len(connections)
          /\ \A i \in 1..Len(connections) :
               connections'[i].fd = connections[i].fd /\ connections'[i].client = connections[i].client
      BY <1>1, <2>4, QueuedConnections DEF Queues
    <3> QED
      BY <2>2, <3>1 DEF Watched
  <2>5. CASE Drops
    <3>1. At("send")
      BY <2>1, <2>5 DEF Drops
    <3>2. ASSUME NEW k \in 1..Len(connections')
          PROVE  \E i \in 1..Len(connections) : connections'[k] = connections[i]
      <4> DEFINE i == IF k < main.it THEN k ELSE k + 1
      <4>1. Len(connections') = Len(connections) - 1 /\ connections'[k] = connections[i]
        BY <1>1, <2>5, DroppedConnections
      <4>2. i \in 1..Len(connections)
        BY <2>2, <4>1
      <4> QED
        BY <4>1, <4>2
    <3> QED
      BY <2>2, <3>1, <3>2 DEF Watched
  <2>6. ASSUME NEW q, TakesTo(q) PROVE Watched' = Watched
    <3>1. /\ Len(connections') = Len(connections)
          /\ \A i \in 1..Len(connections) :
               connections'[i].fd = connections[i].fd /\ connections'[i].client = connections[i].client
      BY <1>1, <2>6, ServedConnections DEF Connection
    <3> QED
      BY <2>2, <3>1 DEF Watched
  <2>7. ~Accepts
    BY <2>1 DEF Accepts
  <2> QED
    BY <1>1, <2>3, <2>4, <2>5, <2>6, <2>7, ConnectionsStep
<1>2. Types /\ HInv /\ [Next]_vars => [QuietStep]_vars
  BY <1>1
<1> QED
  BY <1>2, TypesInvariant, HInvariant, PTL DEF Spec, ListIsQuiet

-----------------------------------------------------------------------------
(* Select mode: what select said still holds when it is used.              *)

Servicing == main.pc \in {"accept", "serial", "read", "recv"}

\* Only clients that left are called readable, the server socket only when a
\* client waits, and until accept no new descriptor has been given away.
Fresh ==
  mode = "select" =>
    /\ At("accept") => pmd.selectResultReadSet \subseteq {ServerSocket} \cup OpenFds
    /\ At("accept") /\ ServerSocket \in pmd.selectResultReadSet => backlog # <<>>
    /\ Servicing =>
         \A i \in 1..Len(connections) :
           connections[i].fd \in pmd.selectResultReadSet =>
             peer[connections[i].client].state = "gone"

\* A client that left does not come back.
LEMMA GoneForGood ==
  ASSUME Types, [Next]_vars, NEW c \in Client, peer[c].state = "gone"
  PROVE  peer'[c].state = "gone"
<1>1. peer \in [Client -> Peer] /\ backlog \in Seq(Client)
  BY DEF Types
<1>2. CASE UNCHANGED peer
  BY <1>2
<1>3. CASE Accept
  <2>1. CASE Readable(ServerSocket)
    <3> DEFINE h == Head(backlog)
    <3>1. peer' = [peer EXCEPT ![h].state = IF @ = "pending" THEN "open" ELSE @]
      BY <1>3, <2>1 DEF Accept
    <3> HIDE DEF h
    <3> QED
      BY <1>1, <3>1 DEF Peer
  <2> QED
    BY <1>3, <2>1 DEF Accept
<1>4. CASE Send
  <2>1. CASE UNCHANGED peer
    BY <2>1
  <2>2. CASE \E k, q : peer' = [peer EXCEPT ![k].sock = q]
    BY <1>1, <2>2 DEF Peer
  <2> QED
    BY <1>4, <2>1, <2>2 DEF Send
<1>5. ASSUME NEW k \in Client, Connect(k) \/ ClientReads(k) \/ Leave(k)
      PROVE  peer'[c].state = "gone"
  BY <1>1, <1>5 DEF Connect, ClientReads, Leave, Peer
<1>6. CASE Environment
  BY <1>5, <1>6 DEF Environment, DeviceSends, Replug
<1>7. CASE Main
  BY <1>3, <1>4, <1>7 DEF Main, WaitUsingThreads, WaitUsingSelect, CheckSerial, ReadLookahead,
                          ReadDevice, Recv, EndService, Reopen
<1>8. SelectThread \/ SerialThread \/ UNCHANGED vars => UNCHANGED peer
  BY DEF SelectThread, SelectAwaitsRequest, SelectWalks, SelectReturns, SelectAnswers,
         SelectAwaitsAck, SerialThread, SerialCalls, SerialReads, SerialAppends, vars
<1> QED
  BY <1>2, <1>6, <1>7, <1>8 DEF Next

\* In select mode only the main thread moves, and what select said is replaced
\* when it is called again.
LEMMA SelectModeStep ==
  ASSUME Types, HInv, mode = "select", [Next]_vars, ~WaitUsingSelect
  PROVE  /\ UNCHANGED pmd
         /\ Servicing' => Servicing
         /\ At("accept")' => /\ At("accept") /\ UNCHANGED <<connections, serialFd>>
                             /\ backlog # <<>> => backlog' # <<>>
<1>1. CASE Main
  <2>1. /\ UNCHANGED pmd
        /\ main'.pc \in {"accept", "serial", "read", "recv"}
             => main.pc \in {"accept", "serial", "read", "recv"}
        /\ main'.pc # "accept"
    <3>1. main \in MainThread
      BY DEF Types
    <3>2. /\ \A i : Stay(i) => main'.pc = main.pc
          /\ main' = [main EXCEPT !.part = TRUE] => main'.pc = main.pc
      BY <3>1 DEF Stay, MainThread
    <3>3. \A pc : Goto(pc) => main'.pc = pc
      BY DEF Goto
    <3>4. CASE Accept \/ CheckSerial \/ EndService \/ Reopen
      BY <3>3, <3>4 DEF Accept, CheckSerial, EndService, Reopen, At
    <3>5. CASE ReadDevice
      BY <3>3, <3>5 DEF ReadDevice, AfterRead, At
    <3>6. CASE Recv
      BY <3>2, <3>3, <3>6 DEF Recv, At
    <3>7. CASE Send
      BY <3>2, <3>7 DEF Send, At
    <3> QED
      BY <1>1, <3>4, <3>5, <3>6, <3>7 DEF Main, WaitUsingThreads, ReadLookahead
  <2> QED
    BY <2>1 DEF Servicing, At
<1>2. ~SelectThread /\ ~SerialThread
  <2>1. sel.pc = "idle" /\ ser.pc = "call"
    BY DEF HInv, OneThread
  <2> QED
    BY <2>1 DEF SelectThread, SelectAwaitsRequest, SelectWalks, SelectReturns, SelectAnswers,
                SelectAwaitsAck, SerialThread, SerialCalls, SerialReads, SerialAppends
<1>3. CASE Environment
  <2>1. UNCHANGED <<pmd, main, connections, serialFd>>
    BY <1>3 DEF Environment, DeviceSends, Replug, Connect, ClientReads, Leave, Quiet
  <2>2. backlog' = backlog \/ \E c \in Client : backlog' = Append(backlog, c)
    BY <1>3 DEF Environment, DeviceSends, Replug, Connect, ClientReads, Leave
  <2>3. backlog # <<>> => backlog' # <<>>
    BY <2>2, AppendProperties DEF Types
  <2> QED
    BY <2>1, <2>3 DEF Servicing, At
<1>4. CASE UNCHANGED vars
  BY <1>4 DEF vars, Servicing, At
<1> QED
  BY <1>1, <1>2, <1>3, <1>4 DEF Next

\* After a step that is not a wait, a connection is one that was there, or it
\* has a descriptor that select has not spoken of.
LEMMA FreshStep ==
  ASSUME Types, HInv, Limits, Fresh, [Next]_vars
  PROVE  Fresh'
<1>1. mode' = mode
  BY DEF Next, vars, Main, WaitUsingThreads, WaitUsingSelect, Accept, CheckSerial, ReadLookahead,
     ReadDevice, Recv, Send, EndService, Reopen, SelectThread, SelectAwaitsRequest, SelectWalks,
     SelectReturns, SelectAnswers, SelectAwaitsAck, SerialThread, SerialCalls, SerialReads,
     SerialAppends, Environment, DeviceSends, Replug, Connect, ClientReads, Leave, Quiet
<1> SUFFICES ASSUME mode = "select"
             PROVE  Fresh'
  BY <1>1 DEF Fresh
<1>2. /\ DOMAIN connections = 1..Len(connections) /\ Len(connections) \in Nat
      /\ \A i \in 1..Len(connections) :
           /\ connections[i].fd \in Nat \ {0} /\ connections[i].client \in Client
           /\ connections[i].fd \in OpenFds
      /\ pmd \in PthreadModeData
  <2>1. DOMAIN connections = 1..Len(connections) /\ Len(connections) \in Nat
    BY LenProperties DEF Types
  <2>2. \A i \in 1..Len(connections) : connections[i] \in Connection
    BY ConnectionTypes
  <2> QED
    BY <2>1, <2>2 DEF Types, Connection, OpenFds, Fds
<1>3. CASE WaitUsingSelect
  <2> DEFINE ready == SocketsReady(Watched) \cup (IF SerialReady THEN {serialFd} ELSE {})
  <2>1. /\ pmd' = [pmd EXCEPT !.selectResultReadSet = ready]
        /\ UNCHANGED <<connections, serialFd, backlog, peer>>
    BY <1>3 DEF WaitUsingSelect
  <2>2. pmd'.selectResultReadSet = ready
    BY <1>2, <2>1 DEF PthreadModeData
  <2>3. ready \subseteq {ServerSocket} \cup OpenFds
    BY <1>2 DEF SocketsReady, Watched, OpenFds, Fds, SerialReady
  <2>4. ServerSocket \in ready => backlog # <<>>
    <3>1. ServerSocket \notin {w.fd : w \in {v \in Watched : peer[v.client].state = "gone"}}
      BY <1>2 DEF Watched, ServerSocket
    <3>2. serialFd # ServerSocket
      BY SwtAssumption DEF Types, ServerSocket
    <3> QED
      BY <3>1, <3>2 DEF SocketsReady
  <2>5. ASSUME NEW i \in 1..Len(connections), connections[i].fd \in ready
        PROVE  peer[connections[i].client].state = "gone"
    <3>1. connections[i].fd # ServerSocket /\ connections[i].fd # serialFd
      BY <1>2 DEF ServerSocket, Limits
    <3>2. PICK j \in 1..Len(connections) :
            connections[j].fd = connections[i].fd /\ peer[connections[j].client].state = "gone"
      BY <1>2, <2>5, <3>1 DEF SocketsReady, Watched
    <3> QED
      BY <3>2 DEF Limits
  <2> HIDE DEF ready
  <2>6. OpenFds' = OpenFds
    BY <2>1 DEF OpenFds, Fds
  <2> QED
    BY <2>1, <2>2, <2>3, <2>4, <2>5, <2>6 DEF Fresh
<1>4. CASE ~WaitUsingSelect
  <2>1. /\ UNCHANGED pmd
        /\ Servicing' => Servicing
        /\ At("accept")' => /\ At("accept") /\ UNCHANGED <<connections, serialFd>>
                            /\ backlog # <<>> => backlog' # <<>>
    BY <1>4, SelectModeStep
  <2>2. At("accept")' => OpenFds' = OpenFds
    BY <2>1 DEF OpenFds, Fds
  <2>3. ASSUME Servicing', NEW i \in 1..Len(connections'),
               connections'[i].fd \in pmd.selectResultReadSet
        PROVE  peer'[connections'[i].client].state = "gone"
    <3>1. ASSUME NEW j \in 1..Len(connections),
                 connections'[i].fd = connections[j].fd,
                 connections'[i].client = connections[j].client
          PROVE  peer'[connections'[i].client].state = "gone"
      BY <1>2, <2>1, <2>3, <3>1, GoneForGood DEF Fresh
    <3>2. CASE Leaves
      BY <2>3, <3>1, <3>2 DEF Leaves
    <3>3. CASE Accepts
      <4>1. i \in 1..Len(connections)
        <5>1. /\ FreeFd \notin {ServerSocket} \cup OpenFds
              /\ connections'[Len(connections) + 1].fd = FreeFd
              /\ Len(connections') = Len(connections) + 1
          BY <3>3, AcceptedConnections DEF ServerSocket
        <5>2. FreeFd \notin pmd.selectResultReadSet
          BY <3>3, <5>1 DEF Accepts, Fresh
        <5> QED
          BY <1>2, <2>3, <5>1, <5>2
      <4> QED
        BY <3>1, <3>3, <4>1, AcceptedConnections
    <3>4. ASSUME NEW chunk, Queues(chunk)
          PROVE  peer'[connections'[i].client].state = "gone"
      BY <2>3, <3>1, <3>4, QueuedConnections DEF Queues
    <3>5. CASE Drops
      <4> DEFINE j == IF i < main.it THEN i ELSE i + 1
      <4>1. Len(connections') = Len(connections) - 1 /\ connections'[i] = connections[j]
        BY <1>2, <3>5, DroppedConnections
      <4>2. j \in 1..Len(connections)
        BY <1>2, <4>1
      <4> QED
        BY <3>1, <4>1, <4>2
    <3>6. ASSUME NEW q, TakesTo(q)
          PROVE  peer'[connections'[i].client].state = "gone"
      <4>1. /\ i \in 1..Len(connections)
            /\ connections'[i].fd = connections[i].fd
            /\ connections'[i].client = connections[i].client
        BY <3>6, ServedConnections DEF Connection
      <4> QED
        BY <3>1, <4>1
    <3> QED
      BY <3>2, <3>3, <3>4, <3>5, <3>6, ConnectionsStep
  <2> QED
    BY <2>1, <2>2, <2>3 DEF Fresh
<1> QED
  BY <1>3, <1>4

\* In select mode the server never blocks in accept or in recv: what select said
\* of a descriptor still holds when it is used, whatever was closed, accepted or
\* opened in between.
THEOREM AnswersHoldInSelectMode == Spec => []SelectModeAnswersHold
<1>1. Init => Fresh
  BY DEF Init, Fresh, At, Servicing
<1>2. Types /\ HInv /\ Limits /\ Fresh /\ [Next]_vars => Fresh'
  BY FreshStep
<1>3. Types /\ Fresh => SelectModeAnswersHold
  <2> SUFFICES ASSUME Types, Fresh, mode = "select"
               PROVE  ~InAccept /\ ~InRecv
    BY DEF SelectModeAnswersHold
  <2> QED
    BY DEF Fresh, Readable, InAccept, InRecv, At, Servicing, Types, MainThread
<1> QED
  BY <1>1, <1>2, <1>3, TypesInvariant, HInvariant, LimitsInvariant, PTL DEF Spec

-----------------------------------------------------------------------------
(* The server implements Fanout: every step is a step of Fanout under the  *)
(* mapping of SwtServer.                                                   *)

\* A client is in the backlog or has a connection, and only one of them.
Membership ==
  /\ \A i, j \in 1..Len(connections) : i # j => connections[i].client # connections[j].client
  /\ \A i, j \in 1..Len(backlog) : i # j => backlog[i] # backlog[j]
  /\ \A i \in 1..Len(backlog), j \in 1..Len(connections) : backlog[i] # connections[j].client
  /\ \A i \in 1..Len(backlog) : peer[backlog[i]].state \in {"pending", "gone"}
  /\ \A i \in 1..Len(connections) : peer[connections[i].client].state \in {"open", "gone"}
  /\ \A c \in Client :
       IF peer[c].state = "open"
       THEN \E i \in 1..Len(connections) : connections[i].client = c
       ELSE peer[c].sock = <<>> /\ peer[c].got = <<>>

\* What the step of a client does to the peers.
LEMMA PeerChanges ==
  ASSUME Types, NEW c \in Client
  PROVE  /\ Connect(c) =>
              /\ peer[c].state = "away" /\ backlog' = Append(backlog, c)
              /\ peer'[c].state = "pending"
              /\ peer'[c].sock = peer[c].sock /\ peer'[c].got = peer[c].got
         /\ ClientReads(c) =>
              /\ peer[c].state = "open" /\ UNCHANGED backlog
              /\ peer'[c].state = "open" /\ peer'[c].sock = <<>>
              /\ peer'[c].got = peer[c].got \o peer[c].sock
         /\ Leave(c) =>
              /\ peer[c].state \in {"pending", "open"} /\ UNCHANGED backlog
              /\ peer'[c].state = "gone" /\ peer'[c].sock = <<>> /\ peer'[c].got = <<>>
         /\ Connect(c) \/ ClientReads(c) \/ Leave(c) =>
              \A k \in Client : k # c => peer'[k] = peer[k]
<1>1. peer \in [Client -> Peer] /\ peer[c] \in Peer
  BY DEF Types
<1>2. Connect(c) => /\ peer'[c] = [peer[c] EXCEPT !.state = "pending"]
                    /\ \A k \in Client : k # c => peer'[k] = peer[k]
  BY <1>1 DEF Connect
<1>3. ClientReads(c) =>
        /\ peer'[c] = [peer[c] EXCEPT !.sock = <<>>, !.got = peer[c].got \o peer[c].sock]
        /\ \A k \in Client : k # c => peer'[k] = peer[k]
  <2> DEFINE got == peer[c].got \o peer[c].sock
  <2>1. ClientReads(c) => peer' = [peer EXCEPT ![c] = [peer[c] EXCEPT !.sock = <<>>, !.got = got]]
    BY <1>1 DEF ClientReads, Peer
  <2> HIDE DEF got
  <2>2. ClientReads(c) => /\ peer'[c] = [peer[c] EXCEPT !.sock = <<>>, !.got = got]
                          /\ \A k \in Client : k # c => peer'[k] = peer[k]
    BY <1>1, <2>1
  <2> QED
    BY <2>2 DEF got
<1>4. Leave(c) => /\ peer'[c] = [state |-> "gone", sock |-> <<>>, got |-> <<>>]
                  /\ \A k \in Client : k # c => peer'[k] = peer[k]
  BY <1>1 DEF Leave
<1>5. Connect(c) => /\ peer[c].state = "away" /\ backlog' = Append(backlog, c)
                    /\ peer'[c].state = "pending"
                    /\ peer'[c].sock = peer[c].sock /\ peer'[c].got = peer[c].got
  BY <1>1, <1>2 DEF Connect, Peer
<1>6. ClientReads(c) => /\ peer[c].state = "open" /\ UNCHANGED backlog
                        /\ peer'[c].state = "open" /\ peer'[c].sock = <<>>
                        /\ peer'[c].got = peer[c].got \o peer[c].sock
  <2> DEFINE got == peer[c].got \o peer[c].sock
  <2>1. ClientReads(c) => peer'[c] = [peer[c] EXCEPT !.sock = <<>>, !.got = got]
    BY <1>3
  <2> HIDE DEF got
  <2>2. ClientReads(c) => peer'[c].state = peer[c].state /\ peer'[c].sock = <<>> /\ peer'[c].got = got
    BY <1>1, <2>1 DEF Peer
  <2> QED
    BY <2>2 DEF ClientReads, got
<1>7. Leave(c) => /\ peer[c].state \in {"pending", "open"} /\ UNCHANGED backlog
                  /\ peer'[c].state = "gone" /\ peer'[c].sock = <<>> /\ peer'[c].got = <<>>
  BY <1>4 DEF Leave
<1> QED
  BY <1>2, <1>3, <1>4, <1>5, <1>6, <1>7

\* What accepting or serving one does to them.
LEMMA PeerServed ==
  ASSUME Types, NEW k \in Client
  PROVE  /\ Accepts => peer'[k] = IF k = Head(backlog) /\ peer[k].state = "pending"
                                  THEN [peer[k] EXCEPT !.state = "open"] ELSE peer[k]
         /\ \A q : TakesTo(q) =>
              \/ peer'[k] = peer[k]
              \/ /\ k = connections[main.it].client /\ peer[k].state = "open"
                 /\ \E n \in 0..Len(connections[main.it].bytesToSend) :
                      /\ q = Rest(connections[main.it].bytesToSend, n)
                      /\ peer'[k] = [peer[k] EXCEPT !.sock =
                                       @ \o Front(connections[main.it].bytesToSend, n)]
<1>1. peer \in [Client -> Peer]
  BY DEF Types
<1>2. ASSUME Accepts
      PROVE  peer'[k] = IF k = Head(backlog) /\ peer[k].state = "pending"
                        THEN [peer[k] EXCEPT !.state = "open"] ELSE peer[k]
  <2> DEFINE h == Head(backlog)
  <2>1. peer' = [peer EXCEPT ![h].state = IF @ = "pending" THEN "open" ELSE @]
    BY <1>2 DEF Accepts
  <2> HIDE DEF h
  <2>2. k = h => peer'[k] = [peer[k] EXCEPT !.state = IF peer[k].state = "pending" THEN "open" ELSE peer[k].state]
    BY <1>1, <2>1
  <2>3. k # h => peer'[k] = peer[k]
    BY <1>1, <2>1
  <2>4. [peer[k] EXCEPT !.state = peer[k].state] = peer[k]
    BY <1>1 DEF Peer
  <2> QED
    BY <2>2, <2>3, <2>4 DEF h
<1>3. ASSUME NEW q, TakesTo(q)
      PROVE  \/ peer'[k] = peer[k]
             \/ /\ k = connections[main.it].client /\ peer[k].state = "open"
                /\ \E n \in 0..Len(connections[main.it].bytesToSend) :
                     /\ q = Rest(connections[main.it].bytesToSend, n)
                     /\ peer'[k] = [peer[k] EXCEPT !.sock =
                                      @ \o Front(connections[main.it].bytesToSend, n)]
  BY <1>1, <1>3 DEF TakesTo
<1> QED
  BY <1>2, <1>3

\* The backlog is a queue: Connect appends to it, and Accepts takes its head.
LEMMA BacklogChanges ==
  ASSUME Types
  PROVE  /\ Len(backlog) \in Nat /\ \A i \in 1..Len(backlog) : backlog[i] \in Client
         /\ \A c \in Client : Connect(c) =>
              /\ Len(backlog') = Len(backlog) + 1 /\ backlog'[Len(backlog) + 1] = c
              /\ \A i \in 1..Len(backlog) : backlog'[i] = backlog[i]
         /\ Accepts =>
              /\ Len(backlog) >= 1 /\ Len(backlog') = Len(backlog) - 1
              /\ Head(backlog) = backlog[1]
              /\ \A i \in 1..(Len(backlog) - 1) : backlog'[i] = backlog[i + 1]
<1>1. backlog \in Seq(Client)
  BY DEF Types
<1>2. ASSUME NEW c \in Client, Connect(c)
      PROVE  /\ Len(backlog') = Len(backlog) + 1 /\ backlog'[Len(backlog) + 1] = c
             /\ \A i \in 1..Len(backlog) : backlog'[i] = backlog[i]
  BY <1>1, <1>2, AppendProperties DEF Connect
<1>3. ASSUME Accepts
      PROVE  /\ Len(backlog) >= 1 /\ Len(backlog') = Len(backlog) - 1
             /\ Head(backlog) = backlog[1]
             /\ \A i \in 1..(Len(backlog) - 1) : backlog'[i] = backlog[i + 1]
  <2>1. backlog # <<>> /\ backlog' = Tail(backlog)
    BY <1>3 DEF Accepts
  <2>2. Len(backlog) \in Nat \ {0}
    BY <1>1, <2>1, EmptySeq
  <2> QED
    BY <1>1, <2>1, <2>2, HeadTailProperties
<1> QED
  BY <1>1, <1>2, <1>3, LenProperties

\* Membership when connections, peers and backlog change one of the ways that
\* steps change them.
LEMMA MembershipStep ==
  ASSUME Types, Membership, [Next]_vars
  PROVE  Membership'
<1>1. /\ Len(connections) \in Nat /\ Len(backlog) \in Nat
      /\ \A i \in 1..Len(connections) : connections[i].client \in Client
      /\ \A i \in 1..Len(backlog) : backlog[i] \in Client
  <2>1. \A i \in 1..Len(connections) : connections[i] \in Connection
    BY ConnectionTypes
  <2> QED
    BY <2>1, BacklogChanges, LenProperties DEF Types, Connection
<1>2. CASE Leaves
  <2>1. CASE UNCHANGED <<peer, backlog>>
    BY <1>2, <2>1 DEF Leaves, Membership
  <2>2. ASSUME NEW c \in Client, Connect(c) PROVE Membership'
    <3>1. /\ peer[c].state = "away" /\ Len(backlog') = Len(backlog) + 1
          /\ backlog'[Len(backlog) + 1] = c
          /\ \A i \in 1..Len(backlog) : backlog'[i] = backlog[i]
      BY <2>2, BacklogChanges, PeerChanges
    <3>2. \A i \in 1..Len(backlog') : i \in 1..Len(backlog) \/ i = Len(backlog) + 1
      BY <1>1, <3>1
    <3>3. \A i \in 1..Len(backlog) : backlog[i] # c
      BY <3>1 DEF Membership
    <3>4. \A i \in 1..Len(connections) : connections[i].client # c
      BY <3>1 DEF Membership
    <3>5. \A k \in Client : k # c => peer'[k] = peer[k]
      BY <2>2, PeerChanges
    <3>6. /\ peer'[c].state = "pending" /\ peer'[c].sock = peer[c].sock /\ peer'[c].got = peer[c].got
      BY <2>2, PeerChanges
    <3>7. \A i, j \in 1..Len(backlog') : i # j => backlog'[i] # backlog'[j]
      BY <3>1, <3>2, <3>3 DEF Membership
    <3>8. \A i \in 1..Len(backlog') :
            /\ \A j \in 1..Len(connections) : backlog'[i] # connections[j].client
            /\ peer'[backlog'[i]].state \in {"pending", "gone"}
      BY <1>1, <3>1, <3>2, <3>3, <3>4, <3>5, <3>6 DEF Membership
    <3>9. \A i \in 1..Len(connections) : peer'[connections[i].client].state \in {"open", "gone"}
      BY <1>1, <3>4, <3>5 DEF Membership
    <3>10. \A k \in Client :
             IF peer'[k].state = "open"
             THEN \E i \in 1..Len(connections) : connections[i].client = k
             ELSE peer'[k].sock = <<>> /\ peer'[k].got = <<>>
      BY <3>1, <3>5, <3>6 DEF Membership
    <3> QED
      BY <1>2, <3>7, <3>8, <3>9, <3>10 DEF Leaves, Membership
  <2>3. ASSUME NEW c \in Client, ClientReads(c) PROVE Membership'
    <3>1. peer[c].state = "open" /\ UNCHANGED backlog
      BY <2>3, PeerChanges
    <3>2. peer'[c].state = "open" /\ \A k \in Client : k # c => peer'[k] = peer[k]
      BY <2>3, PeerChanges
    <3> QED
      BY <1>1, <1>2, <3>1, <3>2 DEF Leaves, Membership
  <2>4. ASSUME NEW c \in Client, Leave(c) PROVE Membership'
    <3>1. peer[c].state \in {"pending", "open"} /\ UNCHANGED backlog
      BY <2>4, PeerChanges
    <3>2. /\ peer'[c].state = "gone" /\ peer'[c].sock = <<>> /\ peer'[c].got = <<>>
          /\ \A k \in Client : k # c => peer'[k] = peer[k]
      BY <2>4, PeerChanges
    <3> QED
      BY <1>1, <1>2, <3>1, <3>2 DEF Leaves, Membership
  <2> QED
    BY <1>2, <2>1, <2>2, <2>3, <2>4 DEF Leaves
<1>3. CASE Accepts
  <2> DEFINE h == Head(backlog)
  <2>1. /\ Len(backlog) >= 1 /\ Len(backlog') = Len(backlog) - 1 /\ h = backlog[1] /\ h \in Client
        /\ \A i \in 1..(Len(backlog) - 1) : backlog'[i] = backlog[i + 1]
    BY <1>3, BacklogChanges, AcceptedConnections
  <2>2. /\ Len(connections') = Len(connections) + 1
        /\ \A i \in 1..Len(connections) : connections'[i] = connections[i]
        /\ connections'[Len(connections) + 1].client = h
    BY <1>3, AcceptedConnections
  <2>3. \A k \in Client : peer'[k] = IF k = h /\ peer[k].state = "pending"
                                     THEN [peer[k] EXCEPT !.state = "open"] ELSE peer[k]
    BY <1>3, PeerServed
  <2> HIDE DEF h
  <2>4. peer[h].state \in {"pending", "gone"} /\ peer[h].sock = <<>> /\ peer[h].got = <<>>
    BY <2>1 DEF Membership
  <2>5. /\ peer'[h].state = IF peer[h].state = "pending" THEN "open" ELSE "gone"
        /\ peer'[h].sock = <<>> /\ peer'[h].got = <<>>
        /\ \A k \in Client : k # h => peer'[k] = peer[k]
    <3>1. peer[h] \in Peer
      BY <2>1 DEF Types
    <3>2. peer'[h] = IF peer[h].state = "pending" THEN [peer[h] EXCEPT !.state = "open"] ELSE peer[h]
      BY <2>1, <2>3
    <3>3. \A k \in Client : k # h => peer'[k] = peer[k]
      BY <2>3
    <3>4. CASE peer[h].state = "pending"
      BY <2>4, <3>1, <3>2, <3>3, <3>4 DEF Peer
    <3>5. CASE peer[h].state = "gone"
      BY <2>4, <3>2, <3>3, <3>5
    <3> QED
      BY <2>4, <3>4, <3>5
  <2>6. \A i \in 1..Len(connections') : i \in 1..Len(connections) \/ i = Len(connections) + 1
    BY <1>1, <2>2
  <2>7. \A i \in 1..Len(backlog') : i + 1 \in 1..Len(backlog) /\ i + 1 # 1 /\ backlog'[i] = backlog[i + 1]
    BY <1>1, <2>1
  <2>8. \A i \in 1..Len(backlog') : backlog'[i] # h
    BY <1>1, <2>1, <2>7, SMTT(60) DEF Membership
  <2>9. \A i \in 1..Len(connections) : connections[i].client # h
    BY <1>1, <2>1 DEF Membership
  <2>10. \A i, j \in 1..Len(connections') : i # j => connections'[i].client # connections'[j].client
    BY <2>2, <2>6, <2>9 DEF Membership
  <2>11. \A i, j \in 1..Len(backlog') : i # j => backlog'[i] # backlog'[j]
    <3>1. ASSUME NEW i \in 1..Len(backlog'), NEW j \in 1..Len(backlog'), i # j
          PROVE  i + 1 # j + 1
      BY <3>1, <1>1, <2>1
    <3> QED
      BY <2>7, <3>1 DEF Membership
  <2>12. \A i \in 1..Len(backlog'), j \in 1..Len(connections') : backlog'[i] # connections'[j].client
    BY <2>2, <2>6, <2>7, <2>8 DEF Membership
  <2>13. \A i \in 1..Len(backlog') : peer'[backlog'[i]].state \in {"pending", "gone"}
    BY <1>1, <2>5, <2>7, <2>8, SMTT(60) DEF Membership
  <2>14. \A i \in 1..Len(connections') : peer'[connections'[i].client].state \in {"open", "gone"}
    BY <1>1, <2>2, <2>5, <2>6, <2>9 DEF Membership
  <2>15. \A c \in Client :
           IF peer'[c].state = "open"
           THEN \E i \in 1..Len(connections') : connections'[i].client = c
           ELSE peer'[c].sock = <<>> /\ peer'[c].got = <<>>
    <3>1. ASSUME NEW c \in Client, peer'[c].state = "open"
          PROVE  \E i \in 1..Len(connections') : connections'[i].client = c
      <4>1. CASE c = h
        BY <1>1, <2>2, <4>1
      <4>2. CASE c # h
        <5>1. PICK i \in 1..Len(connections) : connections[i].client = c
          BY <2>5, <3>1, <4>2 DEF Membership
        <5>2. i \in 1..Len(connections')
          BY <1>1, <2>2
        <5> QED
          BY <2>2, <5>1, <5>2
      <4> QED
        BY <4>1, <4>2
    <3>2. ASSUME NEW c \in Client, peer'[c].state # "open"
          PROVE  peer'[c].sock = <<>> /\ peer'[c].got = <<>>
      BY <2>5, <3>2 DEF Membership
    <3> QED
      BY <3>1, <3>2
  <2> QED
    BY <2>10, <2>11, <2>12, <2>13, <2>14, <2>15 DEF Membership
<1>4. ASSUME NEW chunk, Queues(chunk) PROVE Membership'
  <2>1. /\ UNCHANGED <<peer, backlog>> /\ Len(connections') = Len(connections)
        /\ \A i \in 1..Len(connections) : connections'[i].client = connections[i].client
    BY <1>4, QueuedConnections DEF Queues
  <2> QED
    BY <2>1 DEF Membership
<1>5. CASE Drops
  <2> DEFINE it == main.it
             was(k) == IF k < it THEN k ELSE k + 1
  <2>1. /\ it \in 1..Len(connections) /\ UNCHANGED <<peer, backlog>>
        /\ peer[connections[it].client].state # "open"
    BY <1>5 DEF Drops
  <2>2. /\ Len(connections') = Len(connections) - 1
        /\ \A k \in 1..Len(connections') : connections'[k] = connections[was(k)]
    BY <1>5, DroppedConnections
  <2>3. /\ \A k \in 1..Len(connections') : was(k) \in 1..Len(connections)
        /\ \A k, j \in 1..Len(connections') : k # j => was(k) # was(j)
        /\ \A i \in 1..Len(connections) : i # it => \E k \in 1..Len(connections') : was(k) = i
    <3>1. \A k \in 1..Len(connections') : was(k) \in 1..Len(connections)
      BY <1>1, <2>1, <2>2
    <3>2. \A k, j \in 1..Len(connections') : k # j => was(k) # was(j)
      BY <1>1, <2>1, <2>2
    <3>3. ASSUME NEW i \in 1..Len(connections), i # it
          PROVE  \E k \in 1..Len(connections') : was(k) = i
      <4>1. CASE i < it
        BY <1>1, <2>1, <2>2, <4>1
      <4>2. CASE i > it
        <5>1. i - 1 \in 1..Len(connections') /\ was(i - 1) = i
          BY <1>1, <2>1, <2>2, <4>2
        <5> QED
          BY <5>1
      <4> QED
        BY <1>1, <2>1, <3>3, <4>1, <4>2
    <3> QED
      BY <3>1, <3>2, <3>3
  <2> HIDE DEF was, it
  <2>4. ASSUME NEW c \in Client, peer[c].state = "open"
        PROVE  \E k \in 1..Len(connections') : connections'[k].client = c
    <3>1. PICK i \in 1..Len(connections) : connections[i].client = c
      BY <2>4 DEF Membership
    <3>2. i # it
      BY <2>1, <2>4, <3>1
    <3> QED
      BY <2>2, <2>3, <3>1, <3>2
  <2> QED
    BY <2>1, <2>2, <2>3, <2>4 DEF Membership
<1>6. ASSUME NEW q, TakesTo(q) PROVE Membership'
  <2>1. UNCHANGED backlog /\ Len(connections') = Len(connections)
    BY <1>6, ServedConnections DEF TakesTo
  <2>2. \A i \in 1..Len(connections) : connections'[i].client = connections[i].client
    <3>1. /\ connections[main.it] \in Connection
          /\ connections'[main.it] = [connections[main.it] EXCEPT !.bytesToSend = q]
          /\ \A i \in 1..Len(connections) : i # main.it => connections'[i] = connections[i]
      BY <1>6, ServedConnections
    <3>2. connections'[main.it].client = connections[main.it].client
      BY <3>1 DEF Connection
    <3> QED
      BY <3>1, <3>2
  <2>3. \A k \in Client : peer'[k] = peer[k] \/ (peer[k].state = "open" /\ peer'[k].state = "open")
    <3> SUFFICES ASSUME NEW k \in Client, peer'[k] # peer[k]
                 PROVE  peer[k].state = "open" /\ peer'[k].state = "open"
      OBVIOUS
    <3>1. peer[k].state = "open" /\ \E s : peer'[k] = [peer[k] EXCEPT !.sock = s]
      BY <1>6, PeerServed
    <3>2. peer[k] \in Peer
      BY DEF Types
    <3> QED
      BY <3>1, <3>2 DEF Peer
  <2>4. /\ \A i \in 1..Len(backlog) : peer'[backlog[i]].state \in {"pending", "gone"}
        /\ \A i \in 1..Len(connections) : peer'[connections[i].client].state \in {"open", "gone"}
    BY <1>1, <2>3 DEF Membership
  <2>5. \A c \in Client :
          IF peer'[c].state = "open"
          THEN \E i \in 1..Len(connections) : connections[i].client = c
          ELSE peer'[c].sock = <<>> /\ peer'[c].got = <<>>
    BY <2>3 DEF Membership
  <2>6. /\ \A i, j \in 1..Len(connections') : i # j => connections'[i].client # connections'[j].client
        /\ \A i \in 1..Len(backlog), j \in 1..Len(connections') : backlog[i] # connections'[j].client
        /\ \A i \in 1..Len(connections') : peer'[connections'[i].client].state \in {"open", "gone"}
    BY <2>1, <2>2, <2>4 DEF Membership
  <2>7. \A c \in Client :
          IF peer'[c].state = "open"
          THEN \E i \in 1..Len(connections') : connections'[i].client = c
          ELSE peer'[c].sock = <<>> /\ peer'[c].got = <<>>
    BY <2>1, <2>2, <2>5
  <2> HIDE DEF Membership
  <2> QED
    BY <2>1, <2>4, <2>6, <2>7 DEF Membership
<1> QED
  BY <1>2, <1>3, <1>4, <1>5, <1>6, ConnectionsStep

\* Who has a connection and who waits for one is never mixed up.
LEMMA MembershipInvariant == Spec => []Membership
<1>1. Init => Membership
  BY DEF Init, Membership
<1> QED
  BY <1>1, MembershipStep, TypesInvariant, PTL DEF Spec
-----------------------------------------------------------------------------
(* The bytes that were read.                                               *)

\* How many of them the main thread has taken.
Passed == Len(heard) - Len(ser.bytes) - Len(pmd.serialLookahead)

\* What was read but not taken is in the lookahead, or with the serial thread.
BytesKept ==
  /\ ser.pc # "append" => ser.bytes = <<>>
  /\ \E taken \in Seq(Nat) : heard = taken \o (pmd.serialLookahead \o ser.bytes)

\* The parts of a sequence that was put together.
LEMMA PartsOfConcat ==
  ASSUME NEW S, NEW s \in Seq(S), NEW t \in Seq(S), NEW u \in Seq(S)
  PROVE  /\ SubSeq(s \o t, 1, Len(s)) = s
         /\ SubSeq(s \o (t \o u), Len(s) + 1, Len(s) + Len(t)) = t
<1>1. Len(s) \in Nat /\ Len(t) \in Nat /\ Len(u) \in Nat /\ t \o u \in Seq(S)
  BY ConcatProperties, LenProperties
<1>2. ASSUME NEW v \in Seq(S), NEW m \in Nat, NEW w \in Seq(S), m + Len(w) <= Len(v),
             \A i \in 1..Len(w) : v[m + i] = w[i]
      PROVE  SubSeq(v, m + 1, m + Len(w)) = w
  <2>1. Len(v) \in Nat /\ Len(w) \in Nat
    BY LenProperties
  <2>2. \A i \in (m + 1)..(m + Len(w)) : v[i] \in S
    BY <1>2, <2>1, ElementOfSeq
  <2> DEFINE sub == SubSeq(v, m + 1, m + Len(w))
  <2>3. /\ sub \in Seq(S)
        /\ Len(sub) = IF m + 1 <= m + Len(w) THEN (m + Len(w)) - (m + 1) + 1 ELSE 0
        /\ \A i \in 1..((m + Len(w)) - (m + 1) + 1) : sub[i] = v[(m + 1) + i - 1]
    <3>1. m + 1 \in Int /\ m + Len(w) \in Int
      BY <2>1
    <3> QED
      BY <2>2, <3>1, SubSeqProperties, SMTT(60)
  <2> HIDE DEF sub
  <2>4. Len(sub) = Len(w) /\ \A i \in 1..Len(w) : sub[i] = v[m + i]
    BY <2>1, <2>3
  <2>5. sub = w
    BY <1>2, <2>3, <2>4, SeqEqual
  <2> QED
    BY <2>5 DEF sub
<1>3. SubSeq(s \o t, 0 + 1, 0 + Len(s)) = s
  <2>1. s \o t \in Seq(S) /\ Len(s \o t) = Len(s) + Len(t)
        /\ \A i \in 1..Len(s) : (s \o t)[0 + i] = s[i]
    BY <1>1, ConcatProperties
  <2>2. 0 + Len(s) <= Len(s \o t)
    BY <1>1, <2>1
  <2> QED
    BY <1>2, <2>1, <2>2
<1>4. SubSeq(s \o (t \o u), Len(s) + 1, Len(s) + Len(t)) = t
  <2> DEFINE v == s \o (t \o u)
  <2>1. v \in Seq(S) /\ Len(v) = Len(s) + Len(t \o u) /\ Len(t \o u) = Len(t) + Len(u)
    BY <1>1, ConcatProperties
  <2>2. \A i \in 1..Len(t) : v[Len(s) + i] = (t \o u)[i]
    <3>1. \A i \in 1..(Len(s) + Len(t \o u)) :
            v[i] = IF i <= Len(s) THEN s[i] ELSE (t \o u)[i - Len(s)]
      BY <1>1, ConcatProperties
    <3> HIDE DEF v
    <3>2. ASSUME NEW i \in 1..Len(t) PROVE v[Len(s) + i] = (t \o u)[i]
      <4>1. Len(s) + i \in 1..(Len(s) + Len(t \o u)) /\ ~(Len(s) + i <= Len(s)) /\ (Len(s) + i) - Len(s) = i
        BY <1>1, <2>1
      <4> QED
        BY <3>1, <4>1
    <3> QED
      BY <3>2
  <2>3. \A i \in 1..Len(t) : (t \o u)[i] = t[i]
    BY <1>1, ConcatProperties
  <2> HIDE DEF v
  <2>4. Len(s) + Len(t) <= Len(v) /\ \A i \in 1..Len(t) : v[Len(s) + i] = t[i]
    BY <1>1, <2>1, <2>2, <2>3
  <2>5. SubSeq(v, Len(s) + 1, Len(s) + Len(t)) = t
    BY <1>1, <1>2, <2>1, <2>4
  <2> QED
    BY <2>5 DEF v
<1> QED
  BY <1>1, <1>3, <1>4

\* Concatenation is associative.
LEMMA Associative == \A s, t, u \in Seq(Nat) : (s \o t) \o u = s \o (t \o u)
BY ConcatAssociative, SMTT(60)

\* What is left of the length of a sequence without its last two parts.
LEMMA CountedOff ==
  ASSUME NEW s \in Seq(Nat), NEW t \in Seq(Nat), NEW u \in Seq(Nat)
  PROVE  Len(s \o (t \o u)) - Len(u) - Len(t) = Len(s)
<1>1. Len(s) \in Nat /\ Len(t) \in Nat /\ Len(u) \in Nat
  BY LenProperties
<1>2. t \o u \in Seq(Nat) /\ Len(t \o u) = Len(t) + Len(u)
  BY ConcatProperties
<1>3. Len(s \o (t \o u)) = Len(s) + Len(t \o u)
  BY <1>2, ConcatProperties
<1> QED
  BY <1>1, <1>2, <1>3

\* What is taken off the front of a sequence is not lost.
LEMMA FrontThenRest ==
  ASSUME NEW S, NEW s \in Seq(S), NEW n \in 0..Len(s)
  PROVE  Front(s, n) \o Rest(s, n) = s
<1>1. Len(s) \in Nat
  BY LenProperties
<1>2. SubSeq(s, 1, n) \o SubSeq(s, n + 1, Len(s)) = SubSeq(s, 1, Len(s))
  <2>1. 1 \in 1..(Len(s) + 1) /\ n \in (1 - 1)..Len(s) /\ Len(s) \in n..Len(s)
    BY <1>1
  <2> QED
    BY <2>1, ConcatAdjacentSubSeq
<1> QED
  BY <1>2, SubSeqFull DEF Front, Rest

\* Only four kinds of step touch the bytes: the main thread takes some, or the
\* serial thread reads some or appends them to the lookahead.
LEMMA BytesFrame ==
  ASSUME Types, [Next]_vars, ~(ReadLookahead \/ ReadDevice)
  PROVE  \/ SerialReads \/ SerialAppends
         \/ /\ UNCHANGED heard /\ pmd'.serialLookahead = pmd.serialLookahead
            /\ ser'.bytes = ser.bytes
            /\ ser' = ser \/ ser.pc = "call"
<1>1. pmd \in PthreadModeData /\ ser \in [pc : {"call", "read", "append"}, bytes : Seq(Nat)]
  BY DEF Types
<1>2. Request(pmd).serialLookahead = pmd.serialLookahead /\ Request(pmd) \in PthreadModeData
  BY <1>1 DEF Request, PthreadModeData
<1>3. CASE WaitUsingThreads
  <2> DEFINE p == Request(pmd)
  <2>1. p.serialLookahead = pmd.serialLookahead /\ p \in PthreadModeData
    BY <1>2
  <2>2. /\ pmd' \in {p, [p EXCEPT !.selectResponseAck = TRUE, !.selectRequestValid = FALSE]}
        /\ UNCHANGED <<heard, ser>>
    BY <1>3 DEF WaitUsingThreads
  <2> HIDE DEF p
  <2> QED
    BY <2>1, <2>2 DEF PthreadModeData
<1>4. CASE WaitUsingSelect \/ SelectAnswers
  <2>1. (\E r : pmd' = [pmd EXCEPT !.selectResultReadSet = r]) \/
        (\E r : pmd' = [pmd EXCEPT !.selectResponseAck = FALSE, !.selectResultReadSet = r,
                                   !.selectResponseValid = TRUE])
    BY <1>4 DEF WaitUsingSelect, SelectAnswers
  <2>2. pmd'.serialLookahead = pmd.serialLookahead
    BY <1>1, <2>1 DEF PthreadModeData
  <2> QED
    BY <1>4, <2>2 DEF WaitUsingSelect, SelectAnswers
<1>5. CASE SerialCalls
  <2>1. ser.pc = "call" /\ UNCHANGED <<heard, pmd>> /\ \E pc : ser' = [ser EXCEPT !.pc = pc]
    BY <1>5 DEF SerialCalls
  <2> QED
    BY <1>1, <2>1
<1>6. CASE Accept \/ CheckSerial \/ Recv \/ Send \/ EndService \/ Reopen
  BY <1>6 DEF Accept, CheckSerial, Recv, Send, EndService, Reopen
<1>7. CASE SelectAwaitsRequest \/ SelectWalks \/ SelectReturns \/ SelectAwaitsAck
  BY <1>7 DEF SelectAwaitsRequest, SelectWalks, SelectReturns, SelectAwaitsAck
<1>8. CASE Environment \/ UNCHANGED vars
  BY <1>8 DEF Environment, DeviceSends, Replug, Connect, ClientReads, Leave, Quiet, vars
<1> QED
  BY <1>3, <1>4, <1>5, <1>6, <1>7, <1>8 DEF Next, Main, SelectThread, SerialThread

\* What a step that does not take bytes does to them: none is lost, and what was
\* heard stays.
LEMMA BytesWait ==
  ASSUME Types, BytesKept, [Next]_vars, ~(ReadLookahead \/ ReadDevice)
  PROVE  /\ BytesKept' /\ Passed' = Passed
         /\ SubSeq(heard', 1, Len(heard)) = heard
<1>1. /\ heard \in Seq(Nat) /\ pmd.serialLookahead \in Seq(Nat) /\ ser.bytes \in Seq(Nat)
      /\ pmd \in PthreadModeData /\ dev.fifo \in Seq(Nat)
  BY DEF Types, PthreadModeData
<1>2. Len(heard) \in Nat /\ Len(pmd.serialLookahead) \in Nat /\ Len(ser.bytes) \in Nat
  BY <1>1, LenProperties
<1>3. PICK taken \in Seq(Nat) : heard = taken \o (pmd.serialLookahead \o ser.bytes)
  BY DEF BytesKept
<1>7. Passed = Len(taken)
  BY <1>1, <1>3, CountedOff DEF Passed
<1>4. CASE SerialReads
  <2> DEFINE b == Front(dev.fifo, Lesser(Len(dev.fifo), BufLen))
  <2>1. b \in Seq(Nat)
    BY <1>1, ChunkTypes, SwtAssumption
  <2>2. /\ ser.pc = "read" /\ ser'.pc = "append" /\ ser'.bytes = b
        /\ heard' = heard \o b /\ UNCHANGED pmd
    BY <1>4 DEF SerialReads
  <2> HIDE DEF b
  <2>3. ser.bytes = <<>> /\ Len(ser.bytes) = 0 /\ Len(b) \in Nat
    BY <2>1, <2>2, EmptySeq, LenProperties DEF BytesKept
  <2>4. heard = taken \o pmd.serialLookahead
    BY <1>1, <1>3, <2>3, ConcatEmptySeq
  <2>5. heard' = taken \o (pmd'.serialLookahead \o ser'.bytes)
    <3>1. (taken \o pmd.serialLookahead) \o b = taken \o (pmd.serialLookahead \o b)
      BY <1>1, <2>1, Associative, ZenonT(60)
    <3> QED
      BY <2>2, <2>4, <3>1
  <2>6. Passed' = Len(taken)
    <3>1. pmd'.serialLookahead \in Seq(Nat) /\ ser'.bytes \in Seq(Nat)
      BY <1>1, <2>1, <2>2
    <3> QED
      BY <2>5, <3>1, CountedOff DEF Passed
  <2>7. SubSeq(heard', 1, Len(heard)) = heard
    BY <1>1, <2>1, <2>2, PartsOfConcat
  <2> QED
    BY <1>7, <2>2, <2>5, <2>6, <2>7 DEF BytesKept
<1>5. CASE SerialAppends
  <2> DEFINE q == pmd.serialLookahead \o ser.bytes
  <2>1. q \in Seq(Nat) /\ Len(q) = Len(pmd.serialLookahead) + Len(ser.bytes)
    BY <1>1, ConcatProperties
  <2>2. /\ pmd' = [pmd EXCEPT !.serialLookahead = q]
        /\ ser'.pc = "call" /\ ser'.bytes = <<>> /\ UNCHANGED heard
    BY <1>5 DEF SerialAppends
  <2> HIDE DEF q
  <2>3. pmd'.serialLookahead = q
    BY <1>1, <2>2 DEF PthreadModeData
  <2>4. heard' = taken \o (pmd'.serialLookahead \o ser'.bytes)
    <3>1. q \o <<>> = q
      BY <2>1, ConcatEmptySeq
    <3> QED
      BY <1>3, <2>2, <2>3, <3>1 DEF q
  <2>5. Passed' = Len(taken)
    <3>1. pmd'.serialLookahead \in Seq(Nat) /\ ser'.bytes \in Seq(Nat)
      BY <2>1, <2>2, <2>3, EmptySeq
    <3> QED
      BY <2>4, <3>1, CountedOff DEF Passed
  <2>6. SubSeq(heard', 1, Len(heard)) = heard
    BY <1>1, <2>2, SubSeqFull
  <2> QED
    BY <1>7, <2>2, <2>4, <2>5, <2>6 DEF BytesKept
<1>6. CASE /\ UNCHANGED heard /\ pmd'.serialLookahead = pmd.serialLookahead
           /\ ser'.bytes = ser.bytes
           /\ ser' = ser \/ ser.pc = "call"
  <2>1. SubSeq(heard', 1, Len(heard)) = heard
    BY <1>1, <1>6, SubSeqFull
  <2> QED
    BY <1>6, <2>1 DEF BytesKept, Passed
<1> QED
  BY <1>4, <1>5, <1>6, BytesFrame

\* Taking a chunk: it is what comes after the bytes taken before.
LEMMA BytesTaken ==
  ASSUME Types, OneThread, BytesKept, NEW chunk, Reads(chunk)
  PROVE  /\ BytesKept' /\ Passed \in Nat /\ Passed' = Passed + Len(chunk)
         /\ Passed' \in Nat /\ Passed' <= Len(heard')
         /\ SubSeq(heard', 1, Len(heard)) = heard
         /\ chunk = SubSeq(heard', Passed + 1, Passed')
         /\ heard' = heard \/ (Passed = Len(heard) /\ Passed' = Len(heard'))
<1>1. /\ heard \in Seq(Nat) /\ pmd.serialLookahead \in Seq(Nat) /\ ser.bytes \in Seq(Nat)
      /\ pmd \in PthreadModeData /\ chunk \in Seq(Nat) /\ UNCHANGED ser
  BY DEF Types, PthreadModeData, Reads
<1>2. Len(heard) \in Nat /\ Len(pmd.serialLookahead) \in Nat /\ Len(ser.bytes) \in Nat /\ Len(chunk) \in Nat
  BY <1>1, LenProperties
<1>3. PICK taken \in Seq(Nat) : heard = taken \o (pmd.serialLookahead \o ser.bytes)
  BY DEF BytesKept
<1>4. Passed = Len(taken) /\ Len(taken) \in Nat
  BY <1>1, <1>3, CountedOff, LenProperties DEF Passed
<1>5. CASE /\ Len(chunk) <= Len(pmd.serialLookahead)
           /\ chunk = Front(pmd.serialLookahead, Len(chunk))
           /\ pmd' = [pmd EXCEPT !.serialLookahead = Rest(pmd.serialLookahead, Len(chunk))]
           /\ UNCHANGED heard
  <2> DEFINE rest == Rest(pmd.serialLookahead, Len(chunk))
  <2>1. /\ rest \in Seq(Nat) /\ Len(rest) = Len(pmd.serialLookahead) - Len(chunk)
        /\ chunk \o rest = pmd.serialLookahead
    <3>1. Len(chunk) \in 0..Len(pmd.serialLookahead)
      BY <1>2, <1>5
    <3>2. Front(pmd.serialLookahead, Len(chunk)) \o Rest(pmd.serialLookahead, Len(chunk)) = pmd.serialLookahead
      BY <1>1, <3>1, FrontThenRest
    <3> QED
      BY <1>1, <1>5, <3>1, <3>2, FrontAndRest, ZenonT(60)
  <2>2. pmd'.serialLookahead = rest
    BY <1>1, <1>5 DEF PthreadModeData
  <2> HIDE DEF rest
  <2>3. rest \o ser.bytes \in Seq(Nat) /\ taken \o chunk \in Seq(Nat)
    BY <1>1, <2>1, ConcatProperties
  <2>4. heard = taken \o (chunk \o (rest \o ser.bytes))
    <3>1. (chunk \o rest) \o ser.bytes = chunk \o (rest \o ser.bytes)
      BY <1>1, <2>1, Associative, ZenonT(60)
    <3> QED
      BY <1>3, <2>1, <3>1
  <2>5. heard = (taken \o chunk) \o (rest \o ser.bytes)
    <3>1. (taken \o chunk) \o (rest \o ser.bytes) = taken \o (chunk \o (rest \o ser.bytes))
      BY <1>1, <2>3, Associative, ZenonT(60)
    <3> QED
      BY <2>4, <3>1
  <2>6. BytesKept'
    BY <1>1, <1>5, <2>2, <2>3, <2>5 DEF BytesKept
  <2>7. Passed' = Len(taken \o chunk)
    <3>1. pmd'.serialLookahead \in Seq(Nat) /\ ser'.bytes \in Seq(Nat)
      BY <1>1, <2>1, <2>2
    <3> QED
      BY <1>1, <1>5, <2>2, <2>3, <2>5, <3>1, CountedOff, ZenonT(60) DEF Passed
  <2>8. Passed' = Passed + Len(chunk) /\ Passed' <= Len(heard')
    <3>1. Len(taken \o chunk) = Len(taken) + Len(chunk)
      BY <1>1, ConcatProperties
    <3>2. Len(heard) = Len(taken \o chunk) + Len(rest \o ser.bytes) /\ Len(rest \o ser.bytes) \in Nat
      BY <2>3, <2>5, ConcatProperties, LenProperties
    <3> QED
      <4>1. Passed' = Passed + Len(chunk)
        BY <1>4, <2>7, <3>1
      <4>2. Len(taken \o chunk) \in Nat
        BY <2>3, LenProperties
      <4>3. Len(taken \o chunk) <= Len(heard)
        <5>1. \A a, b \in Nat : a <= a + b
          OBVIOUS
        <5> QED
          BY <3>2, <4>2, <5>1
      <4> QED
        BY <1>5, <2>7, <4>1, <4>3
  <2>9. chunk = SubSeq(heard', Passed + 1, Passed')
    BY <1>1, <1>4, <1>5, <2>3, <2>4, <2>8, PartsOfConcat, SMTT(60)
  <2>10. SubSeq(heard', 1, Len(heard)) = heard
    BY <1>1, <1>5, SubSeqFull
  <2> QED
    BY <1>2, <1>4, <1>5, <2>6, <2>7, <2>8, <2>9, <2>10
<1>6. CASE mode = "select" /\ heard' = heard \o chunk /\ UNCHANGED pmd
  <2>1. ser.bytes = <<>> /\ pmd.serialLookahead = <<>> /\ ser.pc = "call"
    BY <1>6 DEF OneThread
  <2>2. heard = taken /\ Passed = Len(heard)
    <3>1. <<>> \o <<>> = <<>> /\ <<>> \in Seq(Nat) /\ Len(<<>>) = 0
      BY ConcatEmptySeq, EmptySeq
    <3> QED
      BY <1>2, <1>3, <1>4, <2>1, <3>1, ConcatEmptySeq
  <2>3. heard' \in Seq(Nat) /\ Len(heard') = Len(heard) + Len(chunk)
    BY <1>1, <1>6, ConcatProperties
  <2>4. heard' = heard' \o (pmd'.serialLookahead \o ser'.bytes)
    <3>1. <<>> \o <<>> = <<>> /\ heard' \o <<>> = heard'
      BY <2>3, ConcatEmptySeq, EmptySeq
    <3> QED
      BY <1>1, <1>6, <2>1, <3>1
  <2>5. BytesKept'
    BY <1>1, <2>1, <2>3, <2>4 DEF BytesKept
  <2>6. Passed' = Len(heard')
    BY <1>1, <1>2, <1>6, <2>1, <2>2, <2>3 DEF Passed
  <2>7. /\ SubSeq(heard', 1, Len(heard)) = heard
        /\ SubSeq(heard \o (chunk \o <<>>), Len(heard) + 1, Len(heard) + Len(chunk)) = chunk
    BY <1>1, <1>6, PartsOfConcat, EmptySeq
  <2>8. chunk \o <<>> = chunk
    BY <1>1, ConcatEmptySeq
  <2> QED
    BY <1>2, <1>6, <2>2, <2>3, <2>5, <2>6, <2>7, <2>8
<1> QED
  BY <1>5, <1>6 DEF Reads

\* No byte that was read is lost before the main thread takes it.
LEMMA BytesInvariant == Spec => []BytesKept
<1>1. Init => BytesKept
  <2>1. <<>> \in Seq(Nat) /\ <<>> \o (<<>> \o <<>>) = <<>>
    BY ConcatEmptySeq, EmptySeq
  <2>2. Init => heard = <<>> /\ pmd.serialLookahead = <<>> /\ ser.bytes = <<>>
    BY DEF Init
  <2> QED
    BY <2>1, <2>2 DEF BytesKept
<1>2. Types /\ HInv /\ BytesKept /\ [Next]_vars => BytesKept'
  BY BytesWait, BytesTaken, ReadStep DEF HInv
<1> QED
  BY <1>1, <1>2, TypesInvariant, HInvariant, PTL DEF Spec

-----------------------------------------------------------------------------
(* What the clients are given.                                             *)

\* The queue of a client is that of its connection.
QueuesOK ==
  /\ \A i \in 1..Len(connections) : QueueOf(connections[i].client) = connections[i].bytesToSend
  /\ \A c \in Client :
       (\A i \in 1..Len(connections) : connections[i].client # c) => QueueOf(c) = <<>>

\* QueueOf finds the one queue a client has, or none.
LEMMA QueuesInvariant == Spec => []QueuesOK
<1>1. ASSUME Types, Membership PROVE QueuesOK
  <2>1. DOMAIN connections = 1..Len(connections)
    BY <1>1, LenProperties DEF Types
  <2>2. ASSUME NEW i \in 1..Len(connections)
        PROVE  QueueOf(connections[i].client) = connections[i].bytesToSend
    <3> DEFINE c == connections[i].client
               j == CHOOSE k \in DOMAIN connections : connections[k].client = c
    <3>1. c \in Connected
      BY <2>1, <2>2 DEF Connected
    <3>2. j \in 1..Len(connections) /\ connections[j].client = c
      BY <2>1, <2>2
    <3>3. QueueOf(c) = connections[j].bytesToSend
      BY <3>1 DEF QueueOf
    <3> HIDE DEF j
    <3>4. j = i
      <4>1. \A a, b \in 1..Len(connections) :
              connections[a].client = connections[b].client => a = b
        BY <1>1 DEF Membership
      <4> QED
        BY <2>2, <3>2, <4>1
    <3> QED
      BY <3>3, <3>4
  <2>3. ASSUME NEW c \in Client, \A i \in 1..Len(connections) : connections[i].client # c
        PROVE  QueueOf(c) = <<>>
    BY <2>1, <2>3 DEF QueueOf, Connected
  <2> QED
    BY <2>2, <2>3 DEF QueuesOK
<1> QED
  BY <1>1, TypesInvariant, MembershipInvariant, PTL

Fed(c) == peer[c].got \o peer[c].sock \o QueueOf(c)

\* A step that queues no chunk gives nothing to the clients that stay, and one
\* that comes has been given nothing.
LEMMA NothingGiven ==
  ASSUME Types, Membership, Membership', QueuesOK, QueuesOK', Calm,
         NEW c \in Client, peer'[c].state = "open"
  PROVE  Fed(c)' = IF peer[c].state = "open" THEN Fed(c) ELSE <<>>
<1>1. /\ peer[c] \in Peer /\ Len(connections) \in Nat
      /\ \A i \in 1..Len(connections) :
           connections[i] \in Connection /\ connections[i].client \in Client
  BY ConnectionTypes, LenProperties DEF Types, Connection
<1>2. ASSUME peer'[c] = peer[c], QueueOf(c)' = QueueOf(c)
      PROVE  Fed(c)' = IF peer[c].state = "open" THEN Fed(c) ELSE <<>>
  BY <1>2 DEF Fed
<1>3. CASE Leaves
  <2>1. QueueOf(c)' = QueueOf(c)
    BY <1>3 DEF Leaves, QueueOf, Connected
  <2>2. CASE UNCHANGED <<peer, backlog>>
    BY <1>2, <2>1, <2>2
  <2>3. ASSUME NEW d \in Client, Connect(d) \/ ClientReads(d) \/ Leave(d), c # d
        PROVE  peer'[c] = peer[c]
    BY <2>3, PeerChanges
  <2>4. Connect(c) \/ Leave(c) => FALSE
    BY PeerChanges
  <2>5. ASSUME ClientReads(c)
        PROVE  Fed(c)' = Fed(c) /\ peer[c].state = "open"
    <3>1. /\ peer[c].state = "open" /\ peer'[c].sock = <<>>
          /\ peer'[c].got = peer[c].got \o peer[c].sock
      BY <2>5, PeerChanges
    <3>2. peer[c].got \o peer[c].sock \in Seq(Nat)
      BY <1>1, ConcatProperties DEF Peer
    <3>3. (peer[c].got \o peer[c].sock) \o <<>> = peer[c].got \o peer[c].sock
      BY <3>2, ConcatEmptySeq
    <3> QED
      BY <2>1, <3>1, <3>3 DEF Fed
  <2>6. ASSUME NEW d \in Client, Connect(d) \/ ClientReads(d) \/ Leave(d)
        PROVE  Fed(c)' = IF peer[c].state = "open" THEN Fed(c) ELSE <<>>
    <3>1. CASE c = d
      BY <2>4, <2>5, <2>6, <3>1
    <3>2. CASE c # d
      BY <1>2, <2>1, <2>3, <2>6, <3>2
    <3> QED
      BY <3>1, <3>2
  <2> QED
    BY <1>3, <2>2, <2>6 DEF Leaves
<1>4. CASE Accepts
  <2>1. /\ Len(connections') = Len(connections) + 1
        /\ \A i \in 1..Len(connections) : connections'[i] = connections[i]
        /\ connections'[Len(connections) + 1].client = Head(backlog)
        /\ connections'[Len(connections) + 1].bytesToSend = <<>>
    BY <1>4, AcceptedConnections
  <2>2. peer'[c] = IF c = Head(backlog) /\ peer[c].state = "pending"
                   THEN [peer[c] EXCEPT !.state = "open"] ELSE peer[c]
    BY <1>4, PeerServed
  <2>3. CASE peer[c].state = "open"
    <3>1. PICK i \in 1..Len(connections) : connections[i].client = c
      BY <2>3 DEF Membership
    <3>2. i \in 1..Len(connections') /\ connections'[i] = connections[i]
      BY <1>1, <2>1, <3>1
    <3>3. QueueOf(c)' = QueueOf(c)
      BY <3>1, <3>2 DEF QueuesOK
    <3> QED
      BY <1>2, <2>2, <2>3, <3>3
  <2>4. CASE peer[c].state # "open"
    <3>1. c = Head(backlog) /\ peer'[c] = [peer[c] EXCEPT !.state = "open"]
      BY <2>2, <2>4
    <3>2. peer[c].sock = <<>> /\ peer[c].got = <<>>
      BY <2>4 DEF Membership
    <3>3. peer'[c].sock = <<>> /\ peer'[c].got = <<>>
      BY <1>1, <3>1, <3>2 DEF Peer
    <3>4. QueueOf(c)' = <<>>
      <4>1. Len(connections) + 1 \in 1..Len(connections')
        BY <1>1, <2>1
      <4> QED
        BY <2>1, <3>1, <4>1 DEF QueuesOK
    <3>5. <<>> \o <<>> = <<>>
      BY ConcatEmptySeq, EmptySeq
    <3> QED
      BY <2>4, <3>3, <3>4, <3>5 DEF Fed
  <2> QED
    BY <2>3, <2>4
<1>5. CASE Drops
  <2> DEFINE it == main.it
             was(k) == IF k < it THEN k ELSE k + 1
  <2>1. /\ it \in 1..Len(connections) /\ UNCHANGED peer
        /\ Len(connections') = Len(connections) - 1
        /\ \A k \in 1..Len(connections') : connections'[k] = connections[was(k)]
    BY <1>5, DroppedConnections DEF Drops
  <2>2. \A k \in 1..Len(connections') : was(k) \in 1..Len(connections)
    BY <1>1, <2>1
  <2> HIDE DEF was, it
  <2>3. PICK k \in 1..Len(connections') : connections'[k].client = c
    BY DEF Membership
  <2>4. connections[was(k)].client = c /\ connections'[k] = connections[was(k)]
    BY <2>1, <2>3
  <2>5. QueueOf(c)' = QueueOf(c)
    BY <2>2, <2>3, <2>4 DEF QueuesOK
  <2> QED
    BY <1>2, <2>1, <2>5
<1>6. ASSUME NEW q, TakesTo(q)
      PROVE  Fed(c)' = IF peer[c].state = "open" THEN Fed(c) ELSE <<>>
  <2> DEFINE it == main.it
             k == connections[it]
  <2>1. /\ it \in 1..Len(connections) /\ k \in Connection /\ Len(connections') = Len(connections)
        /\ connections'[it] = [k EXCEPT !.bytesToSend = q]
        /\ \A i \in 1..Len(connections) : i # it => connections'[i] = connections[i]
    BY <1>6, ServedConnections DEF TakesTo
  <2>2. connections'[it].client = k.client /\ connections'[it].bytesToSend = q
    BY <2>1 DEF Connection
  <2>3. CASE c # k.client
    <3>1. peer'[c] = peer[c]
      BY <1>1, <1>6, <2>3 DEF TakesTo, Types
    <3>2. PICK i \in 1..Len(connections) : connections[i].client = c
      BY <3>1 DEF Membership
    <3>3. QueueOf(c)' = QueueOf(c)
      BY <2>1, <2>3, <3>2 DEF QueuesOK
    <3> QED
      BY <1>2, <3>1, <3>3
  <2>4. CASE c = k.client
    <3>1. peer[c].state = "open"
      BY <1>6, <2>4 DEF TakesTo
    <3>2. PICK n \in 0..Len(k.bytesToSend) :
            /\ q = Rest(k.bytesToSend, n)
            /\ peer' = [peer EXCEPT ![c].sock = @ \o Front(k.bytesToSend, n)]
      BY <1>6, <2>4, <3>1 DEF TakesTo
    <3> DEFINE front == Front(k.bytesToSend, n)
    <3>3. /\ k.bytesToSend \in Seq(Nat) /\ peer[c].sock \in Seq(Nat) /\ peer[c].got \in Seq(Nat)
      BY <1>1, <2>1 DEF Connection, Peer
    <3>4. front \in Seq(Nat) /\ q \in Seq(Nat) /\ front \o q = k.bytesToSend
      BY <3>2, <3>3, FrontAndRest, FrontThenRest
    <3>5. QueueOf(c) = k.bytesToSend /\ QueueOf(c)' = q
      BY <2>1, <2>2, <2>4 DEF QueuesOK
    <3> HIDE DEF k, front
    <3>6. peer'[c] = [peer[c] EXCEPT !.sock = peer[c].sock \o front]
      BY <3>2 DEF Types, front
    <3>7. peer'[c].sock = peer[c].sock \o front /\ peer'[c].got = peer[c].got
      BY <1>1, <3>6 DEF Peer
    <3>8. Fed(c)' = (peer[c].got \o (peer[c].sock \o front)) \o q
      BY <3>5, <3>7 DEF Fed
    <3>9. peer[c].got \o (peer[c].sock \o front) = (peer[c].got \o peer[c].sock) \o front
      BY <3>3, <3>4, Associative
    <3>10. ((peer[c].got \o peer[c].sock) \o front) \o q = (peer[c].got \o peer[c].sock) \o (front \o q)
      <4>1. peer[c].got \o peer[c].sock \in Seq(Nat)
        BY <3>3, ConcatProperties
      <4> QED
        BY <3>4, <4>1, Associative
    <3> QED
      BY <3>1, <3>4, <3>5, <3>8, <3>9, <3>10 DEF Fed
  <2> QED
    BY <2>3, <2>4
<1> QED
  BY <1>3, <1>4, <1>5, <1>6 DEF Calm

\* A step that queues a chunk gives it to the clients that are not behind.
LEMMA ChunkGiven ==
  ASSUME Types, Membership, QueuesOK, QueuesOK', NEW chunk, Queues(chunk),
         NEW c \in Client, peer'[c].state = "open"
  PROVE  /\ peer[c].state = "open"
         /\ Fed(c)' = IF Len(QueueOf(c)) > Threshold THEN Fed(c) ELSE Fed(c) \o chunk
<1>1. /\ peer[c] \in Peer /\ chunk \in Seq(Nat) /\ peer' = peer /\ connections' = Queued(chunk)
      /\ \A i \in 1..Len(connections) : connections[i] \in Connection
  BY ConnectionTypes DEF Types, Queues
<1>2. PICK i \in 1..Len(connections) : connections[i].client = c
  BY <1>1 DEF Membership
<1>3. /\ i \in 1..Len(connections') /\ connections'[i].client = c
      /\ connections'[i].bytesToSend =
           IF Len(connections[i].bytesToSend) > Threshold THEN connections[i].bytesToSend
           ELSE connections[i].bytesToSend \o chunk
  BY <1>1, <1>2, QueuedConnections
<1>4. QueueOf(c) = connections[i].bytesToSend /\ QueueOf(c)' = connections'[i].bytesToSend
  BY <1>2, <1>3 DEF QueuesOK
<1>5. QueueOf(c) \in Seq(Nat) /\ peer[c].got \o peer[c].sock \in Seq(Nat)
  BY <1>1, <1>2, <1>4, ConcatProperties DEF Connection, Peer
<1>6. (peer[c].got \o peer[c].sock) \o (QueueOf(c) \o chunk) = Fed(c) \o chunk
  BY <1>1, <1>5, Associative DEF Fed
<1> QED
  BY <1>1, <1>3, <1>4, <1>6 DEF Fed

-----------------------------------------------------------------------------
(* Every step is one of Fanout.                                            *)

feed == [c \in Client |-> Fed(c)]
on == {c \in Client : peer[c].state = "open"}
behind == {c \in Client : Len(QueueOf(c)) > Threshold}

\* A read of bytes is PassOn, and every other step is Hear.
LEMMA FanoutStep ==
  ASSUME Types, HInv, Membership, Membership', QueuesOK, QueuesOK', BytesKept, [Next]_vars
  PROVE  Clients!Next
<1>1. ASSUME Calm, SubSeq(heard', 1, Len(heard)) = heard, Passed' = Passed
      PROVE  Clients!Hear
  <2>1. ASSUME NEW c \in on'
        PROVE  feed'[c] = IF c \notin on THEN <<>>
                          ELSE IF c \in behind THEN feed[c] ELSE feed[c] \o <<>>
    <3>1. c \in Client /\ peer'[c].state = "open"
      BY <2>1 DEF on
    <3>2. feed'[c] = Fed(c)' /\ feed[c] = Fed(c)
      BY <3>1 DEF feed
    <3>3. c \in on <=> peer[c].state = "open"
      BY <3>1 DEF on
    <3>4. CASE peer[c].state # "open"
      BY <1>1, <3>1, <3>2, <3>3, <3>4, NothingGiven
    <3>5. CASE peer[c].state = "open"
      <4>1. Fed(c) \o <<>> = Fed(c)
        <5>1. PICK i \in 1..Len(connections) : connections[i].client = c
          BY <3>1, <3>5 DEF Membership
        <5>2. QueueOf(c) \in Seq(Nat) /\ peer[c] \in Peer
          <6>1. connections[i] \in Connection /\ peer[c] \in Peer
            BY <3>1, <5>1, ConnectionTypes DEF Types
          <6>2. QueueOf(c) = connections[i].bytesToSend
            BY <5>1 DEF QueuesOK
          <6> QED
            BY <6>1, <6>2 DEF Connection
        <5>3. Fed(c) \in Seq(Nat)
          BY <5>2, ConcatProperties DEF Fed, Peer
        <5> QED
          BY <5>3, ConcatEmptySeq
      <4>2. Fed(c)' = Fed(c)
        BY <1>1, <3>1, <3>5, NothingGiven
      <4> QED
        BY <3>2, <3>3, <3>5, <4>1, <4>2
    <3> QED
      BY <3>4, <3>5
  <2> QED
    BY <1>1, <2>1 DEF Clients!Hear, Clients!MoreHeard, Clients!Give, Passed, feed, Fed, on, behind
<1>2. ASSUME NEW chunk, Reads(chunk), Queues(chunk)
      PROVE  Clients!PassOn
  <2>1. /\ Passed \in Nat /\ Passed' = Passed + Len(chunk)
        /\ Passed' \in Nat /\ Passed' <= Len(heard')
        /\ SubSeq(heard', 1, Len(heard)) = heard
        /\ chunk = SubSeq(heard', Passed + 1, Passed')
        /\ heard' = heard \/ (Passed = Len(heard) /\ Passed' = Len(heard'))
    BY <1>2, BytesTaken DEF HInv
  <2>2. Len(chunk) \in Nat \ {0}
    BY <1>2, EmptySeq DEF Queues
  <2>3. heard' \in Seq(Nat)
    <3>1. heard \in Seq(Nat) /\ chunk \in Seq(Nat)
      BY <1>2 DEF Reads, Types
    <3>2. heard \o chunk \in Seq(Nat)
      BY <3>1, ConcatProperties
    <3> QED
      BY <1>2, <3>1, <3>2 DEF Reads
  <2>4. Passed' \in (Passed + 1)..Len(heard')
    <3>1. Len(heard') \in Nat
      BY <2>3, LenProperties
    <3>2. \A a, b, n, m \in Nat : n # 0 /\ b = a + n /\ b <= m => b \in (a + 1)..m
      OBVIOUS
    <3> QED
      BY <2>1, <2>2, <3>1, <3>2
  <2>5. ASSUME NEW c \in on'
        PROVE  feed'[c] = IF c \notin on THEN <<>>
                          ELSE IF c \in behind THEN feed[c] ELSE feed[c] \o chunk
    <3>1. c \in Client /\ peer'[c].state = "open"
      BY <2>5 DEF on
    <3>2. feed'[c] = Fed(c)' /\ feed[c] = Fed(c)
      BY <3>1 DEF feed
    <3>3. /\ c \in on
          /\ Fed(c)' = IF Len(QueueOf(c)) > Threshold THEN Fed(c) ELSE Fed(c) \o chunk
      BY <1>2, <3>1, ChunkGiven DEF on
    <3>4. c \in behind <=> Len(QueueOf(c)) > Threshold
      BY <3>1 DEF behind
    <3> QED
      BY <3>2, <3>3, <3>4
  <2>6. \A c \in on' :
          feed'[c] = IF c \notin on THEN <<>>
                     ELSE IF c \in behind THEN feed[c]
                     ELSE feed[c] \o SubSeq(heard', Passed + 1, Passed')
    BY <2>1, <2>5
  <2> QED
    BY <2>1, <2>4, <2>6
       DEF Clients!PassOn, Clients!MoreHeard, Clients!Give, Passed, feed, Fed, on, behind
<1>3. CASE ReadLookahead \/ ReadDevice
  <2>1. PICK chunk : Reads(chunk) /\ (IF chunk = <<>> THEN Leaves ELSE Queues(chunk))
    BY <1>3, ReadStep
  <2>2. CASE chunk = <<>>
    <3>1. Calm
      BY <2>1, <2>2 DEF Calm
    <3>2. /\ SubSeq(heard', 1, Len(heard)) = heard
          /\ Passed \in Nat /\ Passed' = Passed + Len(chunk) /\ Len(chunk) = 0
      BY <2>1, <2>2, BytesTaken, EmptySeq DEF HInv
    <3> QED
      BY <1>1, <3>1, <3>2 DEF Clients!Next
  <2>3. CASE chunk # <<>>
    BY <1>2, <2>1, <2>3 DEF Clients!Next
  <2> QED
    BY <2>2, <2>3
<1>4. CASE ~(ReadLookahead \/ ReadDevice)
  BY <1>1, <1>4, BytesWait, CalmStep DEF Clients!Next
<1> QED
  BY <1>3, <1>4

\* The server implements Fanout: it passes the bytes of the device on to every
\* client connected, in order and once, and leaves a chunk out only for a client
\* that is behind.
THEOREM ImplementsFanout == Spec => PassesBytesOn
<1>1. ASSUME Init PROVE Clients!Init
  <2>1. /\ heard = <<>> /\ ser.bytes = <<>> /\ pmd.serialLookahead = <<>>
        /\ \A c \in Client : peer[c].state = "away"
    BY <1>1 DEF Init
  <2>2. Len(<<>>) = 0
    BY EmptySeq
  <2> QED
    <3>1. Len(heard) - Len(ser.bytes) - Len(pmd.serialLookahead) = 0
      <4>1. Len(heard) = 0 /\ Len(ser.bytes) = 0 /\ Len(pmd.serialLookahead) = 0
        BY <2>1, <2>2
      <4>2. \A a, b, c : a = 0 /\ b = 0 /\ c = 0 => a - b - c = 0
        OBVIOUS
      <4> QED
        BY <4>1, <4>2
    <3>2. {c \in Client : peer[c].state = "open"} = {}
      BY <2>1
    <3> QED
      BY <2>1, <3>1, <3>2 DEF Clients!Init
<1>2. Types /\ HInv /\ Membership /\ Membership' /\ QueuesOK /\ QueuesOK' /\ BytesKept /\ [Next]_vars
        => [Clients!Next]_(Clients!vars)
  BY FanoutStep
<1> QED
  BY <1>1, <1>2, TypesInvariant, HInvariant, MembershipInvariant, QueuesInvariant, BytesInvariant,
     PTL DEF Spec, PassesBytesOn
=============================================================================
