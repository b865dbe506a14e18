------------------------------ MODULE SwtServer ------------------------------
(***************************************************************************)
(* The SWT server: it reads a serial device and passes the bytes on to its *)
(* socket clients.  In select mode one thread waits with select for the    *)
(* server socket, the device and the clients.  In thread mode (always on   *)
(* Windows, else with -pthread) a serial thread reads the device into a    *)
(* lookahead, a select thread waits for the sockets when the main thread   *)
(* asks it to, and a mutex and one condition variable connect them.  What  *)
(* a thread does while it holds the mutex is one step.                     *)
(*                                                                         *)
(* Sockets and the device block, as they are opened.  A client connects    *)
(* once, reads and leaves; it sends nothing.  Left out: the printing of    *)
(* messages, -autoexit, and closeResources, which is never called.         *)
(***************************************************************************)
EXTENDS Integers, Sequences, FiniteSets

CONSTANTS
  Client,
  None,
  BufLen,     \* SERIAL_BUFFER_NUMBYTES
  Threshold,  \* QUEUE_STALLED_CLIENT_SUSPICION_THRESHOLD
  SockRoom,   \* bytes the sockets between server and client hold
  MaxBytes,   \* bound of the model: bytes the device sends
  MaxReplug   \* bound of the model: how often the device is unplugged

ASSUME SwtAssumption ==
  /\ IsFiniteSet(Client) /\ None \notin Client \cup Nat
  /\ BufLen \in Nat \ {0} /\ SockRoom \in Nat \ {0}
  /\ Threshold \in Nat /\ MaxBytes \in Nat /\ MaxReplug \in Nat

VARIABLES
  mode,         \* "threads" or "select" (pthreadSynchronizationMode)
  dev,          \* the device: its input queue, whether it is there
  peer,         \* the clients
  backlog,      \* clients the server socket has not accepted yet
  connections,
  serialFd,
  main,         \* the main thread: where it is, and at which connection
  pmd,          \* pthreadModeData; in select mode only readSet is used
  sel, ser,     \* the select and the serial thread
  asleep,       \* threads that wait for conditionSomethingChanged
  heard         \* history: all bytes read from the device

vars == <<mode, dev, peer, backlog, connections, serialFd, main, pmd, sel, ser, asleep, heard>>

Lesser(a, b) == IF a < b THEN a ELSE b
Front(s, n) == SubSeq(s, 1, n)
Rest(s, n) == SubSeq(s, n + 1, Len(s))
Without(s, i) == [k \in 1..(Len(s) - 1) |-> IF k < i THEN s[k] ELSE s[k + 1]]

ServerSocket == 0
Fds == {connections[i].fd : i \in DOMAIN connections}
OpenFds == Fds \cup ({serialFd} \ {None})
\* A new descriptor is the lowest one that is free.
FreeFd == CHOOSE n \in 1..(Cardinality(OpenFds) + 1) :
            n \notin OpenFds /\ \A k \in 1..(n - 1) : k \in OpenFds

Watched == {[fd |-> connections[i].fd, client |-> connections[i].client] : i \in DOMAIN connections}

SocketsReady(watch) ==
  (IF backlog # <<>> THEN {ServerSocket} ELSE {})
  \cup {w.fd : w \in {v \in watch : peer[v.client].state = "gone"}}

SerialReady == serialFd # None /\ (dev.fifo # <<>> \/ dev.dead)

\* Mutant: also while there is no valid answer.
ReadableAnyAnswer(fd) == fd \in pmd.selectResultReadSet

\* isSocketReadable
Readable(fd) == (mode = "threads" => pmd.selectResponseValid) /\ fd \in pmd.selectResultReadSet

\* isSerialReadable
SerialReadable ==
  IF mode = "threads" THEN pmd.serialLookahead # <<>> ELSE serialFd \in pmd.selectResultReadSet

At(pc) == main.pc = pc
Goto(pc) == main' = [pc |-> pc, it |-> 1, part |-> FALSE]
Stay(i) == main' = [main EXCEPT !.it = i, !.part = FALSE]
Broadcast == asleep' = {}
-----------------------------------------------------------------------------
(* The main thread: serviceConnections, and the loop around it.            *)

Request(p) ==
  IF p.selectRequestValid THEN p
  ELSE [p EXCEPT !.selectRequestValid = TRUE, !.selectResponseValid = FALSE]

\* Mutant: only the sockets are waited for.
AwaitedSocketsOnly(p) == p.selectResponseValid

Awaited(p) == p.selectResponseValid \/ p.serialLookahead # <<>>

\* waitUsingThreadsAndConditionVar
WaitUsingThreads ==
  /\ mode = "threads" /\ At("wait") /\ "main" \notin asleep
  /\ LET asks == ~pmd.selectRequestValid
         p == Request(pmd)
         answered == p.selectResponseValid
     IN IF Awaited(p)
        THEN /\ pmd' = IF answered
                       THEN [p EXCEPT !.selectResponseAck = TRUE, !.selectRequestValid = FALSE]
                       ELSE p
             /\ asleep' = IF asks \/ answered THEN {} ELSE asleep
             /\ Goto("accept")
        ELSE /\ pmd' = p
             /\ asleep' = (IF asks THEN {} ELSE asleep) \cup {"main"}
             /\ UNCHANGED main
  /\ UNCHANGED <<mode, dev, peer, backlog, connections, serialFd, sel, ser, heard>>

\* Mutant: what was ready last time stays in the set.
WaitUsingSelectKeeps ==
  /\ mode = "select" /\ At("wait")
  /\ LET ready == SocketsReady(Watched) \cup (IF SerialReady THEN {serialFd} ELSE {})
     IN /\ ready # {}
        /\ pmd' = [pmd EXCEPT !.selectResultReadSet = @ \cup ready]
  /\ Goto("accept")
  /\ UNCHANGED <<mode, dev, peer, backlog, connections, serialFd, sel, ser, asleep, heard>>

\* waitUsingSelectForAllIo
WaitUsingSelect ==
  /\ mode = "select" /\ At("wait")
  /\ LET ready == SocketsReady(Watched) \cup (IF SerialReady THEN {serialFd} ELSE {})
     IN /\ ready # {}
        /\ pmd' = [pmd EXCEPT !.selectResultReadSet = ready]
  /\ Goto("accept")
  /\ UNCHANGED <<mode, dev, peer, backlog, connections, serialFd, sel, ser, asleep, heard>>

\* accept blocks until there is a client.
Accept ==
  /\ At("accept")
  /\ IF Readable(ServerSocket)
     THEN /\ backlog # <<>>
          /\ LET c == Head(backlog) IN
             /\ backlog' = Tail(backlog)
             /\ connections' = Append(connections, [fd |-> FreeFd, client |-> c, bytesToSend |-> <<>>])
             /\ peer' = [peer EXCEPT ![c].state = IF @ = "pending" THEN "open" ELSE @]
     ELSE UNCHANGED <<backlog, connections, peer>>
  /\ Goto("serial")
  /\ UNCHANGED <<mode, dev, serialFd, pmd, sel, ser, asleep, heard>>

CheckSerial ==
  /\ At("serial")
  /\ Goto(IF SerialReadable THEN "read" ELSE "recv")
  /\ UNCHANGED <<mode, dev, peer, backlog, connections, serialFd, pmd, sel, ser, asleep, heard>>

\* Mutant: every queue takes every chunk.
QueuedAlways(chunk) ==
  [i \in DOMAIN connections |-> [connections[i] EXCEPT !.bytesToSend = @ \o chunk]]

\* queueSerialBytesToClients
Queued(chunk) ==
  [i \in DOMAIN connections |->
     IF Len(connections[i].bytesToSend) > Threshold THEN connections[i]
     ELSE [connections[i] EXCEPT !.bytesToSend = @ \o chunk]]

\* The loop goes on as long as it gets whole buffers; nothing read means that the
\* device is gone.
AfterRead(chunk) ==
  IF chunk = <<>> THEN serialFd' = None /\ Goto("recv") /\ UNCHANGED connections
  ELSE /\ connections' = Queued(chunk)
       /\ Goto(IF Len(chunk) = BufLen THEN "read" ELSE "recv")
       /\ UNCHANGED serialFd

\* serialReadBytes from the lookahead
ReadLookahead ==
  /\ mode = "threads" /\ At("read")
  /\ LET n == Lesser(Len(pmd.serialLookahead), BufLen) IN
     /\ AfterRead(Front(pmd.serialLookahead, n))
     /\ pmd' = [pmd EXCEPT !.serialLookahead = Rest(@, n)]
  /\ Broadcast
  /\ UNCHANGED <<mode, dev, peer, backlog, sel, ser, heard>>

\* serialReadBytes from the device, which blocks while nothing is there
ReadDevice ==
  /\ mode = "select" /\ At("read") /\ SerialReady
  /\ LET n == Lesser(Len(dev.fifo), BufLen) IN
     /\ AfterRead(Front(dev.fifo, n))
     /\ dev' = [dev EXCEPT !.fifo = Rest(@, n)]
     /\ heard' = heard \o Front(dev.fifo, n)
  /\ UNCHANGED <<mode, peer, backlog, pmd, sel, ser, asleep>>

Drop(i) == connections' = Without(connections, i)

\* Readable clients are read from, to find the ones that left.
Recv ==
  /\ At("recv")
  /\ IF main.it > Len(connections) THEN Goto("send") /\ UNCHANGED connections
     ELSE IF ~Readable(connections[main.it].fd) THEN Stay(main.it + 1) /\ UNCHANGED connections
     ELSE /\ peer[connections[main.it].client].state = "gone"    \* else recv blocks
          /\ Drop(main.it) /\ UNCHANGED main
  /\ UNCHANGED <<mode, dev, peer, backlog, serialFd, pmd, sel, ser, asleep, heard>>

\* Mutant: the queue is cleared.
SentAll(queue, n) == <<>>

Sent(queue, n) == Rest(queue, n)

\* send takes what the socket has room for, until all is sent.
Send ==
  /\ At("send") /\ main.it <= Len(connections)
  /\ LET k == connections[main.it]
         p == peer[k.client]
         n == Lesser(Len(k.bytesToSend), SockRoom - Len(p.sock))
     IN IF k.bytesToSend = <<>> THEN Stay(main.it + 1) /\ UNCHANGED <<connections, peer>>
        ELSE IF p.state = "open"
        THEN /\ n > 0
             /\ connections' = [connections EXCEPT ![main.it].bytesToSend = Sent(@, n)]
             /\ peer' = [peer EXCEPT ![k.client].sock = @ \o Front(k.bytesToSend, n)]
             /\ IF n = Len(k.bytesToSend) THEN Stay(main.it + 1)
                ELSE main' = [main EXCEPT !.part = TRUE]
        ELSE /\ UNCHANGED peer
             /\ \/ Drop(main.it) /\ ~main.part /\ UNCHANGED main
                \/ /\ connections' = [connections EXCEPT ![main.it].bytesToSend = <<>>]
                   /\ ~main.part /\ Stay(main.it + 1)
                \/ UNCHANGED connections /\ main.part /\ Stay(main.it + 1)
  /\ UNCHANGED <<mode, dev, backlog, serialFd, pmd, sel, ser, asleep, heard>>

EndService ==
  /\ At("send") /\ main.it > Len(connections)
  /\ Goto(IF serialFd = None THEN "reopen" ELSE "wait")
  /\ UNCHANGED <<mode, dev, peer, backlog, connections, serialFd, pmd, sel, ser, asleep, heard>>

\* openSerialDevice and setSerialDevice, which also discard what the device holds
Reopen ==
  /\ At("reopen")
  /\ serialFd' = FreeFd
  /\ dev' = [dev EXCEPT !.fifo = <<>>, !.dead = FALSE]
  /\ Goto("wait")
  /\ UNCHANGED <<mode, peer, backlog, connections, pmd, sel, ser, asleep, heard>>

Main ==
  \/ WaitUsingThreads \/ WaitUsingSelect \/ Accept \/ CheckSerial \/ ReadLookahead
  \/ ReadDevice \/ Recv \/ Send \/ EndService \/ Reopen
-----------------------------------------------------------------------------
(* The select thread.                                                      *)

SelectAwaitsRequest ==
  /\ mode = "threads" /\ sel.pc = "idle" /\ "select" \notin asleep
  /\ IF pmd.selectRequestValid
     THEN sel' = [sel EXCEPT !.pc = "walk", !.watch = Watched] /\ UNCHANGED asleep
     ELSE asleep' = asleep \cup {"select"} /\ UNCHANGED sel
  /\ UNCHANGED <<mode, dev, peer, backlog, connections, serialFd, main, pmd, ser, heard>>

\* callSelect walks the connections without the mutex: one that goes during the
\* walk may be seen or not.  A descriptor that is closed by now makes select fail
\* and leave the sets as they are.
SelectWalks ==
  /\ sel.pc = "walk"
  /\ \E seen \in SUBSET (sel.watch \ Watched) :
       LET watch == seen \cup (sel.watch \cap Watched)
           fds == {w.fd : w \in watch}
       IN sel' = IF fds \subseteq OpenFds
                 THEN [sel EXCEPT !.pc = "select", !.watch = watch]
                 ELSE [sel EXCEPT !.pc = "answer", !.result = fds \cup {ServerSocket}]
  /\ UNCHANGED <<mode, dev, peer, backlog, connections, serialFd, main, pmd, ser, asleep, heard>>

SelectReturns ==
  /\ sel.pc = "select" /\ SocketsReady(sel.watch) # {}
  /\ sel' = [sel EXCEPT !.pc = "answer", !.result = SocketsReady(sel.watch)]
  /\ UNCHANGED <<mode, dev, peer, backlog, connections, serialFd, main, pmd, ser, asleep, heard>>

\* Mutant: the acknowledgement is not waited for.
AnsweredForGood == [pc |-> "idle", watch |-> {}, result |-> {}]

Answered == [pc |-> "ack", watch |-> {}, result |-> {}]

SelectAnswers ==
  /\ sel.pc = "answer"
  /\ pmd' = [pmd EXCEPT !.selectResponseAck = FALSE, !.selectResultReadSet = sel.result,
                        !.selectResponseValid = TRUE]
  /\ sel' = Answered
  /\ asleep' = {"select"}
  /\ UNCHANGED <<mode, dev, peer, backlog, connections, serialFd, main, ser, heard>>

SelectAwaitsAck ==
  /\ sel.pc = "ack" /\ "select" \notin asleep
  /\ IF pmd.selectResponseAck THEN sel' = [sel EXCEPT !.pc = "idle"] /\ UNCHANGED asleep
     ELSE asleep' = asleep \cup {"select"} /\ UNCHANGED sel
  /\ UNCHANGED <<mode, dev, peer, backlog, connections, serialFd, main, pmd, ser, heard>>

SelectThread ==
  SelectAwaitsRequest \/ SelectWalks \/ SelectReturns \/ SelectAnswers \/ SelectAwaitsAck
-----------------------------------------------------------------------------
(* The serial thread.  It takes the descriptor without the mutex; a read   *)
(* that is under way when the main thread closes the device goes on.       *)

SerialCalls ==
  /\ mode = "threads" /\ ser.pc = "call"
  /\ ser' = [ser EXCEPT !.pc = IF serialFd = None THEN "append" ELSE "read"]
  /\ UNCHANGED <<mode, dev, peer, backlog, connections, serialFd, main, pmd, sel, asleep, heard>>

SerialReads ==
  /\ ser.pc = "read" /\ (dev.fifo # <<>> \/ dev.dead)
  /\ LET n == Lesser(Len(dev.fifo), BufLen) IN
     /\ ser' = [pc |-> "append", bytes |-> Front(dev.fifo, n)]
     /\ dev' = [dev EXCEPT !.fifo = Rest(@, n)]
     /\ heard' = heard \o Front(dev.fifo, n)
  /\ UNCHANGED <<mode, peer, backlog, connections, serialFd, main, pmd, sel, asleep>>

\* Mutant: nobody is told.
SerialAppendsSilently ==
  /\ ser.pc = "append"
  /\ pmd' = [pmd EXCEPT !.serialLookahead = @ \o ser.bytes]
  /\ ser' = [pc |-> "call", bytes |-> <<>>]
  /\ UNCHANGED <<mode, dev, peer, backlog, connections, serialFd, main, sel, asleep, heard>>

SerialAppends ==
  /\ ser.pc = "append"
  /\ pmd' = [pmd EXCEPT !.serialLookahead = @ \o ser.bytes]
  /\ ser' = [pc |-> "call", bytes |-> <<>>]
  /\ Broadcast
  /\ UNCHANGED <<mode, dev, peer, backlog, connections, serialFd, main, sel, heard>>

SerialThread == SerialCalls \/ SerialReads \/ SerialAppends
-----------------------------------------------------------------------------
(* The device and the clients.                                             *)

Quiet == UNCHANGED <<mode, connections, serialFd, main, pmd, sel, ser, asleep, heard>>

DeviceSends ==
  /\ ~dev.dead /\ dev.sent < MaxBytes
  /\ dev' = [dev EXCEPT !.fifo = Append(@, dev.sent + 1), !.sent = @ + 1]
  /\ Quiet /\ UNCHANGED <<peer, backlog>>

\* The device is unplugged and plugged in again: what is open of it is dead.
Replug ==
  /\ dev.replugs < MaxReplug
  /\ dev' = [dev EXCEPT !.dead = TRUE, !.fifo = <<>>, !.replugs = @ + 1]
  /\ Quiet /\ UNCHANGED <<peer, backlog>>

\* Clients are alike and connect once: which of those away is next makes no
\* difference.
Connect(c) ==
  /\ peer[c].state = "away" /\ c = CHOOSE k \in Client : peer[k].state = "away"
  /\ peer' = [peer EXCEPT ![c].state = "pending"]
  /\ backlog' = Append(backlog, c)
  /\ Quiet /\ UNCHANGED dev

ClientReads(c) ==
  /\ peer[c].state = "open" /\ peer[c].sock # <<>>
  /\ peer' = [peer EXCEPT ![c].sock = <<>>, ![c].got = @ \o peer[c].sock]
  /\ Quiet /\ UNCHANGED <<dev, backlog>>

Leave(c) ==
  /\ peer[c].state \in {"pending", "open"}
  /\ peer' = [peer EXCEPT ![c] = [state |-> "gone", sock |-> <<>>, got |-> <<>>]]
  /\ Quiet /\ UNCHANGED <<dev, backlog>>

Environment ==
  \/ DeviceSends \/ Replug
  \/ \E c \in Client : Connect(c) \/ ClientReads(c) \/ Leave(c)
-----------------------------------------------------------------------------
Init ==
  /\ mode \in {"threads", "select"}
  /\ dev = [fifo |-> <<>>, sent |-> 0, dead |-> FALSE, replugs |-> 0]
  /\ peer = [c \in Client |-> [state |-> "away", sock |-> <<>>, got |-> <<>>]]
  /\ backlog = <<>> /\ connections = <<>>
  /\ serialFd = 1
  /\ main = [pc |-> "wait", it |-> 1, part |-> FALSE]
  /\ pmd = [selectRequestValid |-> FALSE, selectResponseValid |-> FALSE,
            selectResponseAck |-> FALSE, selectResultReadSet |-> {}, serialLookahead |-> <<>>]
  /\ sel = [pc |-> "idle", watch |-> {}, result |-> {}]
  /\ ser = [pc |-> "call", bytes |-> <<>>]
  /\ asleep = {}
  /\ heard = <<>>

Next == Main \/ SelectThread \/ SerialThread \/ Environment

\* The operating system runs each thread, and clients read what they get.
Spec ==
  /\ Init /\ [][Next]_vars
  /\ WF_vars(Main) /\ WF_vars(SelectThread) /\ WF_vars(SerialThread)
  /\ \A c \in Client : WF_vars(ClientReads(c))
-----------------------------------------------------------------------------
(* Properties.                                                             *)

Connected == {connections[i].client : i \in DOMAIN connections}

\* Descriptors in use are distinct, and no queue grows beyond the limit by more
\* than one buffer, although a service may read many buffers.
TypeOK ==
  /\ mode \in {"threads", "select"}
  /\ serialFd \in Nat \cup {None}
  /\ \A i, j \in DOMAIN connections : i # j => connections[i].fd # connections[j].fd
  /\ \A i \in DOMAIN connections :
       /\ connections[i].fd # serialFd /\ connections[i].fd # ServerSocket
       /\ Len(connections[i].bytesToSend) <= Threshold + BufLen
  /\ main.pc \in {"wait", "accept", "serial", "read", "recv", "send", "reopen"}
  /\ main.it \in 1..(Len(connections) + 1)
  /\ sel.pc \in {"idle", "walk", "select", "answer", "ack"}
  /\ ser.pc \in {"call", "read", "append"}
  /\ asleep \subseteq {"main", "select"}

\* A thread sleeps only while what it waits for is not so: every step that makes
\* it so wakes it.
NoLostWakeup ==
  /\ "main" \in asleep =>
       /\ At("wait") /\ pmd.selectRequestValid
       /\ ~pmd.selectResponseValid /\ pmd.serialLookahead = <<>>
  /\ "select" \in asleep =>
       /\ sel.pc = "idle" => ~pmd.selectRequestValid
       /\ sel.pc = "ack" => ~pmd.selectResponseAck

\* The select thread works on a request that has no valid answer yet, and an
\* answer stays until it is acknowledged, which ends the request.
Handshake ==
  /\ sel.pc \in {"walk", "select", "answer"} =>
       pmd.selectRequestValid /\ ~pmd.selectResponseValid
  /\ sel.pc = "ack" /\ ~pmd.selectResponseAck =>
       pmd.selectRequestValid /\ pmd.selectResponseValid
  /\ sel.pc = "idle" /\ pmd.selectResponseValid => ~pmd.selectRequestValid

\* While the select thread walks the connections without the mutex, no
\* connection is added, and one is erased only because a send to it failed.
ListIsQuiet == [][sel.pc = "walk" /\ Watched' # Watched => At("send") /\ Watched' \subseteq Watched]_vars

InAccept == At("accept") /\ Readable(ServerSocket) /\ backlog = <<>>
InRecv ==
  /\ At("recv") /\ main.it <= Len(connections) /\ Readable(connections[main.it].fd)
  /\ peer[connections[main.it].client].state # "gone"
InRead == At("read") /\ mode = "select" /\ ~SerialReady

\* In select mode the server never blocks in accept or recv: what select said
\* still holds when it is used, also for a descriptor that was closed and given
\* to another client in between.
SelectModeAnswersHold == mode = "select" => ~InAccept /\ ~InRecv

\* accept is called only when a client waits ("see if server socket is readable").
\* In thread mode an answer that comes while the main thread, woken by serial
\* data, services connections is used twice.
AcceptFindsClient == ~InAccept

\* The bytes of the device reach each client in order and once, in chunks left
\* out only when that client's queue is beyond the limit, through serial thread,
\* lookahead, queue and partial sends, and whoever comes and goes meanwhile.
QueueOf(c) ==
  IF c \notin Connected THEN <<>>
  ELSE connections[CHOOSE i \in DOMAIN connections : connections[i].client = c].bytesToSend

Clients ==
  INSTANCE Fanout WITH
    passed <- Len(heard) - Len(ser.bytes) - Len(pmd.serialLookahead),
    feed <- [c \in Client |-> peer[c].got \o peer[c].sock \o QueueOf(c)],
    on <- {c \in Client : peer[c].state = "open"},
    behind <- {c \in Client : Len(QueueOf(c)) > Threshold}

PassesBytesOn == Clients!Init /\ [][Clients!Next]_(Clients!vars)

\* Whatever the device sent goes out to the clients, and in select mode a device
\* that went away is opened again, unless the server blocks in a call whose data
\* were not there: no wait of one thread for another, and no order of their
\* steps, holds bytes back.
UnderWay ==
  \/ mode = "select" /\ dev.dead
  \/ dev.fifo # <<>> \/ ser.bytes # <<>> \/ pmd.serialLookahead # <<>>
  \/ \E c \in Client : peer[c].state = "open" /\ QueueOf(c) # <<>>

BytesGoOut == []<>(~UnderWay \/ InAccept \/ InRecv \/ InRead)
=============================================================================
