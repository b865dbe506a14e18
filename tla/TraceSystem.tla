----------------------------- MODULE TraceSystem -----------------------------
(***************************************************************************)
(* The whole path of an instruction trace: cores that execute the program, *)
(* their trace encoders, the stream of messages, and the decoder of module *)
(* TraceDecoder.                                                           *)
(*                                                                         *)
(* Core and encoder are not part of the repository.  They are modelled     *)
(* from what the decoder does with each message: what a message counts,    *)
(* which instructions need one, and what the target of a message is        *)
(* relative to.  The encoder also remembers which instructions each        *)
(* message accounts for, so that the decoder's output can be compared with *)
(* the execution.                                                          *)
(***************************************************************************)
EXTENDS TraceDecoder

CONSTANTS
  Modes,      \* what the encoders may be set to: "BTM", "HTM"
  CallDepth,  \* how deep calls nest
  Targets,    \* where an indirect jump, interrupt or restart can lead
  HistMax,    \* branch outcomes an encoder collects
  ICntMax,    \* bound of the model: half-words counted by one message
  Lossy,      \* messages may be lost
  Stops       \* tracing may be switched off and on

ASSUME SystemAssumption ==
  /\ Modes \subseteq {"BTM", "HTM"}
  /\ Targets \subseteq DOMAIN Code /\ Targets \subseteq Word
  /\ HistMax \in Nat \ {0} /\ HistMax < HistWidth /\ HistMax < IntBits
  /\ ICntMax \in Nat /\ CallDepth \in Nat
  /\ Lossy \in BOOLEAN /\ Stops \in BOOLEAN

\* The cores run code that is there: where an instruction can lead by itself,
\* and where a call returns to, is an instruction.  Addresses fit in messages,
\* and the exclusive-or of a field with the last address gives the new one.
ASSUME ProgramAssumption ==
  /\ DOMAIN Code \subseteq Word
  /\ \A a \in DOMAIN Code :
       LET i == Code[a] IN
       /\ i.type \in BranchTypes \cup {"OTHER"} \/ CRFlag(i) \in {"isCall", "isSwap"} =>
            a + i.size \in DOMAIN Code
       /\ i.type \in BranchTypes \cup {"JAL", "C_JAL", "C_J"} => a + i.imm \in DOMAIN Code
  /\ \A a, b \in Word : XorOf[a, XorOf[a, b]] = b

VARIABLES
  traceMode, \* what all encoders are set to
  target,    \* the cores and their encoders
  channel,   \* messages sent and not yet read, with what they account for
  pending    \* per core, instructions accounted for and not yet returned

sysVars == <<vars, traceMode, target, channel, pending>>

\* An encoder: pc is the next instruction of its core (trap when a trap or an
\* interrupt led there), ref the last address it sent, calls its return stack,
\* run what was executed since its last message.
NewTarget(a) ==
  [pc |-> a, trap |-> FALSE, mode |-> "off", i_cnt |-> 0, hist |-> <<>>, ref |-> 0,
   calls |-> <<>>, run |-> <<>>]

Message0(c, tcode, t) == [NoMsg EXCEPT !.core = c, !.tcode = tcode, !.i_cnt = t.i_cnt]

\* The history register: a stop bit, then the outcomes, oldest highest.
HistoryRegister(hist) ==
  LET n == Len(hist)
      bit[i \in 0..n] == IF i = 0 THEN 1 ELSE 2 * bit[i - 1] + (IF hist[i] THEN 1 ELSE 0)
  IN bit[n]

\* The decoder reads a recorded stream and cannot tell when a message was sent:
\* the cores run on when it is through with the messages there are.
Idle == channel = <<>> /\ readNewTraceMessage /\ status = "OK"

Ready(c) == Idle /\ target[c].mode = "on"

\* Message m of core c is sent, or lost with all that follows up to a restart.
Send(c, m, t) ==
  \/ /\ channel' = Append(channel, [msg |-> m, covers |-> t.run])
     /\ target' = [target EXCEPT ![c] = [t EXCEPT !.run = <<>>]]
  \/ /\ Lossy
     /\ target' = [target EXCEPT ![c] = [NewTarget(0) EXCEPT !.mode = "lost"]]
     /\ UNCHANGED channel

Quiet(c, t) == target' = [target EXCEPT ![c] = t] /\ UNCHANGED channel

\* A full-address message makes the encoder, too, start over.
Synced(t) == [t EXCEPT !.i_cnt = 0, !.hist = <<>>, !.ref = t.pc, !.calls = <<>>]

\* A message with an address relative to the last one, and its synchronising variant.
IndirectTCode == IF traceMode = "BTM" THEN "INDIRECT_BRANCH" ELSE "INDIRECTBRANCHHISTORY"
IndirectSyncTCode ==
  IF traceMode = "BTM" THEN "INDIRECT_BRANCH_WS" ELSE "INDIRECTBRANCHHISTORY_WS"

\* Either is sent with the address of t; both report and clear the counts.
SendAddress(c, t, b) ==
  LET m == [Message0(c, IndirectTCode, t) EXCEPT
              !.history = IF traceMode = "HTM" THEN HistoryRegister(t.hist) ELSE 0,
              !.b_type = b]
      sent == [t EXCEPT !.i_cnt = 0, !.hist = <<>>, !.ref = t.pc]
  IN \/ Send(c, [m EXCEPT !.addr = XorOf[t.ref, t.pc]], sent)
     \/ Send(c, [m EXCEPT !.addr = t.pc, !.tcode = IndirectSyncTCode], Synced(t))

\* t after its core executed the instruction at t.pc and went on at next.
Ran(t, next) ==
  LET i == Code[t.pc]
      left == IF CRFlag(i) \in {"isReturn", "isSwap"} THEN Pop(t.calls) ELSE t.calls
  IN [t EXCEPT !.pc = next, !.trap = FALSE, !.i_cnt = @ + i.size,
               !.run = Append(@, [address |-> t.pc, isr |-> t.trap]),
               !.calls = IF CRFlag(i) \in {"isCall", "isSwap"}
                         THEN <<t.pc + i.size>> \o left ELSE left]

\* Room for one more instruction in the count, and for a call on the stack.
CanRun(c) ==
  LET t == target[c] IN
  /\ Ready(c)
  /\ t.i_cnt + Code[t.pc].size <= ICntMax
  /\ CRFlag(Code[t.pc]) = "isCall" => Len(t.calls) < CallDepth

Runs(c, types) == CanRun(c) /\ Code[target[c].pc].type \in types

\* Straight-line code and direct jumps need no message.
RunDirect(c) ==
  /\ Runs(c, {"OTHER", "JAL", "C_JAL", "C_J"})
  /\ LET t == target[c]
         i == Code[t.pc]
     IN Quiet(c, Ran(t, t.pc + IF i.type = "OTHER" THEN i.size ELSE i.imm))

\* A branch trace has a message for each taken branch.
RunBranchBTM(c, taken) ==
  /\ traceMode = "BTM" /\ Runs(c, BranchTypes)
  /\ LET t == target[c]
         i == Code[t.pc]
         u == Ran(t, t.pc + IF taken THEN i.imm ELSE i.size)
     IN IF ~taken THEN Quiet(c, u)
        ELSE \/ Send(c, Message0(c, "DIRECT_BRANCH", u), [u EXCEPT !.i_cnt = 0])
             \/ Send(c, [Message0(c, "DIRECT_BRANCH_WS", u) EXCEPT !.addr = u.pc], Synced(u))

\* A history trace collects outcomes; a full register is sent as it is or, when
\* all outcomes are the same, as a count of them.
RunBranchHTM(c, taken) ==
  /\ traceMode = "HTM" /\ Runs(c, BranchTypes)
  /\ LET t == target[c]
         i == Code[t.pc]
         u == [Ran(t, t.pc + IF taken THEN i.imm ELSE i.size)
                 EXCEPT !.hist = Append(@, taken)]
         sent == [u EXCEPT !.hist = <<>>]
         full == [NoMsg EXCEPT !.core = c, !.tcode = "RESOURCEFULL"]
     IN IF Len(u.hist) < HistMax THEN Quiet(c, u)
        ELSE \/ Send(c, [full EXCEPT !.rCode = 1, !.history = HistoryRegister(u.hist)], sent)
             \/ /\ \A n \in 1..HistMax : u.hist[n] = taken
                /\ Send(c, [full EXCEPT !.rCode = IF taken THEN 9 ELSE 8, !.count = HistMax],
                        sent)

\* An indirect jump needs no message when the decoder can tell where it goes:
\* a return to the top of the return stack in a history trace, a jump to the
\* next instruction in a branch trace.  (No return leads to the instruction
\* that follows it.)
RunIndirect(c, next) ==
  /\ Runs(c, IndirectTypes)
  /\ LET t == target[c]
         i == Code[t.pc]
         returns == CRFlag(i) \in {"isReturn", "isSwap"}
         predicted == IF traceMode = "HTM" THEN returns /\ next = Top(t.calls)
                      ELSE ~returns /\ next = t.pc + i.size
     IN /\ ~(returns /\ next = t.pc + i.size)
        /\ IF predicted THEN Quiet(c, Ran(t, next))
           ELSE SendAddress(c, Ran(t, next), "OTHER")

RunTrap(c, next) ==
  /\ Runs(c, {"ECALL", "XRET"})
  /\ LET traps == Code[target[c].pc].type = "ECALL"
     IN SendAddress(c, [Ran(target[c], next) EXCEPT !.trap = traps],
                    IF traps THEN "EXCEPTION" ELSE "OTHER")

\* Between two instructions.
Interrupt(c, handler) ==
  /\ Ready(c)
  /\ SendAddress(c, [target[c] EXCEPT !.pc = handler, !.trap = TRUE], "EXCEPTION")

\* The instruction counter is sent: it is full, or a sync message is due.
SendCount(c) ==
  /\ Ready(c) /\ target[c].i_cnt > 0
  /\ LET t == target[c]
     IN \/ /\ traceMode = "HTM"
           /\ Send(c, Message0(c, "RESOURCEFULL", t), [t EXCEPT !.i_cnt = 0])
        \/ /\ t.hist = <<>>
           /\ Send(c, [Message0(c, "SYNC", t) EXCEPT !.addr = t.pc], Synced(t))

\* Tracing is switched off ...
StopTrace(c) ==
  /\ Stops /\ Ready(c)
  /\ LET t == target[c]
         m == Message0(c, "CORRELATION", t)
     IN Send(c, IF traceMode = "BTM" THEN m
                ELSE [m EXCEPT !.cdf = 1, !.history = HistoryRegister(t.hist)],
             [NewTarget(0) EXCEPT !.run = t.run])

\* ... and on, or resumes after a loss, which an error message reports.
StartTrace(c, a) ==
  /\ Idle /\ target[c].mode # "on"
  /\ LET t == [NewTarget(a) EXCEPT !.mode = "on", !.ref = a]
         sync == [msg |-> [Message0(c, "SYNC", t) EXCEPT !.addr = a], covers |-> <<>>]
         error == [msg |-> Message0(c, "ERROR", t), covers |-> <<>>]
     IN /\ channel' = IF target[c].mode = "lost" THEN <<error, sync>> ELSE <<sync>>
        /\ target' = [target EXCEPT ![c] = t]

Target(c) ==
  \/ RunDirect(c) \/ SendCount(c) \/ StopTrace(c)
  \/ \E taken \in BOOLEAN : RunBranchBTM(c, taken) \/ RunBranchHTM(c, taken)
  \/ \E a \in Targets \cup {Top(target[c].calls)} : a # NoAddr /\ RunIndirect(c, a)
  \/ \E a \in Targets : RunTrap(c, a) \/ Interrupt(c, a) \/ StartTrace(c, a)

\* The cores run on; the output of the decoder has been looked at.
TargetStep ==
  /\ \E c \in Core : Target(c)
  /\ instInfo' = NoOutput /\ msgInfo' = NoOutput
  /\ UNCHANGED <<nm, readNewTraceMessage, currentCore, traceType, status, core, pending, traceMode>>

\* The decoder reads the oldest message.  An error message ends what could
\* still be expected of the messages before it.
ReadStep ==
  /\ channel # <<>>
  /\ LET h == Head(channel)
         c == h.msg.core
     IN /\ Read(h.msg)
        /\ pending' = [pending EXCEPT ![c] =
                         IF h.msg.tcode = "ERROR" THEN <<>> ELSE @ \o h.covers]
  /\ channel' = Tail(channel)
  /\ UNCHANGED <<target, traceMode>>

Returns == instInfo' # NoOutput /\ ~instInfo'.event

DecodeStep ==
  /\ Decode
  /\ pending' = IF Returns /\ pending[currentCore] # <<>>
                THEN [pending EXCEPT ![currentCore] = Tail(@)] ELSE pending
  /\ UNCHANGED <<target, channel, traceMode>>

SysInit ==
  /\ Init
  /\ traceMode \in Modes
  /\ target = [c \in Core |-> NewTarget(0)]
  /\ channel = <<>>
  /\ pending = [c \in Core |-> <<>>]

SysNext == TargetStep \/ ReadStep \/ DecodeStep

\* NextInstruction is called again and again, and reads while there is input.
SysSpec == SysInit /\ [][SysNext]_sysVars /\ WF_sysVars(ReadStep \/ DecodeStep)
-----------------------------------------------------------------------------
(* Properties.                                                             *)

\* Every instruction the decoder returns is the one its core executed next:
\* branch outcomes, counts, return addresses and message addresses are applied
\* at the right instruction, whatever the mix and the order of messages, and a
\* loss neither repeats nor invents an instruction.
StreamIsExecution ==
  [][Returns => /\ pending[currentCore] # <<>>
                /\ instInfo'.address = Head(pending[currentCore]).address]_sysVars

\* The first instruction of a trap or interrupt handler, and no other, is marked
\* as such, although the flag travels with the message before it.  (Where no
\* message is lost and tracing goes on: enterISR outlives both.)
HandlersAreMarked ==
  [][Returns /\ pending[currentCore] # <<>> =>
       instInfo'.isr = Head(pending[currentCore]).isr]_sysVars

\* When the decoder asks for a message, it has returned all the instructions
\* that messages accounted for; only a branch whose outcome is in a message to
\* come holds it back, and then it stands at that branch.
NothingHeldBack ==
  readNewTraceMessage =>
    \A c \in Core : pending[c] # <<>> =>
      /\ core[c].state = "GETNEXTMSG" /\ traceType = "HTM"
      /\ core[c].currentAddress = Head(pending[c]).address
      /\ Code[core[c].currentAddress].type \in BranchTypes
      /\ CurrentCountType(core[c].cnt) = "i_cnt"

\* Between messages the decoder knows where the core is and what is on the
\* encoder's return stack, up to what the core executed since.
DecoderInStep ==
  Idle =>
    \A c \in Core :
      target[c].mode = "on" /\ pending[c] = <<>> =>
        /\ core[c].state \in {"GETMSGWITHCOUNT", "GETNEXTMSG"}
        /\ core[c].currentAddress = IF target[c].run = <<>> THEN target[c].pc
                                    ELSE Head(target[c].run).address
        /\ target[c].run = <<>> => core[c].stack = target[c].calls

\* The stream of an encoder is never refused.
NeverRefused == status = "OK"

\* The decoder gets through every message: it is not caught in a loop of the
\* program whose branches it has no outcome for.
KeepsUp == []<>Idle

\* TraceSystem implements ExecutionStream for each core: what a core executed
\* is what messages sent or to be sent account for.
CoveredBy(q, c) ==
  LET covers(e) == IF e.msg.core = c THEN e.covers ELSE <<>>
      upTo[n \in 0..Len(q)] == IF n = 0 THEN <<>> ELSE upTo[n - 1] \o covers(q[n])
  IN upTo[Len(q)]

Addresses(q) == [n \in 1..Len(q) |-> q[n].address]

Executed(c) == Addresses(pending[c] \o CoveredBy(channel, c) \o target[c].run)
Returned(c) ==
  IF instInfo # NoOutput /\ ~instInfo.event /\ instInfo.core = c
  THEN <<instInfo.address>> ELSE <<>>

Stream(c) == INSTANCE ExecutionStream WITH executed <- Executed(c), returned <- Returned(c)

\* The decoder returns what each core executed, in order and once, with gaps
\* only where messages were lost.
ReturnsTheExecution ==
  /\ \A c \in Core : Stream(c)!Init
  /\ [][\A c \in Core : [Stream(c)!Next]_<<Executed(c), Returned(c)>>]_sysVars
=============================================================================
