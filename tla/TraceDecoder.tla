---------------------------- MODULE TraceDecoder ----------------------------
(***************************************************************************)
(* Trace::NextInstruction: the decoder that turns a stream of Nexus trace  *)
(* messages back into the instructions that the traced cores executed.     *)
(*                                                                         *)
(* One step is one turn of the "for (;;)" loop of NextInstruction, or the  *)
(* read of a message at its head.  Everything the loop keeps per core      *)
(* (state, currentAddress, lastFaddr, lastTime, enterISR, counts and the   *)
(* return stack) is the record core[c]; nm, readNewTraceMessage,           *)
(* currentCore, traceType and status are shared by all cores, as in the    *)
(* class.  Addresses count half-words: the code shifts message addresses   *)
(* left by one and divides sizes in bits by 16.                            *)
(*                                                                         *)
(* Modelled: plain instruction traces with all three outputs requested (no *)
(* cycle-accurate trace; no CTF, event or perf converter attached; no      *)
(* message filtered out by its event, the default).                        *)
(***************************************************************************)
EXTENDS Counts

CONSTANTS
  Core,        \* core ids; decoding starts with currentCore = 0
  Code,        \* the program: half-word address -> decoded instruction
  Msgs,        \* the messages that can be read
  Word,        \* the addresses (and time stamps) a message field can hold
  XorOf,         \* "^" on them, as a function of a pair
  TsRange,     \* 2^tsSize: the time stamp counter of the target wraps here
  CountBound,  \* bound of the model: largest |i_cnt| with which a message is read
  TimeBound    \* bound of the model: largest lastTime with which a message is read

BranchTypes == {"BRANCH"}                       \* BEQ .. BGEU, C_BEQZ, C_BNEZ
IndirectTypes == {"JALR", "C_JR", "C_JALR"}
InstType == BranchTypes \cup IndirectTypes
            \cup {"JAL", "C_JAL", "C_J", "ECALL", "XRET", "OTHER"}
Register == {"x1", "x5", "other"}
Instruction == [type: InstType, size: {1, 2}, rd: Register, rs1: Register, imm: Int]

NoTs == -1   \* the message has no time stamp

TCode == TCodesWithoutCounts \cup TCodesWithCounts
         \cup {"DATA_WRITE_WS", "DATA_READ_WS", "WATCHPOINT", "OUTPUT_PORTREPLACEMENT",
               "INPUT_PORTREPLACEMENT", "AUXACCESS_READ", "AUXACCESS_READNEXT",
               "AUXACCESS_WRITENEXT", "AUXACCESS_RESPONSE", "REPEATBRANCH",
               "REPEATINSTRUCTION", "REPEATINSTRUCTION_WS", "UNDEFINED"}
ICTReason == {"CONTROL", "EXT_TRIG", "INFERABLECALL", "EXCEPTION", "INTERRUPT",
              "CONTEXT", "WATCHPOINT", "PC_SAMPLE", "NONE"}

\* addr is f_addr, u_addr or ckdata[0], data is ckdata[1], count the taken or
\* not-taken count; a field that the TCODE has not is not looked at.
Message ==
  [tcode: TCode, core: Core, ts: 0..(TsRange - 1) \cup {NoTs}, i_cnt: Nat,
   history: Nat, rCode: Nat, count: Nat, cdf: Nat, addr: Word,
   b_type: {"EXCEPTION", "OTHER"}, cksrc: ICTReason, ckdf: Nat, data: Word]

ASSUME DecoderAssumption ==
  /\ Core \subseteq Nat /\ 0 \in Core
  /\ DOMAIN Code \subseteq Nat
  /\ \A a \in DOMAIN Code : Code[a] \in Instruction
  /\ 0 \in Word /\ Word \subseteq Nat
  /\ \A a, b \in Word : XorOf[a, b] \in Word
  /\ TsRange \in Nat \ {0} /\ 0..(TsRange - 1) \subseteq Word
  /\ \A a, b \in 0..(TsRange - 1) : XorOf[a, b] \in 0..(TsRange - 1)
  /\ \A m \in Msgs : m \in Message
  /\ \A m \in Msgs : HistoryFits(m.history)
  /\ CountBound \in Nat /\ TimeBound \in Nat

NoMsg == [tcode |-> "UNDEFINED", core |-> 0, ts |-> NoTs, i_cnt |-> 0, history |-> 0,
          rCode |-> 0, count |-> 0, cdf |-> 0, addr |-> 0, b_type |-> "OTHER",
          cksrc |-> "NONE", ckdf |-> 0, data |-> 0]

DecoderState == {"GETFIRSTSYNCMSG", "GETMSGWITHCOUNT", "RETIREMESSAGE", "GETNEXTMSG",
                 "GETNEXTINSTRUCTION", "DONE", "ERROR"}

CoreState ==
  [state: DecoderState, currentAddress: Int, lastFaddr: Word, lastTime: Nat,
   enterISR: BOOLEAN, cnt: Count, stack: Seq(Nat)]

NewCore ==
  [state |-> "GETFIRSTSYNCMSG", currentAddress |-> 0, lastFaddr |-> 0, lastTime |-> 0,
   enterISR |-> FALSE, cnt |-> NoCounts, stack |-> EmptyStack]

NoOutput == <<>>

VARIABLES
  nm,                   \* the message being worked on
  readNewTraceMessage,  \* the next turn of the loop reads a message
  currentCore,          \* the core nm is from
  traceType,            \* "BTM" or "HTM", for all cores
  status,               \* sticky result of NextInstruction
  core,                 \* the state of each core
  instInfo,             \* the instruction this step returned, or NoOutput
  msgInfo               \* the message this step returned, or NoOutput

vars == <<nm, readNewTraceMessage, currentCore, traceType, status, core, instInfo, msgInfo>>
-----------------------------------------------------------------------------
(* Time stamps and processTraceMessage.                                    *)

FullTsTCodes == {"SYNC", "DIRECT_BRANCH_WS", "INDIRECT_BRANCH_WS",
                 "INDIRECTBRANCHHISTORY_WS", "INCIRCUITTRACE_WS"}

\* Mutant: no adjustment for a wrap of the counter.
ProcessTSNoWrap(full, last, new) ==
  IF full THEN last - (last % TsRange) + new
  ELSE IF last # 0 THEN last - (last % TsRange) + XorOf[last % TsRange, new]
  ELSE 0

\* lastTime after a time stamp: a full one replaces the low bits, a relative
\* one is the exclusive-or with the last, which it leaves 0 (unknown) after a
\* loss.  A time stamp has tsSize bits, so only the low bits change.
ProcessTS(full, last, new) ==
  LET low  == last % TsRange
      wraps == last - low
      ts   == IF full THEN wraps + new
              ELSE IF last # 0 THEN wraps + XorOf[low, new]
              ELSE 0
  IN IF ts < last THEN ts + TsRange ELSE ts

Stamp(m, k) ==
  IF m.ts = NoTs THEN k
  ELSE [k EXCEPT !.lastTime = ProcessTS(m.tcode \in FullTsTCodes, @, m.ts)]

Good(k) == [ok |-> TRUE, k |-> k]
Bad(k)  == [ok |-> FALSE, k |-> k]

At(k, a) == [k EXCEPT !.lastFaddr = a, !.currentAddress = a]

\* Mutant: the return stack survives.
SyncAtKeepsStack(k, a) == [At(k, a) EXCEPT !.cnt = ResetCounts(@)]

\* A sync message makes the core start over at its full address.
SyncAt(k, a) == [At(k, a) EXCEPT !.cnt = ResetCounts(@), !.stack = EmptyStack]

\* The instructions the simple nextAddr accepts at an inferable call.
TransferTypes == IndirectTypes \cup {"JAL", "C_JAL", "ECALL", "XRET"}

\* In-circuit trace: a is the address the message gives, absolute (_WS) or
\* relative to lastFaddr.  0 as ckdf of a trigger or watchpoint leaves the
\* current address alone, a control message with ckdf 0 has no address.
ProcessICT(m, k) ==
  LET a == IF m.tcode = "INCIRCUITTRACE_WS" THEN m.addr ELSE XorOf[k.lastFaddr, m.addr]
  IN CASE m.cksrc \in {"EXT_TRIG", "WATCHPOINT"} /\ m.ckdf = 0 ->
            Good([k EXCEPT !.lastFaddr = a])
       [] \/ m.cksrc \in {"EXT_TRIG", "WATCHPOINT", "EXCEPTION", "INTERRUPT",
                          "CONTEXT", "CONTROL"} /\ m.ckdf = 1
          \/ m.cksrc = "PC_SAMPLE" /\ m.ckdf = 0 -> Good(At(k, a))
       [] m.cksrc = "INFERABLECALL" /\ m.ckdf = 0 ->
            IF a \in DOMAIN Code /\ Code[a].type \in TransferTypes
            THEN Good(At(k, a)) ELSE Bad(k)
       [] m.cksrc = "INFERABLECALL" /\ m.ckdf = 1 ->
            Good([k EXCEPT !.currentAddress = a, !.lastFaddr = XorOf[a, m.data]])
       [] m.cksrc = "CONTROL" /\ m.ckdf = 0 -> Good(k)
       [] OTHER -> Bad(k)

ProcessTraceMessage(m, k0) ==
  LET k == Stamp(m, k0)
  IN CASE m.tcode = "ERROR" -> Good(At(k, 0))
       [] m.tcode \in {"DATA_ACQUISITION", "OWNERSHIP_TRACE", "DIRECT_BRANCH",
                       "AUXACCESS_WRITE", "RESOURCEFULL", "CORRELATION"} -> Good(k)
       [] m.tcode \in {"INDIRECT_BRANCH", "INDIRECTBRANCHHISTORY"} ->
            Good(At(k, XorOf[k.lastFaddr, m.addr]))
       [] m.tcode \in {"SYNC", "DIRECT_BRANCH_WS", "INDIRECT_BRANCH_WS",
                       "INDIRECTBRANCHHISTORY_WS"} -> Good(SyncAt(k, m.addr))
       [] m.tcode \in {"INCIRCUITTRACE", "INCIRCUITTRACE_WS"} -> ProcessICT(m, k)
       [] OTHER -> Bad(k)
-----------------------------------------------------------------------------
(* nextAddr: the instruction at currentAddress is retired.                 *)

Link(r) == r \in {"x1", "x5"}

\* How an instruction uses the return stack (the flag it is reported with).
CRFlag(i) ==
  CASE i.type \in {"JAL", "C_JAL"} -> IF Link(i.rd) THEN "isCall" ELSE "isNone"
    [] i.type = "JALR" ->
         IF Link(i.rd) THEN IF Link(i.rs1) /\ i.rd # i.rs1 THEN "isSwap" ELSE "isCall"
         ELSE IF Link(i.rs1) THEN "isReturn" ELSE "isNone"
    [] i.type = "C_JR" -> IF Link(i.rs1) THEN "isReturn" ELSE "isNone"
    [] i.type = "C_JALR" -> IF i.rs1 = "x5" THEN "isSwap" ELSE "isCall"
    [] i.type = "ECALL" -> "isException"
    [] i.type = "XRET" -> "isExceptionReturn"
    [] OTHER -> "isNone"

\* Mutant: a swap pushes before it pops.
StackAfterSwapped(s, flag, return) ==
  CASE flag = "isCall" -> Push(s, return)
    [] flag = "isReturn" -> Pop(s)
    [] flag = "isSwap" -> Pop(Push(s, return))
    [] OTHER -> s

StackAfter(s, flag, return) ==
  CASE flag = "isCall" -> Push(s, return)
    [] flag = "isReturn" -> Pop(s)
    [] flag = "isSwap" -> Push(Pop(s), return)
    [] OTHER -> s

\* A conditional branch in a history trace follows the outcome at hand.  With
\* nothing but an instruction count left it has to wait for a later message.
HistoryBranch(cnt, taken) ==
  CASE CurrentCountType(cnt) = "history" ->
         [br |-> IF taken THEN "taken" ELSE "notTaken", cnt |-> ConsumeHistory(cnt)]
    [] CurrentCountType(cnt) = "taken" -> [br |-> "taken", cnt |-> ConsumeTaken(cnt)]
    [] CurrentCountType(cnt) = "notTaken" -> [br |-> "notTaken", cnt |-> ConsumeNotTaken(cnt)]
    [] CurrentCountType(cnt) = "i_cnt" -> [br |-> "unknown", cnt |-> cnt]
    [] OTHER -> [br |-> "none", cnt |-> cnt]    \* an error

\* In a branch trace a message is sent for taken branches only, so a branch
\* is taken when it is the last instruction of a direct branch message.
BranchTraceBranch(cnt, i, tcode) ==
  [br |-> IF cnt.i_cnt <= i.size /\ tcode \in {"DIRECT_BRANCH", "DIRECT_BRANCH_WS"}
          THEN "taken" ELSE "notTaken",
   cnt |-> cnt]

\* A return or swap with counts left over cannot be in a branch trace.
TypeAfter(tt, i, cnt) ==
  IF /\ i.type \in IndirectTypes
     /\ CRFlag(i) \in {"isReturn", "isSwap"}
     /\ cnt.i_cnt > i.size
  THEN "HTM" ELSE tt

\* Mutant: returns are not predicted.
IndirectTargetUnpredicted(tt, i, cnt, stack, next) ==
  IF tt = "BTM" /\ cnt.i_cnt > i.size THEN next ELSE NoAddr

\* The next address after an indirect jump: in a history trace the return
\* stack predicts returns; in a branch trace a jump that does not end the
\* message goes to the next instruction.
IndirectTarget(tt, i, cnt, stack, next) ==
  IF tt = "BTM" THEN IF cnt.i_cnt > i.size THEN next ELSE NoAddr
  ELSE IF CRFlag(i) \in {"isReturn", "isSwap"} THEN Top(stack)
  ELSE NoAddr

\* taken is the outcome read from the history register, if one is read.
NextAddr(k, tt, tcode, taken) ==
  LET a    == k.currentAddress
      i    == Code[a]
      next == a + i.size
      tt2  == TypeAfter(tt, i, k.cnt)
      b    == IF i.type \notin BranchTypes THEN [br |-> "none", cnt |-> k.cnt]
              ELSE IF tt = "HTM" THEN HistoryBranch(k.cnt, taken)
              ELSE BranchTraceBranch(k.cnt, i, tcode)
      pc   == CASE i.type \in {"JAL", "C_JAL", "C_J"} -> a + i.imm
                [] i.type \in IndirectTypes ->
                     IndirectTarget(tt2, i, k.cnt, k.stack, next)
                [] i.type \in {"ECALL", "XRET"} -> NoAddr
                [] b.br = "taken" -> a + i.imm
                [] b.br = "unknown" -> NoAddr
                [] OTHER -> next
  IN [ok     |-> i.type \notin BranchTypes \/ b.br # "none",
      pc     |-> pc,
      brFlag |-> b.br,
      crFlag |-> CRFlag(i),
      type   |-> tt2,
      k      |-> [k EXCEPT
                    !.stack = StackAfter(@, CRFlag(i), next),
                    !.cnt = IF b.br = "unknown" THEN @
                            ELSE ConsumeICnt(b.cnt, i.size)]]
-----------------------------------------------------------------------------
(* The steps of NextInstruction.                                           *)

K == core[currentCore]
InState(s) == status = "OK" /\ ~readNewTraceMessage /\ K.state = s

Become(k) == core' = [core EXCEPT ![currentCore] = k]

\* The message is handed out with the time and the address of its core, unless
\* its data are text for ITCPrint, which then keeps them.
ITCTCodes == {"DATA_ACQUISITION", "AUXACCESS_WRITE"}

Report(k, a) ==
  \/ msgInfo' = [msg |-> nm, time |-> k.lastTime, address |-> a]
  \/ nm.tcode \in ITCTCodes /\ msgInfo' = NoOutput

\* The loop goes on with the same message in state s.
Continue(k, s) ==
  /\ Become([k EXCEPT !.state = s])
  /\ msgInfo' = NoOutput
  /\ UNCHANGED <<readNewTraceMessage, status>>

\* nm has been dealt with; the next turn reads a message.
Finish(k, s) ==
  /\ Become([k EXCEPT !.state = s])
  /\ readNewTraceMessage' = TRUE
  /\ Report(k, k.currentAddress)
  /\ UNCHANGED status

\* An error is final: status is sticky.
Fail ==
  /\ Become([K EXCEPT !.state = "ERROR"])
  /\ status' = "ERR"
  /\ instInfo' = NoOutput /\ msgInfo' = NoOutput
  /\ UNCHANGED readNewTraceMessage

Silent == instInfo' = NoOutput /\ UNCHANGED <<nm, currentCore, traceType>>

SyncTCodes == FullTsTCodes \ {"INCIRCUITTRACE_WS"}
HistoryTCodes == {"RESOURCEFULL", "INDIRECTBRANCHHISTORY", "INDIRECTBRANCHHISTORY_WS"}
ICTTCodes == {"INCIRCUITTRACE", "INCIRCUITTRACE_WS"}
SupportedTCodes == TCodesWithCounts \cup ICTTCodes
                   \cup {"OWNERSHIP_TRACE", "DATA_ACQUISITION", "ERROR", "AUXACCESS_WRITE"}

ShowsHistory(m) == m.tcode \in HistoryTCodes \/ (m.tcode = "CORRELATION" /\ m.cdf = 1)

\* Mutant: the message is taken for one of the core before.
ReadKeepsCore(m) ==
  /\ status = "OK" /\ readNewTraceMessage
  /\ core[m.core].cnt.i_cnt \in -CountBound..CountBound
  /\ core[m.core].lastTime <= TimeBound
  /\ nm' = m
  /\ readNewTraceMessage' = FALSE
  /\ traceType' = IF ShowsHistory(m) THEN "HTM" ELSE traceType
  /\ instInfo' = NoOutput /\ msgInfo' = NoOutput
  /\ UNCHANGED <<currentCore, status, core>>

\* Reads m.  A message that only history traces have makes this one; an
\* unsupported message is refused here in a branch trace only.
Read(m) ==
  /\ status = "OK" /\ readNewTraceMessage
  /\ core[m.core].cnt.i_cnt \in -CountBound..CountBound
  /\ core[m.core].lastTime <= TimeBound
  /\ nm' = m
  /\ readNewTraceMessage' = FALSE
  /\ currentCore' = m.core
  /\ IF traceType # "HTM" /\ m.tcode \notin SupportedTCodes
     THEN /\ status' = "ERR"
          /\ core' = [core EXCEPT ![m.core].state = "ERROR"]
     ELSE UNCHANGED <<status, core>>
  /\ traceType' = IF ShowsHistory(m) THEN "HTM" ELSE traceType
  /\ instInfo' = NoOutput /\ msgInfo' = NoOutput

\* The end of the trace, or a message that cannot be read.
ReadFails(result) ==
  /\ status = "OK" /\ readNewTraceMessage
  /\ status' = result
  /\ Become([K EXCEPT !.state = IF result = "EOF" THEN "DONE" ELSE "ERROR"])
  /\ instInfo' = NoOutput /\ msgInfo' = NoOutput
  /\ UNCHANGED <<nm, readNewTraceMessage, currentCore, traceType>>

\* What an in-circuit message returns besides itself: the instruction there.
\* (Its address and text are those disassembled last when there is no code.)
EventInst(k) ==
  IF nm.ckdf = 0 /\ nm.cksrc \in {"EXT_TRIG", "WATCHPOINT", "CONTROL"} THEN NoOutput
  ELSE [event |-> TRUE, core |-> currentCore, timestamp |-> k.lastTime]

\* getCRBRFlags finds no instruction to classify: nobody looks at the result,
\* but status, which the handler returns, keeps the error.
NoFlags(k) == nm.cksrc = "INFERABLECALL" /\ k.currentAddress \notin DOMAIN Code

\* TRACE_STATE_GETFIRSTSYNCMSG: messages are skipped up to one with a full address.
FirstSync ==
  /\ InState("GETFIRSTSYNCMSG") /\ nm.tcode \in SyncTCodes
  /\ Finish(ProcessTraceMessage(nm, K).k, "GETMSGWITHCOUNT") /\ Silent

FirstSyncICT ==
  /\ InState("GETFIRSTSYNCMSG") /\ nm.tcode = "INCIRCUITTRACE_WS"
  /\ LET r == ProcessTraceMessage(nm, K)
         k == [r.k EXCEPT !.currentAddress = IF @ = 0 THEN r.k.lastFaddr ELSE @]
     IN IF ~r.ok THEN Fail
        ELSE /\ Finish(k, IF nm.cksrc = "CONTROL" /\ nm.ckdf = 0
                          THEN "GETFIRSTSYNCMSG" ELSE "GETMSGWITHCOUNT")
             /\ instInfo' = EventInst(k)
  /\ UNCHANGED <<nm, currentCore, traceType>>

\* The time stamp counts, unless it is 0.
FirstSkip ==
  /\ InState("GETFIRSTSYNCMSG")
  /\ nm.tcode \in {"DATA_ACQUISITION", "INCIRCUITTRACE", "OWNERSHIP_TRACE", "DIRECT_BRANCH",
                   "INDIRECT_BRANCH", "INDIRECTBRANCHHISTORY", "RESOURCEFULL", "CORRELATION"}
  /\ Finish(IF nm.tcode = "DATA_ACQUISITION" THEN ProcessTraceMessage(nm, K).k
            ELSE IF nm.ts = 0 THEN K ELSE Stamp(nm, K),
            "GETFIRSTSYNCMSG")
  /\ Silent

FirstError ==
  /\ InState("GETFIRSTSYNCMSG") /\ nm.tcode = "ERROR"
  /\ Finish([K EXCEPT !.lastTime = 0], "GETFIRSTSYNCMSG") /\ Silent

FirstRefuse ==
  /\ InState("GETFIRSTSYNCMSG")
  /\ nm.tcode \notin (SupportedTCodes \ {"AUXACCESS_WRITE"})
  /\ Fail /\ Silent

-----------------------------------------------------------------------------
(* TRACE_STATE_GETMSGWITHCOUNT and TRACE_STATE_GETNEXTMSG wait for a       *)
(* message with counts; other messages are retired at once.                *)

\* base is what the counts of nm are added to.
TakeCounts(base) ==
  /\ nm.tcode \in TCodesWithCounts
  /\ LET r == SetCounts(base, nm)
     IN IF r.ok THEN Continue([K EXCEPT !.cnt = r.c], "GETNEXTINSTRUCTION")
                ELSE Fail
  /\ Silent

RetireICT ==
  /\ nm.tcode \in ICTTCodes
  /\ LET r == ProcessTraceMessage(nm, K)
         a == IF nm.cksrc \in {"EXT_TRIG", "WATCHPOINT"} /\ nm.ckdf = 0
              THEN r.k.lastFaddr ELSE r.k.currentAddress
     IN IF ~r.ok THEN Fail
        ELSE /\ Become(r.k) /\ readNewTraceMessage' = TRUE
             /\ Report(r.k, a) /\ instInfo' = EventInst(r.k)
             /\ status' = IF NoFlags(r.k) THEN "ERR" ELSE status
  /\ UNCHANGED <<nm, currentCore, traceType>>

\* Messages were lost: time and addresses are unknown up to the next sync.
LoseTrace ==
  /\ nm.tcode = "ERROR"
  /\ Become([At(K, 0) EXCEPT !.lastTime = 0, !.state = "GETFIRSTSYNCMSG"])
  /\ readNewTraceMessage' = TRUE
  /\ nm' = [nm EXCEPT !.ts = IF @ = NoTs THEN NoTs ELSE 0]
  /\ msgInfo' = [msg |-> nm', time |-> 0, address |-> 0]
  /\ instInfo' = NoOutput
  /\ UNCHANGED <<status, currentCore, traceType>>

RetireOther ==
  /\ nm.tcode \in {"AUXACCESS_WRITE", "OWNERSHIP_TRACE", "DATA_ACQUISITION"}
  /\ Finish(ProcessTraceMessage(nm, K).k, K.state) /\ Silent

Refuse == nm.tcode \notin SupportedTCodes /\ Fail /\ Silent

\* After the first sync: earlier counts are void.
GetMsgWithCount ==
  /\ InState("GETMSGWITHCOUNT")
  /\ \/ TakeCounts(ResetCounts(K.cnt)) \/ RetireICT \/ LoseTrace \/ RetireOther \/ Refuse

\* After a retired message: a count may be left (also a negative one).
GetNextMsg ==
  /\ InState("GETNEXTMSG")
  /\ \/ TakeCounts(K.cnt) \/ RetireICT \/ LoseTrace \/ RetireOther \/ Refuse

-----------------------------------------------------------------------------
(* TRACE_STATE_GETNEXTINSTRUCTION                                          *)

\* Mutant: the counts are not looked at.
CountsExhaustedAlways ==
  /\ InState("GETNEXTINSTRUCTION")
  /\ Continue(K, "RETIREMESSAGE") /\ Silent

CountsExhausted ==
  /\ InState("GETNEXTINSTRUCTION") /\ CurrentCountType(K.cnt) = "none"
  /\ Continue(K, "RETIREMESSAGE") /\ Silent

NoInstructionThere ==
  /\ InState("GETNEXTINSTRUCTION") /\ CurrentCountType(K.cnt) # "none"
  /\ K.currentAddress \notin DOMAIN Code
  /\ Fail /\ Silent

\* The next address is computed; the instruction is returned, unless it is a
\* branch whose outcome is in a later message.
NextInst ==
  /\ InState("GETNEXTINSTRUCTION") /\ CurrentCountType(K.cnt) # "none"
  /\ K.currentAddress \in DOMAIN Code
  /\ \E taken \in HistoryTaken(K.cnt) :
       LET r    == NextAddr(K, traceType, nm.tcode, taken)
           left == CurrentCountType(r.k.cnt) # "none"
       IN \/ /\ ~r.ok \/ (r.pc = NoAddr /\ r.brFlag # "unknown" /\ left)
             /\ Fail /\ UNCHANGED traceType
          \/ /\ r.ok /\ r.brFlag = "unknown"
             /\ Continue(K, "RETIREMESSAGE")
             /\ instInfo' = NoOutput /\ traceType' = r.type
          \/ /\ r.ok /\ r.brFlag # "unknown" /\ ~(r.pc = NoAddr /\ left)
             /\ Continue([r.k EXCEPT !.currentAddress = r.pc, !.enterISR = FALSE],
                         IF left THEN "GETNEXTINSTRUCTION" ELSE "RETIREMESSAGE")
             /\ instInfo' = [event |-> FALSE, core |-> currentCore, address |-> K.currentAddress,
                             crFlag |-> r.crFlag, isr |-> K.enterISR,
                             brFlag |-> r.brFlag, timestamp |-> K.lastTime]
             /\ traceType' = r.type
  /\ UNCHANGED <<nm, currentCore>>

-----------------------------------------------------------------------------
(* TRACE_STATE_RETIREMESSAGE.  The error branches for messages without     *)
(* counts are left out: OneMessageInWork says that none gets here.     *)

\* Mutant: the history messages are forgotten.
EntersISRBranchTrace(m) ==
  m.b_type = "EXCEPTION" /\ m.tcode \in {"INDIRECT_BRANCH", "INDIRECT_BRANCH_WS"}

EntersISR(m) ==
  /\ m.b_type = "EXCEPTION"
  /\ m.tcode \in {"INDIRECT_BRANCH", "INDIRECT_BRANCH_WS",
                  "INDIRECTBRANCHHISTORY", "INDIRECTBRANCHHISTORY_WS"}

\* Mutant: the state is left as it is.
RetireMessageStays ==
  /\ InState("RETIREMESSAGE") /\ nm.tcode \in TCodesWithCounts \ {"CORRELATION"}
  /\ LET k == ProcessTraceMessage(nm, K).k
     IN Finish([k EXCEPT !.enterISR = @ \/ EntersISR(nm)], K.state)
  /\ Silent

RetireMessage ==
  /\ InState("RETIREMESSAGE") /\ nm.tcode \in TCodesWithCounts \ {"CORRELATION"}
  /\ LET k == ProcessTraceMessage(nm, K).k
     IN Finish([k EXCEPT !.enterISR = @ \/ EntersISR(nm)], "GETNEXTMSG")
  /\ Silent

\* Tracing stopped: the next message of the core to decode is a sync.
RetireCorrelation ==
  /\ InState("RETIREMESSAGE") /\ nm.tcode = "CORRELATION"
  /\ LET k == Stamp(nm, K)
     IN /\ Become([k EXCEPT !.state = "GETFIRSTSYNCMSG"])
        /\ Report(k, k.lastFaddr + nm.i_cnt)
  /\ readNewTraceMessage' = TRUE
  /\ UNCHANGED status /\ Silent

-----------------------------------------------------------------------------
Init ==
  /\ nm = NoMsg
  /\ readNewTraceMessage = TRUE
  /\ currentCore = 0
  /\ traceType = "BTM"
  /\ status = "OK"
  /\ core = [c \in Core |-> NewCore]
  /\ instInfo = NoOutput /\ msgInfo = NoOutput

\* What the decoder does with the message it has.
Decode ==
  \/ FirstSync \/ FirstSyncICT \/ FirstSkip \/ FirstError \/ FirstRefuse
  \/ GetMsgWithCount \/ GetNextMsg
  \/ CountsExhausted \/ NoInstructionThere \/ NextInst
  \/ RetireMessage \/ RetireCorrelation

Next ==
  \/ \E m \in Msgs : Read(m)
  \/ \E result \in {"EOF", "ERR"} : ReadFails(result)
  \/ Decode

Spec == Init /\ [][Next]_vars
-----------------------------------------------------------------------------
(* Properties, of every stream of messages, also one no encoder sends.     *)

\* The variables hold what their declarations allow; the return stack has
\* room for what is on it, and a saved address is never the "unknown" -1.
TypeOK ==
  /\ nm \in Message
  /\ readNewTraceMessage \in BOOLEAN
  /\ currentCore \in Core
  /\ traceType \in {"BTM", "HTM"}
  /\ status \in {"OK", "EOF", "ERR"}
  /\ core \in [Core -> CoreState]
  /\ \A c \in Core : Len(core[c].stack) <= StackSize

\* One message is in work at a time.  A core that is stepping through
\* instructions, or retiring, is the core of the one shared message nm, and nm
\* is a message with counts: the error branches of the retire state for other
\* messages are never taken, and no core works with another core's message.
OneMessageInWork ==
  \A c \in Core : core[c].state \in {"GETNEXTINSTRUCTION", "RETIREMESSAGE"} =>
    /\ c = currentCore /\ c = nm.core
    /\ ~readNewTraceMessage
    /\ nm.tcode \in TCodesWithCounts

\* When a core asks for its next message, no branch outcome is left from the
\* last one: setHistory, setTakenCount and setNotTakenCount, which refuse new
\* outcomes while there are old ones, never refuse.
OutcomesUsedUp ==
  \A c \in Core : core[c].state = "GETNEXTMSG" => ~Outcomes(core[c].cnt)

\* A retired message leaves no count behind, but for an instruction count kept
\* on purpose: that of a branch, in a history trace, that waits for its outcome
\* (unless the message moved the core away from that branch).
LeftoverIsABranch ==
  [][\A c \in Core :
       /\ core[c].state = "RETIREMESSAGE"
       /\ core'[c].state = "GETNEXTMSG"
       /\ CurrentCountType(core'[c].cnt) # "none"
       => /\ traceType = "HTM"
          /\ CurrentCountType(core'[c].cnt) = "i_cnt"
          /\ core[c].currentAddress \in DOMAIN Code
          /\ Code[core[c].currentAddress].type \in BranchTypes]_vars

\* The time of a core never goes back, across wraps of the target's counter,
\* except when messages were lost and the time with them.
TimeNeverGoesBack ==
  [][\A c \in Core : core'[c].lastTime < core[c].lastTime =>
       c = currentCore /\ nm.tcode = "ERROR" /\ core'[c].lastTime = 0]_vars
=============================================================================
