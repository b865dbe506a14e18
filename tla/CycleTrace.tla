----------------------------- MODULE CycleTrace -----------------------------
(***************************************************************************)
(* Trace::NextInstruction with a cycle-accurate trace (trace.cpp): the     *)
(* state SYNCCATE, which brings the cycle-accurate trace and the           *)
(* instruction trace to the same instruction, and the steps of             *)
(* GETNEXTINSTRUCTION that take the cycles of the instruction returned.    *)
(* How the instruction trace finds its addresses is TraceDecoder's         *)
(* subject; here it walks the instructions executed.                       *)
(*                                                                         *)
(* The hardware is external.  It executes the program cycle by cycle, up   *)
(* to one instruction in each of two pipes; a vector instruction starts    *)
(* and finishes in the vector unit some time after its pipe flag, vector   *)
(* instructions of a kind in order.  The address of an instruction is its  *)
(* number, counted from the first one of the cycle-accurate trace.         *)
(***************************************************************************)
EXTENDS CATrace, SequencesExt

CONSTANTS Programs,     \* the types of the instructions executed: a set of sequences
          CATypes,      \* subset of {"CATRACE_INSTRUCTION", "CATRACE_VECTOR"}
          TeStarts,     \* addresses the instruction trace may start at
          MaxCycles,    \* length of the cycle-accurate trace
          MaxIdle,      \* cycles without flags
          Unset,        \* what the uninitialised slots of the ring may hold
          MaxForward,   \* instructions nextCAAddr may be asked for (30)
          SyncTries     \* initial syncCount (16)

VARIABLES caType, program, file, prog, teStart, ready,       \* the hardware's
          state, ca, syncCount, caSyncAddr, address,   \* the decoder's
          inst                                      \* the instruction returned

hwVars == <<caType, program, file, prog, teStart, ready>>
vars == <<hwVars, state, ca, syncCount, caSyncAddr, address, inst>>

None == [address |-> -1000, synced |-> FALSE, pipe |-> "V0", cycle |-> 0, pipeCycles |-> 0,
         vector |-> NoVector]
NoReader == [status |-> "NONE"]

-----------------------------------------------------------------------------
(* The hardware: prog[n + 1] is the instruction at address n with the      *)
(* cycles of its pipe flag, its start and its finishes (-1: not yet).      *)

Cycle == Len(file)
Vectors(p) == {n \in DOMAIN p : IsVector(p[n].type)}
New(t, pipe) == [type |-> t, pipe |-> pipe, cycle |-> Cycle, start |-> -1, finish |-> <<>>]

(* The instructions that retire in a cycle: none, one in either pipe, or   *)
(* two, the older one in pipe 0.                                           *)
Retired ==
    LET rest == SubSeq(program, Len(prog) + 1, Len(program))
    IN  {<<>>} \cup {<<New(rest[1], p)>> : p \in IF rest = <<>> THEN {} ELSE Pipes}
               \cup (IF Len(rest) < 2 THEN {} ELSE {<<New(rest[1], "V0"), New(rest[2], "V1")>>})

(* The oldest vector instruction that has not started may start, and of    *)
(* each kind of finish the oldest one that waits for it may come.          *)
Waiting(p) == {n \in Vectors(p) : p[n].start = -1}
InProcess(p, f) ==
    {n \in Vectors(p) : /\ p[n].start # -1
                        /\ Len(p[n].finish) < Len(Finishes[p[n].type])
                        /\ Finishes[p[n].type][Len(p[n].finish) + 1] = f}
OldestOf(S) == IF S = {} THEN {} ELSE {Min(S)}

(* Every instruction of the vector kinds that share a finish takes it in   *)
(* program order.                                                          *)
MayFinish(p, f) ==
    {n \in OldestOf(InProcess(p, f)) :
        \A m \in Vectors(p) : m < n => ~ \E i \in DOMAIN Finishes[p[m].type] :
                                            Finishes[p[m].type][i] = f /\ Len(p[m].finish) < i}

HardwareCycle ==
    \E r \in Retired, starts \in BOOLEAN, ends \in SUBSET {"VIARITH", "VISTORE", "VILOAD"} :
        LET p == prog \o r
            s == OldestOf(Waiting(p))
            e == UNION {MayFinish(prog, f) : f \in ends}
            flags == {r[i].pipe : i \in DOMAIN r} \cup ends
                       \cup (IF starts THEN {"VISTART"} ELSE {})
        IN  /\ ~ready /\ Cycle < MaxCycles
            /\ Cycle = 0 => r # <<>> /\ r[1].pipe = "V0"
            /\ flags = {} => Cardinality({i \in DOMAIN file : file[i] = {}}) < MaxIdle
            /\ starts => s # {}
            /\ \A f \in ends : MayFinish(prog, f) # {}
            /\ prog' = [n \in DOMAIN p |->
                          [p[n] EXCEPT !.start = IF starts /\ n \in s THEN Cycle ELSE @,
                                       !.finish = IF n \in e THEN Append(@, Cycle) ELSE @]]
            /\ file' = Append(file, flags)
            /\ UNCHANGED <<caType, program, teStart, ready, state, ca, syncCount, caSyncAddr,
                           address, inst>>

(* The trace is written out, the flag of the first instruction sometimes   *)
(* missing, and setCATraceFile reads the first record.                     *)
SetCATraceFile ==
    /\ ~ready /\ Cycle = MaxCycles
    /\ ready' = TRUE
    /\ caType' \in CATypes /\ (Vectors(prog) # {} => caType' = "CATRACE_VECTOR")
    /\ teStart' \in TeStarts
    /\ \E f \in {file, [file EXCEPT ![1] = @ \ {"V0"}]}, unset \in Unset :
        /\ file' = f
        /\ ca' = CATraceNew(f, unset)
        /\ state' = IF ca'.status = "OK" THEN "SYNCCATE" ELSE "ERROR"
    /\ UNCHANGED <<program, prog, syncCount, caSyncAddr, address, inst>>

-----------------------------------------------------------------------------
(* SYNCCATE *)

(* A message that ends decoding: no encoder sends it, or it has no reason. *)
(* Messages other than a sync for the start of tracing or the end of debug *)
(* mode are returned as they are and change nothing here.                  *)
BadMessage ==
    /\ state = "SYNCCATE"
    /\ state' = "ERROR"
    /\ UNCHANGED <<hwVars, ca, syncCount, caSyncAddr, address, inst>>

TypeAt(a) == IF a + 1 \in DOMAIN prog THEN prog[a + 1].type ELSE "SCALER"

(* nextCAAddr: the next address, where the instruction alone tells it.     *)
NextCAAddr(a) == IF TypeAt(a) = "JALR" THEN -1 ELSE a + 1

(* The cycle-accurate trace is run forward, every instruction consumed as  *)
(* a scalar one, until it is where the instruction trace begins.           *)
RECURSIVE FastForward(_, _, _)
FastForward(c, a, i) ==
    IF a = teStart \/ i = MaxForward \/ NextCAAddr(a) = -1 THEN [ca |-> c, reached |-> a = teStart]
    ELSE LET d == Consume(c, file, caType, "SCALER").ca
         IN  IF d.status # "OK" THEN [ca |-> d, reached |-> FALSE]
             ELSE FastForward(d, NextCAAddr(a), i + 1)

(* If that fails it is rewound, and the instruction trace has to come to   *)
(* the start of the cycle-accurate trace.                                  *)
SyncCATE ==
    /\ state = "SYNCCATE"
    /\ \E f \in {FastForward(ca, 0, 0)} :
          IF f.ca.status = "EOF" THEN /\ state' = "DONE" /\ ca' = f.ca
                                      /\ UNCHANGED <<syncCount, caSyncAddr>>
          ELSE IF f.ca.status # "OK" THEN /\ state' = "ERROR" /\ ca' = f.ca
                                          /\ UNCHANGED <<syncCount, caSyncAddr>>
          ELSE /\ state' = "RUN"
               /\ ca' = IF f.reached THEN f.ca ELSE Rewind(f.ca, file)
               /\ syncCount' = IF f.reached THEN 0 ELSE SyncTries
               /\ caSyncAddr' = IF f.reached THEN teStart ELSE 0
    /\ address' = teStart
    /\ UNCHANGED <<hwVars, inst>>

-----------------------------------------------------------------------------
(* GETNEXTINSTRUCTION, after nextAddr *)

(* syncCount of the step: 0 when the addresses meet.                       *)
Tries == IF syncCount > 0 /\ caSyncAddr # address THEN syncCount - 1 ELSE 0

InTrace == state = "RUN" /\ address < Len(prog)

(* Not in step yet: the instruction is returned without cycles.            *)
ReturnUnsynced ==
    /\ InTrace /\ Tries > 0
    /\ syncCount' = Tries
    /\ address' = address + 1
    /\ inst' = [None EXCEPT !.address = address]
    /\ UNCHANGED <<hwVars, state, ca, caSyncAddr>>

GiveUp ==
    /\ InTrace /\ syncCount > 0 /\ caSyncAddr # address /\ Tries = 0
    /\ syncCount' = 0
    /\ state' = "ERROR"
    /\ UNCHANGED <<hwVars, ca, caSyncAddr, address, inst>>

(* lastCycle is the cycle of the instruction returned before.              *)
LastCycle == IF inst.synced THEN inst.cycle ELSE 0

ReturnWithCycles ==
    /\ InTrace /\ (syncCount = 0 \/ caSyncAddr = address)
    /\ syncCount' = 0
    /\ \E r \in {Consume(ca, file, caType, TypeAt(address))} :
          /\ ca' = r.ca
          /\ IF r.ca.status = "OK"
               THEN /\ inst' = [address |-> address, synced |-> TRUE, pipe |-> r.pipe,
                                cycle |-> r.cycle, pipeCycles |-> r.cycle - LastCycle,
                                vector |-> r.vector]
                    /\ address' = address + 1
                    /\ UNCHANGED state
               ELSE /\ state' = IF r.ca.status = "EOF" THEN "DONE" ELSE "ERROR"
                    /\ UNCHANGED <<inst, address>>
    /\ UNCHANGED <<hwVars, caSyncAddr>>

-----------------------------------------------------------------------------
Init ==
    /\ program \in Programs /\ caType = "CATRACE_NONE" /\ file = <<>> /\ prog = <<>> /\ teStart = 0 /\ ready = FALSE
    /\ state = "NONE" /\ ca = NoReader /\ syncCount = 0 /\ caSyncAddr = -1 /\ address = -1
    /\ inst = None

Next ==
    \/ HardwareCycle \/ SetCATraceFile
    \/ BadMessage \/ SyncCATE
    \/ ReturnUnsynced \/ GiveUp \/ ReturnWithCycles

Spec == Init /\ [][Next]_vars

-----------------------------------------------------------------------------
(* Properties.  They are about the instruction returned last, whose real   *)
(* cycles are in prog.                                                     *)

Own == prog[inst.address + 1]

(* From the step on in which packQ moves traceQIn the search goes on in    *)
(* the wrong place (see Search), so the cycles are right only before it.   *)
InStep == inst.synced /\ ~ca.moved

(* The instructions that FastForward passed had no vector unit flags: it   *)
(* leaves them in the ring, where later instructions would take them.      *)
NoVectorSkipped == \A n \in Vectors(prog) : n > teStart

(* An instruction returned with cycles has the pipe and the cycle in which *)
(* it retired, wherever the two traces began: consume meets every pipe     *)
(* flag once and in order, over words and records, and SYNCCATE has the    *)
(* two traces at the same instruction.                                     *)
OwnPipe == InStep => inst.pipe = Own.pipe /\ inst.cycle = Own.cycle

(* A vector instruction is given its own start and its own last finish,    *)
(* though those of others lie between, before and behind them.             *)
OwnVector == InStep /\ NoVectorSkipped /\ IsVector(Own.type) =>
    inst.vector.start = Own.start /\ inst.vector.finish = Last(Own.finish)

(* The vector instructions up to the one returned.                         *)
VectorsSoFar == {n \in Vectors(prog) : n > teStart /\ n - 1 <= inst.address}

(* Finish k of p is searched after its start, or after the finish before.  *)
Passes(p, k, c) ==
    /\ c > (IF k = 1 THEN p.start ELSE p.finish[k - 1])
    /\ c <= p.finish[k]
EntriesAfter(c) == {i - 1 : i \in {j \in DOMAIN file : file[j] # {} /\ j - 1 > c}}

(* The depths returned are those of the vector unit at that time: qDepth   *)
(* counts the vector instructions retired and not started, and the depth   *)
(* of its own kind those started and not finished.                         *)
DepthsAreRight == InStep /\ NoVectorSkipped /\ IsVector(Own.type) =>
    LET f == Finishes[Own.type][1]
        e == Min(EntriesAfter(Own.start))
    IN  /\ inst.vector.waiting =
              Cardinality({n \in VectorsSoFar : prog[n].start >= Own.cycle})
        /\ inst.vector.inProcess[f] =
              Cardinality({n \in VectorsSoFar : \E k \in DOMAIN Finishes[prog[n].type] :
                              Finishes[prog[n].type][k] = f /\ Passes(prog[n], k, e)})

Queued == {k \in 0 .. Dist(ca.out, ca.in) - 1 : ca.q[Slot(ca.out, k)].flags # {}}
Entry(k) == ca.q[Slot(ca.out, k)]
RingFlags == UNION {{Entry(k).cycle} \X Entry(k).flags : k \in Queued}
ReadFlags ==
    {<<0, "V0">>}
      \cup UNION {{i - 1} \X file[i] : i \in 1 .. ca.block * PerRec + ca.offset * PerWord}
Consumed ==
    inst.address + 1 + MapThenSumSet(LAMBDA n : 1 + Len(Finishes[prog[n].type]), VectorsSoFar)

(* Slots outside the ring hold no flags: nothing was left there by the     *)
(* allocation, nor by a first pass over the trace.                         *)
CleanSlots == ca.unset = {} /\ teStart >= 0

(* The ring holds every flag read and not yet consumed, once and in the    *)
(* order of the cycles, also after packQ has closed the holes and after    *)
(* the ring has wrapped or is full; once it has been packed, provided no   *)
(* search can meet flags of slots outside it.                              *)
FlagsAreKept ==
    caType = "CATRACE_VECTOR" /\ state = "RUN" /\ inst.synced /\ (ca.moved => CleanSlots) =>
        /\ RingFlags \subseteq ReadFlags
        /\ Cardinality(ReadFlags) = Cardinality(RingFlags) + Consumed
        /\ \A j, k \in Queued : j < k => Entry(j).cycle < Entry(k).cycle
=============================================================================
