# Verification of the trace decoder

TLA+ models of this repository's trace decoder (the `dqr` library and program)
and of the parts around it, TLC configurations that check them on small
instances, and theorems that TLAPS proves for all instances.

The library reads the Nexus messages that the trace encoders of RISC-V cores
send while the cores run, and works out from them and from the program's ELF
file which instructions each core executed. Messages say little: how many
half-words of code were executed, which way the conditional branches went, and
where indirect jumps led, the latter as an exclusive-or with the address before.
An error in any of this does not show at once: it shifts everything that
follows. That is what most of the properties are about.

## 1. The system's parts

Lines are those of `src/src/trace.cpp` (T), `src/src/dqr.cpp` (D) and
`src/src/swt.cpp` (S).

| part | state | operations | what is hard, and what makes it correct |
|---|---|---|---|
| **Decoder loop**: `Trace::NextInstruction` (T 7208-8726), with `nextAddr` (T 6021-6518), `processTraceMessage` (T 6659-7175), `processTS` (T 5606), `getCRBRFlags` (T 5904) | shared: the message `nm`, `readNewTraceMessage`, `currentCore`, `traceType`, `status`; per core: `state`, `currentAddress`, `lastFaddr`, `lastTime`, `enterISR`, counts, return stack | read a message; a step of the state machine: look for the first sync, take a message's counts, step through instructions, retire the message | Messages of several cores interleave over shared variables; counts and outcomes come apart and out of step; losses and restarts; wraps of the time stamp. It is correct when it returns what the cores executed. |
| **Count, AddrStack** (D 6020-6352, 10933-10984) | per core `i_cnt`, `history`, `histBit`, `takenCount`, `notTakenCount`; a stack of return addresses | set from a message, consume, push, pop | Refuses new outcomes while old ones are left; negative leftovers; a bounded stack that drops; bit arithmetic on a 64-bit register. |
| **ITCPrint** (D 1623-2321) | per core a ring of characters with `pbi`, `pbo`, `numMsgs`, and a circular list `tsList`; a free list shared by all cores | `print` (words and no-load strings), get and flush, as C string or `std::string` | Three structures (characters, count, list of times) must agree; ring wrap and overflow; list surgery over a shared free list. Text comes out whole, once, in order, with its times. |
| **SliceFileParser** (D 6354-8765) | `msg` slices, bit position, `pendingMsgIndex`; a ring over a socket (`bufferSWT`) | read a message from file or socket, cut it into fields by TCODE | Resuming in the middle of a message; a ring that may not fill up; damaged messages. Whole messages come out, once and in order. |
| **SWT server** (`swt.cpp`, `swt_main.cpp`) | client connections with their queues, serial device, slice reassembly; in thread mode a mutex, one condition variable, a lookahead and the select request/response | `serviceConnections`, the serial and select threads | Three threads; connections that come and go; clients that do not read; short reads. Bytes reach each client in order and once, and no wait holds them back. |
| **CATrace** (T 81-1153) and the SYNCCATE state (T 7451-7797) | a record of a cycle-accurate trace and, for vector traces, the ring `caTraceQ` of flags | rewind; consume the cycles of an instruction | Two traces that begin at different instructions; flags of several instructions interleave; a ring that wraps, fills and is packed. Each instruction gets its own cycles. |
| **Simulator** (D 10986-12407) | next instruction, return stack, per-core times | instructions from a Verilator log | Predicts next addresses like the decoder. |
| **Analytics** (D 2323-4108) | counters | update per message and per instruction | Statistics only. |
| **PerfConverter** (T 1481-2411) and the library that writes what it reads, `examples/itc_utils/sifive_perf.c` | per core the place in a record, a counter that waits; in the library marker counts, `infunc`, what is switched on | a word arrives; a core writes a record | Records without lengths, values of one or two words; words of several cores interleave; a buffer without its beginning. Lines are records. |
| **CTFConverter, EventConverter** (T 1155-3821) | event buffers | convert, buffer, flush | Flush before overflow. |
| **TraceSettings, propertiesParser** (T 3823-4867) | settings | parse | Sequential. |
| **Disassembler, ObjFile, ElfReader, Symtab, fileReader** | caches | look up | No state that decoding depends on, but the code itself. |
| **NexusMessage** (D 4110-6018) | one message | getters, text | Which TCODE has which field. |
| **main.cpp** | options | call `NextInstruction` until it fails, drain and flush ITC print text | Source of the fairness and of the drain discipline below. |

Third-party code (`lib/`) and the probe script have no state that belongs to this
system; nor have the examples, but for the performance library.

How they interact: `main` calls `Trace::NextInstruction`; it asks
`SliceFileParser` for the next message (which the SWT server may be feeding),
gives its counts to `Count`, steps through code that `Disassembler` finds in the
ELF file, asks `CATrace` for the cycles of each instruction if there is such a
trace, and passes data-acquisition messages to `PerfConverter` and `ITCPrint`.
`main` empties `ITCPrint` after every call. All of this is one thread; concurrency is in the
interleaved message streams of the cores, and in the SWT server.

## 2. The modules

| module | models |
|---|---|
| `Counts` | `Count` and `AddrStack` as operators on one core's record |
| `TraceDecoder` (extends `Counts`) | the decoder loop for any number of cores, any program, any set of messages |
| `TraceSystem` (extends `TraceDecoder`) | cores that execute a program, their encoders, the message stream with losses and restarts, and the decoder |
| `ExecutionStream` | abstract: what a trace decoder promises for one core |
| `ITCPrint` | rings, nodes, free list; print, fetch, flush |
| `TextMessages` | abstract: what ITC print promises for one core |
| `SliceFields` | the fields of every message: how slices are cut into them, and how the server's message builder writes them |
| `SliceParser` (extends `SliceFields`) | `SliceFileParser` over a file or a socket, the noisy link before it, and the SWT server's own parser on the same bytes |
| `MessageChannel` | abstract: messages come out unchanged, in order, once |
| `SwtServer` | the server's main loop, serial thread and select thread, the device and the clients |
| `Fanout` | abstract: what the server promises to one client |
| `CATrace` | the reader of a cycle-accurate trace, as operators on its record |
| `CycleTrace` (extends `CATrace`) | hardware with two pipes and a vector unit, SYNCCATE, and the steps of GETNEXTINSTRUCTION that take an instruction's cycles |
| `PerfConverter` | `processITCPerf` |
| `PerfTrace` (extends `PerfConverter`) | the performance library on several cores, the trace buffer, and the converter |
| `TraceDecoderMC`, `TraceSystemMC`, `ITCPrintMC`, `SliceParserMC`, `CycleTraceMC`, `PerfTraceMC` | programs, messages and words for TLC |
| `TraceDecoderProofs` | proofs about the decoder loop |
| `TraceSystemProofs` | proofs that the decoder returns what the cores executed |
| `StreamProofs` | proofs that it implements `ExecutionStream`, and of the handlers' marks |
| `SwtServerProofs` | proofs about the SWT server, and that it implements `Fanout` |
| `SliceParserProofs` | proofs about `SliceParser`: the ring, what stops reading, and that `MessageChannel` is implemented |
| `ITCPrintProofs` | proofs about rings and lists of ITC print |
| `PerfTraceProofs` | proofs that the lines of performance data are the library's records |
| `Induction` | induction on numbers for given sets and functions, powers of two |

### TraceDecoder and the code

One step is one turn of `for (;;)` in `NextInstruction`, or the read at its head.
The arrays indexed by core are the record `core[c]`; the variables that the class
shares between cores are shared here. An action is a `case` of the state
machine: `FirstSync`, `FirstSyncICT`, `FirstSkip`, `FirstError`, `FirstRefuse`
for GETFIRSTSYNCMSG; `GetMsgWithCount` and `GetNextMsg`, each with `TakeCounts`,
`RetireICT`, `LoseTrace`, `RetireOther`, `Refuse`; `CountsExhausted`,
`NoInstructionThere`, `NextInst` for GETNEXTINSTRUCTION; `RetireMessage`,
`RetireCorrelation`. `ProcessTraceMessage` is that function's effect on a core's
record, `NextAddr` the two functions of that name with the return stack and the
counts. Addresses count half-words, as message fields do (the code shifts them
left by one when it uses them). An instruction is what decoding leaves of it:
kind, size, link registers and offset.

Kept as it is in the code: setters of `Count` that refuse; a dropped push; the
"unknown" address -1; the shared `traceType`, which a history message of any core
changes; the test `1 << histBit` with an `int`; `i_cnt` that may be left over or
negative; `status` that stays an error; an address of an in-circuit message that
is only sometimes applied.

Left out: cycle-accurate traces (they are in `CycleTrace`), the event filter, calls
without one of the three outputs, the texts. The program is read-only and the same for all cores.

### TraceSystem

Encoder and core are hardware. They are modelled from what the decoder does with
each message, which fixes what a message counts and what addresses are relative
to; and they keep, with each message, the list of instructions that it accounts
for (`covers`), so that the output can be compared with the execution. `Send`
either appends to the stream or loses the message and all that follow up to a
restart (`StartTrace` then sends an error message and a sync). The decoder works
on a recorded stream, so the cores only go on when it has caught up (`Idle`):
without loss of behaviours the stream is then short.

### ITCPrint

`Take` and `Unlink` are the surgery on the lists, `h` the heap that they work on;
following a null pointer is the variable `crashed`. `Copied` and `Advance` are
the copy loop of the fetching functions. A word is a sequence of up to three
characters, a line end stands for `\n` and `\r`. `Fetch` and `Flush` take the
length of the client's buffer; a length that no message reaches is the
`std::string` variant.

### SliceParser

`Take` is one turn of the loop in `readBinaryMsg`, with a slice from the ring or
the file; `Call`, `Return` and `ReturnError` are the ends of `readNextTraceMsg`, and
`AfterMessage` its three attempts. `Buffered` is a call of `bufferSWT`, with its one
or two `recv`s, each of which gives any part of what has arrived. A slice keeps its
two parts (MSEO, MDO): fields are real bits, and `Parse` of what `Build` made must be
the message. The tables `Layout` and `Widths` are the fifteen parse functions, which
differ in nothing else; `LegalFields` has the cases of the second field that they
refuse. The target sends clean messages, damaged ones (which run into the next) and
noise. `server` is the SWT server's parser, which reads the same bytes. It has place for
`DataMax` bits of a field, the decoder for `VarMax`: messages with a field between the
two come out of the server only, and `wide` marks them. Values that the code keeps in 32
bits are cut to `WordBits`. A tag wider than 64 bits is `Undefined`: `buf_to_u64` shifts
beyond its type.

### SwtServer

What a thread does between locking and unlocking the mutex, or waiting, is one step:
`WaitUsingThreads`, `SerialAppends`, `SelectAwaitsRequest`, `SelectAnswers`,
`SelectAwaitsAck`. What it does without the mutex is a step of its own: the select
thread's walk over the list of connections and its return from select, the read of
the device, and in the main thread accepting, reading, and each recv and send.
Descriptors are given out lowest first and reused. `part` says that the send of this
connection has taken only some of its queue. The server never sees a client's bytes, as clients send none.

### CATrace and CycleTrace

`file` is a sequence of cycles, each the set of its flags; `CATraceNew`, `Rewind` and
`Consume` are the methods of that name on a record. `Search` is the loop that
`consumeCAPipe` and `consumeCAVector` have in common, with the count of flags passed.
`PackQ` closes the holes of the ring as the code does, and may leave one behind. The
hardware of `CycleTrace` executes short programs in every schedule: none, one or two
instructions in a cycle, vector instructions that start and finish later. `moved` and
`unset` are history: `packQ` has moved `traceQIn`, and what the uninitialised slots
held.

### PerfConverter and PerfTrace

A turn of `while (!consumed)` is a step; `word` is the word it works on. States for
timer or manual data and for function data differ in the first component of `state`
only, where the code does the same in both. `PerfTrace` has the library's records as
what is still to be written of them (`todo`): words, and the loops over a mask
(`perfEmitMarker`, `perfEmitCntrs`), each as an item that names the counter whose turn
comes next. A counter is read when its turn comes. Cores interleave word by word. The buffer may have lost what was written before `BufferStarts`, and a
word may be lost later (`LoseWord`; the encoder does not stall). `GetCounterDefsH` stays
in its state behind a definition, as the code does, so that a second one is read out of
step; `inSync` says whether a core's words still mean to the converter what the library
meant (`Misleads`, `SyncAfter`). The converter reads a
recorded trace, so that cores only go on when it has nothing to do: no behaviour is
lost. Words carry, as history, the line that they complete.

## 3. What is checked

`Next` of the decoder contains every message, also in orders that no encoder
sends, with messages of all cores in any order, and reads that fail.

| run | question | bounds |
|---|---|---|
| `decoder_any_stream` | One core, messages of every TCODE and every case of the in-circuit messages, interleaved with a second core's. Does the decoder keep one message in work, use up its outcomes, leave over only the count of a waiting branch, keep time? | program with one instruction of each kind; `CountBound` 1: a message is read while \|i_cnt\| <= 1; 2-bit time stamps, `TimeBound` 5 |
| `trace_one_core` | Does the decoder return what was executed, in a branch trace and in a history trace, with syncs, losses, restarts and interrupts? Does it hold anything back, is its return stack that of the encoder, does it refuse anything, does it get through? | 7 instructions: loop, call, branch, indirect jump, return; 4 half-words and two outcomes per message; `StackSize` 2, call depth 2 |
| `trace_nested` | Nested calls, a coroutine swap and traps, without losses: are returns predicted right and handlers marked? | 7 instructions |
| `trace_two_cores` | Two cores, one stream: does each core's output implement `ExecutionStream`? | 2 instructions |
| `itc_print` | Does the text of two cores come out (refinement of `TextMessages`), and do ring, count and lists agree? | rings of 5 characters, 4 nodes, 4 writes, two messages waiting |
| `slice_parser` | Do messages come out of file and socket (refinement of `MessageChannel`), whatever is damaged and however `recv` cuts; does the server's parser find the same? | every kind of message alone with small and large fields, two kinds in sequence, data wider than 32 bits, than 64 and than the server takes; ring of 4, messages up to 8 slices; `VarMax` 14 bits for 64, `WordBits` 8 for 32, `DataMax` 24 for 32768 |
| `swt_server` | Do the threads wake and answer each other; do the bytes reach each client (refinement of `Fanout`), and all of them? | two clients, 3 bytes, buffer of 2, one byte of socket room, one unplugging |
| `ca_trace` | Does each instruction get its own cycles, wherever the two traces begin, and does the ring keep every flag? | 4 programs of up to 4 instructions in 8 cycles, every schedule; 2 cycles in a word, 2 words in a record, ring of 5, search of 2 instructions for 30 |
| `perf_trace` | Are each core's lines its records, in order; is only the last counter held back; is every word consumed? | two cores, 3 records or initialisations, one loss, 7 counters, markers at every second record, values of one and two words and one that looks like a marker, masks of none, one and (on one core) two programmable counters |
| `itc_three_pending` | *violated*: with three messages waiting the list goes wrong | one core |
| `swt_second_accept` | *violated*: in thread mode `accept` is called where no client waits | two clients |
| `perf_two_events` | *violated*: behind a mask with two programmable counters the second definition is written wrong | one core |

Why the bounds are enough: the decoder's cases depend on whether a count is
negative, zero, one or more, whether an outcome is left and whether another
instruction follows; two half-word sizes and two outcomes give every order of
"count runs out" and "outcome runs out", and `ICntMax` allows a message to cover
a whole turn of the loop. `StackSize` 2 against calls two deep makes the stack
reach its size without passing it; beyond it, `push` drops the address
(no caller looks at its result) and `StreamIsExecution` fails. A time stamp of
two bits wraps twice within `TimeBound`. In all runs an `int` has half the bits of a history
register, as in the code (32 and 64); the histories of `decoder_any_stream`
reach beyond it, those of the encoders, like hardware with a register of 32 bits, do not. In `itc_print` a message takes up to three
characters of a ring of five, so rings wrap inside a message, fill up and drop
characters. Its bounds leave out what the code does not handle: `MaxPending`
three waiting messages, `NLSRoom` a no-load string in a full ring, and its words
have one terminator at most. The client's buffer is long enough: with `DstLens` = {2}
`CountsItsMessages` fails, since what is skipped after a cut message is a
character and not its NUL.

In `slice_parser` a ring of four slices is smaller than most messages, so it wraps in
the middle of one, in each place, and fills; `MaxNoise` and two kinds of junk make the
three attempts run out. A data acquisition of three slices of data is too wide for the decoder, one
of five for the server too; null slices are part of the noise. In `swt_server` two clients make a connection erased before
and behind another, and its descriptor reused; a buffer of two bytes against three
gives reads that fill it and reads that do not; one byte of room makes every longer
send partial. In `ca_trace` eight cycles are four words and two records, so that every
search may cross both, a ring of five wraps, fills and is packed, and the instruction
trace begins before, with, and up to behind the reach of the search. In `perf_trace`
words of seven bits hold the two markers and a mask of two programmable and fixed
counters (of two on the same core the second definition takes the converter out of step); three calls allow a record with a marker, one without and one of the other
kind; the converter's state is per core, so two cores show what they share.

Fairness. `trace_one_core` assumes weak fairness of the decoder's own steps and
nothing of the cores: `main.cpp` calls `NextInstruction` in a loop until it fails.
`slice_parser` assumes it of the decoder's calls, of bytes under way on a link that
stays, and that a file is complete some day. `swt_server` assumes it of each thread,
which the operating system schedules, and of clients that read; not of clients that
come or leave, nor of the device. `perf_trace` assumes it of the converter, whose loop
runs until the word is consumed.

No run checks deadlock: a decoder whose input has ended, or that has met an
error, stops, and so do cores whose tracing cannot go on within the bounds.

The main properties, and what each would catch:

- `StreamIsExecution`: each instruction returned is the next one its core
  executed. A count, an outcome, a predicted return or a relative address
  applied at the wrong instruction; something repeated or invented after a loss.
- `NothingHeldBack`, `DecoderInStep`: the other direction, at every point where
  a message is asked for. Stale counts and stacks after losses and restarts.
- `ReturnsTheExecution`: both, per core, as a refinement.
- `HandlersAreMarked`: the flag for a handler's first instruction travels from
  the retired message to the next instruction. It is checked without losses:
  the flag outlives a loss or the end of tracing.
- `OneMessageInWork`, `OutcomesUsedUp`, `LeftoverIsABranch`: why the shared
  message and the refusing setters are safe, for any stream.
- `TimeNeverGoesBack`: time stamps at their width.
- `KeepsUp` (liveness): the decoder is not caught in a loop of the program.
- `CountsItsMessages`, `AnnouncedCanBeFetched`, `NodesAreOwned`, `PrevIsOldest`,
  `TextComesOut`: the three structures of ITC print agree, over cores.
- `RingHoldsStream`, `MessagesComeOut`, `StopsForDamage`, `EverythingIsRead`: the ring
  is a queue, a message that is cut anywhere is gone on with, noise costs only what
  it touches. `SameMessages`: the two parsers of this repository agree, but for fields
  wider than 64 bits, which the decoder refuses and the server delivers, and for messages
  behind a null slice, which the server may miss; in both cases with the server
  delivering nothing else that the decoder does not.
- `NoLostWakeup`, `Handshake`, `ListIsQuiet`, `SelectModeAnswersHold`: what makes one
  condition variable for three threads, and a list without a lock, safe.
  `PassesBytesOn` and `BytesGoOut` are the server's purpose. `BytesGoOut` excepts a
  server that blocks in a call whose data were not there, which `swt_second_accept`
  shows to happen in thread mode, and in that mode a device that was unplugged.
- `OwnPipe`, `OwnVector`, `DepthsAreRight`, `FlagsAreKept`: an instruction takes its
  own flags out of a ring in which others' lie between. They hold up to the first time
  that `packQ` moves the end of the ring (see section 5), and where the search for the
  start passed no vector instruction.
- `LinesAreRecords`, `OnlyLastHeldBack`, `WordsAreConsumed`: a stream without lengths is
  cut into records at the right words, per core. On a core that lost a word, or whose
  mask had a second programmable counter, nothing is claimed from there on, but that the
  converter fails only there. `DefinitionsAreEvents`: the definitions of all counters
  are what the library wrote, which is false for two.

## 4. What is proved

Each theorem holds for every value of the constants that the named assumptions
allow: every program, set of messages, number of cores or clients and size of a
buffer. The bounds of the runs do not enter.

| module | theorem | says |
|---|---|---|
| `TraceDecoderProofs` | `TypeCorrect` | `Spec => []TypeOK`, with the bound on every return stack |
| | `OneMessage` | `Spec => []OneMessageInWork` |
| | `OutcomesAreUsedUp` | `Spec => []OutcomesUsedUp` |
| | `OnlyABranchIsLeftOver` | `Spec => LeftoverIsABranch` |
| | `TimeIsMonotonic` | `Spec => TimeNeverGoesBack`, for any number of wraps |
| `TraceSystemProofs` | `DecoderReturnsExecution` | `CallsFit` gives `SysSpec => StreamIsExecution` |
| | `OnlyABranchHoldsBack` | `CallsFit` gives `SysSpec => []NothingHeldBack` |
| | `DecoderStaysInStep` | `CallsFit` gives `SysSpec => []DecoderInStep` |
| | `StreamNeverRefused` | `CallsFit` gives `SysSpec => []NeverRefused` |
| `StreamProofs` | `ImplementsExecutionStream` | `CallsFit` gives `SysSpec => ReturnsTheExecution`: each core's part of the system implements `ExecutionStream` |
| | `HandlersMarked` | `CallsFit`, no losses and no end of tracing give `SysSpec => HandlersAreMarked` |
| `SwtServerProofs` | `TypeCorrect` | `Spec => []TypeOK`: descriptors are distinct, queues are limited |
| | `HandshakeHolds`, `NoWakeupIsLost` | `Spec => []Handshake`, `Spec => []NoLostWakeup` |
| | `WalkedListIsQuiet` | `Spec => ListIsQuiet` |
| | `AnswersHoldInSelectMode` | `Spec => []SelectModeAnswersHold` |
| | `ImplementsFanout` | `Spec => PassesBytesOn`: the server implements `Fanout` |
| `SliceParserProofs` | `RingIsTheStream` | `Spec => []RingHoldsStream` |
| | `SocketIsLikeFile` | the parser takes the bytes of the stream one by one, each once, from a socket as from a file |
| | `StopsOnlyForDamage` | `Spec => []StopsForDamage` |
| | `ImplementsMessageChannel` | `Spec => MessagesComeOut`: the parser implements `MessageChannel` |
| `ITCPrintProofs` | `TypeCorrect` | `Spec => []TypeOK` |
| | `MessagesAreCounted` | `RoomAndWhole /\ Spec => []CountsItsMessages` |
| | `AnnouncedAreThere` | `TwoWait /\ Spec => [](AnnouncedCanBeFetched /\ ~crashed)` |
| | `OldestIsPrev`, `NodesStayOwned` | `TwoWait /\ Spec => []PrevIsOldest`, `... []NodesAreOwned` |
| `PerfTraceProofs` | `SpecLinesAreRecords` | `CountersFit` gives `Spec => LinesAreRecords` |
| | `SpecOnlyLastHeldBack` | `CountersFit` gives `Spec => []OnlyLastHeldBack` |
| | `SpecFailsLost` | `CountersFit` gives `Spec => []FailsLost`: decoding fails only at a word of a core that lost one, or behind the second definition of a mask |

The assumptions on constants are types (messages are messages, the program maps
addresses to instructions, what `Build` makes of a message is a sequence of bytes,
a message alone is parsed as it was built, texts have no NUL, `None` is neither a client nor a descriptor nor a node, there are
finitely many clients and nodes), closure of the exclusive-or on fields and on time
stamps, and that a history register has its number of bits. `ProgramAssumption` says
of the traced program that it does not run off its end and has addresses that fit in
messages. `LibraryAssumption` says of a program with performance data that its code is
at even addresses (the library marks a low word by its lowest bit), that masks fit the
counters, and that no address, mask or event looks like a marker: a converter that
begins in the middle of a record takes the first word that does for one. Counter values
may look like markers. TLC evaluates them. Some theorems need more, and say so in their statement:

- those of `TraceSystemProofs` and `StreamProofs` need `CallsFit`: the return stack has room for the calls
  that may be open, and for one (a jump that pops and pushes). All runs of `TraceSystem`
  have it, at the limit; beyond it `push` drops a call and the decoder does go astray;
- `HandlersMarked` needs besides that no message is lost and that cores are traced to the
  end (`~Lossy`, `~Stops`): `enterISR` outlives a loss and the end of tracing, and would
  mark the first instruction after it;
- those of `ITCPrintProofs` need `RoomAndWhole` (an NLS string finds room for its two
  NULs; the client's buffer is longer than the ring) or `TwoWait` (a message is begun
  only when at most one waits; no word ends two messages);
- those of `PerfTraceProofs` need `CountersFit`: a counter's high half fits in the
  partial write that the library has for it (16 bits: `perfEmitCntrs` cuts off more).

`RoomAndWhole` and `TwoWait` are the conditions under which the code of ITC print is right:
without the first, `print` overruns the ring and a cut message is counted twice;
without the second, the list goes wrong as `itc_three_pending` shows. The client
`main.cpp`, which fetches after every instruction, stays within the second.

**Decoder loop.** `OneMessageInWork` and `OutcomesUsedUp` are not inductive alone: the
first needs that `currentCore` is the core of `nm`; the second, that a core which
is about to retire has no outcome left, and that this survives what retiring does
to the counts. The inductive invariant `IInv` joins `TypeOK`, `OneMessageInWork`,
`currentCore = nm.core`, `HistoryFits(nm.history)`, and "no outcome is left in
RETIREMESSAGE or GETNEXTMSG". A step changes the current core only, so a lemma
(`GoodStep`) reduces each action to what it may do with that core's record.
`TraceDecoderProofs` has lemmas on what each operator of `Counts` returns and
preserves, one lemma per helper (`ProcessTraceMessage`, `NextAddr`,
`SetCounts` ...) and one step per action. `TimeIsMonotonic` rests on an arithmetic
lemma: replacing the low bits of a time and adding one wrap when the result is
smaller never goes back. For `OnlyABranchIsLeftOver` the invariant
`RetiresClean` follows a message from the step that ends it to the one that retires
it: a core about to retire has used up its counts or stands at a branch, which
`nextAddr` leaves undecided only in a history trace, with an instruction count left.

**The whole trace.** What has been executed and not returned is spread over the counts
and the return stack of the decoder, the message in work or on its way, and the counts
and the stack of the encoder. The invariant `SysInv` says that for every core there is a
path which all of them describe: a sequence of points, one per instruction still to be
returned and one for where the core is, each with an address, the return stack before
it, the direction of a branch, and running numbers of half-words and branches.
`Path` says that each point follows from the one before by its instruction; `Guided`,
that the decoder can tell the next address without a message; `Accounted`, that the
half-words and outcomes in the decoder's counts and in the encoder's, together and in
this order, are those of the path. Between messages (`AtRest`) the whole path is guided.
While a message is on its way or in work (`Incoming`, `InWork`), its last step need not
be: `EndsPath` says, for each kind of message, what it tells of it. A core that lost
messages, or is not traced, has no path, and the decoder waits for a sync (`Rests`).

The proof has three parts. The decoder takes the first point off the path
(`StepAlong`, with `BranchAlong` for outcomes and `CountReaches` for the half-words):
the address it computes is that of the second point, what is left accounts for the rest
(`AccountedTail`), and its counts run out exactly at the end of the path, or at a branch
whose outcome is still with the encoder. A core adds a point at the end (`Executes`),
and a message moves what it reports from the encoder's counts to the decoder's
(`SendAccounts`, `CountsReported`), by register or by count; that `setHistory`
finds in the register the outcomes in the order in which they were put (`RegisterRead`)
is shown by induction on their number (`Induct`, `PowersGrow`). Last, there is one lemma
for each action of decoder, stream and core (`NextInstKeeps`, `RetireKeeps`,
`RunBranchHTMKeeps` ...), and frame lemmas for the cores that a step does not concern.

`ImplementsExecutionStream` builds on that. What a core executed and is not returned is
in three places: with the decoder (`pending`), under way (the `covers` of its messages in
the stream) and with the encoder (`run`). The mapping takes the three together, in this
order. A step moves instructions from one place to the next, which leaves the whole as it
was (`KeptStep`; `Carries`, `From` and `Moves` say for each action what it takes from
where); a core adds one at the end (`GrownStep`), the decoder returns the first one
(`ReturnedStep`, from `StreamIsExecution`), and a message that is lost takes a part out of
the middle (`CutStep`, with `GapLeaves`). These are the steps of `ExecutionStream`. The
concatenation over the stream is a recursive function; what it does when a message is
appended or taken off is shown by induction on the length of the stream.

`HandlersMarked` has an invariant of its own (`MarksInv`): the mark that the decoder holds
is that of the first instruction it will return; a message that announces a handler is
between the instructions before it and the handler's; and where nothing is ahead, the
encoder's mark is what the core's next instruction will have. That the announcing message
is retired only when nothing before it is left comes from the invariant of the execution.

**SWT server.** The invariants are proved one after the other, each with the help of
those before. `Types` is the shape of the state. `HInv` joins `Handshake` and
`NoLostWakeup` with what makes them inductive: after an acknowledgement there is no
answer (`Acknowledged`), and in select mode the other threads do nothing. `Limits`
has that descriptors of connections are distinct from each other and the device's;
a queue is only added to below the limit, by at most a buffer. `Fresh`, for
select mode, says of whom an answer of select can still speak: between select and
the last read nobody gets a descriptor that the answer holds for another, because the
new connection's descriptor is given out only by accept, which comes first, and its
place in the list is behind those walked.

The refinement of `Fanout` needs three more: `Membership` (a client is in the backlog
or has exactly one connection), `BytesKept` (what was read from the device and not
handed to the connections is in the lookahead or with the serial thread) and
`QueuesOK` (the queue that the mapping finds for a client is that of its connection).
Every action is then a step of `Fanout` or leaves what it maps to unchanged.

**SliceFileParser.** `StreamInv` says that the occupied part of the ring, read from
`swt_bufferIndex_out` around its end, is what was received and not yet taken. The proof is
one of index arithmetic: where `Place` puts a byte when the first `recv` fills the room
up to the end of the ring and the second the room at its start.

`MessagesAssumption` says of one message by itself that its slices begin like a message,
that only the last one ends one, and that `Parse` of them is the message; TLC evaluates it
for every kind of message, with small and large fields, and with time. The
theorems are about messages in a stream, from there on. `MadeOf` cuts the stream at the
ends of what was sent: in each part exactly one message starts, behind slices that start
none, and it goes on to the part's end (`Whole`); in a part that nothing ran into it is
what was built. Each way of sending keeps this (`FramedAdded`, `NoiseAdded`), also where a
message that lost its end swallows the next. The parser is somewhere in such a part
(`At`) with the slices of its message up to there (`SoFar`), and with as many attempts
left as there were undamaged messages among the last three (`Damaged`). An end that it
sees is therefore the end of the next part, and its slices are the whole message
(`EndsHere`); a slice that it skips, or that goes on with the message, is no end
(`EndsNot`). So it is through with one more of what was sent exactly when `MessageChannel`
passes one (`Moves`).

**ITC print.** Rings and lists are looked at apart. For the rings (`RingOK`) the number
of messages is that of the ends (NUL characters) between `pbo` and `pbi`, the last
character being an end unless the core is in the middle of a message. `print`,
character by character, and the copy loop of the fetching functions preserve it. The
functions that print a word and follow a list are recursive, and what they compute is
shown by least counterexample over the natural numbers (`Least`, `Induct`, `Iterates`), as
the library's induction theorems cannot be used with the installed provers. For the
lists (`HeapOK`) each core has none, one or two nodes that point at each other; the free
list is a chain through a set of nodes; and those of the cores, the free ones and the
ones never used are disjoint and all nodes. `Take` and `Unlink` are followed through
each case.

**Performance data.** A record has no length and no end mark, so the converter is right
only if at every word it is where the library is. The invariant `Traced` says this
for each core. `Shape` lists what may be left of a record (`AtMarker`, `AtMask`,
`AtEvent`, `AtFn`, `AtCntr` ...); `Follows` gives for each of them the state of the
converter, what it must have kept of the words before (a low word, the mask, the
counter's number) and the one line that it may still hold, that of a counter that waits
for a high word. The word in hand belongs to what is left (`Rest`), and the lines that
are expected are the held one and those of this word (`InStep`). A core without a kept
marker waits for one and is handed no word that looks like one (`NotYet`). Of a core that
lost a word, or wrote a second definition behind a mask (`Misleads`), nothing is said. One lemma per
part of a record shows that a round of `processITCPerf` either uses the word up or keeps
it, and follows in both cases (`MarkerStep`, `MaskStep`, `EventStep`, `AddressStep`,
`FnStep`, `SiteStep`, `RecordStep`, `CntrStep`, joined in `Round`); lemmas about `Shape`
show that a core writes what the converter awaits (`ShapeWrites`, `NextWord`), also at
the beginning of a record (`NewRecord`), where the counter held back may still be out.
A loop over a mask is followed turn by turn: the next counter of the library is the
least one of the mask that is not below the last, and so is the converter's
(`NextIndexIs`, `NoneNext`).

Only model-checked, and why:

- Liveness (`KeepsUp`, `EverythingIsRead`, `BytesGoOut`, `WordsAreConsumed`), which this
  prover does not treat.
- `CycleTrace`: `OwnPipe`, `OwnVector`, `DepthsAreRight`, `FlagsAreKept`. The searches are
  recursive operators.
- `SliceParser`: `TypeOK`, whose part about the status is about the outcomes of the
  recursive `Parse` for any slices at all; `SameMessages`, about the fields that two
  parsers make of the same bits; and `MessagesAssumption`, the round trip of a message
  through `Build` and `Parse`. These are recursive functions over data.
- `ITCPrint`: `TextComesOut`; the texts are sequences that several functions
  build character by character.

## 5. Deviations found

Each of these is shown by a run and listed in `PROJECT.json`:

- `itc_three_pending`: a stale `next` pointer in the list of message times with three
  messages waiting (D 2098);
- `swt_second_accept`: an answer of select that the SWT server uses twice (S 1472);
- `perf_two_events`: the converter's state behind a definition, with two programmable
  counters (T 2113 and 2394).

Seen while modelling; no text of the repository says otherwise, or the properties are
stated around them (the hazards in `PROJECT.json` say how):

- decoder loop: an in-circuit sync that leaves the old address; an auxiliary access
  write before the first sync ends decoding; history outcomes are selected with a shifted
  `int` (D 6320), whose sign extends over the higher bits from bit 31 on, so that a history
  of more than 32 bits sends branches the wrong way;
- slices: the server delivers data acquisitions with a field of more than 64 bits, which
  the decoder refuses (D 8239, `swt.hpp` 57); it takes a null slice for the start of a
  message (S 171), which the decoder skips (D 8441);
- ITC print: two terminators in one word announce a message that cannot be fetched; a
  NUL is stored into a full ring; a client buffer shorter than a message;
- cycle-accurate traces: a search goes on at an index that packing the ring has made
  stale (T 523); running forward leaves flags of vector instructions behind (T 7758);
  the search for the first record of a wrapped buffer stops after its first word, as
  `last` is 0 in its first turn (T 1101), so the model has no such search;
- performance data: a counter that waited is written with the time of the message after
  its own (T 2036), where `doc/tracedecoder_perf.md` says the time of its own; a lost word ends decoding for all cores (T 2011); `infunc` is
  shared by the cores; `perfResetCntrs` does not end;
- SWT server: a device that fails in thread mode is never reopened; a read of exactly
  the buffer's size is followed by one that finds nothing.

## 6. What is left

Not proved, and why, is at the end of section 4. Of that, the refinement of
`TextMessages` by `ITCPrint` is what a proof could reach next: it needs for the
characters of a ring what `RingOK` has for their ends.

Not modelled:

- CTFConverter: sequential; a buffer that is flushed when it is full, and layout.
  EventConverter: formatting only.
- Simulator: its log has every instruction; its next address is only compared.
- Analytics: counters that are printed and never read.
- TraceSettings, properties and options: parsed once, before decoding.
- Disassembler, ELF and source look-ups: a table from addresses to instructions
  (`Code`), without state on which decoding depends.
- The event filter of the decoder loop (one test of a message that was read, T 7436),
  calls without one of its outputs, and the copies that the other `NextInstruction`
  makes: assignments that no later step reads.
- The probe script, and third-party code under `lib/`, which is most of the lines of
  the repository.
