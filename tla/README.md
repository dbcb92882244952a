# A TLA+ verification of hwdev

hwdev is the RTL of a small game console: a MIPS-I CPU with caches and
scratchpads, Wishbone buses with arbiters and a clock crossing, a DMA
controller, interrupts and timers, a memory controller and a video controller,
put together for two FPGA boards. Its test benches compare the CPU with two
instruction set simulators in C, and its benchmark is CoreMark. This project
models, in TLA+, the parts of the RTL in which several of these machines act at
once, the two simulators with the monitors that use them, and CoreMark; it checks
the models with TLC on small instances, and proves what matters most with TLAPS
for every instance.

Most of the code is synchronous Verilog. A module of it keeps the names of the source:
each register is a VARIABLE, each wire an operator, and the always blocks of one
clock are the conjuncts of one action, so one step is one clock edge. What the
code does not decide (what the CPU does next, when a memory accepts and answers,
which clock ticks) is the choice of a step. The C code is modelled by functions on
the state, one for each function of the code, and by an action for each step that
others can see in between.

## 1. Inventory

### The system

```
        CPU_CORE                        (mips1_core, cop0, mult, div)
   inst port    data port
      |             |
  CPU_ICACHE    write buffer / TCMs     MIPS1_TOP  (mips1_top)
      |   \         |     |
      +----\--------+-----+---- WB_ARB_4M_1S
                    |
   DMAC --------- WB_ARB_2M_1S          PSX_BUS (psx_top)
                    |
   ROM  DRAM  GPU  default  WB_SYNC_BRIDGE
                                 |
             register bus: INTC, ROOT_CNT, DMAC, MEMCARD, CDROM, PAD, ...
```

Every arrow is Wishbone in its pipelined form: an access is accepted in a cycle
with STB and no STALL, answered by ACK or ERR in a later cycle, and CYC is up
from the one to the other. The whole code rests on the rule that a bus has at
most one access outstanding, which nobody enforces in one place: arbiters,
selects, stalls and slaves have to come to it together. That is where most of the
hard behaviour is.

### Components

| component | state | operations | what makes it correct | hard because |
|---|---|---|---|---|
| write buffer `WB_WRITE_BUFFER` | entries, counter, flush and read flops | store, merge, flush, read | CPU sees a plain memory | ACK, stall and flush overlap; a load passes stores |
| arbiters `WB_ARB_*` | grant | grant, route | grant moves between accesses, to a requester | hand-over in one cycle |
| system bus `PSX_BUS` | select of each slave | decode, route | answers reach their master | STB and STALL are gated differently |
| instruction cache `CPU_ICACHE` | tags, lines, fill counter | look-up, fill, invalidate | the word of the address asked | refill under a valid old tag |
| burst master `WB_MASTER` | timers, address, CYC/STB | burst | as many strobes as words, CYC to the last ACK | the request may be withdrawn |
| instruction port of `CPU_CORE`, `MIPS1_TOP` | CYC, word kept in a stall, selects | fetch, route | the instruction decoded is the one addressed | two paths and a data side that stalls |
| bridge `WB_SYNC_BRIDGE` | two toggles, captured access and answer | carry an access, carry the answer | once, unchanged, in order | two clocks |
| register bus, `WB_SLAVE_CTRL` | selects, strobe | decode, answer | each access is answered | byte and bad addresses are not |
| `INTC` | mask, raw interrupts, edge pipes | latch, mask, clear | no edge lost | set against clear |
| `ROOT_CNT` | counters, targets, mode | count, wrap, interrupt | period and interrupt | clear against count |
| DMA controller | channel state machines, arbiter, registers | linked list, block, ordering table | every word once, end reported | channels share one master |
| `CPU_CORE` pipeline, `COP0` | stages, status stack | execute, stall, trap | precise exceptions | delay slots, interlocks |
| `MULT`, `DIV` | accumulators, counters | iterate | the product, the quotient | signs, early end |
| `SYNC_FIFO`, `ASYNC_FIFO` | pointers | push, pop | order, no overflow | two clocks, widths |
| `SDRAM_CONTROLLER` | state machine, two FIFOs | burst read/write | as a memory | wait states, row wraps |
| VGA controller | line DMA, pixel FIFO | fetch, display | pixels in time | two clocks |
| reference models `mips1_core_model.c`, `mlite_dpi.c` | registers, `pc`, `pc_next`, `skip`, `dlySlot`, a memory | execute one instruction, push predictions | no false alarm, registers and memory of the CPU | delay slots, late register writes, differences to the CPU |
| monitors `mips1_core_monitor.v`, `cpu_core_monitor.v` | two queues for each stream | push, pop and compare | compare like with like | queues are filled at different times |
| CoreMark list benchmark | list, items, caches in items | find, reverse, sort, remove, undo | the list as it was | in-place pointers, cached results |
| CoreMark state and matrix benchmarks | one block of memory | scan, corrupt, undo; multiply, undo | memory as it was, no overrun | undo by a second pass, alignment |
| CoreMark framework and linux port | results, contexts, processes, sockets | calibrate, start, iterate, gather, validate | same results in all contexts, long enough, reported | fork, shared memory, datagrams |
| `ADI` (EPP) | handshake machine | host read/write | four-phase handshake | asynchronous host |

`CORE_INST_DATA_CHECK` of a monitor calls its model, over the simulator's DPI, when an
instruction has been fetched and its data access answered; the model pushes what it
expects of the CPU on the monitor's queues. CoreMark is a program that runs on the
hosts and on the CPU; its parts call each other, and its contexts run side by side.

Not modelled are the board top levels, the wiring in `psx_top.v`, the bus functional
models but for the rules taken from them, the scripts, the third-party hardware
(`uart16550`, `coregen`), and the other ports of CoreMark. `PROJECT.json` lists every
component with the reason, and the hazards at their lines. Some hazards are listed
there without a property: they belong to components that are not modelled. More of that kind,
met while reading: an access of several words whose ACKs overlap ends a flush early
(`wb_write_buffer.v:151`); an ERR of the RAM does not end it; a bus error leaves the
instruction port waiting (`mips1_top.v:451`); a burst of length zero never completes
(`wb_master.v:326`); the linked-list DMA machine decodes its states by bits
(`dmac_li.v:314`); a root counter without a target is cleared at one
(`root_cnt.v:167`); the asynchronous FIFO reads through the write clock
(`async_fifo_fifomem.v:23`) and the pixel FIFO's empty flag is not looked at
(`vga_cdc.v:126`); CYC and STB of three register slaves are exchanged
(`psx_top.v:433`).

## 2. Modules

| module | models | role |
|---|---|---|
| `WriteBuffer` | `common/rtl/wb_write_buffer.v` | all registers and wires of the buffer |
| `RamPath` | `mips1_top.v`, data port of `cpu_core.v`, rules of `wb_slave_bfm.v` | buffer + CPU + memory |
| `CoherentMemory` | (abstract) | what the CPU expects of the RAM |
| `RamPathProps` | | properties, refinement mapping, inductive invariant |
| `RamPathProofs` | | theorems: the invariant; the refinement, CYC and the bursts |
| `WbArb` | `wb_arb_2m/3m/4m_1s.v` | the grant, by number of masters |
| `SysBus` | `psx_bus.v` | arbiter + select + masters + slaves |
| `SysBusProps` | | its properties |
| `WbMaster` | `wb_master.v` | the burst master, as operators on its two ports |
| `ICache` | `cpu_icache.v` | the cache over `WbMaster` |
| `InstPath` | instruction port of `cpu_core.v`, routing of `mips1_top.v` | core + `ICache` + `WbArb` + memory |
| `InstPathProps`, `InstPathProofs` | | properties, inductive invariant; theorems |
| `SyncBridge` | `wb_sync_bridge.v`, its select in `psx_bus.v` | bridge + bus + slave, two clocks |
| `BridgeTransfer` | (abstract) | what a bridge promises |
| `SyncBridgeProps`, `SyncBridgeProofs` | | properties, theorems |
| `SysBusProofs` | | theorems about the bus |
| `MipsIsa` | instructions, words and lanes; `cpu_core.v` an instruction at a time | what the models are compared with |
| `CoreModel` | `psx_top/dpi/mips1_core_model.c` | `cpuCycle` and what it pushes |
| `MliteModel` | `mips1_core/dpi/mlite_dpi.c` | `cpuCycle` with its memory; the loop `cycle` |
| `CoreCheck` | `mips1_core_monitor.v`, `cpu_core_monitor.v` | CPU + both models + queues and checkers |
| `CoreCheckProps` | | properties |
| `CoreModelProofs`, `CoreCheckProofs` | | what the functions of the models compute; theorems about the monitors |
| `CoreList`, `CoreListSort`, `CoreBenchList` | `core_list_join.c` | the list, its merge sort, `core_bench_list` |
| `CoreBenchListProps`, `CoreListProofs` | | properties; inductive invariant and theorems |
| `CoreBits` | `^` and `\|` of the CoreMark sources | the operators on bits, by halves |
| `CoreUtil` | `core_util.c` | CRCs, parsing of arguments, data types |
| `CoreState` | `core_state.c` | the state machine benchmark |
| `CoreMatrix` | `core_matrix.c` | the matrix benchmark |
| `CoreMark` | `core_main.c`, `linux/core_portme.c` | main, the contexts and their links |
| `CoreMarkProps`, `CoreMarkProofs` | | its properties; inductive invariant and theorems |
| `MCRamPath`, `MCCoreCheck`, `MCCoreMark` | | instances for TLC; the other `*Props` modules are run as they are |

A definition named `X_Something` directly before `X` and marked *mutant* is a
plausible error in `X`; nothing uses it. Each checked property fails under at
least one of them.

### Correspondence

`WriteBuffer`. `s` and `m` are the input ports of the two sides. `WriteBufferEdge`
is one CLK edge with EN high. `EntryReg` is the generate loop over the entries,
`WbAddrSelRegEn` the one-hot of `WRITE_BUFF_DECODE` with the bit above the top
entry lost as in the code, `Counter` the counter with its one extra bit. The code
compares the counter with the literal 4; the module with the depth `WBD`.

`RamPath`. The core strobes an access, keeps it until it is accepted and keeps
CYC until it is answered (`CoreStb`, `CoreMem`: `cpu_core.v:1863-1928`).
`Pipelined` lets it strobe the next access before the answer, as the bus
functional models of the tests do. The memory accepts an access in any cycle
without a stall, answers in any later one and stalls in between, as `PSX_BUS`
(`psx_bus.v:463-477`) and `WB_SLAVE_BFM` both do; it gives no error for an
address in the RAM. A data word is a function from byte lanes to values, and the
core drives zero on lanes it does not select.

`SysBus`. An address is only the slave it selects. `SelReg[j]` is `WbSys*SelReg`,
`slv[j]` the access slave `j` serves and what it answers. A master keeps STB until
it is accepted and CYC until the answer, and it may strobe any slave while it waits
for an answer, of the same slave or of another: the instruction port of the CPU strobes
its next fetch in the cycle it waits for the last (`cpu_core.v:571-572`), so that a jump
in uncached code from ROM to DRAM strobes one while the other answers, and
`psx_bus.v:299-301` provides for it. The slave then takes an access its master is not
told of; `StrobeAgrees`, `NoOrphans` and `GrantHeld` say what holds all the same, section
5 what does not. A slave gives no ACK but to an access it works on; the bridge to the
register bus, whose ACK outlasts its access, is not one of them and has a module of its
own, `SyncBridge`, with its select register.

`InstPath`. The memory holds at each address that address, so a word tells where
it was fetched. Of the pipeline there is the address in fetch (`PcValIf`) and in
decode (`PcValId`); any next address may follow, with a change of segment only
after a jump and its delay slot (`Follows`). The data side is what it does to the
fetch: a stall without the bus, one of the multiplier, an access over the arbiter,
or one past the write buffer. Bus errors, exceptions and the isolated cache are
left out.

`SyncBridge`. A step is an edge of either clock or of both. An access is a model
value that the slave returns as its answer, so that an answer tells what it is the
answer to. `Refused` are the accesses answered ERR, as INTC does (`intc.v:109`).

`MipsIsa`, `CoreModel`, `MliteModel`. A byte has `Byte` values, a half word `Byte^2` and
a word `Byte^4`, so that every shift, mask and sign extension of the code is there with
fewer bits. An instruction is its decoded fields, and one operation stands for those
that differ only in the function they compute (`ALU`, `BEQ`, `BLTZ`, ...; the head of
`MipsIsa` lists them). ADD, SUB and ADDI stand apart, because the CPU traps their overflow,
and so does BREAK, at which one of the monitors stops. The CPU is that of `cpu_core.v` with
its exceptions: what it does not implement, SYSCALL and BREAK, a coprocessor its user may not
use (with the user bits of the status register and their push and pop), a signed overflow,
an unaligned address. `Overflows` is the test of the code, which looks at the signs of both
operands as if every operation added (`cpu_core.v:1720-1737`): `5 - 6` traps, and a
difference that does overflow does not. The record
`e` is what the switch has done so far; `Put`, `Push`, `PutLo`, ... are the assignments
of the code with their `refRegPush` and `refLoHiPush`. `cpuCycle` returns the state and
what was pushed on each queue. `MliteModel` adds the memory, its own loads, stores and
COP0, the target of a jump that is sign extended where `opcode` is an `int` (`SignedTarget`,
`mlite_dpi.c:1017`, `1046`), and `cycle`, the loop of the simulator that finds its way by
itself and has `opcode` unsigned; the cases of the switch the two files share are those of
`CoreModel`.

`CoreCheck`. `Execute` is one instruction of the CPU with the call of each model, and each
monitor is its own. That of PSX_TOP waits for the data access and compares the fetch and the
access at the call, as `CORE_INST_DATA_CHECK` has it (`Monitored`); `CheckRegisters` is a clock
edge of its register checkers, which wait until both sides have a write. That of MIPS1_CORE
(`cpu_core_monitor.v`) calls its model at the fetch and compares only that (`Fetched`); accesses
and writes are compared whenever they come (`CheckMlite`), and with nothing predicted they are
reported unless they look like the zero an empty queue gives (`Unexpected`). It calls the model
no more from the first BREAK on (`tracing`, `Stopped`).
`causes` records what the program did that a model is known not to follow, and each
property says which of these it excuses.

`CoreListSort`. A step is one turn of a loop of `core_list_mergesort`, so that the
pointers are seen in the middle of a merge. `CoreBenchList` is `core_bench_list` around
it, one step for each call it makes, with the comparison that caches in the items.

`CoreState`, `CoreMatrix`, `CoreUtil` are functions, byte by byte and with the widths of
the code; they were compared with the C code, compiled, on the instances that are
checked. `CoreMark` has an action for each call of `main` that another context can see, and
`Turn`, one iteration of one context: contexts share no memory that they write. A forked
context works on a copy (`child`) and sends its outputs by shared memory (`shm`) or by a
datagram (`inbox`), which is lost when the port is not bound yet (`lost`). `verdict` is the
message of the report: `unknown` stands for "Cannot validate operation for these seed values".

## 3. Runs

| run | instance | shows |
|---|---|---|
| `ram_bytes` | 2 addresses, 2 lanes, 2 values, depth 2, no strobe ahead of the answer | `EntriesOK`: one entry per address, no stale lane; `Coherent`: refinement of `CoherentMemory` |
| `ram_live` | 3 addresses, whole words, 2 values, depth 2, strobes ahead of answers, fair | `IInv`, the inductive invariant of the proofs; `HandshakeAgrees` to the core; `CycUntilAck` and `BurstSequential` to the memory; `Coherent`; `Progress` |
| `bus_psx` | 2 masters that strobe either of 2 slaves while the other owes them an answer, slaves that may refuse, fair | `AnswersRouted`, `NoOrphans`, `StrobeAgrees`, `GrantHeld`, `HandedOver`, `Progress` |
| `inst_fetch` | 8 addresses, 2 lines of 2 words, jumps to uncached code, any latency, fair | `IInv`, the inductive invariant of the proofs; `InstrRight`, `LinesRight`, `AnswersRouted`, `FetchAgrees`, `CacheOnlyFills`, `Moves` |
| `bridge_live` | 3 accesses, one of them answered ERR, clocks of any ratio, fair | `OneStation`, `HeldAcross`, `Carries`, `Released` |
| `ref_models` | every program of up to 4 of 38 instructions, registers 0, 1 and the link register, words of 16 values, one memory image | `PsxNoFalseAlarm`, `MliteNoFalseAlarm`, `PsxFollows`, `MliteFollows`, `LoopFollows`, `StreamsAgree` |
| `list_sort` | a list of 9 cells, 3 seeds, 0 to 4 searches, fair | `NoCellLost`, `SortedStably`, `BackToOriginal`, `Returns` |
| `coremark` | up to 2 contexts, three methods, 8 argument lists, fair | `MemoryRestored`, `WithinBlocks`, `ContextsAgree`, `LongEnough`, `Reported` |

Four more runs each check one statement of the repository that the code does not
keep; see section 5.

Bounds. The write buffer has depth 4 and the runs use 2: an entry is then at once
the bottom and next to the top, and a full buffer is a few stores away; what
depends on an entry with neighbours on both sides is left to the proofs, which hold
for every depth. Two or three addresses give a hit, a miss and a full buffer; a lane
stands for any set of bytes that stores treat alike, two lanes give partial words
and merges. The cache needs two lines of two words (a conflict needs two tags of one
line: 8 addresses, 6 of them cached, give two tags for one line). The arbiter is
checked at two sizes the repository instantiates: 2 in `bus_psx`, and 4 in
`inst_fetch`, where the four ports of `MIPS1_TOP` share one memory. The bridge holds
one access, so three distinct ones show an answer mistaken for that of another.

With a byte of two values a word has 16, enough for a sign, a carry out of each half of
a product and two words of memory with all their lanes; the word at 4 is zero at first, as
in the memory of the model of MIPS1_CORE, so that both models are compared on it. The
program has every operation but LBU, LH, NOP, LL, LWR, SWL and BLTZL, of which the run has a
neighbour (LB, LHU, SC, LWL, SWR, BLTZALL) and the theorems speak as of any other. Four instructions hold a
branch, its slot, the target and what depends on it; the checkers of a monitor are at most
one entry behind when the CPU goes on (`MaxLag`), so that two wait. A path is followed while one of the models is to follow it
(`Bounded`), `MaxSteps` ends it, hence no deadlock check there. The list has a number of
cells that is no power of two, so that the last run of a merge is short; the seeds give
equal and different keys. The memory of CoreMark is 606 bytes, three blocks of 202
which the 5 by 5 matrices fill to the last byte, or 840, whose list has a second item that
corrupts; ten iterations and ten seconds are
scaled to three (`Ten`), iterations are counted modulo 1024 (`U32`, in the code 2^32),
and contexts interleave in every order. CoreMark ends in its
report or waits for a lost datagram, hence no deadlock check there either.

Symmetry is used for the byte lanes, in a run without liveness; nothing in the model
tells them apart.

With `AvoidOverflow` the core never strobes the store of the first finding, after
which the contents of the buffer are known to be wrong. No run needs it: two
addresses fill two entries in `ram_bytes`, and whole words leave no entry partly
filled in `ram_live`. The proofs assume it, or whole words.

Fairness. `FairSpec` asks that the clock keeps ticking with an environment that
is `Responsive` again and again: a memory or slave that works on an access
answers it, one that has none does not stall, and the multiplier ends. The slaves of
the repository answer after a bounded number of cycles, so this is weaker than
what they do. For the bridge both clocks tick for ever. `Progress` of the
bus also supposes, inside the formula, that the other masters let go of the bus again and
again, because the arbiters have fixed priority and promise no more. For `list_sort` and
`coremark` it is that a program, or each process of it, that can go on does so.

Deadlock is checked in every run of the RTL; none of these machines may stop.

## 4. Proofs

`RamPathProofs`, for every set of addresses, lanes and values and every depth of at
least two:

- `TypeCorrect`: `Spec => []TypeOK`. That the counter, which wraps at twice the
  depth, is never decremented below zero is part of it.
- `InvariantCorrect`, `EntriesCorrect`, `HandshakeCorrect`: if the core avoids the
  store that the buffer would lose, or stores whole words only, then `IInv`, hence
  `EntriesOK`, and `HandshakeAgrees` with `FlushStrobe`, `ReadBehindFlush` and
  `AnswerDue`.

The argument is the inductive invariant `IInv` of `RamPathProps`. `EntriesOK` is not
inductive: that a vacated entry is clear needs that the buffer shifts down only with
entries in it, hence `FlushStrobe`; that needs the flush not to be restarted by a
read, hence `ReadBehindFlush`; that a stored word has an entry needs `~Overflow`,
which is either assumed of the core or follows from `WholeEntries`. `HandshakeAgrees`
then follows from `AnswerDue`: were the core to wait for an answer not due in this
cycle, its stall and that of the buffer would differ. `StepEntries` to `StepOverflow`
take the conjuncts one by one, over the lemma `EntryStep` on what one edge does to the
entries; `StepInvariant` puts them together.

Under the same assumption on the stores:

- `CoherenceCorrect`: `Spec => Coherent`. The path to the RAM, with its merges, its
  flushes and its loads that pass older stores, implements `CoherentMemory`. What the
  core sees of a byte (`Visible`) is that of the one entry that gives it
  (`VisibleEntry`, from `IInv`), else that of the memory behind the buffer with the store
  it is working on; each clock edge leaves all of it, but for the byte lanes of a store
  taken in that edge.
- `CycCorrect` and `BurstCorrect`: `CycUntilAck` is a consequence of `IInv`; for
  `BurstSequential` one edge of the buffer is looked at.

`SyncBridgeProofs`, for every set of accesses and of refused ones: `OneStationCorrect`,
`HeldAcrossCorrect`, and `CarriesCorrect`: `Spec => Carries`, the bridge implements
`BridgeTransfer`. The invariant is types, `OneStation`, `CycSpansAccess`, `HeldAcross`
and that a slave answers only what it works on. `OneStation` is the heart of it: of
the five places an access can be at, at most one is taken, and the source is held
exactly if one is; so each edge moves the access by one place, which is a step of
`BridgeTransfer` (`TakeStep`, `CarryStep`) or a stutter. A step of both clocks needs a
proof of its own (`BothStep`): it may move an access and see the toggle of another
domain as it was before.

`SysBusProofs`, for every set of slaves and arbiters of 2, 3 and 4 masters, which are
all there are, whatever they strobe while they wait: `RoutingCorrect`,
`NoOrphansCorrect`, `StrobeCorrect`, `GrantHeldCorrect`, and `HandedOverCorrect` for two masters. The inductive invariant
`BusInv` relates what no single register knows: only the holder of the grant waits
(`Holding`), the selects are those of the access it waits for and no others
(`Selecting`), CYC is up from the strobe to the answer (`Asking`), and a slave stalls
until it answers (`Serving`). A slave may work on an access it took behind its master's back;
`Owning` says that the master then holds the bus and still strobes it. The decode of the four-master arbiter is taken with its
typed-in errors: the proofs need only that a grant goes to a master and leaves one only
when its CYC is down.

`InstPathProofs`, for every number and length of the lines of the cache, every address
space, whatever the data side and the memory do: `TypeCorrect`, and, as long as no jump goes
from uncached to cached code, `InvariantCorrect`, `InstrCorrect`, `LinesCorrect`,
`RoutedCorrect`, `FetchCorrect` and `FillsCorrect`. The exception is the second finding of
section 5, not a convenience: with such jumps `InstrRight` is false. The constants are
restricted as in the code: the burst master of the cache drives CYC in the cycle of the
request (`COMB_CYC`), a burst can be as long as a line, and no line lies across the border of
the uncached segment. The inductive invariant `IInv` of `InstPathProps` has a conjunct for
each of the machines involved. `FetchInFlight` is the core: there is one fetch under way, or
its word is held, and it is that of the instruction decoded. `Lookup` is the cache: what is
looked up is the fetch, and its two RAMs have been read at its address. `Burst` is the burst
master: the strobes to come, the access the memory works on and the words that came are
together the line, in order, so the fill ends with the last word and never with another.
`OnBus` is the arbiter and the memory: one access at a time, of the port that holds the grant.
None of them is inductive without the others; that the words of a line are right
(`LinesRight`) needs all. `FetchAgrees` is the rule that the strobe of an uncached fetch, which
the code does not gate by a cached one, never meets it (`Agreement`).

`CoreModelProofs`, for every even number of values of a byte and every memory size: what
the functions of the C models compute.

- `MultBig` and `MultBigSigned`: the two halves that `mult_big` and `mult_big_signed` put
  together from four products of half words, with their carries, are the words of the product,
  for every pair of words.
- Lemmas on the memory of `mlite_dpi.c` (an aligned access stays within a word, `MemoryRead`
  finds in its lanes what the CPU loads, `MemoryWritten` leaves what the CPU stores) and on each case of the
  switch: what it does to the registers of a model is what the instruction does to those of
  the CPU, and what it pushes is what it writes.

`CoreCheckProofs`, for every program, initial memory, set of registers, and length of a run
and lag of the checkers:

- `PredictedInstCorrect`: a monitor never pops an empty queue of fetches before an exception
  or an instruction the models do not know. The invariant `QueueInv` says that between two
  calls the queue holds two addresses in a delay slot and one otherwise, for both models.
  `QuietSwitch` shows that no case of the switch raises an exception or leaves a likely branch
  untaken but those `causes` records; `QueueStep` counts the addresses pushed, joined and popped.
- `PsxFollowsCorrect`, `PsxNoFalseAlarmCorrect`: until the program does one of the things
  `causes` names (an exception of the CPU, be it for an overflow, is one), the model of PSX_TOP holds the registers, LO and HI of the CPU and predicts its
  fetches, and its monitor reports nothing. No checker reports what a model follows is
  not inductive alone: a checker compares later, when both have gone on, so `PsxInv` also
  says that what waits in the queues of the two sides is the same, in order (`Agree`). `CpuType`
  keeps the CPU within its words and its memory, which the arithmetic needs.
- `MliteFollowsCorrect`, `MliteNoFalseAlarmCorrect`, the same for the model of MIPS1_CORE. It
  predicts the data of a load from its own memory, so `MliteInv` also relates that memory to the
  CPU's, word by word, where the first contents were zero. It starts at address 0 whatever the
  reset vector, as MIPS1_CORE does: what concerns addresses is proved for `ResetVector = 0`.
  An empty queue is an error to this monitor, so `MliteInv` has all that is compared late, the
  accesses too: what waits is the same on both sides, however long it waits. A BREAK, at which
  the monitor stops calling the model, is an exception and ends what is claimed.
- `LoopFollowsCorrect`: the loop of the simulator, which is told no address, goes where the CPU
  goes (`LoopInv`), for `ResetVector = 0` too.
- `StreamsAgreeCorrect`, for any reset vector: every write of a register, LO and HI is
  predicted, in order, by both models, and every access of a word by that of MIPS1_CORE.

Both models may hold a value in register 0 when an access takes its address from it (section
5): `zero` and `mliteZero` are the causes of a program that meets this in the one and in the
other. In the model of PSX_TOP only a reported address can come of it; the model of MIPS1_CORE
then reads or writes another word of its memory.

`CoreListProofs`, for every size of the list, all seeds, whatever the two other benchmarks
return and wherever the finds hit:

- `ListInvariant` and `NoCellLostCorrect`: `Spec => []NoCellLost`. The inductive invariant
  `ListInv` gives the cells one order `u`. Outside the sort each cell of `u` is linked to the
  next and the last to none (`Whole`). In a pass (`Split`) the first `a` cells are merged, the
  next `psize` are what is left of p's run, and from `q` on the list is as before the merge. Two
  pointers are exempt, those of the last merged cell and of the last cell of p's run: they are
  stale until the sort links them or ends the list, and `NoCellLost` says nothing that would
  imply they are not followed. Taking from `q` moves one cell of `u` forward (`Rotated`), as a
  find does with the cell it hoists. `Chain`, what a pointer reaches, is defined by recursion; the
  facts about it are proved with the least counterexample of a set of naturals (`NatMin`)
  in the place of an induction theorem.
- `UndoRemoveCorrect`: for every heap of cells and items, `core_list_undo_remove` after
  `core_list_remove` gives every pointer and item back.

Its second half is about the sorts, for seeds of 16 bits and results of the two other
benchmarks below 128, as `calc_func` masks them:

- `SortedStablyCorrect`: `Spec => []SortedStably`. `Runs` says that a part of the list
  consists of runs of the size of the pass, each sorted (`Settled`), and that the cells before
  the border of two runs were before those behind it when the sort was called (`Apart`); in a
  merge (`MergeOrder`) the merged cells are sorted and come before all that is left of the two
  runs. Cells are compared by key and then by their place before the sort (`Less`), so that a
  sorted list is also a stable one. The difficulty is that a comparison changes what it
  compares: it computes and caches the value of an item, or regains its data. A key may change
  only as long as its cell is alone in its run; the cells of longer runs have been compared
  (`Touched`), and `OrderCompared` shows that nothing else is disturbed. That one merge ends the
  sort is right because the first merge of a pass begins at the head (`PassOrder`).
- `BackToOriginalCorrect`: `Spec => []BackToOriginal`. What is cached leaves the upper half of
  the data alone (`DataInv`), and the last sort has compared every cell, so that every item has
  regained its lower half from it. No two lists of the items are in the order of distinct
  indices (`OneListing`), hence the list is the first one, whatever was done to it.

Its third is the safety half of `Returns`:

- `EveryStepAdvances`: every step of a call lowers `Measure`, four natural numbers: the phase of
  `core_bench_list`, the searches left, the passes left, for which `2 * N - insize` stands, and
  the turns left in a pass: three for each cell not yet merged, in a merge one less, or one
  more once p's run is used up. `TurnInv` is what this needs beyond the sort's own invariant: a pass of more than one
  merge has runs shorter than the list, so that `insize` may double once more. `NoDescent` shows
  that no sequence of such words is lowered at every step. That a step is taken is the fairness
  TLC assumes.

`CoreMarkProofs`, for every number of contexts, all argument lists, every speed, every result of
the list benchmark, and however the contexts interleave. The assumptions on the constants are
that arguments are numbers to `parseval` and each algorithm gets a byte of memory at least
(`ArgumentAssumption`); that the iterations of 22 seconds can be counted in 32 bits, the most
the code asks for (`SpeedAssumption`: `core_main.c:203` and `212` would wrap on a machine of more
than 195 million iterations a second); and that an `ee_s16` counts the errors of all contexts
(`ErrorsAssumption`, `core_main.c:97`).

- `MemoryRestoredCorrect`: `Spec => []MemoryRestored`. The matrix is restored because 16 bit
  arithmetic wraps: adding `val` and then `-val` gives back every element that has 16 bits, which
  `MatrixBack` shows and `MatrixBytes` of what the init call leaves. The block of states is
  restored, if the seeds are equal, because exclusive-or undoes itself (`Xor8Back`), but for bytes that
  the first pass makes commas: the second skips them, and so does every later one. That
  these are the only ones, and that a block in which some have become commas loses no other byte to
  the passes of all later items and iterations, is `StateReturns`. `SoundInv` carries it through a run
  (`BlocksSound`), beside `RunInv`, in which `CalculatedKeeps` and `IteratedKeeps` do so for the
  matrix, for any number of items.
- `SameResultsCorrect`: `Spec => []SameResults`, the half of `ContextsAgree` that compares the
  contexts. `Worked` says that a result is what a number of iterations makes of the memory main has
  prepared, and `WorkedUnique` that there is one such result for each number. In `WorkInv` every
  context that is started has worked for its `turn`, and an ended one for all turns; in `LinkInv`
  what waits in shared memory or at a socket is that of the context it belongs to. Context 0,
  which main has run before to measure, is no exception because that leaves its memory as it was
  and `iterate` resets its results (`EntersAtBase`).
- `LongEnoughCorrect`: `Spec => []LongEnough`. `LengthenedFacts` shows that
  `1 + 10 / (n / speed)` times n is at least `10 * speed` for every n from speed on, although both
  divisions round down, and `LengthInv` that the number is then let be.

- `ContextsAgreeCorrect`: `Spec => []ContextsAgree` under `KnownRuns`, that the tables of `main`
  hold what a first iteration finds and no zeros; the tables of the instance do, and those of
  the code have no zero either. `IteratedFollows` and `WorkedFirst` show that what an iteration
  computes is a function of the memory and of whether a CRC has been found, so that the first
  iteration decides the reported CRCs, also where `main` ran one before.
- `WithinBlocksCorrect`: `Spec => [](WithinBlocks <=> Aligned(conf))`. `MatrixFits` computes where
  `align_mem` puts the matrices: they end in the next block exactly if a block has `8 * N * N + 1`
  bytes, N being their dimension (129 is such a size); with every other size the property holds.
- `ScansEndInside`: `Spec => [](\A c \in Contexts : EndsInside(Memory(c).state))`, the other half of
  `WithinBlocks`, for all sizes. `SoundInv` also says that a block keeps a zero at an offset that
  is no multiple of 17, and every step of the corruption is one (`StepFacts`, `CorruptedSafe`),
  whether or not the second pass undoes the first (`StateSound`).
- `VerdictCorrect`: `Spec => []VerdictMeans`. What the message of the report stands for, of known
  and of other seeds; the finding of `coremark_valid` is its last part, and the theorem
  shows that there is no other way to it.
- `LostNeverReported`, `NeverStuck`: a lost datagram keeps `main` from its report for ever, and
  nothing else does: until the report a context or `main` can go on (`HangInv`).
- `EveryStepNearer`: every step lowers what is left: of `main` its stage, the numbers of iterations
  it may still try and the calls to start and stop a context; of a context its iterations, which
  fall while `main` and all other contexts stay where they are. It assumes `Ten > 1` (10 in the
  code): `main` tries `Ten` times as many, and with the factor 1 would try the same number for ever.
  With `NeverStuck` this is the safety half of `Reported`.

They follow from `RunInvariant`: `Spec => []RunInv`. One lemma for each action of `main` and of a
context shows that all parts of `RunInv` are kept. The model keeps the three blocks of a
context apart, so that `MemoryRestored` says that a benchmark undoes what it does to its own
block; that it stays within it is `WithinBlocks`.

Checked by TLC only:

- the liveness properties `Progress`, `Moves`, `Released`, `Returns` and `Reported`: fairness and
  ENABLED are out of the prover's reach. Of the last two the theorems above leave only
  the step from a measure that cannot fall for ever to an end that is reached;
- what the functions of `CoreState` and `CoreMatrix` compute, beyond what the theorems say of
  their memory and that they depend on nothing else: that the CRCs are the known ones is
  data (`KnownRuns`).

Every invariant and every action property of a passing run is stated by a theorem.

## 5. What the code does differently

Each of these is a run that must find the quoted statement violated; `PROJECT.json`
has the lines.

1. `ram_overflow`: the write buffer at its depth with a partly filled top entry takes
   and loses a store to a further address (`wb_write_buffer.v:159`). The store is not
   acknowledged either.
2. `inst_word`: a jump from uncached to cached code over a slow memory
   starts a fill that the core is not told of (`mips1_top.v:299`). The request of the
   fill then falls in the middle of its burst, `WB_MASTER` keeps CYC up, and the core
   executes a wrong word; in the same case it may stop for good, because the CYC of the
   cache keeps the arbiter from the data side. Without such jumps it does not happen
   (`inst_fetch`).
3. `bridge_done`: from the second access on, the bus sees the ACK of the one before
   (`wb_sync_bridge.v:226`).
4. `coremark_valid`: with seeds that `main` does not know `total_errors` is -1, and an
   error counted on top of it, such as a run shorter than ten seconds, makes it 0: the
   run is reported as validated (`core_main.c:261`, `300`, `323`).

Others were met on the way and have no run of their own.

In the RTL:
- after master 2 or 3, a request of master 1 grants the bus to master 0
  (`wb_arb_4m_1s.v:239`, `261`), which lets go in the next cycle, so requests are served
  late and none is lost: `inst_fetch` passes with this arbiter;
- the stall "prevents the master from issuing a new transaction to another slave before
  the current one has completed" (`psx_bus.v:463-466`), but the strobe is not gated by it
  (`psx_bus.v:310-314`): the slave takes the access, the master is not told, and when it is
  told at last the slave takes the access once more. The second part of `StrobeAgrees` says when this
  may happen, and the run reaches it: without the exception it names the property fails;
- an access answered ERR holds the bridge and its source for ever (`wb_sync_bridge.v:118`):
  `Released` says that this happens after an ERR and after nothing else;
- a flush whose burst is followed by a word out of sequence gives it no last beat
  (`wb_write_buffer.v:629-661`), and the priority of CPU and DMA is the reverse of the
  comment (`psx_bus.v:961-1000`).

In the reference models and their monitors (each is one of the `causes` of `CoreCheck`):
- neither model knows the exceptions for a signed overflow (`mips1_core_model.c:559`, `561`,
  `598`: the sum is written and predicted; the CPU writes nothing and goes to the vector,
  `cpu_core.v:1718-1737`) and for a coprocessor that may not be used (`cpu_core.v:433-437`);
- the CPU's test of an overflow is that of an addition for SUB as well (`cpu_core.v:1720-1737`):
  a difference of two positive numbers that is negative traps, and one that overflows does not;
- after an exception the queue of predicted fetches is popped empty
  (`mips1_core_monitor.v:797-799`): the models skip an instruction that the CPU does not
  fetch, and predict nothing for the one at the vector; `mlite_dpi.c` does not predict the
  vector either;
- the select of the upper half word is `4'h1100`, which nothing matches
  (`mips1_core_monitor.v:709`), and the model of PSX_TOP does not sign extend LB and LH
  (`mips1_core_model.c:621-634`);
- a jump takes its region from its own address, not from that of its slot (`region`); the
  simulator's loop links `PC + 12`;
- in `cpuCycle` of `mlite_dpi.c` the top bit of a jump's target is shifted into the region,
  because `opcode` is an `int` there (`mlite_dpi.c:1017`, `1046`; `far`). The model of PSX_TOP was
  mended ("shift up and down produced wrong target", `mips1_core_model.c:500`), and the loop of
  the simulator has `opcode` unsigned (`mlite_dpi.c:580`);
- LWR, SWL and SWR are accesses of the CPU that select no byte (`cpu_core.v:1267-1275`), and LL and SC its
  LWC0 and SWC0; the models load and store, or do nothing (all are `Unsupported`);
- register 0 is cleared after the address of a load or store has been computed.

In CoreMark:
- where a seed turns a character into a comma the undoing of the corruption skips it
  (`core_state.c:88`), and it stays a comma: in blocks of the default size of 666 bytes with the seeds
  1, for one. `MemoryRestored` says that nothing else stays changed, and the run `coremark` has such a
  block. `ContextsAgree` excludes these runs: context 0 may have been changed when `main` measures;
- with a total size such as 387 the three blocks of 129 bytes are one byte larger than the
  matrices, and `align_mem` moves the last one past its block (`core_matrix.c:197`);
  `WithinBlocksCorrect` shows which sizes these are;
- an algorithm that is left out by the mask is called all the same, uninitialised, by
  the list's items, and a mask with none of the three divides by zero
  (`core_main.c:173`); the number of items of a list block of less than 40 bytes
  underflows (`core_list_join.c:216`); equal indices break the order of the list;
- the datagram of a child that is done before its parent has bound the port is lost, and
  the parent waits for ever (`linux/core_portme.c:293`, `302`); failures of
  `pthread_create` and `fork` are not looked at; shared memory keys are not removed;
- `ee_ptr_int` of the linux port has 32 bits, which `check_data_types` counts as an
  error on a host of 64.

## 6. Plan

In the order of their weight:

1. `Intc`, `WbSlaveCtrl` and the register bus behind the bridge (`SysBus` with one
   master): every access answered, no interrupt edge lost; then `RootCnt`.
2. `DmaArb`, `DmaLi`, `DmaPeri`, `DmaOt` over `WbMaster` with `SyncFifo`: each word of a
   list or block moved once, the end reported once, against an abstract transfer.
3. The rest of `MIPS1_TOP`: data routing to the scratchpads, isolated cache, bus
   errors.
4. `Cop0` and the exceptions of `CPU_CORE`: precise exceptions in delay slots under
   stalls; `Mult` and `Div` against arithmetic at small widths.
5. `AsyncFifo` with gray pointers and the VGA line DMA; `SdramController`; the EPP
   handshake.
6. The single-thread path, the static memory methods and the other ports of CoreMark;
   division and the shifts of the reference models; the debugger's commands.
7. Proofs: the linked list of the DMA controller, and the FIFOs as queues.

### Not modelled

Of the CPU that the reference models are compared with: interrupts, bus errors, DIV, DIVU, CFC0 and
CTC0, and that the instructions behind an MTC0 are decoded before it writes. After an exception no
model follows (`Bounded`), so that what the handler does is not explored.

Of the modelled C code: division by zero and the quotients, the cache and MMU of `mlite_dpi.c` (lines 245-518,
compiled out by `#undef ENABLE_CACHE`), its big-endian byte order and the commands of its
debugger but the one it runs by default, what the models print at the end; the formatting
of `ee_printf.c` and `cvt.c`; CoreMark with `MULTITHREAD` of one and with memory that is
static or on the stack; failing system calls.
