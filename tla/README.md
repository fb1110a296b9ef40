# XRISCV in TLA+

XRISCV is a small RISC-V system on a chip in SystemVerilog: an RV32IMC core with
a three-stage pipeline, one dual-port RAM, a few I/O registers and a UART, plus a
C emulator of the same machine. This directory holds its formal models, the TLC
configurations that check them, and proofs for TLAPS.

## The system

| part | source | state it keeps | operations |
|---|---|---|---|
| fetcher | `rtl/xrv_if.sv` | request and address of the RAM's instruction port, word-in-flight flag, pc, kind of the last instruction | request a word, write it to the fifo, hand over an instruction, jump, reset |
| instruction fifo | `rtl/if_fifo.sv` | ring of 8 halfwords, two 4-bit selectors | write a word, read 1 or 2 halfwords, restart |
| control | `rtl/xrv_ctrl.sv` | stall flag, delayed jump | stall from `is_ls`/`is_mult_div` to a done pulse; choose the jump |
| decoder | `rtl/xrv_id.sv` | decoded instruction, valid, four pcs | latch, flush, jump for JAL |
| execution | `rtl/xrv_ex.sv` | registers, delayed jump, data-port request | compute, write back, branch, load, store |
| multiplier, divider | `rtl/xrv_mult.sv`, `rtl/xrv_div.sv` | operands, product; quotient, remainder, step counter | start, step, answer |
| decompressor | `rtl/xrv_i_decompress.sv` | (a latch, by omission) | 16- to 32-bit code |
| data mux | `rtl/d_mux.sv` | ready pulses, device of the last address | route a request to RAM or I/O |
| RAM | `rtl/ram.sv` | words | data port reads/writes, instruction port reads |
| I/O registers | `rtl/regfile/regs.v` | LED, UART config, read data | write, read |
| SoC | `rtl/soc.sv` | I/O write ready | wiring, reset, RAM port shared with the upgrader |
| UART manager | `rtl/uart_mgr.sv`, `rtl/misc/fifo.sv` | two fifos of 8 bytes, pop pulse | send, receive |
| upgrader | `rtl/uart_sw_upgrader.sv` | upgrade flag, byte lane, word address | store received bytes to RAM |
| emulator | `emulator/main.c`, `rv32i.c`, `rv32c.c` | pc, registers, RAM, register file, CSRs, standstill counter | fetch, decode and execute one instruction per turn; end |
| UART driver | `c/xuart.c` | the call being made | poll the status, move a byte |
| `printf` | `c/stdio.c` | format and arguments, the digits so far | put a character, convert a word |

Everything in the RTL is clocked together; components interact through wires that
are functions of registers within one cycle, and through request/ready
handshakes that span cycles (EX with the data mux, the mux with RAM, I/O
registers and UART). What is hard about it is therefore timing: which cycle a
stall begins and ends in, what a jump must cancel that is already in flight, how
many cycles lie between a request, its ready and the next request, and what
reset finds half done. The emulator is sequential; what is hard about it is that it
reads every code a second time, in its own way, with hand-written bit fields, and
that the RTL is debugged against its traces. The driver sees the hardware only
through a status register that is old when it acts on it. What makes each part
correct:

* fetcher and fifo: parcels are handed over in program order, none lost,
  repeated or left from before a jump; the ring never overruns; no lock-up;
* control, decoder, EX: each instruction has its effect exactly once and in
  order, a squashed one has none; the core never hangs;
* divider: the answer belongs to the last start, comes on time and is the
  quotient or remainder;
* data side: a request gets one ready, with the data of its own address; a byte
  for the UART is taken exactly once;
* UART, upgrader: no byte is lost, duplicated or reordered within the fifos'
  limits; memory changes only by stores and by an upgrade;
* decompressor, decoder: each code means what the emulator takes it for, and the
  fetcher stalls for exactly the instructions EX needs time for;
* emulator: each turn is one step of the instruction set, on the code that lies at
  the pc; it stops when the program is over and not before;
* driver: a byte is stored only when there is room, a string leaves, a received byte
  is returned once;
* `printf`: each directive prints its own argument, in a buffer it fits in.

## Modules

| module | models | remarks |
|---|---|---|
| `Glb`, `Width` | addresses; register values and the operators on them that RTL and emulator share | constants: `NWord` words of RAM, `W` bits per register |
| `WidthProofs` | - | lemmas about those operators, for the proofs below |
| `IfFifo` | `if_fifo.sv` | `FifoClock` is one clock edge |
| `XrvIf` | `xrv_if.sv` | `IfClock` |
| `InstStream` | - | abstract: the instruction stream of a program |
| `Fetch` | fetcher + RAM + free stalls, jumps, stores, resets | `FetchesStream`: implements `InstStream` |
| `XrvCtrl`, `XrvId`, `XrvMult`, `XrvDiv`, `XrvEx` | the unit of that name | one `...Clock` operator each, `...Reset` for reset |
| `XrvLs` | handshake of the load/store port of `xrv_ex.sv` | `PortFree`: no access under way |
| `DMux` | `d_mux.sv`, the I/O handshake of `soc.sv` | control only; which data it routes is up to the composition |
| `DataSide` | the core's data side: RAM, an LED register, the UART | words only; the UART is a free "can take a byte" input |
| `Isa` | - | abstract: one instruction per step |
| `XrvCore` | `xrv_core.sv` and `DataSide` | `Tick` is one clock edge of everything; `ExecutesProgram`: implements `Isa` |
| `UnitLemmas` | - | lemmas about the fetcher and the divider alone, for the proofs of `Fetch`, `Divider` and `XrvCore` |
| `CoreProofs` | - | TLAPS proofs about `XrvCore`, among them that it implements `Isa` |
| `Divider` | the divider with every history of starts, waits and resets | |
| `UnitProofs` | - | TLAPS proofs about `Fetch`, and about `Divider` at every width |
| `Bits` | bit vectors; `get_bits`, `u2i`; the record of an instruction | what every decoder yields |
| `RtlDecoder` | `xrv_i_decompress.sv`; fields, immediates and operation selection of `xrv_id.sv`, `xrv_ex.sv`; the stall flags of `xrv_if.sv` | the decompressor is a state: codes without expansion leave its output as it was; `RtlDecode` |
| `EmuDecoder` | the 16- and 32-bit handlers and tables of the emulator, as decoders | one operator per handler of `rv32c.c` and `rv32i.c` |
| `Decoders` | both readers of a stream of codes | `DifferExactly` |
| `DecodersProofs` | - | TLAPS proofs about `Decoders`, for every code |
| `Emulator` | `get_code`, `get_mem`, `set_mem`, `main`'s loop, every handler of `rv32i.c` | handlers of a group are one action; its turns are steps of `Rv32` |
| `Rv32` | - | abstract: the instruction set as the emulator's comments state it, over bytes |
| `EmuProofs` | - | TLAPS proofs about `Emulator` |
| `Xuart` | `c/xuart.c`, making a list of calls | its loads and stores are accesses of `XrvLanes` |
| `Stdio` | `c/stdio.c`: `printf`, `putd`, `putu`, `putx` | strings are sequences of character codes |
| `StdioProofs` | - | TLAPS proofs about `Stdio` |
| `Lanes` | words as four bytes, steering, sign and zero extension | the shifts of `xrv_ex.sv` |
| `XrvLanes` | the load/store port with its byte lanes | `XrvLs` plus the data |
| `IoRegs` | `regfile/regs.v` | every register and byte lane |
| `UartMgr` | `uart_mgr.sv`, `misc/fifo.sv` | a fifo is a record of its registers; the transceiver is external |
| `Upgrader` | `uart_sw_upgrader.sv` | the one-hot lane enable is a lane number |
| `Memory`, `SendQueue` | - | abstract: a byte-addressed memory, in which a load looks at a word (`seen`) before it is answered; a bounded queue of bytes to send |
| `Soc` | the data side of `soc.sv`: port, mux, RAM, registers, UART, upgrader | the program is free or the driver; the instruction side is absent; `ServesMemory`, `SendsInOrder`: implements `Memory` and `SendQueue` |
| `SocProofs` | - | TLAPS proofs about the fifo of `UartMgr` and about `Soc` |
| `MC...` | - | instances for TLC |

Registers of the RTL are variables with the RTL's names, wires are operators of
the same names; an always block is the conjunct of a `...Clock` operator that
gives its register a next value. A wire that comes from another unit is a
parameter, so that a unit can be composed with the real neighbour (`XrvCore`)
or with a free environment (`Fetch`, `Divider`, `Soc`).

Abstractions. A 16-bit parcel is a model value or number: `WideHalf` are the
parcels that begin a 32-bit instruction, `Decode` gives the instruction a parcel
begins. Addresses count halfwords and wrap at the size of the RAM. Registers
have `W` bits. In `XrvCore` data memory is separate from the program: a program
that rewrites itself is the subject of `Fetch`. `Soc` keeps bytes apart, because
everything about it is which byte goes where: a word is a function from lanes to
bytes of `NByte` values, the upper half of which are negative. Registers the RTL leaves without
a reset start at zero; all of them are loaded before they are read.

Decoding is kept apart from execution on both sides. `Decoders` works on the real
codes, bit by bit, and yields instruction records; `XrvCore` and `Emulator` execute
such records, so that words can be narrow. Where a handler of `rv32c.c` does the
work of one of `rv32i.c` on other operands, its record says so (`C.LW` is a load of
`x8 + rd'`), and what is odd about it is in the record too (`C.JALR` is a `JALR`
with offset 2). `Emulator` keeps the program (`rom`) and the data (`ram`) apart,
where the code has one array: a program that overwrites itself is not followed. A
pc behind the words read from the file finds 0, a code nobody handles; one
beyond the memory would end the program too, or run what was stored in the I/O
registers, which is not followed. Nor is an odd pc (after a `JALR` to an odd
address, which is listed in `Departs`).

`XrvCore` and `Soc` divide the system at the load/store port. `XrvCore` has the
whole pipeline over a data side with words only; `Soc` has the whole data side
under a free program. `Soc` assumes that an access begins only while the port is
free, and `OneInFlight`, checked of `XrvCore`, is that assumption.

The refinements tie the abstract step to what really happens: a redirection of
the abstract stream is allowed only when the fetcher is told to jump or is
reset, a pause only when it is stalled, and a restart of the abstract machine
only in the cycle of a reset (`StreamStep`, `ExecutesProgram`). In `Soc` an
access is given up only when the upgrade button is pressed or at reset, and the
abstract memory is told a byte was received exactly when the upgrader writes
(`MemoryStep`, `SendStep`). A load takes effect in two abstract steps, `Look` and the
answer: what the device has taken and not yet handed over is mapped to `seen` (`Taken`).

## Runs

| run | shows | instance |
|---|---|---|
| `fetch` | order and currency of the instruction stream, no overrun, no lock-up | 5 words, 3 layouts of 16/32-bit instructions, a store that changes the size of an instruction, 3 jump targets; a jump, stall, store or reset in any cycle |
| `core` | the pipeline implements the instruction set and never hangs | 4 words, 3-bit registers, 3 registers; programs of three instructions out of 15, any two but for a leading JAL or JALR, and a third one not a plain ALU instruction (`MCPrograms`); every two of the other operations and branches behind a subtraction; UART ready or not in each cycle; reset at any time in five of the programs |
| `divider` | answers on time, right results | 4 bits, all operands and operations, reset in any step and restart in any but the last |
| `decoders` | the RTL and the emulator read the same instruction, but for the codes listed; the stall flags fit | all 16-bit codes; 32-bit codes of every opcode and funct3; each behind a MUL, a LUI and a SUB |
| `emulator` | each turn is a step of the instruction set but for the cases listed; ends when and only when the program is over | words of four 2-bit bytes, 3 registers, 45 register contents; programs of two instructions and a jump to itself, one with every handler |
| `soc` | loads and stores of every size see a byte-addressed memory; sent bytes leave once and in order; the driver's strings are put without ever holding up the core; nothing hangs | 2 words of RAM, both I/O registers, bytes of 4 values, fifos of 4 slots; twelve workloads (`MCWorkloads`) |
| `stdio` | no conversion overruns its buffer; each directive prints its own argument; which numbers are printed wrong | 12-bit words, 4 decimal digits; every word in each conversion; every two directives or characters with 4 words each |
| `shadow_muldiv` | violation: a squashed MUL/DIV writes its result | ALU instruction, branch or JALR, then MUL or DIVU |
| `division` | violation: quotients of opposite signs one too small; REM of negative dividends; REMU without its top bit | 4 bits |
| `rx_gets` | violation: `xuart_gets` loses bytes, a load of the received byte pops the fifo twice | `soc` with a peer that waits for each byte to be taken |
| `same_inst` | violation: plain RV32IC codes read differently | C.LW, C.SW, C.SRLI, C.ANDI, C.JALR, AUIPC, one each |
| `as_commented` | violation: handlers differ from their comments | as `emulator` |

Bounds. The ring has its real size; 5 words of memory exceed it, so every
distance between the fetch address and the pc occurs, with wrap-around. Three
instructions are as many as the pipeline can hold at once (one at the fifo's
head, one in EX, one waiting for its result), and because programs loop, every
instruction also follows itself and the no-ops around it. `SentMax` counts sent
bytes modulo 4: a byte lost or repeated changes the count. Three-bit registers
make the divider take 3 steps and give every kind of address (RAM, UART, LED).

The alphabet of `core` leaves out what is broken: AUIPC (`same_inst`), and MUL or
DIVU right behind a branch or JALR (`shadow_muldiv`). `TypeOK` and `OneInFlight` are checked
in the same run as the refinement.

A second family of programs brings in what the alphabet leaves out, so that it need not
be combined with everything: the other ALU operations (`xor` to `slt`, shifts
of both kinds, by an immediate or a register), the multiplications that give the upper
half and the four other branches, two at a time, on the negative and positive results of a subtraction.

`soc` explores each part of the data side in a workload of its own, since a
product of all of them only multiplies states: every load and store of a word;
one device after the other, so that what a device leaves behind would show in the
next; bytes sent to a full fifo; the same with status reads, upgrade and reset;
received bytes stored, read, and interrupted; loads and stores of RAM while bytes are
received. Addresses are aligned, as the port requires (`WorkloadAssumption`). Four byte values are two of either sign. A fifo of 4 slots holds 3
bytes, one slot being unused as in the fifo of 8, and wraps; its behaviour depends
on the distance of its pointers only. `LineMax` counts bytes on the line modulo 2:
a byte sent twice or not at all changes the count. The driver puts strings longer
than the fifo, and shorter ones under resets and the button. `PutNeverWaits` holds
because only the driver's own stores fill the fifo; a free program does wait. A byte takes many cycles
on the line, so bytes are not received in successive cycles, and the transceiver
is busy in the cycle after it was given a byte.

`decoders` needs no bound on 16-bit codes: there are 49152. Of the 2^30 codes of 32
bits it takes funct7 and the operand fields at 0, all ones and each single bit, which
is where an exchanged or dropped bit of an immediate shows. `DifferExactly` is an
equivalence: the RTL and the emulator must differ on the listed codes, each with its
reason (`Disputed`), and agree in every field on all others. The subtraction is there for the one exception
(`Coincidence`): a code without an expansion repeats the instruction before it, which may
be the very subtraction that the emulator takes the code for. `same_inst` asks the
same without the list, on six codes an assembler emits.

`emulator`: an 8-bit word has four bytes, a sign of its own and of each byte and
half, and addresses for RAM, UART, another register and nobody; a 16-bit first
instruction makes the second one straddle two words. `ImmBits` (6, for 12) is below the width,
so that the zero-extended immediate of SLTIU differs from the sign-extended one: the run's decoder gives
its immediates signed; `EmuDecoder` gives SLTIU's unsigned, which `imm_unsigned` leaves as it is. `DeadMax` (2, for 10) is
reached by a jump to itself, and by a loop that stands still once in each round.

`stdio`: 12 bits have 3 hexadecimal and 4 decimal digits, not all of the numerals of
four digits, as 32 bits have 10; every word is converted by each function. It ends with the call.

## Fairness

`Fetch`: weak fairness of `Run`, an unstalled cycle without a jump. The clock never
stops and a stall ends, which the core guarantees: that is `Progress` of
`XrvCore`. `FetchProgress` excepts only behaviours that are redirected for ever.
`XrvCore`: weak fairness of `Tick(TRUE)`: the clock runs, and the UART, which
drains its fifo at the baud rate, is ready again and again. `Drains` of `Soc` is
the justification. `Soc`: weak fairness of `Clock(TRUE)`: the clock runs and the
transceiver finishes the byte it is sending, which takes a fixed number of bit
times; and of `Proceed`, the driver's next access: the core goes on executing, which
is `Progress` of `XrvCore`. `Emulator`: weak fairness of `Next`: the loop goes on. It
may really stop, with `exit(0)`, so its runs do not look for deadlock. No fairness of resets, jumps, stores, received bytes or the button is
assumed. Safety does not depend on fairness.

## Proofs

`UnitProofs` proves of the fetcher, for every memory size of at least four words, every set of
parcels, programs, stores and jump targets:

* `FetchInvariant`: `Spec => []FetchInv`;
* `TypeCorrect`, `RingNeverOverruns`: its consequences;
* `ImplementsStream`: `Spec => FetchesStream`.

`NoOverrun` is not inductive: whether the ring has room depends on the word that
was requested before the threshold was tested. `FetchInv` adds what the design
maintains without storing it: selectors are aligned with the addresses they stand
for (`Aligned`); the fetch address, and the word in flight if there is one, are
exactly `Unread` parcels ahead of pc (`InFlight`); each unread parcel, and the
word in flight, was in memory at its address since the last jump (`Buffered`).
The proof goes action by action (a cycle, a jump, reset) through lemmas on the
thresholds (`full`, `empty` in terms of `Unread`) and on `Inc`, which are in `UnitLemmas`
together with what one clock edge does to the selectors and the ring (`CycleMoves`,
`CyclePlaced`, `CycleRing`), because the core needs them too. `NWord >= 4`
is needed: in a memory smaller than the ring two unread parcels may have the same
address. The assumptions are the `ASSUME`s of `Glb`, `IfFifo`, `XrvIf` and
`Fetch`, which TLC evaluates on its instance.

`EmuProofs` proves for every program, memory size, register number and word width:
`EmuFetches` (the code executed is the two parcels at the pc), `EmuTyped` (`Spec =>
[]TypeOK`, with x0 = 0), `EmuEndsDead` (`Spec => EndsOnlyDead`), and `EmuStepsIsa` (`Spec =>
StepsIsa`: but for the departures listed and misaligned accesses, a turn is a step of `Rv32`). `get_code`'s
`(pc/3)*3 + 4` looks like a slip for rounding down to a word, and was taken for one
here at first; `FetchRightAlways` is the arithmetic that shows it right: where it is
used the pc is 2 modulo 4, and then the sum always lies in the next word. The
invariant `EmuInv` adds to `TypeOK` that `pc_prev` is the pc while the program runs:
with it, a standstill is an instruction that left the pc as it was, which no
sequential instruction does because `2^W > 8`.

`EmuStepsIsa` relates two readings of the memory, and needs no invariant but `EmuInv`. The
emulator has arrays of words, shifts a word by its lane and ORs shifted values in; `Rv32` has
bytes and adds them up by their weight. Words are therefore compared as the sets of their bits
(`Ones`): `OnesShl`, `OnesShr`, `OnesMask`, `OnesExtended` of `WidthProofs` say what shifting,
masking and sign extension make of the set, and `SameBits` that equal sets are equal words.
From them follow `Parts` and `WordBytes` (what a load cuts out of a word is the sum of its
bytes), `SignBits` (ORing the upper bits in extends the sign, and does so only when the sign
was set: the departure `WrongSign`), `StoredByte` (the bytes of the word a store leaves, if
nothing of the register lies above what is stored: the departure `Spills`) and, for each
group of handlers, that it is the step of `Rv32` of the same kind (`ComputeIsa` to `CsrIsa`,
`TurnIsa`). Of the decoded instructions it uses, besides their fields, that an immediate of
OP-IMM is one of `ImmBits` bits, without which SLTIU would depart on positive immediates too, and
that a branch has one of the six conditions (`WellFormed`).

It proves of the divider, at every width `W >= 2`: `DividerTyped`, `DividerOnTime`,
`DividerBalanced`, `DividerQuotient`, `DividerRemainder` and `DividerSigned`, each the
run's property of `Divider`. `AnsweredOnTime` needs that the enable bit, the counter
and the history agree (`Control`), `QuotientRight` that the divisor and the sign held
are the job's (`Holding`), and that a zero divisor fits in every step
(`ByZero`); `DivInv` is their conjunction with `Balanced`, whose step is
`2^(k+1) * D - q * d * 2^(W+1)` carried through one subtraction or shift. That the
last shift may lose the top bit, and only that one, is what `RemainderRight` says
and what `division` shows at an instance.

`CoreProofs` proves for every program, memory size, number of registers and width:

* `CoreTyped`: `Spec => []TypeOK`. Each unit keeps its types given those of the wires
  that enter it; what EX computes is a word by the lemmas of `WidthProofs`, and what a
  decoded instruction may name is `WellFormed`, an assumption on `Decode`;
* `CoreInFlight`: `Spec /\ []NoSquashedUnit => []OneInFlight`. `OneInFlight` is not
  inductive: that an access is over before the next instruction executes is the work of
  the stall, which begins a cycle after the fetcher's flags say so and ends with a done
  pulse. `PipeInv` adds that at most one of the port, its answer, the units and the done
  pulse is at work, and only during a stall (`Owned`); that nothing is in EX then
  (`Quiet`); and that the fetcher's flags are about the instruction in EX
  (`Flags`). The premise excludes the one case in which that is false, which is the
  finding of `shadow_muldiv`: a unit started behind a taken branch works with nobody
  waiting. `core`'s programs have no such case, so there `OneInFlight` holds as it stands;
* `CoreExecutes`: `Spec /\ []NoSquashedUnit /\ []Specified => ExecutesProgram`, the
  refinement of `Isa`. `Specified` excludes what the core is known to compute otherwise:
  AUIPC, DIV, REM and REMU (see Findings), and codes that are no instruction of the set;
* `CoreExecutesBase`: programs whose every parcel begins a base instruction other than AUIPC
  are executed with no condition on the run.

The refinement maps the abstract pc to `ArchPc`, the place of the oldest instruction
whose effect is not visible yet: the target of a jump that EX has registered, the
instruction in EX or in one of the units, or the one the fetcher is about to hand over. The
registers, memory, LED and sent bytes are mapped to themselves, so that a write-back is
abstractly the execution of a whole instruction and every other edge a stutter. What has to be
carried from the edge at which an instruction is handed over to the edge, several later, at
which it writes, is `CoreInv`, which adds to `TypeOK` and `PipeInv`:

* `Fetching`: the unread parcels of the ring, and the word in flight, are the program's at
  the addresses that follow pc;
* `Decoded`: as long as EX or a unit is at work, its code is the program's at `ex_pc`,
  and the two pcs computed with it are the ones that follow it and that it branches to;
* `Sequel`: unless a jump is registered, pc is already where the program goes on behind
  that instruction (JAL has jumped when it was decoded);
* `Loads`, `Stores`: in each of the cycles an access takes, which register its address,
  data and answer are in, that they are those of the instruction, and that no
  other write is in progress. That the address register, and thus the device, stays
  put until the answer is written is part of it;
* `Multiplies`: the operands and then the product, at the cycle it is in, are those
  of the two source registers, extended as the instruction asks; the product of 2W bits is
  cut by `LowProduct` and `HighProduct`;
* `Divides`: the job of the divider is that of the instruction, and after each number of
  steps the equation of `Balanced` holds (`InBalance`). `Divided` (in `UnitLemmas`) concludes
  that DIVU is the quotient, and 2^W - 1 for a zero divisor.

`CoreStep` shows that a clock edge preserves it, unit by unit. `EveryEdge` shows what the edge
is abstractly, and distinguishes what EX is about: a registered jump takes effect
(`JumpEdge`, invisible), an instruction that needs one cycle executes
(`ComputeEdge`), one that needs more starts (`BeginEdge`, invisible) and waits
(`WaitEdge`, invisible), nothing is in EX (`IdleEdge`, invisible), a load, a product or
quotient, or a store arrives (`LoadEdge`, `ResultEdge`, `StoreEdge`). The source registers
are read at the end by the abstract step and were read at the beginning by the core: they are
equal because nothing is written in between (`Steady`, `Unwritten`), which is what `PipeInv` is for.
Reset is a step of its own (`CoreReset`): it abandons what is in flight before it has had an
effect.

`SocProofs` first proves that the ring of registers of `fifo.sv` is a queue, for every `Depth` of at
least 2: `FifoIsQueue` says what a clock edge with any combination of reading and
writing does to the sequence of bytes from the read pointer to the write pointer
(`Stored`, at most `Depth - 1` of them), provided nothing is written when full or read
when empty. The transmit fifo is used so; the receive fifo is not (see Findings), and
nothing is claimed of its content.

It goes on to prove for every memory size, fifo depth, set of workloads, and bytes
of any number of values and parts:

* `SocTyped`: `Spec => []TypeOK`;
* `PutHasRoom`: `Spec => []PutNeverWaits`;
* `ImplementsMemory`: `Spec => ServesMemory`;
* `ImplementsQueue`: `Spec => SendsInOrder`.

All rest on `SocInvariant`, `Spec => []SocInv`. None of the four follows from `TypeOK`: each
is about a request or a byte that several units hold one after the other. `SocInv` says
who holds what. `PortHolds`: as long as the port is not free its address, data and enable are
the access's, and one of the two requests is up. `Handshake`: which ready pulses may be
up in which cycle of a request, so that each is answered once and the port is free after
it, and that the I/O registers hold nothing left over when a read begins, which is what
loading the LED register relies on. `Popping`: a byte is popped only when there is one, and the cycle after the
transmitter was given one it is busy. `Pushing`: a store is accepted only with room. `Upload`: lane, address and data of the upgrader are those of the byte
it is about to write, although they move in different cycles. `Driving`: the driver's call, the
room it has seen and the access under way fit together. The proof goes through
the ways the clock may move the port (`Stopped`, `Issued`, `GoesOn`) and, for each
conjunct, one lemma on an edge of the clock (`EdgePort` to `EdgeDriving`); a reset, the
upgrade button and a stutter are apart (`ResetInv`, `Edges`). For the memory, lemmas
say what a store does to the image of RAM and registers (`StoredRam`, `StoredIo`), what
a received byte does (`ReceivedImage`), and what a load is handed (`UartRead`,
`LedRead`, `ValueIs`); for the queue, `FifoIsQueue` and the byte that is offered
(`QueueEdge`).

The attempt to prove `ServesMemory` showed that it was false as first stated, which its runs
could not show because no workload loaded from RAM while bytes were received: a load
whose cycle at the RAM coincides with the upgrader's write reads at the upgrader's
address (`soc.sv:49`). `Look` now says what such a load gets, and the twelfth workload
exercises it.

`StdioProofs` proves for words of every width that is a multiple of 4, and as many decimal
digits as they need, `StdioTyped` (`Spec => []TypeOK`: the format and the arguments do not run
out, and what is put are characters) and `StdioTerminated` (`Spec => []Terminated`: no conversion
writes behind its buffer or onto the 0 that ends its string). `Terminated` depends on the
numbers: a buffer is exactly as long as the longest numeral, so that `s_i` may be at the last cell
only when no digit is left. `StdioInv` says that `s_i` is at most the digits developed and the
sign, that the cells before it are characters and those behind it still 0, that what is left of the
number is below the power of ten that the next digit is taken off with, but for the most negative
one, whose digits lie between 39 and 57 (`Developing`, `BufferFor`); and that
`printf` is between two pieces of its format, with the arguments for the directives still to come
(`Place`, `Between`).

`StdioPrints` (`Spec => []PrintsArguments`) says what is printed. The reference is defined by
recursion, a numeral on the number without its last digit (`Numeral`), what a format prints on
the character behind (`Rendering`); the code goes the other way, from the leading digit. So the
equations of the recursions are proved first (`NumeralSplit`, `RenderingSplit`), by induction
over the numbers and over what is left of the format; `Induct` and `Least` of `WidthProofs` are
that induction, from the library's theorem that `<` is well-founded. The invariant `PrintsInv`
(`StdioPrinting`) adds to `StdioInv` that after j digits the buffer shows the sign and the
numeral of the argument without its last digits, or nothing as long as that is 0 (`Lead`, `Shown`,
`Complete`), that `num` is the digits that were cut off (`Left`), and that what was put, what
the conversion is to print and what the rest of the format is to print make up the whole
(`Whole`). `DroppedParts` is what `putu` makes of a number by its short divisor: all but the second digit.

`DecodersProofs` proves, for every set of 32-bit codes, every 16-bit code and every order in which
they come:

* `DecodersType`: `Spec => []TypeOK`;
* `FetcherStalls`: `Spec => []StallsMatch`;
* `ReadersDiffer`: `Spec => []DifferExactly`;
* `ExpansionsAgree`: `Spec => []ExpansionAgrees`.

So the list of disputed codes (`Disputed`) is complete for all 2^30 codes of 32 bits, of which TLC takes a
sample, and each code on it is read differently (but for `Coincidence`, below). The invariant is short: `CodesInv` says that a 32-bit
code is passed on, and that a 16-bit one shows its expansion or, without one, the instruction it
came behind. The work is in what the decoders do with one code. The two take the same
fields in different ways: the RTL places the bits of an immediate one by one and repeats the sign,
the emulator gathers pieces as numbers, by their weights, and subtracts `2^n` when the sign is set. Both
are therefore reduced to numbers of fields: `Chunk` and `NumberSplit` cut a field in two, `Gathered`
says what the emulator's pieces sum up to, `Low`, `Extended` and `SignedByCode` that a repeated sign does not count
and is the subtraction, and `NumberInjective` that equal numbers are equal bits, so that different
ones are a dispute. For 32-bit codes, `ImmediateI` to `ImmediateU` conclude that the immediates of
each format are equal, `AluCodes` and `Functions3` that the operations are, and `WideAgree` and
`WideSame` that the whole instructions are unless the code is one of those set `Apart`. For 16-bit
codes there is one lemma for each kind of expansion, which says of which instruction it is the code (`OfAddi4spn` to
`OfEbreak`), and one for each entry of the tables that compares it with what the emulator's handler
makes of the code (`ForAddi4spn` to `ForOthers`); `ForLacking` are the codes without one. `Settled`
is what they conclude: the expansion is a code of an instruction other than a multiplication,
which the RTL reads as the emulator reads the compressed code unless that is one of the
`Differing` ones. `RtlDecode` and `c_jr_mv` have disjoint cases, which the provers need.

The first attempt at `ReadersDiffer` failed because `DifferExactly` was false as first stated: it
claimed that a code without an expansion is always read differently. What the RTL shows for
it is the instruction before, which may happen to be the one the emulator takes the code for
(`c.subw` behind that very `sub`). `Coincidence` excepts that, and `decoders` now has such a
subtraction. Two of the codes' properties are assumptions (`CodesAssumption`): a 32-bit code ends in two
ones and a 16-bit one does not, which is how the fetcher tells them apart.

Assumptions. `SocProofs` uses, besides types of constants, that accesses are aligned
(`WorkloadAssumption`), that the status bits fit in a byte (`NByte >= 4`) and that the
LED's part divides a byte (`NByte % NNibble = 0`). Apart from the shape of programs and memories,
all that is assumed is what powers are: `PowerAssumption` (`Width`), `TwosAssumption` (`Bits`) and
`TenAssumption` (`Stdio`) say `b^0 = 1` and `b^(k+1) = b * b^k` as far as needed, because `^` is a symbol
without a meaning to the provers; TLC evaluates them on the instances. What follows is proved by induction
(`PowerLaws`, `Product`, `TenLaws`), and so is that words and sets of bits determine each other,
on which the logical operators rest: `AddBit` sets a bit of a word, `BitsOf` says that the
sum of the powers in a set of places (`OfOnes`, a fold of the community modules, whose recursion
`SumsExist` solves) is the word whose ones are at these places, `SameBits` that there is no other.

Only model-checked: liveness (`FetchProgress`, the core's `Progress`, `DeadLoopEnds`,
`Answered`, `Drains`, `PutsFinish`), because TLAPS cannot prove fairness arguments.
Every invariant and action property of the runs that pass is proved, and so is every refinement, the
core's under the conditions named above.

## Findings

The five violation runs; PROJECT.json lists, for each, the lines that disagree.
Several lists have more than one entry per run, the run showing one of them as its
counterexample; `Disputed` and `Departs` name all of them, and `ReadersDiffer` and
`EmuStepsIsa` show that there are no others.

* The pipeline: a squashed MUL/DIV writes its result; a DIV of operands of different signs
  is one too small; REM of negative operands and REMU are not the instruction set's; AUIPC
  adds 4.
* The data side: reading the received byte pops two. The counterexample of `rx_gets` also
  shows received bytes written to RAM without an upgrade; `ServesMemory` states what
  happens: the upgrader's write takes the RAM port whenever a byte arrives. A load that
  looks at the RAM in that cycle is handed the word the received byte goes to, not its own
  (`Look` in `Memory`).
* The emulator: C.LW, C.SW, C.ANDI, C.JALR, C.SRLI are misread; LB, LH, SB, SH, SLTIU,
  JALR and the CSR immediates differ from their comments.

Met while reading, without a run: the receive fifo is not guarded against overflow
(`misc/fifo.sv:39`), and `regfile` has 10 words for a `REG_SIZE` of 0x1000 bytes
(`main.c:78`). `PrintsArguments` says exactly what is wrong with `printf`: `putu` takes
the first digit off with a divisor one zero short (`stdio.c:48`) and so prints a 0 for the
second of ten digits, and `putd` negates the most negative number.

## Not modelled

Misaligned accesses, which the port does
not support. In the emulator: logging, tick and execution counts, the trace files but
for the UART's, option parsing, the generated CSR accessors, which nothing calls;
self-modifying programs, odd pcs, accesses behind the ten words of `regfile`. Plain
`char` is taken as signed, as the emulator's compiler does. In the firmware:
`string.c`, boot code and test programs, which are sequential and reach the system only
through the driver; a format that ends in a lone percent sign, of which the firmware has
none, and behind which `printf` steps over the end of the string (`stdio.c:93-104`). The scripts; unused modules (`rom.sv`,
`i_mux.sv`, `fifo.sv`, `module ls.sv`) and vendor cells; the `OP_IMM_REG_2_STAGE`
variant, which no build defines; the UART transceiver, a git submodule that is
not in the repository, is external to `UartMgr`.

## Plan

Done: the fetcher, the core with the whole ALU, the divider, the data side with UART,
upgrader and driver, `printf`, the decoders and the emulator, each with its proofs. Left: the core
over `Soc` instead of `DataSide`.
