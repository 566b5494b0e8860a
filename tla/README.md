# A verification project for Cheshire

Cheshire is a RISC-V system-on-chip around up to 31 CVA6 harts with a hardware
boot ROM, a minimal C runtime, drivers and a zero-stage loader. This directory
holds TLA+ models of the parts of it that run as programs or protocols, TLC
configurations that check them on small instances, and TLAPS proofs that hold
for every value of the constants. Paths below are relative to the repository.

## 1. Inventory

| Component | State it keeps | Operations | Talks to |
| --- | --- | --- | --- |
| Multi-hart boot (`sw/include/smp.h`, `hw/bootrom/cheshire_bootrom.S`) | MSIP words, SCRATCH[4..5], each hart's position | `smp_pause`, `smp_resume`, `boot_next_stage` | all harts, through CLINT and register file |
| Passive preload (`hw/bootrom/cheshire_bootrom.c`, `sw/lib/hal/uart_debug.c`, `sw/lib/dif/uart.c`) | SCRATCH[0..2], memory, the server's transfer | poll loop, READ, WRITE, EXEC, exit | host over UART, serial link, JTAG |
| Simulation host (`target/sim/src/vip_cheshire_soc.sv`, `elfloader.cpp`) | section list and data, section and burst position, collected exit code | read ELF file, preload, run, wait for exit | the above |
| Autonomous boot (`cheshire_bootrom.c`, `sw/lib/gpt.c`) | selected block range, SCRATCH[0,1,3] | signature, partition search, load | a disk driver's read function |
| Zero-stage loader (`sw/boot/zsl.c`) | loaded device tree and firmware | search, load, launch | the boot ROM's read function |
| SD card driver (`sw/lib/hal/spi_sdcard.c`) | poll counters, buffer, chip select | initialise, read, write | the card |
| EEPROM driver (`sw/lib/hal/i2c_24fc1025.c`) | chunk, buffer | read, write | I2C host FIFOs, EEPROM |
| NOR flash driver (`sw/lib/hal/spi_s25fs512s.c`) | positions in its loops | read; flash: mode, configuration, erase, program | the flash, which keeps write enable, WIP, error bits, CR3V |
| Boot disk flasher (`sw/boot/flash.c`) | SCRATCH[0,2,3] | choose a disk, write a segment | the SD card, NOR flash and EEPROM drivers |
| CLINT functions (`sw/lib/dif/clint.c`) | mtimecmp, interrupt enables | read, spin, measure, sleep | the timer |
| DMA interface (`sw/include/dif/dma.h`, `hw/cheshire_idma_wrap.sv`) | job registers, id counters | submit, wait | harts sharing one front end |
| C runtime (`sw/lib/crt0.S`) | saved context | start, trap wrapper, exit | the program and its caller |
| SoC parameters (`hw/cheshire_pkg.sv`, `hw/cheshire_addrmap_pkg.sv`) | counters of ports and rules, while elaborated | number ports, write address maps, core regions | the SoC top level, which connects and decodes by them |
| SoC top level and register file (`hw/cheshire_soc.sv`, `hw/regs/`) | registers, bus state | bus transactions | everything |

Without behaviour to model: the generated boot ROM image and register headers,
the vendored USB controller (`hw/future`), build rules, constraints, device trees,
and directed test programs. `PROJECT.json` lists every part with its status.

What is hard here: harts that share flags and scratch registers without locks;
one register that is start signal and exit word at once; a console and a binary
protocol on one wire; drivers that poll devices with and without bounds; reads
that may fail anywhere in a chain of stages; inclusive ranges and unaligned
transfers; a 64-bit timer read in two halves; ports and address rules numbered by
counters over optional blocks. The list with source lines is under
"hazards" in `PROJECT.json`.

What makes each part correct, in a sentence: the harts pass a barrier and enter at
the address that was published; a preloaded program runs only when complete and
its result reaches the host; the stage that is booted is the one the partition
table designates, and fits; a driver that reports success has delivered exactly
the bytes, has written no others, and lets go of its device; `clint_spin_until` is never
short, and `clint_spin_ticks` only if a rollover tears the reading it counts from (see
`Clint`); whatever polls, ends; an access reaches the block the memory map names.

## 2. Modules

| Module | Models | Composed with |
| --- | --- | --- |
| `SmpBarrier` | abstract: harts wake after an address is published, and enter it after all are awake | |
| `SmpBoot` | the handshake, one action per access to a shared device | implements `SmpBarrier` |
| `SmpBootProofs` | theorems about `SmpBoot` | extends it |
| `PassiveBoot` | hart 0 and host, sharing memory, scratch registers, UART | `boot_next_stage` is one step; `SmpBoot` is its detail |
| `Preload` | ELF reader and preload tasks: from file to memory | the detail of `PassiveBoot`'s section writes |
| `AutoBoot` | boot ROM and zero-stage loader on one disk | reads are `SdCard`'s, `NorFlash`'s and `I2cEeprom`'s operations, seen as data or an error |
| `SdCard`, `I2cEeprom` | a driver and its device | their outcome is `AutoBoot`'s read |
| `BootPreload` | what the host takes for granted of `Preload` | an instance of it, with names that leave `PassiveBoot`'s alone |
| `BootEeprom` | what the boot flow takes for granted of `I2cEeprom` | an instance of it, with names that leave `AutoBoot`'s alone |
| `NorFlash` | the NOR flash driver and the flash | the same |
| `FlashTool` | the boot disk flasher, invoked repeatedly, with reads of the flash in between | extends `NorFlash`; a write to the SD card succeeds or fails, what a write to the EEPROM returns says nothing |
| `Clint` | the timer functions against the timer | |
| `CopyService` | abstract: jobs are copied completely and in order, a blocking call waits for its own | |
| `Dma` | harts that share the DMA front end, and the engine | implements `CopyService` |
| `SocMap` | the generators of ports and address maps, and two-level decoding | stands alone: the addresses other modules take as given |
| `SocMapProofs` | theorems about `SocMap` | extends it |
| `PassiveBootProofs`, `AutoBootProofs`, `SdCardProofs`, `FlashToolProofs`, `ClintProofs` | theorems about the module of that name; `PassiveBootProofs` also about `BootPreload`, `AutoBootProofs` about `BootEeprom` | extend it |
| `DmaProofs` | that `Dma` implements `CopyService` | extends `Dma` |
| `MC...` | the instances TLC checks | extend the modules above |

### SmpBoot

`pc[h]` is the place in the boot ROM: `pause`, `main`, `store`, `fence`, `raise`
(loop at label 1 of `smp_resume`), `wfi`, `mip`, `clear`, `scan` (label 3),
`load_high`, `load_low`, `next`. `msip` is the CLINT's array, `scratch` the two
registers, `posted` the stores to them that have not arrived yet: they land in
any order until `Fence` waits for them. `wfi` may return early. Stores of a hart
to the CLINT take effect at once; they go to one device in program order and the
code reads back only its own device order.

### PassiveBoot

`pc` follows hart 0 through `boot_passive`, `uart_debug_serve`, the program, crt0's
`_exit` and the boot ROM's. `rx` and `tx` are the UART's two directions; a command
with its arguments is one message, a data byte is one message. The program is
external: it prints and returns. `caller` is what `ra` holds when it does: the
server, the `ret` after `boot_next_stage`'s jump, or whatever boot ROM code a
debugger interrupted. The host is the verification IP's, for each of the three
interfaces, and additionally may read memory back or send an unknown command,
which the server's protocol allows.

### AutoBoot

One action per read of the disk. `range` is `lba_begin`/`lba_end`, `dim` the last
entry, all in blocks and modulo `Lbas` as the code's `uint64_t`. Each read may
fail. The reference definitions at the end of the module (`RomReference`,
`Candidates`, `First`) say in terms of the whole disk what the loop should find.

### SdCard

`line` is what the card will send next; 0xFF is read when it is empty (0x00 for a
slot whose line is low). The driver's poll loops are modelled poll by poll with
the counter tested as the code tests it: after the last poll the code reports a
timeout even if that poll brought the byte. A block and its CRC are one item,
intact or damaged. The buffer has a margin on either side, so that a wrong offset
shows. The undefined mask for CMD8 lets that check go either way.

### Clint

Time is in core cycles; each step of the hart takes 1 to `MaxStep` of them.
`FirstHalf` is the half of mtime that the compiler reads first, which C leaves open;
the runs use `"high"`. A rollover between the two reads gives a value that is one turn
of the low half too small. For a loop that waits for a target this costs one more round.
But `clint_spin_ticks` counts its target from such a reading (`clint.c:24`): `TargetOpen` says
that it has yet to do so, and `torn` remembers a rollover in between. `SpinNeverEarly`
says that `clint_spin_until` is never early, that `clint_spin_ticks` lasts as long as asked
unless `torn`, and what remains if so: it may end early, by less than one turn of
the low half. With the low half first, a torn reading is too large and
`clint_spin_until` is early, too: `SpinNeverEarly` fails.

### I2cEeprom

`fmt` and `rx` are the I2C host's FIFOs; `dev` the EEPROM's address pointer and page
buffer. EEPROM bytes are named by their address, bytes of a write by their offset in
the caller's memory. `EepromReadExact` speaks of the lower 64 KiB. Writes are modelled
as the code makes them; no property says that they store their data, because they do not (see
the observations).

### Preload

`sections`, `mems` and `entry` are the ELF reader's `sections` queue, map of data by
address, and entry point; `bf` is the task's buffer, `offs` the loop counter of the
method at work (the two 32-bit halves of a JTAG word are one step). A UART
write beyond a section's end carries fewer bytes, or none; a JTAG word and the first
and last beat of a serial link burst carry zeros there, because the array is read out
of bounds and the strobes are all ones. `sberr` is the debug module's bus error
flag: it is set by an unaligned address, makes later accesses ineffective, and is looked
at only before the first word and after every `CheckBytes`. A file is a record of
what the loader tells apart: can it be opened, is it long enough for its headers and
data, which signature. `Visits` has one element, the order in which the loop over the
program headers meets the loadable ones. In a testbench with DRAMSys (`UseDramSys`, method
`memh_dramsys`) the direct preload stores nothing of a section that lies in DRAM
(`InDram`): the task reports that it cannot, and goes on. `PreloadImageLoaded` leaves out
these sections (`Skipped`) and no others.

### NorFlash and FlashTool

`step` is the operation under way, `part` where it is in `set_wen`, command,
`poll_wip`; `at` and `sect` are the loop counters. `dev` is the flash: write enable,
operation under way, error bits, address mode, and the bits of CR3V (`long`: an erase
covers 256 KiB; `uniform`: no small sectors; `top`: where they are). The unit of
memory is the page, since a program command writes one; whether pages differ is all the
properties ask. An erase or program operation may fail, leaving `Mixed` content
and an error bit, and any transaction of the SPI host may fail (`GiveUp`), which leaves the
flash enabled or busy. After that, commands are ignored or hit a
flash in another state, so `CommandsAccepted`, `ReadExact` and `OthersUntouched` speak
only until a call has failed (`trouble`). The data byte of the CR3V write
is not driven by the code, so that `FlashEnds` chooses its bits. If the command that enters
4-byte mode were ignored, the register write after it would take other bytes for its
address; the model does not follow that case, which needs a busy flash. Waiting for power-up
is part of `Setup`.

The flash tool is modelled for all three disks. `FlashSdCard` hands the SD card driver a
range of bytes; the driver's success means that they are stored, as `WriteExact`
of `SdCard` says. `FlashEeprom` only returns: the EEPROM
driver may return 0 without having stored the data, and `ZeroMeansWritten` promises nothing there.

### Dma

A 64-bit store is one step, as on the bus, and covers a register and its upper half. The read
of `next_id` is `Launch`: it waits for room in the FIFO, latches all registers and
returns an id. The engine takes 32 bits of length, strides and repetitions
(`TfLenWidth` and `RepWidth`, `cheshire_idma_wrap.sv:43-44`): `Carried` cuts them, so a copy of
2^32 bytes or more moves only what the low half of its size says. Strides are extended
with zeros again in the engine, which is outside the repository. `CopyService` promises the
same, and `RequestsAssumption` is about what is left after the cut. `TakeJob`, `CopyRow` and `Retire` are the engine's. The code takes no
lock: two harts whose stores interleave would launch a mixture, which is why the
functions can be used at all only if callers take turns (`holder`). `turns` says how
long a turn is: for `"call"`, a blocking call keeps it until it returns; for
`"launch"`, it ends with the launch. In the second case jobs are still right
(`ImplementsService` covers both), but a blocking call may miss its id: the test is
`done_id == tf_id`, and `done_id` can move on between two polls, so that it waits until the ids wrap
around; `Returns` is stated for the first. Jobs of size zero and zero repetitions are
excluded (`RequestsAssumption`), and there is one id more than jobs can be under way
(`IdsAssumption`; the hardware has 32-bit ids and a FIFO of two). `src` and `dst` are named by
cells, and `CopyService` says which source cell arrives where. Where rows of one job
overlap it promises no order between them.

### SocMap

A step is one unit of a generator (`AddUnit` if it is enabled, `SkipUnit` if not); `i` and
`r` are the code's counters, `port` and `map` its result so far, and `Finish` appends
external ports and rules. `how` says what the code does around a unit: number, then
count (cores), number without counting (debug module, SPM), or count, then number (all others).
Counters are `int`, indices have six bits, and array entries past the end are not
written. `Route` is what `cheshire_soc.sv` does with the maps: the crossbar decodes, its port 1 leads
to the register demultiplexer, which decodes again with an error slave for the rest.
`MemoryMap` is docs/um/arch.md, block by block; `Decodes` compares the two at the first and
last word of every region and their neighbours. Two divergences are taken as
intended: SoC registers end after the last one instead of filling 4 KiB, and the uncached
SPM and the cached one are as large as the LLC. A configuration places regions of its own (LLC
output, serial link, external rules), and the generators check nothing about them.
`PlacedAssumption` is what the memory map requires: they collide neither with each
other nor with what the SoC has there, and external rules name external ports that exist. The
SPM's range is free where there is no LLC, as external ports may back it then
(cheshire_pkg.sv:350).

## 3. Runs

| Run | Shows | Bounds |
| --- | --- | --- |
| `smp_boot` | the barrier, right entry address, no stale interrupt, every hart boots, refinement | 3 harts: a booting one and two that can run at different speeds; 2 values a half word, which tells halves and old from new apart |
| `passive_boot` | complete preload, exact read-back, protocol in step, right exit code, termination | two sections, one of them a multiple of the burst length (the zero-length last burst); registers with room for 4 codes beside a flag: return codes with and without the lost top bit, odd and even; 2 stray bytes |
| `auto_boot` | search equals its reference, sizes | all disks of up to 3 entries of 8 kinds (fits, one too large, out of order, at the top of the address space); 16 block numbers, so that sums wrap |
| `sd_card` | exact data, no overrun, success releases the card, every call returns | 3 blocks of 3 bytes, reads of up to 7 bytes at each offset (1 to 3 blocks, with partial first, last, both); delays up to and past each poll limit |
| `clint` | `clint_spin_until` never early, `clint_spin_ticks` only after a torn reading and by less than a turn of the low half; accurate measurement; termination | starts at many phases before and after a rollover of a 4-tick low half; 13 cycles a tick, 2 cycles a step at most |
| `preload` | a launched program is completely in memory and starts at its entry point; nothing else is written; bursts are legal | 3880 pairs of a file and a method: two headers, aligned and not, apart, touching, at the same address, with and without zeros behind the data, 0 to 4 words long; 4-byte words, 2-word bursts, 4-word pages; JTAG looks for errors every 2 words; malformed files; direct preload with and without DRAMSys |
| `soc_map` | distinct ports, right decoding, right core attributes | 1100 configurations: 16 features with at most two on or at most two off (so every pair meets in each combination), 1 and 3 cores, with and without external ports and rules (one of them inside the CIE part); 22, 30 and 31 cores, the most whose indices fit, and one too many |
| `flash_tool` | commands are not lost, exact reads, a return of 0 means written (SD card and NOR flash), other sectors survive, every call returns | 2 calls (so that one finds what another left); 3 sectors of 4 pages: one with small sectors at the start, one in the middle, one with small sectors at the end; all 8 settings of CR3V; 2 small sectors of 1 page |
| `dma` | implements the copy service with sizes, strides and repetitions cut to one half register, blocking calls return | 2 harts with 4 different calls, 1D and 2D, blocking and not; FIFO of 1, which is full when a third job comes; 4 ids, which wrap around; addresses that need both halves of a register; a call whose size, strides and repetitions exceed one half |
| `i2c_eeprom` | exact reads, bounded overrun, FIFO limits, termination | 8-entry FIFO, all alignments, lengths below, at and above one chunk, up to the 64 KiB boundary |

Deadlock checking is off in all of them because all these programs end (in the next
stage, at `ebreak`, in an idle loop or with a return); that they do not stop before is
what the liveness properties say.

Fairness: a hart or driver that can execute does (weak fairness of its steps); a
store in flight arrives; the device behind the I2C host makes progress; an erase or
program operation of the flash ends, well or not; the DMA engine gets on; a program
that was started returns in the end, since exit codes are only promised for those;
the host goes on with what it began. Nothing obliges main to call `boot_next_stage`,
wfi to return early, a host to abort, a caller to ask for another operation, another
hart to use the DMA or an SPI transaction to fail, so these are not fair. `preload`,
`auto_boot` and `soc_map` state safety only: they are straight loops.

A run checks the properties in its cfg. Modules also define a `TypeOK`, which the runs leave
out: it is proved wherever there are proofs (for `SocMap`, as part of `IInv`), and
the other properties would hardly hold in a state outside the types.

Two runs show where code and documentation disagree (details with quotes under
"findings"): `zsl_load` (a failed read is reported as OK and the firmware launched),
`clint_sleep` (the test for "already there" is inverted).

Observations without a run of their own:

- With `NONSMP_HART` other than 0 `Barrier` fails: a hart scans MSIP[0] before the
  booting hart raises the words after it. The default is 0.
- `uart_debug_serve` ends EXEC with `EOC`; docs/um/sw.md:66 says `ACK`. The start bit
  is bit 1 in the code, bit 0 in docs/um/sw.md:58, and "[2][2]" in a comment.
- On a disk whose first entry ends before it begins, the fallback range of
  `gpt_find_partition` wraps and the load is not limited to 48 KiB (`SelectionFits`
  excludes that case; partitions that match fit even then).
- Every error return of the SD card driver leaves the card selected and a
  multi-block transfer open.
- The last byte of an EEPROM write goes out without the stop that makes the EEPROM program it
  (`i2c_24fc1025.c:71`, where a comment at line 70 says "Send out last byte with stop bit"), and
  further chunks use the wrong offset: a write returns 0 and its data is not stored. The
  driver's short unaligned reads overrun the buffer up to the FIFO boundary (the GPT
  header and entries are such reads). `EepromOverrunBounded` states the limit.
- `clint_spin_ticks` is short, by up to 2^32 ticks, if the low half of mtime rolls over between
  the reads of `clint.c:24`; it usually returns at once. The I2C EEPROM driver waits by it
  (`i2c_24fc1025.c:53`). `SpinNeverEarly` states the exact condition; no document promises
  the length of a spin.
- DMA copies take 64-bit sizes (`dma.h`), of which the hardware carries 32 bits; nothing
  tells a caller that the rest is dropped.
- With `UseDramSys` a DRAM section that the direct preload skipped does not keep the testbench from
  launching the program (`vip_cheshire_soc.sv:1031`).
- In `i2c_24fc1025.c:57` the block select is computed as bit 15 of a word of which
  eight bits are sent: the upper half of the EEPROM cannot be reached, although the comment before it
  says that addresses overflow to it.
- docs/um/sw.md:72 wants a boot image "under 48 KiB"; code and sw.md:70 allow exactly 48 KiB.
- A program started by `boot_next_stage` that returns does so to a `ret` that
  returns to itself for ever; docs/um/sw.md:54 says that control goes back to the boot
  ROM, which waits at `ebreak`.
- A program started over JTAG returns into the boot ROM's polling loop. With an odd
  return code its exit word has bit 1 set, which that loop takes for the start signal:
  it clears the register and jumps, and the testbench that polls bit 0 may miss the
  word (docs/um/sw.md:17 says that it catches the value).
- `__spi_sdcard_cmd_check` reports a mismatch by returning the response itself, so
  that a response of zero passes every check (`spi_sdcard.c:160`).
- Over the serial link, a section that starts in the middle of a word overwrites the
  bytes before it, and the tail of its previous burst, with zeros: strobes are all ones
  although the code means to mask the first beat. `ImageLoaded` excludes such files;
  over JTAG, they fail or, if short, are silently not loaded.
- `load_elf` reports nothing, so that `read_elf` returns success for a file whose program header table
  lies beyond its end, and a program without any section is launched at 0.
- If two program headers have the same address, `mems.insert` keeps the data of
  the first for both.
- Zeros behind the data of a section are loaded although the loader's warning says that they
  are not; sections of zeros only are not.
- `spi_s25fs512s_single_flash` means to set CR3V[1], 256 KiB erase
  (`spi_s25fs512s.c:165`), but the segment that should carry the value is a receive segment
  (line 174). On a flash set to 64 KiB erases, 0xDC clears a quarter of a sector, the
  rest is programmed over what it held, and the function returns 0: without `dev.long \/ blank`,
  `ZeroMeansWritten` fails.
- `NumCores` may be 1 to 31 (docs/um/arch.md:127). `bus_err` has 32 entries, for two
  units and 30 cores: with 31 cores the last core's error unit has no entry and is
  connected to port 0, the error slave's. With `Clic` and `BusErr` and all other blocks,
  indices exceed six bits from 24 cores on.
- With `BusErr` but without `Vga` or `Dma`, or with `LlcNotBypass` but without
  `LlcOutConnect`, the map leads to a register port that nothing is connected to.
- `poll_wip` waits for WIP alone. On a real device WIP may stay set with an error
  bit until it is cleared (CLSR), which the driver never does; the model's flash is the
  one the code expects.
- crt0 saves `gp` after it has overwritten it.

## 4. Proofs

`SmpBootProofs` proves, for any number of harts, any set of words and, where not said
otherwise, any choice of non-SMP hart:

- `TypeCorrect`, `BootAddressCorrect` (`EntersAtBootAddress`), `NoInterruptLeft`
  (`NoStaleInterrupt`);
- under `NonSmpHart = 0`: `BarrierHolds` (`Barrier`) and `Refinement`
  (`ImplementsBarrier`).

None of these is inductive. The argument has three layers.

1. `HandshakeInv`: only the non-SMP hart is ever in main or in the raising loop
   (`InvRole`); loop indices are zero outside loops (`InvIdx`); the MSIP word of a
   hart is 1 exactly from when it is raised until its hart clears it (`InvMsip`), so a
   word tells where two harts are.
2. `AddressInv`: after each store the value is either in flight or landed, after the
   fence landed, and after that nobody writes it (`InvEntry`); so what a hart loads is
   what main passed (`InvLoads`).
3. `ScanInv`: every word a hart has passed in its scan belongs to a hart that has
   cleared its word for good. This is where the order matters: a zero in the word of
   hart 0 can only be read after hart 0 left the raising loop, because hart 0 clears
   its own word later; from then on a zero in any other word means "cleared", not
   "not yet raised".

The refinement maps a hart to `parked` until it has cleared its word, `booted` when it
has jumped and `awake` in between; every step of the handshake other than
`BootNextStage`, `ClearMsip` and `LoadLowAndJump` is a stutter. Assumptions are those
on the constants: at least one hart, the non-SMP hart among them, 0 a word, `None` no
word and no address.

`SocMapProofs` proves `PortsAlwaysApart` (`PortsApart`) for every configuration, with any
number of cores and external ports. `PortsApart` speaks of finished generators only; the invariant
that carries it (`Spaced`) says that the indices given so far grow from unit to unit and
how the counter leads them: it is the next free index while cores are numbered,
and the last one given after that. The switch happens at the debug module, which takes the
index without counting, and `Shape` says that it is the only such unit with a port of
its own. Overflow is excluded by looking at the counter at the end only: it never
shrinks. Assumptions: the constants are natural numbers, there is a core and an index.

`RoutesFollowMap` proves `Decodes`, the correctness of the generators: an access
reaches exactly the unit that owns its address. `IInv` above says nothing about rules;
`DInv` does, and the two together are inductive.

1. While a generator runs, its counter of rules is the number of rules of the units so
   far (`RulesCounted`), and the map consists of these rules, each with the
   port of its unit (`Mapped`): a later unit overwrites none of them, and no entry is left out.
   `FirstPorts` and `BeforeSpm` give the ports that do not follow from the counter, those set
   beforehand and the SPM's, which is the LLC's if there is one. `AllFinished` is what remains of this
   once a generator has returned; the external rules follow those of the units.
2. The last rule that matches an address decides (`DecodeRule`), so the port of an access is one
   that a region with this address claims (`DecodeClaim`). There is never more than one
   claim (`OutUnique`, `RegUnique`). For the SoC's own blocks this is arithmetic on the
   addresses of the package (`OnceApart`, `RegApart`), for the rest it is `PlacedAssumption`.
3. Both levels together: what owns the address is reached (`Reached`), and what is reached owns
   the address (`Reaches`). A port stands for one unit only because ports are apart (`PortsApart`, `Rising`); the
   step from crossbar to demultiplexer needs every register region to be inside
   the demultiplexer's or to be an external one that is passed on there.

The second and third part hold at every word, not only at the probes of the run. TLC checks `DInv`
on the instance of `soc_map` as well. Beyond those of `PortsAlwaysApart`, the assumptions are
`PlacedAssumption` and that arrays have room for a core.

It also proves `CoresFollowMap` (`CoreView`), a statement about every configuration
that needs no induction over steps. What the cores may do with an address follows from the part of the
address space it is in (`FlagsLow`, `FlagsLlc`, `FlagsExt`), and `Blocks` says
in which part each unit of the memory map is; so the attributes are right at every
word, not just at the probes (`FlagsOfUnit`). What it takes is `RegionsAssumption`, the layout
docs/um/arch.md asks of a configuration: SPMs and CLICs of at most 64 MiB, a CIE part that
fits the external on-chip region, an LLC output region behind it. The generator checks
none of this. An LLC above 64 MiB would have its SPM overlap the uncached one.

`AutoBootProofs` proves, for every disk, buffer size and number of block numbers
(where sums wrap), `TypeCorrect`, `SelectionAlwaysFits` (`SelectionFits`),
`RomBootsTheReference` (`RomBootsReference`) and `FirmwareComesFromDisk`
(`FirmwareFromDisk`). The loop overwrites the range it will fall back to with the
entry it looks at, so the invariant says at each place what the range is
(`InvFallback`: the buffer before the first entry, the first entry afterwards), that no
entry passed so far was a candidate (`InvSearch`), and, once the loop is left, that the
range is the first candidate or the fallback (`InvSelected`); `InvLoaded` carries this over to
the loader's second search. Entries in order (`Tidy`) are a premise of the
properties, as in the runs: with a reversed entry the fallback does wrap.

The boot flow takes for granted that a read fails or brings what is on the disk. For
the EEPROM, the second part of `AutoBootProofs` proves it of the instance of `I2cEeprom`
in `BootEeprom` (`EepromReadsExactly`, `EepromOverrunsInRow`, `EepromFifosSuffice`, for
`EepromReadExact`, `EepromOverrunBounded` and `EepromFifosFit`), for every access and every FIFO depth
from 2 to 128 that divides a device page, as `CHECK_ASSERT` demands. A chunk ends with
the access or at the next boundary (`ChunkInv`), and what precedes it is in the
buffer (`BufInv`). While a chunk is read, `ReadInv` tells from the format entries still
queued (`Stage0` to `Stage5`) where the EEPROM's pointer is and how many bytes are
still to come, so that the receive FIFO holds the chunk's next bytes in order. While one is
written, nothing is requested and at most half a FIFO of data and four entries are
queued (`WriteInv`). That is why `EepromFifosSuffice` wants eight entries: a shorter
FIFO would overflow; the hardware has 64.

`PassiveBootProofs` proves, for every list of sections, image, burst length and
amount of noise and every returned code, `TypeCorrect`, `RunsFromCompleteMemory`
(`PreloadComplete`), `NeverLost` (`EntersAtEntry`), `StaysInStep` (`HostNeverFatal`),
`CodeArrives` (`HostCodeCorrect`) and `ExitWordStays` (`ExitWordStable`). The invariant is the
joint state of both ends. Over UART it lists, for each phase of the host, where the
server is and what is on the wire in each direction (`InvUart`): one end sends only
when the other has nothing outstanding, which is why a data byte is never taken
for a command. For serial link (`InvSlink`) and JTAG (`InvJtag`) it says what the scratch registers
hold in each phase. `InvMem` says how much of the image is in place: what the
host counted, less what is still on the wire. Assumptions on the constants: there is a section,
image bytes differ from unwritten memory, the entry point is not 0 and a register holds the codes
and one flag bit.

The second part of `PassiveBootProofs` is about the instance of `Preload` in
`BootPreload`: `ProgramLoaded` (`PreloadImageLoaded`), `LoaderWritesSections`
(`PreloadOnlySections`) and `LoaderBurstsLegal` (`PreloadBurstsLegal`), for every set of files with any
number of headers, every memory that holds their segments, and every size of
words, pages and bursts, as long as pages, serial link bursts and the distance between error checks are whole
words and a full burst has fewer than 256 of them (`PreloadSizesAssumption`; the code has 8-byte
words, 4 KiB pages, 1 KiB bursts). Sections handed out
stay in memory because in an orderly file they ascend and do not overlap, so that the zeros a
JTAG word or a burst puts behind one section land where a later one is still to be
written, or nobody's bytes are (`RamInv`). The argument is about the sections that the method
stores (`Wanted`): all, but for the direct preload with DRAMSys those outside DRAM. Over the serial link that needs every
burst of such a section to start on a word (`SendInv`): a burst is as long as a full one, as
the rest of the section, or as the room left in its page, and only the second may not be whole words
(`NextBurst`). `BurstWords` is the arithmetic of beats, for any start.

`SdCardProofs` proves, for every block and card size, poll limit, delay and
operation within the card, `TypeCorrect`, `BufferRespected` (`NoOverrun`), `ReadsExactly`
(`ReadExact`), `WritesExactly` (`WriteExact`), `Detaches` (`SuccessDetaches`) and, if no slot in
`Cards` reads as zero, `ReadyWhenInitialised` (`InitMeansReady`); with such a slot the last
fails, see above. The
central part is arithmetic: the first block is cut at the front, the last at
the back, and both at once if there is one (`InvBuf`): after b blocks exactly the bytes from the
start to the end of block b - 1 or of the request are in the buffer. That the
next block on the line is number b needs `InvLine`: the card counts what it has sent, and a block is
requested only when the one before has been taken.

`DmaProofs` proves `TypeCorrect` and `Refinement` (`ImplementsService`) for any harts,
calls, register width, FIFO depth and number of ids within the assumptions above, and for both
lengths of a turn. Sizes, strides and repetitions of any call within a register count modulo
half of it (`Carried`), in the service as in the engine. A job of the service is accepted at `Launch`; the queue is the job
under way, less the rows copied, followed by the FIFO; stores, `TakeJob` and polls that
fail are stutters. For
`Launch` to latch what was asked for, the registers must hold all stores of this
call although earlier calls left theirs (`InvTurn`, `InvRegs`); 1D calls leave stride and
repetition registers alone and rely on the mode bit. For a poll that succeeds to mean that the
job is done, ids must not be reused too early: `InvIds` says that the k-th job in line
has the id k after `done`, and fewer jobs are in line than there are ids, so that no job in line has
the id `done_id` shows.

`ClintProofs` proves, under `FirstHalf = "high"` and for any frequency, speed of the
hart, width of the halves and calls, `TypeCorrect`, `SpinsLongEnough` (`SpinNeverEarly`) and
`MeasuresAccurately` (`FreqAccurate`). `InvRead`: a high half read earlier than the low half can
only make the time too small, by less than one turn of the low half; and without a rollover in
between, time is exact as of the second read. The end of a spin needs the first half only: a
reading that has reached the target is not ahead of time. A target that
`clint_spin_ticks` counts from a reading needs the second, unless that reading was `torn`:
`InvOpen` says so until there is a target, `InvSpin` afterwards. For the frequency,
`InvFreq` bounds the distance between the sample of mcycle and the edge of the tick it is taken
for, at the start and at the end, by the steps between two reads of the timer. With
the low half first the theorems would be false, which is why their assumption names
the order that C leaves open.

`FlashToolProofs` proves, for every geometry of the flash (sectors, short erases and
small sectors that divide one another, small sectors that fit in one sector; an array of whole
cycles), every configuration and any calls, `TypeCorrect`, `NoCommandLost`
(`CommandsAccepted`), `ReadsExactly` (`ReadExact`), `OthersStay` (`OthersUntouched`) and
`ZeroIsWritten` (`ZeroMeansWritten`; for SD card and NOR flash, while of the EEPROM it says
nothing). The last one holds even after calls that failed. A failed call may leave
the flash busy, and the next call's enables, mode change and register write are then ignored; but
the poll after the register write waits until the flash is idle, and fails
if an error bit has come up, so that from the first sector on the driver and the flash agree
(`InvOurs`). `InvMem` says what memory holds then: the data up to the page at hand,
and behind it what has been swept, first the overlaid pages by the small-sector erases, then
the others by the sector erase; a flash that was blank is blank behind the front all
along. That the driver looks for small sectors in the right place is arithmetic
(`OverlayPlace`): of the sectors it takes to have some, at most one does, and there they fill
exactly the pages it erases.

Two attempts failed for a reason and changed the model. `PollToken` of `SdCard` had two CASE
guards that could hold at once (the last poll that brings the token), of which TLC
takes the first and the semantics either. `CopyService.Copy` demanded that a pair that
has been copied is never copied again, which is wrong for jobs whose rows overlap; the small
instance has none.

Model-checked only:

- liveness everywhere (`EveryHartBoots`, `Completes`, `Ends`, `EepromEnds`, `Returns`), since fairness and
  ENABLED are beyond the prover.

## 5. Plan

Written in the order of what matters most to a chip that must come up:

1. done: `SmpBarrier`, `SmpBoot`, `SmpBootProofs`, `PassiveBoot`, `AutoBoot`,
   `SdCard`, `Clint`, `I2cEeprom`.
2. done: `CopyService` and `Dma`; `NorFlash` and `FlashTool`; `Preload`; `SocMap` and
   `SocMapProofs`.
3. Proofs. Done: `PassiveBoot`, `AutoBoot`, `SdCard`, `Clint`, `FlashTool`, the refinement
   of `Dma`, ports, decoding and core attributes of `SocMap`, `I2cEeprom`, `Preload`.
4. `Crt0`, the APB request state machine, `fan_ctrl`.

Not planned, because there is nothing to check: generated code, vendored code, board
constraints; because it is outside the repository: cores, crossbar, LLC, the I2C, SPI
and UART blocks and their `dif_` drivers, which appear only as the devices the modelled
code sees.
