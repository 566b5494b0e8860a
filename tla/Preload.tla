------------------------------ MODULE Preload -------------------------------
(***************************************************************************)
(* How a program gets from its ELF file into memory in simulation: the ELF *)
(* reader (target/sim/src/elfloader.cpp) makes a list of sections and      *)
(* their data, and the preload tasks of the verification IP                *)
(* (vip_cheshire_soc.sv) fetch one section after the other and cut it into *)
(* what their interface carries: UART writes, 64-bit JTAG system bus       *)
(* writes, serial link bursts, or direct writes to the DRAM model (none if *)
(* that is DRAMSys).                                                       *)
(* PassiveBoot has the protocols around these writes.                      *)
(*                                                                         *)
(* A file is a record: can it be opened, is it as long as an ELF header,   *)
(* its signature, does it hold its program header table, its entry point   *)
(* and its program headers [load, paddr, filesz, memsz, whole].  Byte k of *)
(* header s is named <<s, k>>; what the section headers say has no effect. *)
(***************************************************************************)
EXTENDS Integers, Sequences

CONSTANTS Files,        \* the files considered
          Methods,      \* a subset of AllMethods
          Memory,       \* the addresses
          DramFirst, DramEnd, \* LlcOutRegionStart and LlcOutRegionEnd
          BusBytes,     \* bytes of a system bus word: 8
          Page,         \* 4096
          UartBurst, SlinkBurst, \* UartBurstBytes, SlinkBurstBytes
          CheckBytes    \* JTAG looks for bus errors every 512 bytes

\* The preload tasks; memh_elf_preload in a testbench without and with DRAMSys.
AllMethods == {"uart", "jtag", "slink", "memh", "memh_dramsys"}

\* What memory may hold besides <<segment, offset>>.
Zero == <<0, 0>>
Blank == <<0, 1>>

Extent(p) == p.paddr .. p.paddr + p.memsz - 1

\* What the tasks take for granted of their sizes.
SizesFit ==
  /\ Page \in Nat \ {0} /\ BusBytes \in Nat \ {0} /\ Page % BusBytes = 0
  /\ SlinkBurst \in Nat \ {0} /\ SlinkBurst % BusBytes = 0 /\ UartBurst \in Nat \ {0}
  /\ CheckBytes \in Nat \ {0} /\ CheckBytes % BusBytes = 0
  \* A burst has at most 256 beats.
  /\ SlinkBurst \div BusBytes + 1 <= 256
  /\ DramFirst \in Nat /\ DramEnd \in Nat
\* Headers hold numbers; what is loaded is within the memory.
FilesFit ==
  /\ Methods \subseteq AllMethods /\ Memory \subseteq Nat
  /\ \A f \in Files :
       /\ f.phtab \in BOOLEAN /\ f.entry \in Nat
       /\ f.segs \in Seq([load : BOOLEAN, paddr : Nat, filesz : Nat, memsz : Nat, whole : BOOLEAN])
       /\ \A s \in DOMAIN f.segs : Extent(f.segs[s]) \subseteq Memory

VARIABLES file, method,  \* what is loaded, and how
          pc,            \* "read", "fetch", "load", "entry", "launched", "fatal" or "abort"
          sections,      \* [addr, len]
          section_index, \* sections handed out
          mems,          \* data by address
          entry,         \* the entry point in the ELF reader
          bf,            \* the section fetched: [addr, data]
          offs,          \* bytes of it sent
          sberr,         \* a system bus error is recorded in the debug module
          burst,         \* the last serial link burst: [addr, beats]
          mem,           \* the system's memory
          start          \* where the program is launched

vars == <<file, method, pc, sections, section_index, mems, entry, bf, offs, sberr, burst, mem, start>>
given == <<file, method>>
reader == <<sections, section_index, mems, entry>>

Init ==
  /\ file \in Files /\ method \in Methods
  /\ pc = "read"
  /\ sections = <<>> /\ section_index = 0 /\ mems = <<>> /\ entry = 0
  /\ bf = [addr |-> 0, data |-> <<>>] /\ offs = 0
  /\ sberr = FALSE
  /\ burst = [addr |-> 0, beats |-> 1]
  /\ mem = [a \in Memory |-> Blank]
  /\ start = -1

-----------------------------------------------------------------------------
(* The ELF reader. *)

\* PT_LOAD with something to load: memory, and more than zeros.
Loads(p) == p.load /\ p.memsz > 0 /\ p.filesz > 0

Loadable == {s \in DOMAIN file.segs : Loads(file.segs[s])}

\* The loop over the headers visits the loadable ones in ascending order: the
\* only element of this set.
Visits ==
  {q \in UNION {[1 .. n -> Loadable] : n \in 0 .. Len(file.segs)} :
     /\ \A i, j \in DOMAIN q : i < j => q[i] < q[j]
     /\ \A s \in Loadable : \E i \in DOMAIN q : q[i] = s}

\* Each adds a section.
Listed(visit) ==
  sections \o [i \in DOMAIN visit |-> [addr |-> file.segs[visit[i]].paddr, len |-> file.segs[visit[i]].memsz]]

\* write(): the first data for an address stay.
Contents(s) == [k \in 1 .. file.segs[s].filesz |-> <<s, k - 1>>]
Inserted ==
  LET new == {file.segs[s].paddr : s \in Loadable} \ DOMAIN mems
      First(a) == CHOOSE s \in Loadable : /\ file.segs[s].paddr = a
                                          /\ \A t \in Loadable : file.segs[t].paddr = a => s <= t
  IN  [a \in DOMAIN mems \cup new |-> IF a \in DOMAIN mems THEN mems[a] ELSE Contents(First(a))]

\* load_elf reports nothing: with a program header table beyond the end of the
\* file it leaves everything as it was.  Data beyond the end fail an assertion.
LoadElf(next) ==
  \/ /\ ~file.phtab
     /\ pc' = next /\ UNCHANGED reader
  \/ /\ file.phtab /\ \E s \in Loadable : ~file.segs[s].whole
     /\ pc' = "abort" /\ UNCHANGED reader
  \/ /\ file.phtab /\ \A s \in Loadable : file.segs[s].whole
     /\ \E visit \in Visits : sections' = Listed(visit)
     /\ mems' = Inserted /\ entry' = file.entry
     /\ UNCHANGED section_index
     /\ pc' = next

\* The checks of read_elf; if they fail so does the simulation.
ReadElf(next) ==
  IF file.opens /\ file.ehdr /\ file.ident \in {"elf32", "elf64"}
  THEN LoadElf(next)
  ELSE pc' = "fatal" /\ UNCHANGED reader

-----------------------------------------------------------------------------
(* The preload tasks. *)

Read ==
  /\ pc = "read" /\ ReadElf("fetch")
  /\ UNCHANGED <<given, bf, offs, sberr, burst, mem, start>>

Section == sections[section_index + 1]
Data(addr) == mems[addr]

\* get_section and read_section: a buffer of zeros as long as the section, with
\* the data copied in, unless they do not fit.
Fetch ==
  /\ pc = "fetch" /\ section_index < Len(sections)
  /\ \/ /\ Len(Data(Section.addr)) <= Section.len
        /\ bf' = [addr |-> Section.addr,
                  data |-> [i \in 1 .. Section.len |->
                             IF i <= Len(Data(Section.addr)) THEN Data(Section.addr)[i] ELSE Zero]]
        /\ pc' = "load"
     \/ /\ Len(Data(Section.addr)) > Section.len
        /\ pc' = "fatal" /\ UNCHANGED bf
  /\ section_index' = section_index + 1 /\ offs' = 0
  /\ UNCHANGED <<given, sections, mems, entry, sberr, burst, mem, start>>

\* Over UART, JTAG and serial link, the entry point is asked for at once.
FetchEnd ==
  /\ pc = "fetch" /\ section_index = Len(sections)
  /\ pc' = "entry"
  /\ UNCHANGED <<given, reader, bf, offs, sberr, burst, mem, start>>

\* Byte i of the section; a read outside the array yields 0.
Byte(i) == IF i \in 0 .. Len(bf.data) - 1 THEN bf.data[i + 1] ELSE Zero

Bytes(i, j) == [k \in i .. j |-> Byte(k)]

\* Bytes, by their place in the section, go where they belong.
Store(bytes) ==
  mem' = [a \in Memory |-> IF a - bf.addr \in DOMAIN bytes THEN bytes[a - bf.addr] ELSE mem[a]]

Lesser(a, b) == IF a < b THEN a ELSE b

Loaded == pc' = "fetch" /\ UNCHANGED offs
Sent(n) == pc' = "load" /\ offs' = offs + n

\* uart_debug_elf_preload: the last write may be empty.
UartLoad ==
  /\ pc = "load" /\ method = "uart"
  /\ \/ /\ offs <= Len(bf.data) /\ Sent(UartBurst)
        /\ Store(Bytes(offs, Lesser(offs + UartBurst, Len(bf.data)) - 1))
     \/ offs > Len(bf.data) /\ Loaded /\ UNCHANGED mem
  /\ UNCHANGED <<given, reader, bf, sberr, burst, start>>

Memh == method \in {"memh", "memh_dramsys"}
UseDramSys == method = "memh_dramsys"

InDram(addr, len) == DramFirst <= addr /\ addr + len <= DramEnd

OverJtag ==
  \/ method = "jtag"
  \/ Memh /\ ~InDram(bf.addr, Len(bf.data))

\* jtag_load_section looks for bus errors before the first word, where it sets up
\* the system bus access, and after every CheckBytes bytes.
ErrorSeen == sberr /\ (offs = 0 \/ (offs > BusBytes /\ (offs - BusBytes) % CheckBytes = 0))

JtagError ==
  /\ pc = "load" /\ OverJtag
  /\ ErrorSeen
  /\ pc' = "fatal"
  /\ UNCHANGED <<given, reader, bf, offs, sberr, burst, mem, start>>

\* Mutant: the last word is left out.
JtagMoreLess == offs + BusBytes <= Len(bf.data)
JtagMore == offs <= Len(bf.data)

\* The words of jtag_load_section, one even if nothing is left; the debug module
\* refuses unaligned ones, and all that follow.
JtagLoad ==
  /\ pc = "load" /\ OverJtag
  /\ ~ErrorSeen
  /\ \/ /\ JtagMore /\ Sent(BusBytes)
        /\ sberr' = (sberr \/ bf.addr % BusBytes # 0)
        /\ IF sberr' THEN UNCHANGED mem ELSE Store(Bytes(offs, offs + BusBytes - 1))
     \/ ~JtagMore /\ Loaded /\ UNCHANGED <<sberr, mem>>
  /\ UNCHANGED <<given, reader, bf, burst, start>>

\* memh_elf_preload: with DRAMSys the task reports that it cannot preload the
\* section, and goes on with the next one.
MemhLoad ==
  /\ pc = "load" /\ Memh /\ ~OverJtag
  /\ \/ ~UseDramSys /\ Store(Bytes(0, Len(bf.data) - 1))
     \/ UseDramSys /\ UNCHANGED mem
  /\ Loaded
  /\ UNCHANGED <<given, reader, bf, sberr, burst, start>>

Lowest(S) == CHOOSE x \in S : \A y \in S : x <= y

\* Mutants: a page, or the rest of the section, does not limit a burst.
BurstLenNoPage == Lesser(SlinkBurst, Len(bf.data) - offs)
BurstLenNoRest == Lesser(SlinkBurst, Page - ((bf.addr + offs) % Page))
BurstLen == Lowest({SlinkBurst, Len(bf.data) - offs, Page - ((bf.addr + offs) % Page)})

\* A burst of slink_elf_preload starts at a whole word and ends with one: bytes
\* before and after its own are written too, as zeros.
SlinkLoad ==
  /\ pc = "load" /\ method = "slink"
  /\ \/ /\ offs < Len(bf.data)
        /\ LET n == BurstLen
               bus == (bf.addr + offs) % BusBytes
               beats == (bus + n + BusBytes - 1) \div BusBytes
               places == offs - bus .. offs - bus + beats * BusBytes - 1
           IN  /\ burst' = [addr |-> bf.addr + offs - bus, beats |-> beats]
               /\ Store([i \in places |-> IF i \in offs .. offs + n - 1 THEN Byte(i) ELSE Zero])
               /\ Sent(n)
     \/ offs >= Len(bf.data) /\ Loaded /\ UNCHANGED <<burst, mem>>
  /\ UNCHANGED <<given, reader, bf, sberr, start>>

\* get_entry; after memh, jtag_elf_run_no_preload reads the file again if the
\* entry point is 0.
Entry ==
  /\ pc = "entry"
  /\ IF Memh /\ entry = 0 THEN ReadElf("launched") ELSE pc' = "launched" /\ UNCHANGED reader
  /\ start' = IF pc' = "launched" THEN entry' ELSE start
  /\ UNCHANGED <<given, bf, offs, sberr, burst, mem>>

Next == Read \/ Fetch \/ FetchEnd \/ UartLoad \/ JtagError \/ JtagLoad \/ MemhLoad \/ SlinkLoad \/ Entry

Spec == Init /\ [][Next]_vars

-----------------------------------------------------------------------------

TypeOK ==
  /\ file \in Files /\ method \in Methods
  /\ pc \in {"read", "fetch", "load", "entry", "launched", "fatal", "abort"}
  /\ section_index \in 0 .. Len(sections)
  /\ \A i \in DOMAIN sections : sections[i].addr \in DOMAIN mems
  /\ sberr \in BOOLEAN

\* A file as linkers write them: headers in ascending order of address, without
\* overlap, and (what the JTAG task asks for) sections that start on bus words.
Orderly ==
  /\ \A s \in DOMAIN file.segs : file.segs[s].filesz <= file.segs[s].memsz
  /\ \A s, t \in Loadable : s < t => file.segs[s].paddr + file.segs[s].memsz <= file.segs[t].paddr
  /\ \A s \in Loadable : file.segs[s].paddr % BusBytes = 0

Expected(p, s, a) == IF a - p.paddr < p.filesz THEN <<s, a - p.paddr>> ELSE Zero

\* Sections memh_elf_preload does not load.
Skipped(p) == UseDramSys /\ InDram(p.paddr, p.memsz)

\* A program of an orderly file that is launched is in memory, zeros of its data
\* sections included, and starts at its entry point: what one write pads with
\* zeros is written later or belongs to nobody, whatever the lengths are.  Only
\* the sections in DRAM that memh_elf_preload skips under DRAMSys may be missing.
ImageLoaded ==
  pc = "launched" /\ file.phtab /\ Orderly =>
    /\ start = file.entry
    /\ \A s \in Loadable : ~Skipped(file.segs[s]) =>
         \A a \in Extent(file.segs[s]) : mem[a] = Expected(file.segs[s], s, a)

Down(a) == a - (a % BusBytes)

\* The bytes a section may touch: its own; over the serial link, the rest of its
\* first and last word; over JTAG, the word its end is in or touches.
Touched(p) ==
  CASE method = "uart"  -> Extent(p)
    [] method = "slink" -> Down(p.paddr) .. Down(p.paddr + p.memsz - 1) + BusBytes - 1
    [] OTHER            -> p.paddr .. Down(p.paddr + p.memsz) + BusBytes - 1

\* Preloading writes nothing else, however a section is cut into bursts or words.
OnlySections ==
  \A a \in Memory : mem[a] # Blank => \E s \in Loadable : a \in Touched(file.segs[s])

\* A serial link burst obeys AXI: it has 1 to 256 beats and stays in its page,
\* also when its section starts in the middle of a word.
BurstsLegal ==
  /\ burst.beats \in 1 .. 256
  /\ burst.addr \div Page = (burst.addr + burst.beats * BusBytes - 1) \div Page
=============================================================================
