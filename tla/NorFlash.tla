------------------------------ MODULE NorFlash ------------------------------
(***************************************************************************)
(* The driver of the S25FS512S NOR flash (sw/lib/hal/spi_s25fs512s.c):     *)
(* reads in chunks of the receive FIFO; flashing enters 4-byte addressing, *)
(* configures the erase size, and for each 256 KiB sector erases the small *)
(* sectors that may overlay it, then the sector, and programs its pages.   *)
(* Every such operation is write enable, command, poll of WIP.             *)
(*                                                                         *)
(* The flash is external: a command that finds it busy or not enabled is   *)
(* ignored; erasing and programming take time and may fail, which leaves   *)
(* an error bit; programming only clears bits; CR3V decides whether a      *)
(* sector erase covers the whole sector or a part, and whether there are   *)
(* small sectors at one end of the array, which it leaves out.             *)
(*                                                                         *)
(* The unit of memory is the page of 256 bytes.  Its content is Erased,    *)
(* the number of the buffer's page it was programmed with, Old, or Mixed.  *)
(***************************************************************************)
EXTENDS Integers, Sequences

CONSTANTS Sectors,     \* sectors of the device
          SectorPages, \* pages of a 256 KiB sector
          ShortPages,  \* pages of a 64 KiB erase
          SmallPages,  \* pages of a 4 KiB sector
          NumSmall,    \* small sectors: 8
          Cycle,       \* the driver expects small sectors around multiples of Cycle sectors
          ReadPages,   \* what the receive FIFO holds
          Handles,     \* the handles considered: [freq, csid, core]
          NumCs,       \* SPI_HOST_PARAM_NUM_C_S
          None

ASSUME SizesAssumption ==
  /\ {Sectors, SectorPages, ShortPages, SmallPages, NumSmall, Cycle, ReadPages} \subseteq Nat \ {0}
  /\ SectorPages % ShortPages = 0 /\ ShortPages % SmallPages = 0
  /\ NumSmall * SmallPages <= ShortPages
  \* The array begins and ends where the driver looks for small sectors.
  /\ Cycle > 1 /\ Sectors % Cycle = 0

Erased == 0
Old == -1
Mixed == -2
Pages == 0 .. Sectors * SectorPages - 1
Content == {Erased, Old, Mixed} \cup 1 .. Sectors * SectorPages

\* What the flash can be busy with.
Operation == [kind : {"config", "small", "erase", "program"}, at : Pages, data : Content]

ASSUME NoneAssumption == None \notin Operation

VARIABLES step,  \* "idle", or what is under way: "init", "read", "mode", "config",
                 \* "small", "erase" or "program"
          part,  \* of an operation: "enable", "command" or "poll"
          call,  \* the call: [read, first, len], in sectors or (read) in pages
          at,    \* pages of the sector, small sectors, or pages read, so far
          sect,  \* sectors flashed so far
          ret,   \* what the call returned: "ok", "error", or None
          buf,   \* the buffer of a read
          spi,   \* the handle and the core frequency (MHz)
          blank, \* the pages to be flashed were erased when the call was made
          trouble, \* a call has failed
          dev,   \* the flash: [wel, op, err, mode4b, long, top, uniform]
          mem    \* its contents

driverVars == <<step, part, call, at, sect, ret, buf, spi, blank, trouble>>
norVars == <<driverVars, dev, mem>>

\* A flash that is idle, as it was left by whoever used it before.
NorInit ==
  /\ step = "idle" /\ part = "enable"
  /\ call = [read |-> TRUE, first |-> 0, len |-> 0]
  /\ at = 0 /\ sect = 0 /\ ret = None
  /\ buf = <<>> /\ blank = FALSE /\ trouble = FALSE
  /\ spi \in Handles
  /\ \E long, top, uniform \in BOOLEAN :
       dev = [wel |-> FALSE, op |-> None, err |-> FALSE, mode4b |-> FALSE,
              long |-> long, top |-> top, uniform |-> uniform]
  /\ \E x \in {Erased, Old} : mem = [p \in Pages |-> x]

-----------------------------------------------------------------------------
(* The flash.  An operation under way is a record [kind, at, data].        *)

Op(kind, page, data) == [kind |-> kind, at |-> page, data |-> data]

Overlay ==
  IF dev.uniform THEN {}
  ELSE IF dev.top THEN {p \in Pages : p >= Sectors * SectorPages - NumSmall * SmallPages}
                  ELSE {p \in Pages : p < NumSmall * SmallPages}

Block(page, size) == {p \in Pages : p \div size = page \div size}

\* The pages an operation changes.
Affected(op) ==
  CASE op.kind = "small"   -> IF op.at \in Overlay THEN Block(op.at, SmallPages) ELSE {}
    [] op.kind = "erase"   -> Block(op.at, IF dev.long THEN SectorPages ELSE ShortPages) \ Overlay
    [] op.kind = "program" -> {op.at}
    [] OTHER               -> {}

After(op, p) ==
  IF op.kind # "program" THEN Erased ELSE IF mem[p] = Erased THEN op.data ELSE Mixed

\* A command is taken up if the flash is enabled and not busy.
Accepts == dev.wel /\ dev.op = None

\* The operation ends, well or with an error bit, and write enable is over.  The
\* data byte of the CR3V write is whatever is on the line.
FlashEnds ==
  /\ dev.op # None
  /\ \E err, long, uniform \in BOOLEAN :
       /\ dev.op.kind # "config" => long = dev.long /\ uniform = dev.uniform
       /\ dev' = [dev EXCEPT !.op = None, !.wel = FALSE, !.err = @ \/ err,
                             !.long = long, !.uniform = uniform]
       /\ mem' = [p \in Pages |-> IF p \notin Affected(dev.op) THEN mem[p]
                                  ELSE IF err THEN Mixed ELSE After(dev.op, p)]
  /\ UNCHANGED driverVars

-----------------------------------------------------------------------------
(* The driver. *)

Return(r) ==
  /\ step' = "idle" /\ ret' = r
  /\ trouble' = (trouble \/ r # "ok")
  /\ UNCHANGED <<part, call, at, sect, buf, spi, blank>>

Wanted(c) == {p \in Pages : p \div SectorPages \in c.first .. c.first + c.len - 1}

\* spi_s25fs512s_init and one of the two functions behind it are called.
NorCall(c) ==
  /\ step = "idle" /\ step' = "init"
  /\ call' = c /\ ret' = None
  /\ at' = 0 /\ sect' = 0
  /\ buf' = IF c.read THEN [i \in 0 .. c.len - 1 |-> Old] ELSE <<>>
  /\ blank' = (dev.op = None /\ \A p \in Wanted(c) : mem[p] = Erased)
  /\ UNCHANGED <<part, spi, trouble, dev, mem>>

\* The assertions of init and of the function called, in MHz.
Legal ==
  /\ spi.csid < NumCs
  /\ spi.freq # 0 /\ spi.freq <= spi.core
  /\ spi.freq < IF call.read THEN 50 ELSE 100

Setup ==
  /\ step = "init"
  /\ \/ /\ Legal
        /\ step' = (IF call.read THEN "read" ELSE "mode") /\ part' = "enable"
        /\ UNCHANGED <<call, at, sect, ret, buf, spi, blank, trouble>>
     \/ ~Legal /\ Return("error")
  /\ UNCHANGED <<dev, mem>>

\* Any call of the SPI host may fail.
GiveUp ==
  /\ step # "idle"
  /\ Return("error")
  /\ UNCHANGED <<dev, mem>>

Lesser(a, b) == IF a < b THEN a ELSE b

\* Mutant: a chunk is read to where the one before went.
BufferOffsetLate == IF at = 0 THEN 0 ELSE at - ReadPages
BufferOffset == at

\* spi_s25fs512s_single_read: the next chunk, or the return.  A busy flash
\* returns anything.
ReadChunk ==
  /\ step = "read"
  /\ \/ /\ at < call.len
        /\ buf' = [i \in DOMAIN buf |->
                     LET k == i - BufferOffset IN
                     IF k \notin 0 .. Lesser(ReadPages, call.len - at) - 1 THEN buf[i]
                     ELSE IF dev.op = None THEN mem[call.first + at + k] ELSE Mixed]
        /\ at' = at + ReadPages
        /\ UNCHANGED <<step, part, call, sect, ret, spi, blank, trouble>>
     \/ at >= call.len /\ Return("ok")
  /\ UNCHANGED <<dev, mem>>

Operations == {"mode", "config", "small", "erase", "program"}

\* __spi_s25fs512s_set_wen
SetWen ==
  /\ step \in Operations /\ part = "enable" /\ part' = "command"
  /\ dev' = [dev EXCEPT !.wel = @ \/ dev.op = None]
  /\ UNCHANGED <<step, call, at, sect, ret, buf, spi, blank, trouble, mem>>

\* Opcode 0xB7.
Enter4bMode ==
  /\ step = "mode" /\ part = "command"
  /\ dev' = [dev EXCEPT !.mode4b = @ \/ dev.op = None]
  /\ step' = "config" /\ part' = "enable"
  /\ UNCHANGED <<call, at, sect, ret, buf, spi, blank, trouble, mem>>

SectorPage == (call.first + sect) * SectorPages
Alignment(s) == (call.first + s) % Cycle

\* Mutant: the small sectors at the end are taken to be one.
SmallPageLast(i) ==
  SectorPage + i * SmallPages + (IF Alignment(sect) = Cycle - 1 THEN SectorPages - SmallPages ELSE 0)
SmallPage(i) ==
  SectorPage + i * SmallPages
  + (IF Alignment(sect) = Cycle - 1 THEN SectorPages - NumSmall * SmallPages ELSE 0)

\* Opcodes 0x71, 0x21, 0xDC and 0x12.
Requested ==
  CASE step = "config"  -> Op("config", 0, Erased)
    [] step = "small"   -> Op("small", SmallPage(at), Erased)
    [] step = "erase"   -> Op("erase", SectorPage, Erased)
    [] step = "program" -> Op("program", SectorPage + at, sect * SectorPages + at + 1)

Command ==
  /\ step \in Operations \ {"mode"} /\ part = "command" /\ part' = "poll"
  /\ dev' = IF Accepts THEN [dev EXCEPT !.op = Requested] ELSE dev
  /\ UNCHANGED <<step, call, at, sect, ret, buf, spi, blank, trouble, mem>>

\* Where the next operation begins. Mutant: a loop enables the flash once.
BeginsOnce(i) == IF i = 0 THEN "enable" ELSE "command"
Begins(i) == "enable"

Continue(s, i, n) ==
  /\ step' = s /\ at' = i /\ sect' = n /\ part' = Begins(i)
  /\ UNCHANGED <<call, ret, buf, spi, blank, trouble>>

\* Mutant: one sector too many.
MoreSectorsLate(n) == n <= call.len
MoreSectors(n) == n < call.len

\* __spi_s25fs512s_single_flash_sector for sector n of the call, if there is one.
StartSector(n) ==
  \/ /\ MoreSectors(n)
     /\ Continue(IF Alignment(n) \in {0, Cycle - 1} THEN "small" ELSE "erase", 0, n)
  \/ ~MoreSectors(n) /\ Return("ok")

AfterOperation ==
  \/ step = "config" /\ StartSector(0)
  \/ step = "small" /\ at + 1 < NumSmall /\ Continue("small", at + 1, sect)
  \/ step = "small" /\ at + 1 = NumSmall /\ Continue("erase", 0, sect)
  \/ step = "erase" /\ Continue("program", 0, sect)
  \/ step = "program" /\ at + 1 < SectorPages /\ Continue("program", at + 1, sect)
  \/ step = "program" /\ at + 1 = SectorPages /\ StartSector(sect + 1)

\* Mutant: the loop also waits for the error bits.
PollEndsClean == dev.op = None /\ ~dev.err
PollEnds == dev.op = None

\* __spi_s25fs512s_poll_wip: the read of the status that ends the loop; an error
\* bit makes it fail.
PollWip ==
  /\ part = "poll" /\ step \in Operations
  /\ PollEnds
  /\ \/ ~dev.err /\ AfterOperation
     \/ dev.err /\ Return("error")
  /\ UNCHANGED <<dev, mem>>

Driver ==
  Setup \/ ReadChunk \/ SetWen \/ Enter4bMode \/ Command \/ PollWip

NorStep == Driver \/ GiveUp \/ FlashEnds

-----------------------------------------------------------------------------

Done == step = "idle" /\ ret = "ok"

\* The flash holds what the call was to write.
Written == \A p \in Wanted(call) : mem[p] = p - call.first * SectorPages + 1

\* No command that changes the flash is lost: it is enabled, no longer busy, and
\* in the mode the command's address needs; unless a call before was broken off.
CommandsAccepted ==
  part = "command" /\ step \in Operations \ {"mode"} /\ ~trouble => Accepts /\ dev.mode4b

\* A read that reports success returns what the flash holds, chunk by chunk.
ReadExact ==
  Done /\ call.read /\ ~trouble => \A i \in DOMAIN buf : buf[i] = mem[call.first + i]

\* Pages outside the sectors of the call keep what they hold, even if it fails.
OthersUntouched ==
  [][~trouble => \A p \in Pages : mem'[p] # mem[p] => p \in Wanted(call)]_norVars
=============================================================================
