----------------------------- MODULE FlashTool ------------------------------
(***************************************************************************)
(* The boot disk flasher (sw/boot/flash.c): main takes its arguments from  *)
(* the scratch registers and hands them to one of three drivers.  The NOR  *)
(* flash driver is NorFlash, step by step.  Of the SD card driver SdCard   *)
(* says that it writes all it is given or fails.  The EEPROM driver        *)
(* returns 0 without having written what it was given (I2cEeprom), so that *)
(* nothing is said of that disk here.  The tool may be invoked repeatedly, *)
(* and the disk is read in between, as the boot ROM and the loader read it.*)
(***************************************************************************)
EXTENDS NorFlash

CONSTANTS Segments, \* segments to be flashed: [first, len], in sectors
          Reads,    \* reads of the NOR flash: [first, len], in pages
          MaxCalls  \* bound: invocations and reads

ASSUME CallsAssumption ==
  /\ Segments \subseteq [first : Nat, len : Nat \ {0}]
  /\ \A s \in Segments : s.first + s.len <= Sectors
  /\ Reads \subseteq [first : Nat, len : Nat \ {0}]
  /\ \A r \in Reads : r.first + r.len <= Sectors * SectorPages
  /\ MaxCalls \in Nat \ {0}

VARIABLES pc,      \* "off", "main", "flash", "boot" or "exit"
          scratch, \* the scratch registers 0, 2 and 3: [target, first, len]
          calls,   \* invocations and reads so far
          status,  \* what main returns
          written  \* what this call wrote to the SD card: [to, bytes], or None

vars == <<pc, scratch, calls, status, written, norVars>>

KiB == 1024
SectorBytes == 256 * KiB

Init ==
  /\ NorInit
  /\ pc = "off" /\ calls = 0
  /\ scratch = [target |-> 0, first |-> 0, len |-> 0]
  /\ status = None /\ written = None

\* The tool is preloaded and started with its arguments.
Invoke ==
  /\ pc \in {"off", "exit"} /\ calls < MaxCalls
  /\ \E t \in 0 .. 4, s \in Segments :
       scratch' = [target |-> t, first |-> s.first, len |-> s.len]
  /\ pc' = "main" /\ calls' = calls + 1
  /\ status' = None /\ written' = None
  /\ UNCHANGED norVars

Exit(r) == pc' = "exit" /\ status' = r

\* flash_spi_sdcard gives the card's blocks of 512 bytes, 2^9 to a sector.
SdBlocks(sectors) == sectors * 2^9

\* The bytes spi_sdcard_write_blocks is handed.
Handed == [to |-> SdBlocks(scratch.first) * 512, bytes |-> SdBlocks(scratch.len) * 512]

\* It returns 0 only when they are all stored (WriteExact of SdCard).
FlashSdCard ==
  /\ pc = "main" /\ scratch.target = 1
  /\ \/ Exit("ok") /\ written' = Handed
     \/ Exit("error") /\ UNCHANGED written
  /\ UNCHANGED <<scratch, calls, norVars>>

\* flash_i2c_24fc1025 hands 128 KiB to a driver whose return says nothing of what
\* the EEPROM holds (see I2cEeprom).
FlashEeprom ==
  /\ pc = "main" /\ scratch.target = 3
  /\ \E r \in {"ok", "error"} : Exit(r)
  /\ UNCHANGED <<scratch, calls, written, norVars>>

\* Any other target.
NoDisk ==
  /\ pc = "main" /\ scratch.target \notin {1, 2, 3}
  /\ Exit("error")
  /\ UNCHANGED <<scratch, calls, written, norVars>>

FlashNor ==
  /\ pc = "main" /\ scratch.target = 2 /\ pc' = "flash"
  /\ NorCall([read |-> FALSE, first |-> scratch.first, len |-> scratch.len])
  /\ UNCHANGED <<scratch, calls, status, written>>

FlashNorReturns ==
  /\ pc = "flash" /\ step = "idle"
  /\ Exit(ret)
  /\ UNCHANGED <<scratch, calls, written, norVars>>

\* Somebody reads the NOR flash.
BootRead ==
  /\ pc \in {"off", "exit"} /\ calls < MaxCalls
  /\ \E r \in Reads : NorCall([read |-> TRUE, first |-> r.first, len |-> r.len])
  /\ pc' = "boot" /\ calls' = calls + 1
  /\ UNCHANGED <<scratch, status, written>>

BootReadReturns ==
  /\ pc = "boot" /\ step = "idle"
  /\ pc' = "off"
  /\ UNCHANGED <<scratch, calls, status, written, norVars>>

Nor == NorStep /\ UNCHANGED <<pc, scratch, calls, status, written>>

Progress ==
  FlashSdCard \/ FlashEeprom \/ NoDisk \/ FlashNor \/ FlashNorReturns \/ BootReadReturns
  \/ (Driver /\ UNCHANGED <<pc, scratch, calls, status, written>>)

Next == Invoke \/ BootRead \/ Nor \/ FlashSdCard \/ FlashEeprom \/ NoDisk \/ FlashNor
        \/ FlashNorReturns \/ BootReadReturns

Spec == Init /\ [][Next]_vars

\* Software runs, and an operation of the flash ends.
FairSpec ==
  Spec /\ WF_vars(Progress)
       /\ WF_vars(FlashEnds /\ UNCHANGED <<pc, scratch, calls, status, written>>)

-----------------------------------------------------------------------------

TypeOK ==
  /\ pc \in {"off", "main", "flash", "boot", "exit"}
  /\ scratch \in [target : 0 .. 4, first : 0 .. Sectors, len : 0 .. Sectors]
  /\ calls \in 0 .. MaxCalls
  /\ status \in {"ok", "error", None} /\ ret \in {"ok", "error", None}
  /\ step \in Operations \cup {"idle", "init", "read"}
  /\ part \in {"enable", "command", "poll"}
  /\ call \in [read : BOOLEAN, first : Nat, len : Nat]
  /\ at \in 0 .. SectorPages + ReadPages + Sectors * SectorPages /\ sect \in 0 .. Sectors
  /\ buf \in [0 .. (IF call.read THEN call.len ELSE 0) - 1 -> Content]
  /\ blank \in BOOLEAN /\ trouble \in BOOLEAN
  /\ mem \in [Pages -> Content]
  /\ dev \in [wel : BOOLEAN, op : Operation \cup {None}, err : BOOLEAN, mode4b : BOOLEAN,
               long : BOOLEAN, top : BOOLEAN, uniform : BOOLEAN]

\* For an SD card or the NOR flash, the tool returns 0 only when the segment it was
\* given is on the disk, where it belongs: on the SD card by bytes, as its driver
\* stores all it is handed; on the NOR flash page by page, whatever sectors,
\* configuration and small sectors were like before, if sector erases cover a sector
\* or there was nothing to erase.  For a disk the tool does not know it never
\* returns 0.  Of the EEPROM, for which it does not hold, it says nothing.
ZeroMeansWritten ==
  pc = "exit" /\ status = "ok" /\ scratch.target # 3 =>
    CASE scratch.target = 1 -> written = [to |-> scratch.first * SectorBytes,
                                          bytes |-> scratch.len * SectorBytes]
      [] scratch.target = 2 -> Done /\ ~call.read /\ (dev.long \/ blank => Written)
      [] OTHER -> FALSE

\* Once started, the tool returns: poll_wip ends if the flash's operations do,
\* with or without an error bit.
Returns == [](pc \in {"main", "flash", "boot"} => <>(pc \in {"exit", "off"}))
=============================================================================
