------------------------------ MODULE AutoBoot ------------------------------
(***************************************************************************)
(* Autonomous boot from a disk: the boot modes of main (hw/bootrom/        *)
(* cheshire_bootrom.c) that initialise a storage driver and call           *)
(* gpt_boot_part_else_raw (sw/lib/gpt.c), and the zero-stage loader        *)
(* (sw/boot/zsl.c) that the boot ROM starts this way and that searches the *)
(* same disk with the same gpt_find_partition for the device tree and the  *)
(* firmware.                                                               *)
(*                                                                         *)
(* One action is one call of the driver's read function, which returns the *)
(* data or an error, whenever it likes.  Addresses and lengths are counted *)
(* in 512-byte blocks and wrap at Lbas as the code's uint64_t do at 2^64.  *)
(***************************************************************************)
EXTENDS Integers, Sequences, FiniteSetsExt

CONSTANTS Disks,    \* the disks: [sig, parts], parts a sequence of [begin, end, type]
          MaxLbas,  \* MaxLbas[s]: most blocks stage s may load
          Lbas      \* how many block numbers there are

Stage == {"rom", "dtb", "fw"}
Type == {"zsl", "dtb", "fw", "other"}
Lba == 0 .. Lbas - 1
Part == [begin : Lba, end : Lba, type : Type]

ASSUME LbasAssumption == Lbas \in Nat \ {0}
ASSUME MaxLbasAssumption == MaxLbas \in [Stage -> Lba \ {0}]
ASSUME DisksAssumption == \A d \in Disks : d.sig \in BOOLEAN /\ d.parts \in Seq(Part)

VARIABLES disk,   \* the disk
          pc,     \* where the boot flow is
          stage,  \* what is being loaded: the boot ROM's code, the device tree, the firmware
          gpt,    \* what gpt_check_signature returned
          p,      \* the index of the partition entry
          dim,    \* the last entry read
          range,  \* lba_begin and lba_end
          partIdx, \* part_idx
          mem,    \* mem[s]: the blocks loaded for stage s
          flag    \* bit 0 of SCRATCH[0]: a read function is handed over

vars == <<disk, pc, stage, gpt, p, dim, range, partIdx, mem, flag>>
search == <<p, dim, range, partIdx>>

NotLoaded == [ok |-> FALSE, begin |-> 0, len |-> 0]
Blocks(b, n) == [ok |-> TRUE, begin |-> b, len |-> n]
NoPart == [begin |-> 0, end |-> 0, type |-> "other"]

\* The flow begins in main after reset, or in a ZSL that was preloaded.
Init ==
  /\ disk \in Disks
  /\ pc \in {"init", "zsl"}
  /\ stage = IF pc = "init" THEN "rom" ELSE "dtb"
  /\ gpt = FALSE
  /\ p = 0 /\ dim = NoPart
  /\ range = [begin |-> 0, end |-> 0]
  /\ partIdx = -1
  /\ mem = [s \in Stage |-> NotLoaded]
  /\ flag = FALSE

Count == Len(disk.parts)
Sub(a, b) == (a - b) % Lbas
Add(a, b) == (a + b) % Lbas

At(from, to) == pc = from /\ pc' = to

\* Initialise the driver, which may fail; main returns its error code.
DriverInit ==
  /\ At("init", "signature") \/ At("init", "exit")
  /\ UNCHANGED <<disk, stage, gpt, search, mem, flag>>

\* gpt_boot_part_else_raw: the whole buffer by default, the partition search if
\* there is a signature.  A read error counts as no signature.
CheckSignature ==
  /\ pc = "signature"
  /\ range' = [begin |-> 0, end |-> MaxLbas[stage] - 1]
  /\ \E ok \in BOOLEAN : gpt' = (ok /\ disk.sig)
  /\ pc' = IF gpt' THEN "header" ELSE "load"
  /\ UNCHANGED <<disk, stage, p, dim, partIdx, mem, flag>>

\* gpt_find_partition returns a read error; the boot ROM returns it, too, the
\* ZSL reports it and stops.
ReadFails ==
  /\ pc \in {"header", "entry", "guid"}
  /\ pc = "entry" => p < Count
  /\ pc' = IF stage = "rom" THEN "exit" ELSE "spin"
  /\ UNCHANGED <<disk, stage, gpt, search, mem, flag>>

ReadHeader ==
  /\ At("header", "entry")
  /\ p' = 0
  /\ UNCHANGED <<disk, stage, gpt, dim, range, partIdx, mem, flag>>

\* Mutant: the limit itself is let through.
TooLargeLate(e) == Sub(e.end, e.begin) > MaxLbas[stage]
TooLarge(e) == Sub(e.end, e.begin) >= MaxLbas[stage]

\* Mutant: the first entry is not recorded when it is too large.
FallbackFitting(e) == IF TooLarge(e) THEN range ELSE [begin |-> e.begin, end |-> e.end]
\* The first entry, cut to the size of the buffer.
Fallback(e) ==
  [begin |-> e.begin, end |-> Min({e.end, Add(e.begin, MaxLbas[stage] - 1)})]

NextEntry == p + 1

ReadEntry ==
  /\ pc = "entry" /\ p < Count
  /\ dim' = disk.parts[p + 1]
  /\ range' = IF p = 0 THEN Fallback(dim') ELSE range
  /\ IF TooLarge(dim')
     THEN p' = NextEntry /\ UNCHANGED pc
     ELSE pc' = "guid" /\ UNCHANGED p
  /\ UNCHANGED <<disk, stage, gpt, partIdx, mem, flag>>

Wanted == IF stage = "rom" THEN "zsl" ELSE stage
\* Mutant: any partition that is not foreign matches.
MatchesAny == dim.type # "other"
Matches == dim.type = Wanted

\* The first match ends the loop and overwrites the fallback range.
ReadTypeGuid ==
  /\ pc = "guid"
  /\ IF Matches
     THEN /\ pc' = "load"
          /\ partIdx' = p
          /\ range' = [begin |-> dim.begin, end |-> dim.end]
          /\ UNCHANGED p
     ELSE /\ pc' = "entry" /\ p' = NextEntry
          /\ UNCHANGED <<partIdx, range>>
  /\ UNCHANGED <<disk, stage, gpt, dim, mem, flag>>

\* The loop ends without a match: the boot ROM takes the fallback, the ZSL stops.
NoPartition ==
  /\ pc = "entry" /\ p = Count
  /\ partIdx' = -1
  /\ pc' = IF stage = "rom" THEN "load" ELSE "spin"
  /\ UNCHANGED <<disk, stage, gpt, p, dim, range, mem, flag>>

\* Mutant: the end is taken to be past the last block.
LengthExclusive == Sub(range.end, range.begin)
Length == Add(Sub(range.end, range.begin), 1)

\* The boot ROM copies the blocks, hands over the read function in SCRATCH[0],
\* SCRATCH[1], SCRATCH[3] and boots; or returns the read error.
LoadRom ==
  /\ pc = "load" /\ stage = "rom"
  /\ \/ /\ pc' = "boot"
        /\ mem' = [mem EXCEPT ![stage] = Blocks(range.begin, Length)]
        /\ flag' = TRUE
     \/ pc' = "exit" /\ UNCHANGED <<mem, flag>>
  /\ UNCHANGED <<disk, stage, gpt, search>>

\* What was loaded runs: a ZSL if it came from a ZSL partition; raw code may be
\* one, too; otherwise some other program, which ends this model.
BootNextStage ==
  /\ pc = "boot"
  /\ \/ (partIdx >= 0 \/ ~gpt) /\ pc' = "zsl" /\ stage' = "dtb"
     \/ partIdx < 0 /\ pc' = "other" /\ UNCHANGED stage
  /\ UNCHANGED <<disk, gpt, search, mem, flag>>

\* main of the ZSL: search the disk if SCRATCH[0] says there is one.
ZslStart ==
  /\ At("zsl", IF flag THEN "header" ELSE "launched")
  /\ partIdx' = -1
  /\ UNCHANGED <<disk, stage, gpt, p, dim, range, mem, flag>>

\* load_part_or_spin: copy the blocks; what the read returns is not looked at.
LoadZsl ==
  /\ pc = "load" /\ stage # "rom"
  /\ \/ mem' = [mem EXCEPT ![stage] = Blocks(range.begin, Length)]
     \/ UNCHANGED mem
  /\ IF stage = "dtb"
     THEN pc' = "header" /\ stage' = "fw" /\ partIdx' = -1
     ELSE pc' = "launched" /\ UNCHANGED <<stage, partIdx>>
  /\ UNCHANGED <<disk, gpt, p, dim, range, flag>>

Next ==
  \/ DriverInit \/ CheckSignature \/ ReadFails \/ ReadHeader \/ ReadEntry \/ ReadTypeGuid
  \/ NoPartition \/ LoadRom \/ BootNextStage \/ ZslStart \/ LoadZsl

Spec == Init /\ [][Next]_vars

-----------------------------------------------------------------------------
(* What the flow should do, defined on the whole disk at once. *)

\* A range in order, with room above it: what partitioning tools write.
WellFormed(e, s) == e.begin <= e.end /\ e.begin + MaxLbas[s] <= Lbas

PartLen(e) == e.end - e.begin + 1
TypeFor(s) == IF s = "rom" THEN "zsl" ELSE s

\* The indices of the partitions that stage s may load.
Candidates(s) ==
  {i \in 1 .. Count : disk.parts[i].type = TypeFor(s) /\ PartLen(disk.parts[i]) <= MaxLbas[s]}

First(s) == LET e == disk.parts[Min(Candidates(s))] IN Blocks(e.begin, PartLen(e))

RomReference ==
  IF ~gpt \/ Count = 0 THEN Blocks(0, MaxLbas["rom"])
  ELSE IF Candidates("rom") # {} THEN First("rom")
  ELSE LET e == disk.parts[1] IN Blocks(e.begin, Min({PartLen(e), MaxLbas["rom"]}))

Tidy == \A s \in Stage, i \in 1 .. Count : WellFormed(disk.parts[i], s)

TypeOK ==
  /\ disk \in Disks
  /\ pc \in {"init", "signature", "header", "entry", "guid", "load", "boot", "zsl",
             "exit", "spin", "other", "launched"}
  /\ stage \in Stage
  /\ gpt \in BOOLEAN /\ flag \in BOOLEAN
  /\ p \in 0 .. Count
  /\ dim \in Part
  /\ range \in [begin : Lba, end : Lba]
  /\ partIdx \in -1 .. Count - 1
  /\ mem \in [Stage -> [ok : BOOLEAN, begin : Lba, len : Lba]]

\* The boot ROM runs the first ZSL partition that fits, else the start of the
\* first partition, else the start of the disk; read errors never make it take
\* another partition.
RomBootsReference == mem["rom"].ok /\ Tidy => mem["rom"] = RomReference

\* The boot ROM has loaded a partition that its search matched.
LoadedMatch == pc = "boot" /\ partIdx >= 0

\* What the search selects fits the buffer, even on a disk whose entries are
\* out of order (for the boot ROM, as long as partIdx still tells that it
\* matched); what the boot ROM falls back to fits on a tidy disk.
SelectionFits ==
  \A s \in Stage :
    mem[s].ok /\ (Tidy \/ s # "rom" \/ ~gpt \/ LoadedMatch) => mem[s].len <= MaxLbas[s]

\* The firmware is started only when the search found a device tree and a
\* firmware partition, and what was read came from the first of each that fits.
FirmwareFromDisk ==
  pc = "launched" /\ flag /\ Tidy =>
    \A s \in {"dtb", "fw"} : Candidates(s) # {} /\ (mem[s].ok => mem[s] = First(s))

\* sw.md: an autonomously booted ZSL loads device tree and firmware from the
\* disk before it invokes the firmware.
LaunchesLoaded == pc = "launched" /\ flag => \A s \in {"dtb", "fw"} : mem[s].ok
=============================================================================
