------------------------------ MODULE SmpBoot -------------------------------
(***************************************************************************)
(* The multi-hart boot handshake of the Cheshire boot ROM: smp_pause and   *)
(* smp_resume (sw/include/smp.h) as used by _start and boot_next_stage     *)
(* (hw/bootrom/cheshire_bootrom.S).                                        *)
(*                                                                         *)
(* Every hart comes out of reset in smp_pause.  The non-SMP hart goes on   *)
(* to main, all others wait in the wfi loop in the middle of smp_resume.   *)
(* When main calls boot_next_stage, the non-SMP hart stores the boot       *)
(* address in SCRATCH[4..5], fences, raises the CLINT software interrupt   *)
(* of every hart in turn (its own included) and joins the others in the    *)
(* wait loop.  A woken hart clears its own MSIP word, waits until it has   *)
(* read zero from every MSIP word in turn, loads the address and jumps.    *)
(*                                                                         *)
(* One action is one access to a shared device.  Stores of one hart reach  *)
(* one device in program order, but a store to the SCRATCH registers may   *)
(* still be in flight while the hart goes on: `posted' holds such stores   *)
(* until they land, and fence waits for it to drain.  wfi may also return  *)
(* without an interrupt, as the RISC-V specification allows.               *)
(***************************************************************************)
EXTENDS Integers

CONSTANTS NumHarts,    \* regs.NUM_INT_HARTS
          NonSmpHart,  \* NONSMP_HART
          Word,        \* the values of a 32-bit half of a boot address
          None         \* no value

Hart == 0 .. NumHarts - 1

ASSUME NumHartsAssumption == NumHarts \in Nat \ {0}
ASSUME NonSmpHartAssumption == NonSmpHart \in Hart
ASSUME WordAssumption == 0 \in Word /\ None \notin Word /\ None \notin Word \X Word

\* SCRATCH[4] holds the low half of the boot address, SCRATCH[5] the high half.
Low == 4
High == 5
Half == {Low, High}

VARIABLES pc,       \* pc[h]: where hart h is in the boot ROM
          idx,      \* idx[h]: the MSIP word the loop of hart h is at
          msip,     \* msip[h]: the CLINT's MSIP word of hart h
          scratch,  \* SCRATCH[4..5]
          posted,   \* posted[i]: the store to SCRATCH[i] still in flight, or None
          entry,    \* boot_next_stage's argument, <<high, low>>
          upper,    \* upper[h]: the register of hart h for the high half, reset to 0
          entered   \* entered[h]: the address hart h jumped to

vars == <<pc, idx, msip, scratch, posted, entry, upper, entered>>

\* Program counter values: in smp_pause; in main; storing SCRATCH[5]; at the
\* fence; in the loop that sets MSIP; at wfi; at the read of mip; at the store
\* that clears MSIP; in the loop that reads MSIP; at the two loads of the boot
\* address; in the next stage.
PC == {"pause", "main", "store", "fence", "raise",
       "wfi", "mip", "clear", "scan", "load_high", "load_low", "next"}

Parked   == {"pause", "main", "store", "fence", "raise", "wfi", "mip", "clear"}
Released == {"load_high", "load_low", "next"}

TypeOK ==
  /\ pc \in [Hart -> PC]
  /\ idx \in [Hart -> Hart]
  /\ msip \in [Hart -> {0, 1}]
  /\ scratch \in [Half -> Word]
  /\ posted \in [Half -> Word \cup {None}]
  /\ entry \in (Word \X Word) \cup {None}
  /\ upper \in [Hart -> Word]
  /\ entered \in [Hart -> (Word \X Word) \cup {None}]

Init ==
  /\ pc = [h \in Hart |-> "pause"]
  /\ idx = [h \in Hart |-> 0]
  /\ msip = [h \in Hart |-> 0]
  /\ scratch = [i \in Half |-> 0]
  /\ posted = [i \in Half |-> None]
  /\ entry = None
  /\ upper = [h \in Hart |-> 0]
  /\ entered = [h \in Hart |-> None]

GoTo(h, there) == pc' = [pc EXCEPT ![h] = there]

\* Mutant: a bound check that stops one word too early.
AtLastWordEarly(h) == idx[h] + 2 >= NumHarts

\* Both loops over the MSIP words end when the next word is past the last hart's.
AtLastWord(h) == idx[h] + 1 >= NumHarts

Advance(h, after) ==
  IF AtLastWord(h)
  THEN idx' = [idx EXCEPT ![h] = 0] /\ GoTo(h, after)
  ELSE idx' = [idx EXCEPT ![h] = idx[h] + 1] /\ UNCHANGED pc

\* smp_pause: enable the software interrupt, keep only the non-SMP hart going.
Pause(h) ==
  /\ pc[h] = "pause"
  /\ GoTo(h, IF h = NonSmpHart THEN "main" ELSE "wfi")
  /\ UNCHANGED <<idx, msip, scratch, posted, entry, upper, entered>>

\* main calls boot_next_stage(a), which issues the store to SCRATCH[4].
BootNextStage(h, a) ==
  /\ pc[h] = "main"
  /\ entry' = a
  /\ posted' = [posted EXCEPT ![Low] = a[2]]
  /\ GoTo(h, "store")
  /\ UNCHANGED <<idx, msip, scratch, upper, entered>>

\* The store to SCRATCH[5].
StoreHigh(h) ==
  /\ pc[h] = "store"
  /\ posted' = [posted EXCEPT ![High] = entry[1]]
  /\ GoTo(h, "fence")
  /\ UNCHANGED <<idx, msip, scratch, entry, upper, entered>>

\* A store in flight reaches its SCRATCH register.
Land(i) ==
  /\ posted[i] # None
  /\ scratch' = [scratch EXCEPT ![i] = posted[i]]
  /\ posted' = [posted EXCEPT ![i] = None]
  /\ UNCHANGED <<pc, idx, msip, entry, upper, entered>>

\* Mutant: the fence is left out.
FencePassed(h) == TRUE
FenceDone(h) == \A i \in Half : posted[i] = None

Fence(h) ==
  /\ pc[h] = "fence"
  /\ FenceDone(h)
  /\ GoTo(h, "raise")
  /\ UNCHANGED <<idx, msip, scratch, posted, entry, upper, entered>>

\* The loop of smp_resume at label 1: set one MSIP word and advance.
Raise(h) ==
  /\ pc[h] = "raise"
  /\ msip' = [msip EXCEPT ![idx[h]] = 1]
  /\ Advance(h, "wfi")
  /\ UNCHANGED <<scratch, posted, entry, upper, entered>>

\* wfi returns because the enabled software interrupt is pending ...
Wfi(h) ==
  /\ pc[h] = "wfi"
  /\ msip[h] = 1
  /\ GoTo(h, "mip")
  /\ UNCHANGED <<idx, msip, scratch, posted, entry, upper, entered>>

\* ... or for no reason.
SpuriousWakeup(h) ==
  /\ pc[h] = "wfi"
  /\ msip[h] = 0
  /\ GoTo(h, "mip")
  /\ UNCHANGED <<idx, msip, scratch, posted, entry, upper, entered>>

\* Mutant: the return from wfi is taken for the interrupt.
MsipAssumed(h) == TRUE
MsipPending(h) == msip[h] = 1

\* Back to wfi unless mip shows the software interrupt.
ReadMip(h) ==
  /\ pc[h] = "mip"
  /\ GoTo(h, IF MsipPending(h) THEN "clear" ELSE "wfi")
  /\ UNCHANGED <<idx, msip, scratch, posted, entry, upper, entered>>

ClearMsip(h) ==
  /\ pc[h] = "clear"
  /\ msip' = [msip EXCEPT ![h] = 0]
  /\ GoTo(h, "scan")
  /\ UNCHANGED <<idx, scratch, posted, entry, upper, entered>>

\* Mutant: the scan does not wait for the words it reads.
WordIgnored(h) == TRUE
WordIsClear(h) == msip[idx[h]] = 0

\* The loop of smp_resume at label 3: advance past a word that reads zero.
Scan(h) ==
  /\ pc[h] = "scan"
  /\ WordIsClear(h)
  /\ Advance(h, "load_high")
  /\ UNCHANGED <<msip, scratch, posted, entry, upper, entered>>

LoadHigh(h) ==
  /\ pc[h] = "load_high"
  /\ upper' = [upper EXCEPT ![h] = scratch[High]]
  /\ GoTo(h, "load_low")
  /\ UNCHANGED <<idx, msip, scratch, posted, entry, entered>>

\* Mutant: the halves are put together the wrong way round.
BootAddressSwapped(h) == <<scratch[Low], upper[h]>>
BootAddress(h) == <<upper[h], scratch[Low]>>

\* Load the low half, assemble the address and jump to it.
LoadLowAndJump(h) ==
  /\ pc[h] = "load_low"
  /\ entered' = [entered EXCEPT ![h] = BootAddress(h)]
  /\ GoTo(h, "next")
  /\ UNCHANGED <<idx, msip, scratch, posted, entry, upper>>

\* The steps of hart h that it takes without being asked to.
Step(h) ==
  \/ Pause(h) \/ StoreHigh(h) \/ Fence(h) \/ Raise(h) \/ Wfi(h) \/ ReadMip(h)
  \/ ClearMsip(h) \/ Scan(h) \/ LoadHigh(h) \/ LoadLowAndJump(h)

Next ==
  \/ \E h \in Hart : Step(h) \/ SpuriousWakeup(h)
  \/ \E h \in Hart, a \in Word \X Word : BootNextStage(h, a)
  \/ \E i \in Half : Land(i)

Spec == Init /\ [][Next]_vars

\* Harts keep executing and stores arrive; nothing obliges main to call
\* boot_next_stage, nor wfi to return early.
Fairness ==
  /\ \A h \in Hart : WF_vars(Step(h))
  /\ \A i \in Half : WF_vars(Land(i))

FairSpec == Spec /\ Fairness

-----------------------------------------------------------------------------

\* No hart loads the boot address before every hart has left the wait loop:
\* smp_resume is a barrier, although it is built from one-way flags that each
\* hart clears for itself.  Holds when the non-SMP hart is the first in the
\* order in which MSIP words are set and read.
Barrier ==
  (\E h \in Hart : pc[h] \in Released) => \A k \in Hart : pc[k] \notin Parked

\* A hart that jumps jumps to the address boot_next_stage was called with,
\* never to a mix of a new and an old half.
EntersAtBootAddress ==
  \A h \in Hart : pc[h] = "next" => entered[h] = entry

\* The barrier is used up exactly once: when every hart has passed, no software
\* interrupt is left pending for the next stage to trip over.
NoStaleInterrupt ==
  (\A h \in Hart : pc[h] \notin Parked) => \A h \in Hart : msip[h] = 0

\* Once main calls boot_next_stage every hart reaches the next stage: no wakeup
\* is lost and no hart waits for a word that stays set.
EveryHartBoots ==
  entry # None ~> \A h \in Hart : pc[h] = "next"

-----------------------------------------------------------------------------

\* The abstract barrier: a hart is awake once it has cleared its MSIP word.
AbsPhase ==
  [h \in Hart |-> IF pc[h] \in Parked THEN "parked"
                  ELSE IF pc[h] = "next" THEN "booted" ELSE "awake"]

Abs == INSTANCE SmpBarrier WITH Address <- Word \X Word, phase <- AbsPhase,
                                address <- entry

\* The handshake implements the abstract barrier.
ImplementsBarrier == Abs!Spec
=============================================================================
