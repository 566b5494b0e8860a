--------------------------- MODULE SmpBootProofs ----------------------------
(***************************************************************************)
(* Proofs about SmpBoot for every number of harts: the type invariant, the *)
(* boot address every hart enters at (whichever hart is the non-SMP hart), *)
(* the barrier and the refinement of SmpBarrier (when the non-SMP hart is  *)
(* hart 0, the one whose MSIP word is set and read first).                 *)
(***************************************************************************)
EXTENDS SmpBoot, TLAPS

(***************************************************************************)
(* The inductive invariant.                                                *)
(***************************************************************************)

p == NonSmpHart

Before  == {"pause", "main", "store", "fence"}
Cleared == {"scan", "load_high", "load_low", "next"}

\* The non-SMP hart has set the MSIP word of hart h.
Raised(h) == \/ pc[p] \notin Before \cup {"raise"}
             \/ pc[p] = "raise" /\ h < idx[p]

\* Only the non-SMP hart executes main and the first half of boot_next_stage.
InvRole ==
  \A h \in Hart : pc[h] \in {"main", "store", "fence", "raise"} => h = p

\* A loop index is in use only inside a loop.
InvIdx == \A h \in Hart : pc[h] \notin {"raise", "scan"} => idx[h] = 0

\* An MSIP word is set from the moment the non-SMP hart sets it until its hart
\* clears it, and only a hart whose word was set gets past the wait loop.
InvMsip ==
  \A h \in Hart :
    /\ msip[h] = (IF Raised(h) /\ pc[h] \notin Cleared THEN 1 ELSE 0)
    /\ pc[h] \in {"clear"} \cup Cleared => Raised(h)

\* The hart at the second store has an argument to store.
InvArg == \A h \in Hart : pc[h] = "store" => entry # None

\* The last store to SCRATCH[i], in flight or landed, stored v.
Holds(i, v) == posted[i] = v \/ (posted[i] = None /\ scratch[i] = v)

\* The boot address is on its way, then published.
InvEntry ==
  /\ entry = None <=> pc[p] \in {"pause", "main"}
  /\ pc[p] \in {"pause", "main"} => \A i \in Half : posted[i] = None
  /\ pc[p] = "store" => posted[High] = None
  /\ pc[p] \notin {"pause", "main"} => Holds(Low, entry[2])
  /\ pc[p] \notin {"pause", "main", "store"} => Holds(High, entry[1])
  /\ pc[p] \notin Before => \A i \in Half : posted[i] = None

\* What a hart has loaded and where it has jumped.
InvLoads ==
  \A h \in Hart :
    /\ pc[h] = "load_low" => upper[h] = entry[1]
    /\ entered[h] = (IF pc[h] = "next" THEN entry ELSE None)

\* The parts that hold whichever hart is the non-SMP hart.
HandshakeInv == InvRole /\ InvIdx /\ InvMsip
AddressInv == InvEntry /\ InvLoads

\* The words a hart has scanned belong to harts that have cleared them.  This
\* part needs the non-SMP hart to be hart 0: a hart that reads MSIP[0] = 0 then
\* knows that hart 0, and so the loop that sets the words, is done.
ScanInv ==
  \A h, k \in Hart :
    /\ pc[h] = "scan" /\ k < idx[h] => pc[k] \in Cleared
    /\ pc[h] \in Released => pc[k] \in Cleared

-----------------------------------------------------------------------------

\* Harts are numbered from 0, and the non-SMP hart is one of them.
LEMMA HartFacts ==
  /\ \A h \in Hart : h \in Int /\ 0 <= h /\ h < NumHarts
  /\ \A i \in Int : 0 <= i /\ i < NumHarts => i \in Hart
  /\ 0 \in Hart /\ p \in Hart /\ NumHarts \in Int
BY NumHartsAssumption, NonSmpHartAssumption DEF Hart, p

\* Words and boot addresses are never confused with the absence of one.
LEMMA WordFacts ==
  /\ Half = {Low, High} /\ Low # High
  /\ 0 \in Word /\ None \notin Word /\ None \notin Word \X Word
BY WordAssumption DEF Half, Low, High

\* What one turn of a loop over the MSIP words does to the hart that takes it.
LEMMA AdvanceEffect ==
  ASSUME pc \in [Hart -> PC], idx \in [Hart -> Hart],
         NEW h \in Hart, NEW after \in PC, Advance(h, after)
  PROVE  /\ idx' \in [Hart -> Hart]
         /\ pc' \in [Hart -> PC]
         /\ \A k \in Hart : k # h => idx'[k] = idx[k] /\ pc'[k] = pc[k]
         /\ \/ /\ idx[h] = NumHarts - 1 /\ idx'[h] = 0 /\ pc'[h] = after
            \/ /\ idx[h] < NumHarts - 1 /\ idx'[h] = idx[h] + 1 /\ pc'[h] = pc[h]
<1>1. CASE AtLastWord(h)
  <2>1. idx' = [idx EXCEPT ![h] = 0] /\ pc' = [pc EXCEPT ![h] = after]
    BY <1>1 DEF Advance, GoTo
  <2>2. idx[h] = NumHarts - 1 /\ 0 \in Hart
    BY <1>1, HartFacts DEF AtLastWord
  <2>3. QED
    BY <2>1, <2>2
<1>2. CASE ~AtLastWord(h)
  <2>1. idx' = [idx EXCEPT ![h] = idx[h] + 1] /\ pc' = pc
    BY <1>2 DEF Advance
  <2>2. idx[h] < NumHarts - 1 /\ idx[h] + 1 \in Hart
    BY <1>2, HartFacts DEF AtLastWord
  <2>3. QED
    BY <2>1, <2>2
<1>3. QED
  BY <1>1, <1>2

\* Types, and the bound of the loops over the MSIP words, survive every step.
LEMMA TypeStep == TypeOK /\ InvArg /\ [Next]_vars => (TypeOK /\ InvArg)'
<1> SUFFICES ASSUME TypeOK, InvArg, [Next]_vars PROVE (TypeOK /\ InvArg)'
  OBVIOUS
<1>1. ASSUME NEW h \in Hart, Pause(h)
      PROVE  (TypeOK /\ InvArg)'
  BY <1>1 DEF Pause, GoTo, p, TypeOK, InvArg, PC
<1>2. ASSUME NEW h \in Hart, StoreHigh(h)
      PROVE  (TypeOK /\ InvArg)'
  BY <1>2, WordFacts DEF StoreHigh, GoTo, TypeOK, InvArg, PC
<1>3. ASSUME NEW h \in Hart, Fence(h)
      PROVE  (TypeOK /\ InvArg)'
  BY <1>3 DEF Fence, FenceDone, GoTo, TypeOK, InvArg, PC
<1>4. ASSUME NEW h \in Hart, Raise(h)
      PROVE  (TypeOK /\ InvArg)'
  <2>1. Advance(h, "wfi") /\ "wfi" \in PC
    BY <1>4 DEF Raise, PC
  <2>2. QED
    BY <1>4, <2>1, AdvanceEffect DEF Raise, TypeOK, InvArg
<1>5. ASSUME NEW h \in Hart, Wfi(h)
      PROVE  (TypeOK /\ InvArg)'
  BY <1>5 DEF Wfi, GoTo, TypeOK, InvArg, PC
<1>6. ASSUME NEW h \in Hart, ReadMip(h)
      PROVE  (TypeOK /\ InvArg)'
  BY <1>6 DEF ReadMip, MsipPending, GoTo, TypeOK, InvArg, PC
<1>7. ASSUME NEW h \in Hart, ClearMsip(h)
      PROVE  (TypeOK /\ InvArg)'
  BY <1>7 DEF ClearMsip, GoTo, TypeOK, InvArg, PC
<1>8. ASSUME NEW h \in Hart, Scan(h)
      PROVE  (TypeOK /\ InvArg)'
  <2>1. Advance(h, "load_high") /\ "load_high" \in PC
    BY <1>8 DEF Scan, PC
  <2>2. QED
    BY <1>8, <2>1, AdvanceEffect DEF Scan, TypeOK, InvArg
<1>9. ASSUME NEW h \in Hart, LoadHigh(h)
      PROVE  (TypeOK /\ InvArg)'
  BY <1>9, WordFacts DEF LoadHigh, GoTo, TypeOK, InvArg, PC
<1>10. ASSUME NEW h \in Hart, LoadLowAndJump(h)
      PROVE  (TypeOK /\ InvArg)'
  BY <1>10, WordFacts DEF LoadLowAndJump, BootAddress, GoTo, TypeOK, InvArg, PC
<1>11. ASSUME NEW h \in Hart, SpuriousWakeup(h)
      PROVE  (TypeOK /\ InvArg)'
  BY <1>11 DEF SpuriousWakeup, GoTo, TypeOK, InvArg, PC
<1>12. ASSUME NEW h \in Hart, NEW a \in Word \X Word, BootNextStage(h, a)
      PROVE  (TypeOK /\ InvArg)'
  BY <1>12, WordFacts DEF BootNextStage, GoTo, TypeOK, InvArg, PC
<1>13. ASSUME NEW i \in Half, Land(i)
      PROVE  (TypeOK /\ InvArg)'
  BY <1>13, WordFacts DEF Land, TypeOK, InvArg, PC
<1>14. CASE UNCHANGED vars
  BY <1>14 DEF vars, TypeOK, InvArg, PC
<1>15. QED
  BY <1>1, <1>2, <1>3, <1>4, <1>5, <1>6, <1>7, <1>8, <1>9, <1>10, <1>11, <1>12, <1>13,
     <1>14 DEF Next, Step

\* Every variable keeps to its type: program counters, loop indices and words.
THEOREM TypeCorrect == Spec => []TypeOK
<1>1. Init => TypeOK /\ InvArg
  BY HartFacts, WordFacts DEF Init, TypeOK, InvArg, PC
<1>2. QED
  BY <1>1, TypeStep, PTL DEF Spec

\* The bookkeeping of the wake-up survives every step: who is in which part of
\* smp_resume determines which MSIP words can be set.
LEMMA HandshakeStep == TypeOK /\ HandshakeInv /\ [Next]_vars => HandshakeInv'
<1> SUFFICES ASSUME TypeOK, HandshakeInv, [Next]_vars PROVE HandshakeInv'
  OBVIOUS
<1> USE DEF HandshakeInv, Before, Cleared
<1>1. ASSUME NEW h \in Hart, Pause(h)
      PROVE  HandshakeInv'
  <2>1. InvRole'
    BY <1>1, HartFacts DEF Pause, GoTo, p, TypeOK, InvRole
  <2>2. InvIdx'
    BY <1>1, HartFacts DEF Pause, GoTo, p, TypeOK, InvIdx
  <2>3. InvMsip'
    BY <1>1, HartFacts DEF Pause, GoTo, p, TypeOK, InvRole, InvIdx, InvMsip, Raised
  <2>4. QED
    BY <2>1, <2>2, <2>3
<1>2. ASSUME NEW h \in Hart, StoreHigh(h)
      PROVE  HandshakeInv'
  BY <1>2, HartFacts DEF StoreHigh, GoTo, TypeOK, InvRole, InvIdx, InvMsip, Raised
<1>3. ASSUME NEW h \in Hart, Fence(h)
      PROVE  HandshakeInv'
  <2>1. InvRole'
    BY <1>3, HartFacts DEF Fence, FenceDone, GoTo, TypeOK, InvRole
  <2>2. InvIdx'
    BY <1>3, HartFacts DEF Fence, FenceDone, GoTo, TypeOK, InvIdx
  <2>3. InvMsip'
    BY <1>3, HartFacts DEF Fence, FenceDone, GoTo, TypeOK, InvRole, InvIdx, InvMsip, Raised
  <2>4. QED
    BY <2>1, <2>2, <2>3
<1>4. ASSUME NEW h \in Hart, Raise(h)
      PROVE  HandshakeInv'
  <2>1. Advance(h, "wfi") /\ "wfi" \in PC
    BY <1>4 DEF Raise, PC
  <2>2. InvRole'
    BY <1>4, <2>1, AdvanceEffect, HartFacts DEF Raise, TypeOK, InvRole
  <2>3. InvIdx'
    BY <1>4, <2>1, AdvanceEffect, HartFacts DEF Raise, TypeOK, InvIdx
  <2>4. InvMsip'
    BY <1>4, <2>1, AdvanceEffect, HartFacts DEF Raise, TypeOK, InvRole, InvIdx, InvMsip,
       Raised
  <2>5. QED
    BY <2>2, <2>3, <2>4
<1>5. ASSUME NEW h \in Hart, Wfi(h)
      PROVE  HandshakeInv'
  BY <1>5, HartFacts DEF Wfi, GoTo, TypeOK, InvRole, InvIdx, InvMsip, Raised
<1>6. ASSUME NEW h \in Hart, ReadMip(h)
      PROVE  HandshakeInv'
  <2>1. InvRole'
    BY <1>6, HartFacts DEF ReadMip, MsipPending, GoTo, TypeOK, InvRole
  <2>2. InvIdx'
    BY <1>6, HartFacts DEF ReadMip, MsipPending, GoTo, TypeOK, InvIdx
  <2>3. InvMsip'
    BY <1>6, HartFacts DEF ReadMip, MsipPending, GoTo, TypeOK, InvRole, InvIdx, InvMsip,
       Raised
  <2>4. QED
    BY <2>1, <2>2, <2>3
<1>7. ASSUME NEW h \in Hart, ClearMsip(h)
      PROVE  HandshakeInv'
  BY <1>7, HartFacts DEF ClearMsip, GoTo, TypeOK, InvRole, InvIdx, InvMsip, Raised
<1>8. ASSUME NEW h \in Hart, Scan(h)
      PROVE  HandshakeInv'
  <2>1. Advance(h, "load_high") /\ "load_high" \in PC
    BY <1>8 DEF Scan, PC
  <2>2. InvRole'
    BY <1>8, <2>1, AdvanceEffect, HartFacts DEF Scan, WordIsClear, TypeOK, InvRole
  <2>3. InvIdx'
    BY <1>8, <2>1, AdvanceEffect, HartFacts DEF Scan, WordIsClear, TypeOK, InvIdx
  <2>4. InvMsip'
    BY <1>8, <2>1, AdvanceEffect, HartFacts DEF Scan, WordIsClear, TypeOK, InvRole,
       InvIdx, InvMsip, Raised
  <2>5. QED
    BY <2>2, <2>3, <2>4
<1>9. ASSUME NEW h \in Hart, LoadHigh(h)
      PROVE  HandshakeInv'
  BY <1>9, HartFacts DEF LoadHigh, GoTo, TypeOK, InvRole, InvIdx, InvMsip, Raised
<1>10. ASSUME NEW h \in Hart, LoadLowAndJump(h)
      PROVE  HandshakeInv'
  BY <1>10, HartFacts DEF LoadLowAndJump, BootAddress, GoTo, TypeOK, InvRole, InvIdx,
     InvMsip, Raised
<1>11. ASSUME NEW h \in Hart, SpuriousWakeup(h)
      PROVE  HandshakeInv'
  <2>1. InvRole'
    BY <1>11, HartFacts DEF SpuriousWakeup, GoTo, TypeOK, InvRole
  <2>2. InvIdx'
    BY <1>11, HartFacts DEF SpuriousWakeup, GoTo, TypeOK, InvIdx
  <2>3. InvMsip'
    BY <1>11, HartFacts DEF SpuriousWakeup, GoTo, TypeOK, InvRole, InvIdx, InvMsip, Raised
  <2>4. QED
    BY <2>1, <2>2, <2>3
<1>12. ASSUME NEW h \in Hart, NEW a \in Word \X Word, BootNextStage(h, a)
      PROVE  HandshakeInv'
  BY <1>12, HartFacts DEF BootNextStage, GoTo, TypeOK, InvRole, InvIdx, InvMsip, Raised
<1>13. ASSUME NEW i \in Half, Land(i)
      PROVE  HandshakeInv'
  BY <1>13, HartFacts DEF Land, TypeOK, InvRole, InvIdx, InvMsip, Raised
<1>14. CASE UNCHANGED vars
  BY <1>14 DEF vars, TypeOK, InvRole, InvIdx, InvMsip, Raised
<1>15. QED
  BY <1>1, <1>2, <1>3, <1>4, <1>5, <1>6, <1>7, <1>8, <1>9, <1>10, <1>11, <1>12, <1>13,
     <1>14 DEF Next, Step

\* The boot address survives every step: what is in flight or stored is what main
\* passed, and after the fence all of it is stored.
LEMMA AddressStep ==
  TypeOK /\ HandshakeInv /\ AddressInv /\ [Next]_vars => AddressInv'
<1> SUFFICES ASSUME TypeOK, HandshakeInv, AddressInv, [Next]_vars PROVE AddressInv'
  OBVIOUS
<1> USE DEF Before, Cleared
<1>1. ASSUME NEW h \in Hart, Pause(h)
      PROVE  AddressInv'
  <2>1. InvEntry'
    BY <1>1, HartFacts, WordFacts DEF Pause, GoTo, p, AddressInv, InvEntry, InvLoads,
       Holds, HandshakeInv, InvRole, InvMsip, Raised, TypeOK
  <2>2. InvLoads'
    BY <1>1, HartFacts, WordFacts DEF Pause, GoTo, p, AddressInv, InvEntry, InvLoads,
       Holds, HandshakeInv, InvRole, InvMsip, Raised, TypeOK
  <2>3. QED
    BY <2>1, <2>2 DEF AddressInv
<1>2. ASSUME NEW h \in Hart, StoreHigh(h)
      PROVE  AddressInv'
  BY <1>2, HartFacts, WordFacts DEF StoreHigh, GoTo, AddressInv, InvEntry, InvLoads,
     Holds, HandshakeInv, InvRole, InvMsip, Raised, TypeOK
<1>3. ASSUME NEW h \in Hart, Fence(h)
      PROVE  AddressInv'
  BY <1>3, HartFacts, WordFacts DEF Fence, FenceDone, GoTo, AddressInv, InvEntry,
     InvLoads, Holds, HandshakeInv, InvRole, InvMsip, Raised, TypeOK
<1>4. ASSUME NEW h \in Hart, Raise(h)
      PROVE  AddressInv'
  <2>1. Advance(h, "wfi") /\ "wfi" \in PC
    BY <1>4 DEF Raise, PC
  <2>2. InvEntry'
    BY <1>4, <2>1, AdvanceEffect, HartFacts, WordFacts DEF Raise, AddressInv, InvEntry,
       InvLoads, Holds, HandshakeInv, InvRole, InvMsip, Raised, TypeOK
  <2>3. InvLoads'
    BY <1>4, <2>1, AdvanceEffect, HartFacts, WordFacts DEF Raise, AddressInv, InvEntry,
       InvLoads, Holds, HandshakeInv, InvRole, InvMsip, Raised, TypeOK
  <2>4. QED
    BY <2>2, <2>3 DEF AddressInv
<1>5. ASSUME NEW h \in Hart, Wfi(h)
      PROVE  AddressInv'
  BY <1>5, HartFacts, WordFacts DEF Wfi, GoTo, AddressInv, InvEntry, InvLoads, Holds,
     HandshakeInv, InvRole, InvMsip, Raised, TypeOK
<1>6. ASSUME NEW h \in Hart, ReadMip(h)
      PROVE  AddressInv'
  BY <1>6, HartFacts, WordFacts DEF ReadMip, MsipPending, GoTo, AddressInv, InvEntry,
     InvLoads, Holds, HandshakeInv, InvRole, InvMsip, Raised, TypeOK
<1>7. ASSUME NEW h \in Hart, ClearMsip(h)
      PROVE  AddressInv'
  BY <1>7, HartFacts, WordFacts DEF ClearMsip, GoTo, AddressInv, InvEntry, InvLoads,
     Holds, HandshakeInv, InvRole, InvMsip, Raised, TypeOK
<1>8. ASSUME NEW h \in Hart, Scan(h)
      PROVE  AddressInv'
  <2>1. Advance(h, "load_high") /\ "load_high" \in PC
    BY <1>8 DEF Scan, PC
  <2>2. InvEntry'
    BY <1>8, <2>1, AdvanceEffect, HartFacts, WordFacts DEF Scan, AddressInv, InvEntry,
       InvLoads, Holds, HandshakeInv, InvRole, InvMsip, Raised, TypeOK
  <2>3. InvLoads'
    BY <1>8, <2>1, AdvanceEffect, HartFacts, WordFacts DEF Scan, AddressInv, InvEntry,
       InvLoads, Holds, HandshakeInv, InvRole, InvMsip, Raised, TypeOK
  <2>4. QED
    BY <2>2, <2>3 DEF AddressInv
<1>9. ASSUME NEW h \in Hart, LoadHigh(h)
      PROVE  AddressInv'
  BY <1>9, HartFacts, WordFacts DEF LoadHigh, GoTo, AddressInv, InvEntry, InvLoads, Holds,
     HandshakeInv, InvRole, InvMsip, Raised, TypeOK
<1>10. ASSUME NEW h \in Hart, LoadLowAndJump(h)
      PROVE  AddressInv'
  BY <1>10, HartFacts, WordFacts DEF LoadLowAndJump, BootAddress, GoTo, AddressInv,
     InvEntry, InvLoads, Holds, HandshakeInv, InvRole, InvMsip, Raised, TypeOK
<1>11. ASSUME NEW h \in Hart, SpuriousWakeup(h)
      PROVE  AddressInv'
  BY <1>11, HartFacts, WordFacts DEF SpuriousWakeup, GoTo, AddressInv, InvEntry, InvLoads,
     Holds, HandshakeInv, InvRole, InvMsip, Raised, TypeOK
<1>12. ASSUME NEW h \in Hart, NEW a \in Word \X Word, BootNextStage(h, a)
      PROVE  AddressInv'
  BY <1>12, HartFacts, WordFacts DEF BootNextStage, GoTo, AddressInv, InvEntry, InvLoads,
     Holds, HandshakeInv, InvRole, InvMsip, Raised, TypeOK
<1>13. ASSUME NEW i \in Half, Land(i)
      PROVE  AddressInv'
  BY <1>13, HartFacts, WordFacts DEF Land, AddressInv, InvEntry, InvLoads, Holds,
     HandshakeInv, InvRole, InvMsip, Raised, TypeOK
<1>14. CASE UNCHANGED vars
  BY <1>14 DEF vars, AddressInv, InvEntry, InvLoads, Holds, HandshakeInv, InvRole,
     InvMsip, Raised, TypeOK
<1>15. QED
  BY <1>1, <1>2, <1>3, <1>4, <1>5, <1>6, <1>7, <1>8, <1>9, <1>10, <1>11, <1>12, <1>13,
     <1>14 DEF Next, Step

\* What a scanning hart knows survives every step: the harts whose words it has
\* read as zero have left the wait loop.  This needs the order of the two loops.
LEMMA ScanStep ==
  ASSUME NonSmpHart = 0
  PROVE  TypeOK /\ HandshakeInv /\ ScanInv /\ [Next]_vars => ScanInv'
<1> SUFFICES ASSUME TypeOK, HandshakeInv, ScanInv, [Next]_vars PROVE ScanInv'
  OBVIOUS
<1> USE DEF Before, Cleared, Released
<1>1. ASSUME NEW h \in Hart, Pause(h)
      PROVE  ScanInv'
  BY <1>1, HartFacts DEF Pause, GoTo, p, ScanInv, HandshakeInv, InvRole, InvIdx, InvMsip,
     Raised, TypeOK
<1>2. ASSUME NEW h \in Hart, StoreHigh(h)
      PROVE  ScanInv'
  BY <1>2, HartFacts DEF StoreHigh, GoTo, ScanInv, HandshakeInv, InvRole, InvIdx, InvMsip,
     Raised, TypeOK
<1>3. ASSUME NEW h \in Hart, Fence(h)
      PROVE  ScanInv'
  BY <1>3, HartFacts DEF Fence, FenceDone, GoTo, ScanInv, HandshakeInv, InvRole, InvIdx,
     InvMsip, Raised, TypeOK
<1>4. ASSUME NEW h \in Hart, Raise(h)
      PROVE  ScanInv'
  <2>1. Advance(h, "wfi") /\ "wfi" \in PC
    BY <1>4 DEF Raise, PC
  <2>2. QED
    BY <1>4, <2>1, AdvanceEffect, HartFacts DEF Raise, ScanInv, HandshakeInv, InvRole,
       InvIdx, InvMsip, Raised, TypeOK
<1>5. ASSUME NEW h \in Hart, Wfi(h)
      PROVE  ScanInv'
  BY <1>5, HartFacts DEF Wfi, GoTo, ScanInv, HandshakeInv, InvRole, InvIdx, InvMsip,
     Raised, TypeOK
<1>6. ASSUME NEW h \in Hart, ReadMip(h)
      PROVE  ScanInv'
  BY <1>6, HartFacts DEF ReadMip, MsipPending, GoTo, ScanInv, HandshakeInv, InvRole,
     InvIdx, InvMsip, Raised, TypeOK
<1>7. ASSUME NEW h \in Hart, ClearMsip(h)
      PROVE  ScanInv'
  BY <1>7, HartFacts DEF ClearMsip, GoTo, ScanInv, HandshakeInv, InvRole, InvIdx, InvMsip,
     Raised, TypeOK
<1>8. ASSUME NEW h \in Hart, Scan(h)
      PROVE  ScanInv'
  <2>1. Advance(h, "load_high") /\ "load_high" \in PC
    BY <1>8 DEF Scan, PC
  <2>2. pc[h] = "scan" /\ idx[h] \in Hart /\ msip[idx[h]] = 0 /\ Raised(h)
    BY <1>8 DEF Scan, WordIsClear, HandshakeInv, InvMsip, TypeOK
  <2>3. Raised(idx[h])
    <3>1. CASE idx[h] = 0
      BY <2>2, <3>1, HartFacts DEF Raised, TypeOK
    <3>2. CASE idx[h] # 0
      <4>1. idx[h] \in Int /\ 0 <= idx[h]
        BY <2>2, HartFacts
      <4>2. p = 0 /\ p \in Hart
        BY HartFacts DEF p
      <4>3. pc[p] \in Cleared
        BY <2>2, <3>2, <4>1, <4>2 DEF ScanInv
      <4>4. QED
        BY <4>3 DEF Raised
    <3>3. QED
      BY <3>1, <3>2
  <2>4. pc[idx[h]] \in Cleared
    BY <2>2, <2>3 DEF HandshakeInv, InvMsip
  <2>5. /\ \A k \in Hart : k # h => idx'[k] = idx[k] /\ pc'[k] = pc[k]
        /\ \/ pc'[h] = "load_high" /\ idx[h] = NumHarts - 1
           \/ pc'[h] = "scan" /\ idx'[h] = idx[h] + 1
    BY <2>1, <2>2, AdvanceEffect DEF TypeOK
  <2>6. \A k \in Hart : k <= idx[h] => pc[k] \in Cleared
    BY <2>2, <2>4, HartFacts DEF ScanInv
  <2>7. \A k \in Hart : pc[k] \in Cleared => pc'[k] \in Cleared
    BY <2>2, <2>5
  <2>8. \A k \in Hart : \/ pc'[h] = "scan" /\ k < idx'[h]
                        \/ pc'[h] = "load_high"
                        => k <= idx[h]
    BY <2>2, <2>5, HartFacts
  <2>9. QED
    BY <2>2, <2>5, <2>6, <2>7, <2>8 DEF ScanInv
<1>9. ASSUME NEW h \in Hart, LoadHigh(h)
      PROVE  ScanInv'
  BY <1>9, HartFacts DEF LoadHigh, GoTo, ScanInv, HandshakeInv, InvRole, InvIdx, InvMsip,
     Raised, TypeOK
<1>10. ASSUME NEW h \in Hart, LoadLowAndJump(h)
      PROVE  ScanInv'
  BY <1>10, HartFacts DEF LoadLowAndJump, BootAddress, GoTo, ScanInv, HandshakeInv,
     InvRole, InvIdx, InvMsip, Raised, TypeOK
<1>11. ASSUME NEW h \in Hart, SpuriousWakeup(h)
      PROVE  ScanInv'
  BY <1>11, HartFacts DEF SpuriousWakeup, GoTo, ScanInv, HandshakeInv, InvRole, InvIdx,
     InvMsip, Raised, TypeOK
<1>12. ASSUME NEW h \in Hart, NEW a \in Word \X Word, BootNextStage(h, a)
      PROVE  ScanInv'
  BY <1>12, HartFacts DEF BootNextStage, GoTo, ScanInv, HandshakeInv, InvRole, InvIdx,
     InvMsip, Raised, TypeOK
<1>13. ASSUME NEW i \in Half, Land(i)
      PROVE  ScanInv'
  BY <1>13, HartFacts DEF Land, ScanInv, HandshakeInv, InvRole, InvIdx, InvMsip, Raised,
     TypeOK
<1>14. CASE UNCHANGED vars
  BY <1>14 DEF vars, ScanInv, HandshakeInv, InvRole, InvIdx, InvMsip, Raised, TypeOK
<1>15. QED
  BY <1>1, <1>2, <1>3, <1>4, <1>5, <1>6, <1>7, <1>8, <1>9, <1>10, <1>11, <1>12, <1>13,
     <1>14 DEF Next, Step

(***************************************************************************)
(* The theorems.                                                           *)
(***************************************************************************)

\* The three invariants that do not depend on which hart is the non-SMP hart.
LEMMA Invariants ==
  Spec => [](TypeOK /\ HandshakeInv /\ AddressInv)
<1>1. Init => TypeOK /\ InvArg /\ HandshakeInv /\ AddressInv
  BY HartFacts, WordFacts
  DEF Init, TypeOK, InvArg, PC, HandshakeInv, InvRole, InvIdx, InvMsip, Raised, Before,
      Cleared, AddressInv, InvEntry, InvLoads
<1>2. TypeOK /\ InvArg /\ HandshakeInv /\ AddressInv /\ [Next]_vars
        => (TypeOK /\ InvArg /\ HandshakeInv /\ AddressInv)'
  BY TypeStep, HandshakeStep, AddressStep
<1>3. QED
  BY <1>1, <1>2, PTL DEF Spec

\* A hart that jumps jumps to the address boot_next_stage was called with,
\* whichever hart called it: the fence before the MSIP stores and the order of
\* the accesses are enough.
THEOREM BootAddressCorrect == Spec => []EntersAtBootAddress
<1>1. AddressInv => EntersAtBootAddress
  BY DEF AddressInv, InvLoads, EntersAtBootAddress
<1>2. QED
  BY <1>1, Invariants, PTL

\* When all harts have left the wait loop no software interrupt is pending.
THEOREM NoInterruptLeft == Spec => []NoStaleInterrupt
<1>1. TypeOK /\ HandshakeInv => NoStaleInterrupt
  BY DEF TypeOK, PC, HandshakeInv, InvMsip, NoStaleInterrupt, Parked, Cleared
<1>2. QED
  BY <1>1, Invariants, PTL

\* The invariant of the scan, when the non-SMP hart is the first.
LEMMA ScanInvariant == ASSUME NonSmpHart = 0 PROVE Spec => []ScanInv
<1>1. Init => ScanInv
  BY HartFacts DEF Init, ScanInv, Released
<1>2. TypeOK /\ HandshakeInv /\ ScanInv /\ [Next]_vars => ScanInv'
  BY ScanStep
<1>3. QED
  BY <1>1, <1>2, Invariants, PTL DEF Spec

\* No hart goes on to the next stage before all harts have left the wait loop.
THEOREM BarrierHolds == ASSUME NonSmpHart = 0 PROVE Spec => []Barrier
<1>1. ScanInv => Barrier
  BY DEF ScanInv, Barrier, Cleared, Parked
<1>2. QED
  BY <1>1, ScanInvariant, PTL

\* A step that moves no hart from one phase to another and leaves the address
\* and the jumps alone is a stutter of the abstract barrier.
LEMMA AbsStutter ==
  AbsPhase' = AbsPhase /\ entry' = entry /\ entered' = entered => [Abs!Next]_(Abs!vars)
BY DEF Abs!vars

\* Every step of the handshake is a step of the abstract barrier or a stutter.
LEMMA RefinementStep ==
  ASSUME NonSmpHart = 0
  PROVE  TypeOK /\ HandshakeInv /\ AddressInv /\ ScanInv /\ [Next]_vars =>
     [Abs!Next]_(Abs!vars)
<1> SUFFICES ASSUME TypeOK, HandshakeInv, AddressInv, ScanInv, [Next]_vars
             PROVE  [Abs!Next]_(Abs!vars)
  OBVIOUS
<1>1. ASSUME NEW h \in Hart, Pause(h)
      PROVE  [Abs!Next]_(Abs!vars)
  BY <1>1, AbsStutter DEF Pause, GoTo, p, AbsPhase, Parked, TypeOK
<1>2. ASSUME NEW h \in Hart, StoreHigh(h)
      PROVE  [Abs!Next]_(Abs!vars)
  BY <1>2, AbsStutter DEF StoreHigh, GoTo, AbsPhase, Parked, TypeOK
<1>3. ASSUME NEW h \in Hart, Fence(h)
      PROVE  [Abs!Next]_(Abs!vars)
  BY <1>3, AbsStutter DEF Fence, FenceDone, GoTo, AbsPhase, Parked, TypeOK
<1>4. ASSUME NEW h \in Hart, Raise(h)
      PROVE  [Abs!Next]_(Abs!vars)
  <2>1. Advance(h, "wfi") /\ "wfi" \in PC
    BY <1>4 DEF Raise, PC
  <2>2. AbsPhase' = AbsPhase
    BY <1>4, <2>1, AdvanceEffect DEF Raise, AbsPhase, Parked, TypeOK
  <2>3. QED
    BY <1>4, <2>2, AbsStutter DEF Raise
<1>5. ASSUME NEW h \in Hart, Wfi(h)
      PROVE  [Abs!Next]_(Abs!vars)
  BY <1>5, AbsStutter DEF Wfi, GoTo, AbsPhase, Parked, TypeOK
<1>6. ASSUME NEW h \in Hart, ReadMip(h)
      PROVE  [Abs!Next]_(Abs!vars)
  BY <1>6, AbsStutter DEF ReadMip, MsipPending, GoTo, AbsPhase, Parked, TypeOK
<1>7. ASSUME NEW h \in Hart, ClearMsip(h)
      PROVE  [Abs!Next]_(Abs!vars)
  <2>1. entry # None
    BY <1>7, HartFacts DEF ClearMsip, HandshakeInv, InvMsip, Raised, Before, AddressInv,
       InvEntry
  <2>2. AbsPhase[h] = "parked" /\ AbsPhase' = [AbsPhase EXCEPT ![h] = "awake"]
    BY <1>7 DEF ClearMsip, GoTo, AbsPhase, Parked, TypeOK
  <2>3. Abs!Wake(h)
    BY <1>7, <2>1, <2>2 DEF ClearMsip, Abs!Wake
  <2>4. QED
    BY <2>3 DEF Abs!Next
<1>8. ASSUME NEW h \in Hart, Scan(h)
      PROVE  [Abs!Next]_(Abs!vars)
  <2>1. Advance(h, "load_high") /\ "load_high" \in PC
    BY <1>8 DEF Scan, PC
  <2>2. AbsPhase' = AbsPhase
    BY <1>8, <2>1, AdvanceEffect DEF Scan, AbsPhase, Parked, TypeOK
  <2>3. QED
    BY <1>8, <2>2, AbsStutter DEF Scan
<1>9. ASSUME NEW h \in Hart, LoadHigh(h)
      PROVE  [Abs!Next]_(Abs!vars)
  BY <1>9, AbsStutter DEF LoadHigh, GoTo, AbsPhase, Parked, TypeOK
<1>10. ASSUME NEW h \in Hart, LoadLowAndJump(h)
      PROVE  [Abs!Next]_(Abs!vars)
  <2>1. \A k \in Hart : AbsPhase[k] # "parked"
    BY <1>10 DEF LoadLowAndJump, ScanInv, Released, Cleared, AbsPhase, Parked
  <2>2. AbsPhase[h] = "awake" /\ AbsPhase' = [AbsPhase EXCEPT ![h] = "booted"]
    BY <1>10 DEF LoadLowAndJump, GoTo, AbsPhase, Parked, TypeOK
  <2>3. <<upper[h], scratch[Low]>> = entry
    BY <1>10, HartFacts, WordFacts
    DEF LoadLowAndJump, HandshakeInv, InvMsip, Raised, Before, Cleared, AddressInv,
       InvEntry,
        InvLoads, Holds, TypeOK
  <2>4. Abs!Enter(h)
    BY <1>10, <2>1, <2>2, <2>3 DEF LoadLowAndJump, BootAddress, Abs!Enter
  <2>5. QED
    BY <2>4 DEF Abs!Next
<1>11. ASSUME NEW h \in Hart, SpuriousWakeup(h)
      PROVE  [Abs!Next]_(Abs!vars)
  BY <1>11, AbsStutter DEF SpuriousWakeup, GoTo, AbsPhase, Parked, TypeOK
<1>12. ASSUME NEW h \in Hart, NEW a \in Word \X Word, BootNextStage(h, a)
      PROVE  [Abs!Next]_(Abs!vars)
  <2>1. entry = None /\ a # None /\ entry' = a /\ entered' = entered
    BY <1>12, WordFacts DEF BootNextStage, HandshakeInv, InvRole, AddressInv, InvEntry
  <2>2. AbsPhase' = AbsPhase
    BY <1>12 DEF BootNextStage, GoTo, AbsPhase, Parked, TypeOK
  <2>3. Abs!Publish(a)
    BY <2>1, <2>2 DEF Abs!Publish
  <2>4. QED
    BY <2>3 DEF Abs!Next
<1>13. ASSUME NEW i \in Half, Land(i)
      PROVE  [Abs!Next]_(Abs!vars)
  BY <1>13, AbsStutter DEF Land, AbsPhase, Parked, TypeOK
<1>14. CASE UNCHANGED vars
  BY <1>14 DEF vars, AbsPhase, Abs!vars
<1>15. QED
  BY <1>1, <1>2, <1>3, <1>4, <1>5, <1>6, <1>7, <1>8, <1>9, <1>10, <1>11, <1>12, <1>13,
     <1>14 DEF Next, Step

\* The handshake implements the abstract barrier: publishing the address, the
\* store that clears a hart's MSIP word and the final jump are its only steps.
THEOREM Refinement == ASSUME NonSmpHart = 0 PROVE Spec => ImplementsBarrier
<1>1. Init => Abs!Init
  BY DEF Init, Abs!Init, AbsPhase, Parked
<1>2. TypeOK /\ HandshakeInv /\ AddressInv /\ ScanInv /\ [Next]_vars =>
   [Abs!Next]_(Abs!vars)
  BY RefinementStep
<1>3. QED
  BY <1>1, <1>2, Invariants, ScanInvariant, PTL DEF Spec, ImplementsBarrier, Abs!Spec

=============================================================================
