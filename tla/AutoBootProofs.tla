--------------------------- MODULE AutoBootProofs ---------------------------
(***************************************************************************)
(* Proofs about AutoBoot for every disk, every buffer size and wherever    *)
(* block numbers wrap: types, what is loaded fits, what is loaded is what  *)
(* the disk designates.  The reads it relies on follow for the EEPROM.     *)
(***************************************************************************)
EXTENDS AutoBoot, BootEeprom, SequenceTheorems, TLAPS

(***************************************************************************)
(* The inductive invariant.                                                *)
(***************************************************************************)

\* Whose code runs at each place, and what has happened before it.
InvFlow ==
  /\ pc \in {"init", "signature"} => \A s \in Stage : ~mem[s].ok
  /\ pc \in {"init", "signature", "boot"} => stage = "rom"
  /\ pc = "zsl" => stage = "dtb"
  /\ pc \in {"header", "entry", "guid", "load"} => IF stage = "rom" THEN gpt \/ pc = "load" ELSE flag
  /\ pc \in {"header", "entry", "guid"} /\ stage = "rom" => gpt
  /\ pc = "launched" /\ flag => stage = "fw"

\* An entry whose type is read has passed the test of its size.
InvEntry == pc = "guid" => p < Count /\ dim = disk.parts[p + 1] /\ ~TooLarge(dim)

\* The range the boot ROM falls back to: the buffer, then the first entry.
Whole == [begin |-> 0, end |-> MaxLbas["rom"] - 1]
Default(seen) == IF seen THEN Fallback(disk.parts[1]) ELSE Whole

InvFallback ==
  /\ pc = "header" /\ stage = "rom" => range = Whole
  /\ pc = "entry" /\ stage = "rom" => range = Default(p > 0)
  /\ pc = "guid" /\ stage = "rom" => range = Default(TRUE)

\* No entry before the one at hand is a candidate of this stage.
InvSearch ==
  pc \in {"entry", "guid"} /\ Tidy => \A i \in 1 .. p : i \notin Candidates(stage)

\* Entry i is the first candidate of stage s.
IsFirst(i, s) == i \in Candidates(s) /\ \A j \in 1 .. i - 1 : j \notin Candidates(s)

Matched == stage # "rom" \/ (gpt /\ partIdx >= 0)

\* What is about to be loaded.
InvSelected ==
  pc = "load" =>
    IF Matched
    THEN /\ Sub(range.end, range.begin) < MaxLbas[stage]
         /\ Tidy => \E i \in 1 .. Count :
              IsFirst(i, stage) /\ range = [begin |-> disk.parts[i].begin, end |-> disk.parts[i].end]
    ELSE /\ range = Default(gpt /\ Count > 0)
         /\ gpt /\ Tidy => Candidates("rom") = {}

\* What the loader has found and loaded before.
InvLoaded ==
  Tidy => \A s \in {"dtb", "fw"} :
    /\ mem[s].ok => mem[s] = First(s)
    /\ (pc = "launched" /\ flag) \/ (s = "dtb" /\ stage = "fw") => Candidates(s) # {}

Inv ==
  /\ TypeOK /\ InvFlow /\ InvEntry /\ InvFallback /\ InvSearch /\ InvSelected /\ InvLoaded
  /\ RomBootsReference /\ SelectionFits

-----------------------------------------------------------------------------
(* Facts about the constants and the operators. *)

\* A buffer holds at least one block, and not as many as there are numbers.
LEMMA ConstantFacts ==
  /\ Lbas \in Int /\ Lbas > 0
  /\ \A s \in Stage : MaxLbas[s] \in Int /\ 0 < MaxLbas[s] /\ MaxLbas[s] < Lbas
BY LbasAssumption, MaxLbasAssumption DEF Lba

\* The least element of a set is its minimum.
LEMMA MinIs ==
  ASSUME NEW S \in SUBSET Int, NEW x \in S, \A y \in S : x <= y
  PROVE  Min(S) = x
<1>1. \A z \in S : (\A y \in S : z <= y) => z = x
  OBVIOUS
<1>2. Min(S) \in S /\ \A y \in S : Min(S) <= y
  BY Zenon DEF Min
<1> QED
  BY <1>1, <1>2

\* The smaller of two numbers.
LEMMA MinOfTwo ==
  ASSUME NEW a \in Int, NEW b \in Int
  PROVE  Min({a, b}) = IF a <= b THEN a ELSE b
<1>1. CASE a <= b
  BY <1>1, MinIs
<1>2. CASE ~(a <= b)
  BY <1>2, MinIs
<1> QED
  BY <1>1, <1>2

\* Arithmetic on block numbers yields block numbers, and is exact where it does
\* not wrap.
LEMMA Arithmetic ==
  ASSUME NEW a \in Int, NEW b \in Int
  PROVE  /\ Sub(a, b) \in Lba /\ Add(a, b) \in Lba
         /\ 0 <= a - b /\ a - b < Lbas => Sub(a, b) = a - b
         /\ 0 <= a + b /\ a + b < Lbas => Add(a, b) = a + b
BY ConstantFacts DEF Sub, Add, Lba

\* The entries of a disk.
LEMMA EntryFacts ==
  ASSUME TypeOK
  PROVE  /\ Count \in Nat
         /\ \A i \in 1 .. Count : disk.parts[i] \in Part
<1>1. disk.parts \in Seq(Part)
  BY DisksAssumption DEF TypeOK
<1> QED
  BY <1>1 DEF Count

\* A block number is an integer from 0 to below Lbas.
LEMMA LbaFacts ==
  ASSUME NEW a \in Lba
  PROVE  a \in Int /\ 0 <= a /\ a < Lbas
BY ConstantFacts DEF Lba

\* The disk stays in its slot.
LEMMA DiskStays == [Next]_vars => disk' = disk
BY DEF Next, vars, search, DriverInit, CheckSignature, ReadFails, ReadHeader, ReadEntry,
       ReadTypeGuid, NoPartition, LoadRom, BootNextStage, ZslStart, LoadZsl

\* On a tidy disk the test of the size lets through exactly what fits.
LEMMA SizeTest ==
  ASSUME TypeOK, Tidy, NEW i \in 1 .. Count
  PROVE  /\ ~TooLarge(disk.parts[i]) <=> PartLen(disk.parts[i]) <= MaxLbas[stage]
         /\ Sub(disk.parts[i].end, disk.parts[i].begin) = PartLen(disk.parts[i]) - 1
         /\ PartLen(disk.parts[i]) \in Int
<1> DEFINE e == disk.parts[i]
<1>1. e.begin \in Lba /\ e.end \in Lba
  BY EntryFacts DEF Part
<1>2. stage \in Stage
  BY DEF TypeOK
<1>3. e.begin <= e.end
  BY <1>2 DEF Tidy, WellFormed
<1>4. e.begin \in Int /\ e.end \in Int /\ 0 <= e.end - e.begin /\ e.end - e.begin < Lbas
  BY <1>1, <1>3, LbaFacts, ConstantFacts
<1>5. Sub(e.end, e.begin) = e.end - e.begin
  BY <1>4, Arithmetic
<1>6. MaxLbas[stage] \in Int
  BY <1>2, ConstantFacts
<1> QED
  BY <1>4, <1>5, <1>6 DEF TooLarge, PartLen

\* The first candidate is what First loads.
LEMMA FirstIs ==
  ASSUME TypeOK, NEW s \in Stage, NEW i \in 1 .. Count, IsFirst(i, s)
  PROVE  /\ Candidates(s) # {}
         /\ First(s) = Blocks(disk.parts[i].begin, PartLen(disk.parts[i]))
<1>1. Candidates(s) \in SUBSET Int /\ i \in Candidates(s)
  BY DEF Candidates, IsFirst
<1>2. \A j \in Candidates(s) : i <= j
  BY EntryFacts DEF Candidates, IsFirst
<1>3. Min(Candidates(s)) = i
  BY <1>1, <1>2, MinIs
<1> QED
  BY <1>1, <1>3 DEF First

-----------------------------------------------------------------------------
(* The parts of the invariant, each preserved by every step. *)

\* Both ranges the search may set are ranges of block numbers, and so is what is
\* loaded.
LEMMA FallbackType ==
  ASSUME NEW e \in Part, stage \in Stage
  PROVE  Fallback(e) \in [begin : Lba, end : Lba]
<1>1. e.begin \in Lba /\ e.end \in Lba
  BY DEF Part
<1>2. MaxLbas[stage] - 1 \in Int
  BY ConstantFacts
<1>3. Add(e.begin, MaxLbas[stage] - 1) \in Lba
  BY <1>1, <1>2, LbaFacts, Arithmetic
<1>4. Min({e.end, Add(e.begin, MaxLbas[stage] - 1)}) \in Lba
  BY <1>1, <1>3, LbaFacts, MinOfTwo
<1> QED
  BY <1>1, <1>4 DEF Fallback

\* What is about to be loaded has a block number and a length that is one.
LEMMA LengthType ==
  ASSUME TypeOK
  PROVE  Blocks(range.begin, Length) \in [ok : BOOLEAN, begin : Lba, len : Lba]
<1>1. range.begin \in Lba /\ range.end \in Lba
  BY DEF TypeOK
<1>2. Sub(range.end, range.begin) \in Lba
  BY <1>1, LbaFacts, Arithmetic
<1>3. 1 \in Int
  OBVIOUS
<1>4. Length \in Lba
  BY <1>2, <1>3, LbaFacts, Arithmetic DEF Length
<1> QED
  BY <1>1, <1>4 DEF Blocks

\* Types: the index stays within the table and all arithmetic within block numbers.
LEMMA TypeStep == TypeOK /\ InvFlow /\ InvEntry /\ [Next]_vars => TypeOK'
<1> SUFFICES ASSUME TypeOK, InvFlow, InvEntry, [Next]_vars
             PROVE  TypeOK'
  OBVIOUS
<1>1. CASE DriverInit
  BY <1>1 DEF DriverInit, TypeOK, At, search, Count
<1>2. CASE CheckSignature
  <2>1. stage \in Stage
    BY DEF TypeOK
  <2>2. 0 \in Lba /\ MaxLbas[stage] - 1 \in Lba
    BY <2>1, ConstantFacts DEF Lba
  <2> QED
    BY <1>2, <2>2, EntryFacts DEF CheckSignature, TypeOK, Count
<1>3. CASE ReadFails
  BY <1>3 DEF ReadFails, TypeOK, At, search, Count
<1>4. CASE ReadHeader
  BY <1>4 DEF ReadHeader, TypeOK, At, search, Count
<1>5. CASE ReadEntry
  <2>1. p \in Int /\ 0 <= p /\ p < Count /\ dim' = disk.parts[p + 1] /\ dim' \in Part
    BY <1>5, EntryFacts DEF ReadEntry, TypeOK
  <2>2. Fallback(dim') \in [begin : Lba, end : Lba]
    BY <2>1, FallbackType DEF TypeOK
  <2>3. range' \in [begin : Lba, end : Lba]
    BY <1>5, <2>2 DEF ReadEntry, TypeOK
  <2>4. p' \in 0 .. Count /\ pc' \in {"entry", "guid"} /\ Count' = Count
    BY <1>5, <2>1, EntryFacts DEF ReadEntry, NextEntry, Count
  <2> QED
    BY <1>5, <2>1, <2>3, <2>4 DEF ReadEntry, TypeOK
<1>6. CASE ReadTypeGuid
  <2>1. p \in Int /\ 0 <= p /\ p < Count /\ Count' = Count
    BY <1>6 DEF ReadTypeGuid, TypeOK, InvEntry, Count
  <2>2. p' \in 0 .. Count /\ partIdx' \in -1 .. Count - 1
    BY <1>6, <2>1, EntryFacts DEF ReadTypeGuid, NextEntry, TypeOK
  <2>3. range' \in [begin : Lba, end : Lba]
    BY <1>6 DEF ReadTypeGuid, TypeOK, Part
  <2> QED
    BY <1>6, <2>1, <2>2, <2>3 DEF ReadTypeGuid, TypeOK
<1>7. CASE NoPartition
  BY <1>7 DEF NoPartition, TypeOK, At, search, Count
<1>8. CASE LoadRom
  <2>1. Blocks(range.begin, Length) \in [ok : BOOLEAN, begin : Lba, len : Lba]
    BY LengthType
  <2>2. mem' \in [Stage -> [ok : BOOLEAN, begin : Lba, len : Lba]] /\ Count' = Count
    BY <1>8, <2>1 DEF LoadRom, TypeOK, Count
  <2> QED
    BY <1>8, <2>2, EntryFacts DEF LoadRom, search, TypeOK, Stage
<1>9. CASE BootNextStage
  BY <1>9 DEF BootNextStage, TypeOK, At, search, Count, Stage
<1>10. CASE ZslStart
  BY <1>10 DEF ZslStart, TypeOK, At, search, Count
<1>11. CASE LoadZsl
  <2>1. Blocks(range.begin, Length) \in [ok : BOOLEAN, begin : Lba, len : Lba]
    BY LengthType
  <2>2. mem' \in [Stage -> [ok : BOOLEAN, begin : Lba, len : Lba]] /\ Count' = Count
    BY <1>11, <2>1 DEF LoadZsl, TypeOK, Count
  <2> QED
    BY <1>11, <2>2, EntryFacts DEF LoadZsl, search, TypeOK, Stage
<1>12. CASE UNCHANGED vars
  BY <1>12 DEF vars, search, TypeOK, At, search, Count
<1> QED
  BY <1>1, <1>2, <1>3, <1>4, <1>5, <1>6, <1>7, <1>8, <1>9, <1>10, <1>11, <1>12 DEF Next

\* The boot ROM comes first, then the loader, which searches only with a disk.
LEMMA FlowStep == TypeOK /\ InvFlow /\ [Next]_vars => InvFlow'
<1> SUFFICES ASSUME TypeOK, InvFlow, [Next]_vars
             PROVE  InvFlow'
  OBVIOUS
<1>1. CASE DriverInit
  BY <1>1 DEF DriverInit, InvFlow, At, search, TypeOK
<1>2. CASE CheckSignature
  BY <1>2 DEF CheckSignature, InvFlow, At, search, TypeOK
<1>3. CASE ReadFails
  BY <1>3 DEF ReadFails, InvFlow, At, search, TypeOK
<1>4. CASE ReadHeader
  BY <1>4 DEF ReadHeader, InvFlow, At, search, TypeOK
<1>5. CASE ReadEntry
  BY <1>5 DEF ReadEntry, InvFlow, At, search, TypeOK
<1>6. CASE ReadTypeGuid
  BY <1>6 DEF ReadTypeGuid, InvFlow, At, search, TypeOK
<1>7. CASE NoPartition
  BY <1>7 DEF NoPartition, InvFlow, At, search, TypeOK
<1>8. CASE LoadRom
  BY <1>8 DEF LoadRom, InvFlow, At, search, TypeOK
<1>9. CASE BootNextStage
  BY <1>9 DEF BootNextStage, InvFlow, At, search, TypeOK
<1>10. CASE ZslStart
  BY <1>10 DEF ZslStart, InvFlow, At, search, TypeOK
<1>11. CASE LoadZsl
  BY <1>11 DEF LoadZsl, InvFlow, TypeOK, Stage
<1>12. CASE UNCHANGED vars
  BY <1>12 DEF vars, search, InvFlow, At, search, TypeOK
<1> QED
  BY <1>1, <1>2, <1>3, <1>4, <1>5, <1>6, <1>7, <1>8, <1>9, <1>10, <1>11, <1>12 DEF Next

\* The type of an entry is read only after the test of its size.
LEMMA EntryStep == TypeOK /\ InvEntry /\ [Next]_vars => InvEntry'
<1> SUFFICES ASSUME TypeOK, InvEntry, [Next]_vars
             PROVE  InvEntry'
  OBVIOUS
<1>1. CASE DriverInit
  BY <1>1 DEF DriverInit, InvEntry, At, search, TooLarge, Count
<1>2. CASE CheckSignature
  BY <1>2 DEF CheckSignature, InvEntry, At, search, TooLarge, Count
<1>3. CASE ReadFails
  BY <1>3 DEF ReadFails, InvEntry, At, search, TooLarge, Count
<1>4. CASE ReadHeader
  BY <1>4 DEF ReadHeader, InvEntry, At, search, TooLarge, Count
<1>5. CASE ReadEntry
  BY <1>5 DEF ReadEntry, InvEntry, At, search, TooLarge, Count
<1>6. CASE ReadTypeGuid
  BY <1>6 DEF ReadTypeGuid, InvEntry, At, search, TooLarge, Count
<1>7. CASE NoPartition
  BY <1>7 DEF NoPartition, InvEntry, At, search, TooLarge, Count
<1>8. CASE LoadRom
  BY <1>8 DEF LoadRom, InvEntry, At, search, TooLarge, Count
<1>9. CASE BootNextStage
  BY <1>9 DEF BootNextStage, InvEntry, At, search, TooLarge, Count
<1>10. CASE ZslStart
  BY <1>10 DEF ZslStart, InvEntry, At, search, TooLarge, Count
<1>11. CASE LoadZsl
  BY <1>11 DEF LoadZsl, InvEntry, At, search, TooLarge, Count
<1>12. CASE UNCHANGED vars
  BY <1>12 DEF vars, search, InvEntry, At, search, TooLarge, Count
<1> QED
  BY <1>1, <1>2, <1>3, <1>4, <1>5, <1>6, <1>7, <1>8, <1>9, <1>10, <1>11, <1>12 DEF Next

\* The range is set to the first entry, and to no other before there is a match.
LEMMA FallbackStep ==
  TypeOK /\ InvFlow /\ InvEntry /\ InvFallback /\ [Next]_vars => InvFallback'
<1> SUFFICES ASSUME TypeOK, InvFlow, InvEntry, InvFallback, [Next]_vars
             PROVE  InvFallback'
  OBVIOUS
<1> USE DEF InvFallback, Default
<1>1. CASE DriverInit
  BY <1>1 DEF DriverInit, InvFlow, At, search, Whole, Fallback, TooLarge
<1>2. CASE CheckSignature
  BY <1>2 DEF CheckSignature, InvFlow, At, search, Whole, Fallback, TooLarge
<1>3. CASE ReadFails
  BY <1>3 DEF ReadFails, InvFlow, At, search, Whole, Fallback, TooLarge
<1>4. CASE ReadHeader
  BY <1>4 DEF ReadHeader, InvFlow, At, search, Whole, Fallback, TooLarge
<1>5. CASE ReadEntry
  <2>1. p \in Int /\ 0 <= p
    BY EntryFacts DEF TypeOK
  <2>2. /\ pc = "entry" /\ dim' = disk.parts[p + 1]
        /\ disk' = disk /\ stage' = stage
        /\ range' = IF p = 0 THEN Fallback(dim') ELSE range
        /\ (p' = p + 1 /\ pc' = "entry") \/ (p' = p /\ pc' = "guid")
    BY <1>5 DEF ReadEntry, NextEntry
  <2>3. Fallback(disk.parts[1])' = Fallback(disk.parts[1])
    BY <2>2 DEF Fallback
  <2>4. stage = "rom" => range' = Fallback(disk.parts[1])
    <3>1. CASE p = 0
      BY <2>2, <3>1
    <3>2. CASE p # 0
      BY <2>1, <2>2, <3>2
    <3> QED
      BY <3>1, <3>2
  <2> QED
    BY <2>1, <2>2, <2>3, <2>4
<1>6. CASE ReadTypeGuid
  <2>1. p \in Int /\ 0 <= p
    BY EntryFacts DEF TypeOK
  <2>2. /\ pc = "guid" /\ disk' = disk /\ stage' = stage
        /\ pc' = "load" \/ (pc' = "entry" /\ p' = p + 1 /\ range' = range)
    BY <1>6 DEF ReadTypeGuid, NextEntry
  <2>3. Fallback(disk.parts[1])' = Fallback(disk.parts[1])
    BY <2>2 DEF Fallback
  <2> QED
    BY <2>1, <2>2, <2>3
<1>7. CASE NoPartition
  BY <1>7 DEF NoPartition, InvFlow, At, search, Whole, Fallback, TooLarge
<1>8. CASE LoadRom
  BY <1>8 DEF LoadRom, InvFlow, At, search, Whole, Fallback, TooLarge
<1>9. CASE BootNextStage
  BY <1>9 DEF BootNextStage, InvFlow, At, search, Whole, Fallback, TooLarge
<1>10. CASE ZslStart
  BY <1>10 DEF ZslStart, InvFlow, At, search, Whole, Fallback, TooLarge
<1>11. CASE LoadZsl
  BY <1>11 DEF LoadZsl, InvFlow, At, search, Whole, Fallback, TooLarge
<1>12. CASE UNCHANGED vars
  BY <1>12 DEF vars, InvFlow, At, search, Whole, Fallback, TooLarge
<1> QED
  BY <1>1, <1>2, <1>3, <1>4, <1>5, <1>6, <1>7, <1>8, <1>9, <1>10, <1>11, <1>12 DEF Next

\* What the disk holds does not change, and so does not what it designates.
LEMMA ReferenceStays ==
  ASSUME [Next]_vars
  PROVE  /\ Count' = Count /\ Tidy' = Tidy
         /\ \A s \in Stage : Candidates(s)' = Candidates(s) /\ First(s)' = First(s)
BY DiskStays DEF Count, Tidy, WellFormed, Candidates, TypeFor, PartLen, First

\* An entry that is too large or has another type is no candidate.
LEMMA NoCandidate ==
  ASSUME TypeOK, Tidy, NEW i \in 1 .. Count,
         TooLarge(disk.parts[i]) \/ disk.parts[i].type # Wanted
  PROVE  i \notin Candidates(stage)
BY SizeTest, ConstantFacts DEF Candidates, Wanted, TypeFor, TypeOK

\* An entry that is passed over is no candidate.
LEMMA SearchStep ==
  TypeOK /\ InvEntry /\ InvSearch /\ [Next]_vars => InvSearch'
<1> SUFFICES ASSUME TypeOK, InvEntry, InvSearch, [Next]_vars
             PROVE  InvSearch'
  OBVIOUS
<1>a. Tidy' = Tidy /\ Count' = Count
  BY ReferenceStays
<1>b. \A s \in Stage : Candidates(s)' = Candidates(s)
  BY ReferenceStays
<1>c. stage \in Stage /\ p \in Int /\ 0 <= p
  BY EntryFacts DEF TypeOK
<1> USE <1>a, <1>c DEF InvSearch
<1>1. CASE DriverInit
  BY <1>1 DEF DriverInit, At, search
<1>2. CASE CheckSignature
  BY <1>2 DEF CheckSignature, At, search
<1>3. CASE ReadFails
  BY <1>3 DEF ReadFails, At, search
<1>4. CASE ReadHeader
  BY <1>4 DEF ReadHeader, At, search
<1>5. CASE ReadEntry
  <2>1. /\ pc = "entry" /\ stage' = stage /\ p + 1 \in 1 .. Count
        /\ p' = p \/ (p' = p + 1 /\ TooLarge(disk.parts[p + 1]))
    <3>1. /\ pc = "entry" /\ stage' = stage /\ p < Count /\ dim' = disk.parts[p + 1]
          /\ p' = p \/ (p' = p + 1 /\ TooLarge(dim'))
      BY <1>5 DEF ReadEntry, NextEntry
    <3> QED
      BY <3>1, EntryFacts
  <2>2. Candidates(stage)' = Candidates(stage)
    BY <1>b, <2>1 DEF Candidates, TypeFor
  <2>3. ASSUME Tidy, p' = p + 1
        PROVE  p + 1 \notin Candidates(stage)
    BY <2>1, <2>3, NoCandidate
  <2> QED
    BY <2>1, <2>2, <2>3
<1>6. CASE ReadTypeGuid
  <2>1. /\ pc = "guid" /\ stage' = stage /\ p + 1 \in 1 .. Count
        /\ pc' = "load" \/ (p' = p + 1 /\ disk.parts[p + 1].type # Wanted)
    <3>1. /\ pc = "guid" /\ stage' = stage /\ p < Count /\ dim = disk.parts[p + 1]
          /\ pc' = "load" \/ (p' = p + 1 /\ dim.type # Wanted)
      BY <1>6 DEF ReadTypeGuid, NextEntry, Matches, InvEntry
    <3> QED
      BY <3>1, EntryFacts
  <2>2. Candidates(stage)' = Candidates(stage)
    BY <1>b, <2>1 DEF Candidates, TypeFor
  <2>3. ASSUME Tidy, pc' # "load"
        PROVE  p + 1 \notin Candidates(stage)
    BY <2>1, <2>3, NoCandidate
  <2> QED
    BY <2>1, <2>2, <2>3
<1>7. CASE NoPartition
  BY <1>7 DEF NoPartition, At, search
<1>8. CASE LoadRom
  BY <1>8 DEF LoadRom, At, search
<1>9. CASE BootNextStage
  BY <1>9 DEF BootNextStage, At, search
<1>10. CASE ZslStart
  BY <1>10 DEF ZslStart, At, search
<1>11. CASE LoadZsl
  BY <1>11 DEF LoadZsl, At, search
<1>12. CASE UNCHANGED vars
  BY <1>12 DEF vars, search, Candidates, TypeFor
<1> QED
  BY <1>1, <1>2, <1>3, <1>4, <1>5, <1>6, <1>7, <1>8, <1>9, <1>10, <1>11, <1>12 DEF Next

-----------------------------------------------------------------------------
(* What is loaded. *)

\* The range is that of the first candidate, or the fallback if there is none.
LEMMA SelectedStep ==
  /\ TypeOK /\ InvFlow /\ InvEntry /\ InvFallback /\ InvSearch /\ InvSelected
  /\ [Next]_vars
  => InvSelected'
<1> SUFFICES ASSUME TypeOK, InvFlow, InvEntry, InvFallback, InvSearch, InvSelected,
                    [Next]_vars, pc' = "load"
             PROVE  /\ Matched' =>
                         /\ Sub(range.end, range.begin)' < MaxLbas[stage']
                         /\ Tidy' => \E i \in 1 .. Count' :
                              /\ IsFirst(i, stage)'
                              /\ range' = [begin |-> disk'.parts[i].begin, end |-> disk'.parts[i].end]
                    /\ ~Matched' =>
                         /\ range' = Default(gpt /\ Count > 0)'
                         /\ gpt' /\ Tidy' => Candidates("rom")' = {}
  BY DEF InvSelected
<1>a. Tidy' = Tidy /\ Count' = Count /\ disk' = disk
  BY ReferenceStays, DiskStays
<1>b. stage \in Stage /\ p \in Int /\ 0 <= p /\ Count \in Int
  BY EntryFacts DEF TypeOK
<1>1. CASE CheckSignature
  <2>1. stage = "rom" /\ stage' = "rom" /\ ~gpt' /\ range' = Whole
    BY <1>1 DEF CheckSignature, InvFlow, Whole
  <2> QED
    BY <2>1 DEF Matched, Default, Whole
<1>2. CASE ReadTypeGuid
  <2>1. /\ pc = "guid" /\ stage' = stage /\ gpt' = gpt /\ partIdx' = p
        /\ dim.type = Wanted /\ range' = [begin |-> dim.begin, end |-> dim.end]
    BY <1>2 DEF ReadTypeGuid, Matches
  <2>2. p + 1 \in 1 .. Count /\ dim = disk.parts[p + 1] /\ ~TooLarge(dim)
    BY <1>b, <2>1 DEF InvEntry
  <2>3. Matched'
    BY <1>b, <2>1 DEF Matched, InvFlow
  <2>4. Sub(range.end, range.begin)' < MaxLbas[stage']
    <3>1. Sub(dim.end, dim.begin) < MaxLbas[stage]
      <4>1. dim.end \in Int /\ dim.begin \in Int
        BY <2>2, EntryFacts, LbaFacts DEF Part
      <4>2. Sub(dim.end, dim.begin) \in Int
        BY <4>1, Arithmetic, LbaFacts
      <4> QED
        BY <1>b, <2>2, <4>2, ConstantFacts DEF TooLarge
    <3> QED
      BY <2>1, <3>1 DEF Sub
  <2>i. PICK i \in 1 .. Count : i = p + 1
    BY <2>2
  <2>5. ASSUME Tidy
        PROVE  IsFirst(i, stage)'
    <3>1. PartLen(disk.parts[p + 1]) <= MaxLbas[stage]
      BY <2>2, <2>5, SizeTest
    <3>2. p + 1 \in Candidates(stage)
      BY <2>1, <2>2, <3>1 DEF Candidates, Wanted, TypeFor
    <3>3. \A j \in 1 .. p : j \notin Candidates(stage)
      BY <2>1, <2>5 DEF InvSearch
    <3>4. Candidates(stage)' = Candidates(stage)
      BY <1>a, <2>1 DEF Candidates, TypeFor, PartLen
    <3>5. i \in Candidates(stage)' /\ \A j \in 1 .. i - 1 : j \notin Candidates(stage)'
      BY <1>b, <2>i, <3>2, <3>3, <3>4
    <3> QED
      BY <3>5 DEF IsFirst
  <2>6. Tidy' => IsFirst(i, stage)' /\ range' = [begin |-> disk'.parts[i].begin, end |-> disk'.parts[i].end]
    BY <1>a, <2>i, <2>1, <2>2, <2>5
  <2> QED
    BY <1>a, <2>i, <2>3, <2>4, <2>6
<1>3. CASE NoPartition
  <2>1. /\ pc = "entry" /\ p = Count /\ stage = "rom" /\ stage' = "rom" /\ partIdx' = -1
        /\ gpt' = gpt /\ range' = range
    BY <1>3 DEF NoPartition
  <2>2. gpt /\ range = Default(p > 0)
    BY <2>1 DEF InvFlow, InvFallback
  <2>3. Fallback(disk.parts[1])' = Fallback(disk.parts[1])
    BY <1>a, <2>1 DEF Fallback
  <2>4. ASSUME Tidy
        PROVE  Candidates("rom")' = {}
    <3>1. \A i \in 1 .. Count : i \notin Candidates("rom")
      BY <2>1, <2>4 DEF InvSearch
    <3>2. Candidates("rom") \subseteq 1 .. Count
      BY DEF Candidates
    <3>3. Candidates("rom")' = Candidates("rom")
      BY ReferenceStays DEF Stage
    <3> QED
      BY <3>1, <3>2, <3>3
  <2> QED
    BY <1>a, <1>b, <2>1, <2>2, <2>3, <2>4 DEF Matched, Default, Whole
<1>4. CASE UNCHANGED vars
  <2>1. pc = "load" /\ UNCHANGED <<stage, gpt, range, partIdx>>
    BY <1>4 DEF vars, search
  <2>2. Matched' = Matched
    BY <2>1 DEF Matched
  <2>3. \A i : IsFirst(i, stage)' = IsFirst(i, stage)
    BY <1>a, <2>1 DEF IsFirst, Candidates, TypeFor, PartLen
  <2>4. Default(gpt /\ Count > 0)' = Default(gpt /\ Count > 0)
    BY <1>a, <2>1 DEF Default, Fallback, Whole
  <2>5. Candidates("rom")' = Candidates("rom")
    BY ReferenceStays DEF Stage
  <2>6. Sub(range.end, range.begin)' = Sub(range.end, range.begin)
    BY <2>1 DEF Sub
  <2> QED
    BY <1>a, <2>1, <2>2, <2>3, <2>4, <2>5, <2>6 DEF InvSelected
<1> QED
  BY <1>1, <1>2, <1>3, <1>4 DEF Next, DriverInit, ReadFails, ReadHeader, ReadEntry, LoadRom,
     BootNextStage, ZslStart, LoadZsl, At

\* The length of what is loaded, for each of the three ranges.
LEMMA LengthIs ==
  ASSUME NEW n \in Int, 0 < n, n < Lbas, Sub(range.end, range.begin) = n - 1
  PROVE  Length = n
<1>1. n - 1 \in Int /\ 1 \in Int /\ 0 <= (n - 1) + 1 /\ (n - 1) + 1 < Lbas
  BY ConstantFacts
<1>2. Add(n - 1, 1) = (n - 1) + 1
  BY <1>1, Arithmetic
<1> QED
  BY <1>2 DEF Length

\* Without a partition table the whole buffer is loaded.
LEMMA WholeLength ==
  ASSUME range = Whole
  PROVE  Blocks(range.begin, Length) = Blocks(0, MaxLbas["rom"])
<1> DEFINE n == MaxLbas["rom"]
<1>1. n \in Int /\ 0 < n /\ n < Lbas
  BY ConstantFacts DEF Stage
<1>2. Sub(n - 1, 0) = n - 1
  BY <1>1, ConstantFacts, Arithmetic
<1>3. range.begin = 0 /\ range.end = n - 1
  BY DEF Whole
<1>4. Length = n
  BY <1>1, <1>2, <1>3, LengthIs
<1> QED
  BY <1>3, <1>4

\* The fallback is as long as the first entry, or as the buffer.
LEMMA FallbackLength ==
  ASSUME TypeOK, Tidy, Count > 0, stage = "rom", range = Fallback(disk.parts[1])
  PROVE  /\ Length = Min({PartLen(disk.parts[1]), MaxLbas["rom"]})
         /\ Length <= MaxLbas["rom"]
<1> DEFINE e == disk.parts[1]
           n == MaxLbas["rom"]
<1>1. n \in Int /\ 0 < n /\ n < Lbas /\ Lbas \in Int
  BY ConstantFacts DEF Stage
<1>2. 1 \in 1 .. Count
  BY EntryFacts
<1>3. e.begin \in Int /\ e.end \in Int /\ 0 <= e.begin /\ e.end < Lbas
  BY <1>2, EntryFacts, LbaFacts DEF Part
<1>4. e.begin <= e.end /\ e.begin + n <= Lbas
  BY <1>2 DEF Tidy, WellFormed, Stage
<1>5. Add(e.begin, n - 1) = e.begin + n - 1
  BY <1>1, <1>3, <1>4, Arithmetic
<1>6. range.begin = e.begin /\ range.end = Min({e.end, e.begin + n - 1})
  BY <1>5 DEF Fallback
<1>7. PartLen(e) = e.end - e.begin + 1
  BY DEF PartLen
<1> HIDE DEF e, n
<1>8. CASE e.end <= e.begin + n - 1
  <2>1. range.end = e.end
    BY <1>1, <1>3, <1>6, <1>8, MinOfTwo
  <2>2. Sub(e.end, e.begin) = e.end - e.begin
    BY <1>1, <1>3, <1>4, Arithmetic
  <2>3. PartLen(e) \in Int /\ 0 < PartLen(e) /\ PartLen(e) <= n
    BY <1>1, <1>3, <1>4, <1>7, <1>8
  <2>4. Sub(range.end, range.begin) = PartLen(e) - 1
    BY <1>3, <1>6, <1>7, <2>1, <2>2
  <2>5. Length = PartLen(e)
    BY <1>1, <2>3, <2>4, LengthIs
  <2>6. Min({PartLen(e), n}) = PartLen(e)
    BY <1>1, <2>3, MinOfTwo
  <2> QED
    BY <2>3, <2>5, <2>6 DEF e, n
<1>9. CASE e.end > e.begin + n - 1
  <2>1. range.end = e.begin + n - 1
    BY <1>1, <1>3, <1>6, <1>9, MinOfTwo
  <2>2. Sub(e.begin + n - 1, e.begin) = n - 1
    BY <1>1, <1>3, <1>4, Arithmetic
  <2>3. Length = n
    BY <1>1, <1>6, <2>1, <2>2, LengthIs
  <2>4. Min({PartLen(e), n}) = n
    <3>1. PartLen(e) \in Int /\ PartLen(e) > n
      BY <1>1, <1>3, <1>7, <1>9
    <3> QED
      BY <1>1, <3>1, MinOfTwo
  <2> QED
    BY <1>1, <2>3, <2>4 DEF e, n
<1> QED
  BY <1>1, <1>3, <1>8, <1>9

\* A match is loaded as it is on the disk.
LEMMA MatchLength ==
  ASSUME TypeOK, InvSelected, pc = "load", Matched
  PROVE  /\ Length <= MaxLbas[stage]
         /\ Tidy => Candidates(stage) # {} /\ Blocks(range.begin, Length) = First(stage)
<1>1. stage \in Stage /\ range.begin \in Int /\ range.end \in Int
  BY LbaFacts DEF TypeOK
<1>2. MaxLbas[stage] \in Int /\ MaxLbas[stage] < Lbas /\ Lbas \in Int
  BY <1>1, ConstantFacts
<1> DEFINE n == Sub(range.end, range.begin) + 1
<1>3. Sub(range.end, range.begin) < MaxLbas[stage]
  BY DEF InvSelected
<1>4. Sub(range.end, range.begin) \in Lba
  BY <1>1, Arithmetic
<1>5. n \in Int /\ 0 < n /\ n <= MaxLbas[stage] /\ n < Lbas /\ Sub(range.end, range.begin) = n - 1
  BY <1>2, <1>3, <1>4, LbaFacts
<1> HIDE DEF n
<1>6. Length = n
  BY <1>5, LengthIs
<1>7. ASSUME Tidy
      PROVE  Candidates(stage) # {} /\ Blocks(range.begin, Length) = First(stage)
  <2>1. PICK i \in 1 .. Count :
          IsFirst(i, stage) /\ range = [begin |-> disk.parts[i].begin, end |-> disk.parts[i].end]
    BY <1>7 DEF InvSelected
  <2>2. /\ Sub(range.end, range.begin) = PartLen(disk.parts[i]) - 1
        /\ PartLen(disk.parts[i]) \in Int
    BY <1>7, <2>1, SizeTest
  <2>3. n = PartLen(disk.parts[i])
    BY <1>5, <2>2
  <2> QED
    BY <1>1, <1>6, <2>1, <2>3, FirstIs
<1> QED
  BY <1>5, <1>6, <1>7

\* The loader keeps what it has found.
LEMMA LoadedStep ==
  /\ TypeOK /\ InvFlow /\ InvSelected /\ InvLoaded /\ [Next]_vars
  => InvLoaded'
<1> SUFFICES ASSUME TypeOK, InvFlow, InvSelected, InvLoaded, [Next]_vars, Tidy,
                    NEW s \in {"dtb", "fw"}
             PROVE  /\ mem'[s].ok => mem'[s] = First(s)
                    /\ (pc' = "launched" /\ flag') \/ (s = "dtb" /\ stage' = "fw")
                       => Candidates(s) # {}
  BY ReferenceStays DEF InvLoaded, Stage
<1>a. /\ mem[s].ok => mem[s] = First(s)
      /\ (pc = "launched" /\ flag) \/ (s = "dtb" /\ stage = "fw") => Candidates(s) # {}
  BY DEF InvLoaded
<1>1. CASE LoadZsl
  <2>1. pc = "load" /\ stage # "rom" /\ stage \in Stage
    BY <1>1 DEF LoadZsl, TypeOK
  <2>2. Candidates(stage) # {} /\ Blocks(range.begin, Length) = First(stage)
    BY <2>1, MatchLength DEF Matched
  <2>3. mem'[s] = mem[s] \/ (s = stage /\ mem'[s] = Blocks(range.begin, Length))
    BY <1>1, <2>1 DEF LoadZsl, TypeOK, Stage
  <2>4. \/ stage = "dtb" /\ pc' = "header"
        \/ stage = "fw" /\ stage' = "fw"
    BY <1>1, <2>1 DEF LoadZsl, Stage
  <2> QED
    BY <1>a, <2>2, <2>3, <2>4
<1>2. CASE LoadRom
  <2>1. mem'[s] = mem[s] /\ stage' = stage /\ pc' # "launched"
    BY <1>2 DEF LoadRom, TypeOK, Stage
  <2> QED
    BY <1>a, <2>1
<1>3. CASE ZslStart
  <2>1. mem' = mem /\ stage' = "dtb" /\ (pc' = "launched" => ~flag')
    BY <1>3 DEF ZslStart, At, InvFlow
  <2> QED
    BY <1>a, <2>1
<1>4. ASSUME DriverInit \/ CheckSignature \/ ReadFails \/ ReadHeader \/ ReadEntry
             \/ ReadTypeGuid \/ NoPartition \/ BootNextStage
      PROVE  mem' = mem /\ (stage' = stage \/ stage' = "dtb") /\ pc' # "launched"
  BY <1>4 DEF DriverInit, CheckSignature, ReadFails, ReadHeader, ReadEntry, ReadTypeGuid,
     NoPartition, BootNextStage, At
<1>5. CASE UNCHANGED vars
  BY <1>a, <1>5 DEF vars
<1> QED
  BY <1>a, <1>1, <1>2, <1>3, <1>4, <1>5 DEF Next

\* What the boot ROM has loaded is the reference, and stays.
LEMMA RomStep ==
  /\ TypeOK /\ InvFlow /\ InvSelected /\ RomBootsReference /\ [Next]_vars
  => RomBootsReference'
<1> SUFFICES ASSUME TypeOK, InvFlow, InvSelected, RomBootsReference, [Next]_vars, Tidy,
                    mem'["rom"].ok
             PROVE  mem'["rom"] = RomReference'
  BY ReferenceStays DEF RomBootsReference
<1>a. disk' = disk /\ Count' = Count
  BY DiskStays, ReferenceStays
<1>b. RomReference' = IF ~gpt' \/ Count = 0 THEN Blocks(0, MaxLbas["rom"])
                      ELSE IF Candidates("rom") # {} THEN First("rom")
                      ELSE Blocks(disk.parts[1].begin, Min({PartLen(disk.parts[1]), MaxLbas["rom"]}))
  BY <1>a, ReferenceStays DEF RomReference, Stage, PartLen
<1>1. CASE LoadRom
  <2>1. pc = "load" /\ stage = "rom" /\ gpt' = gpt
    BY <1>1 DEF LoadRom
  <2>2. CASE mem' = mem
    BY <1>b, <2>1, <2>2 DEF RomBootsReference, RomReference
  <2>3. CASE mem' # mem
    <3>1. mem'["rom"] = Blocks(range.begin, Length)
      BY <1>1, <2>1, <2>3 DEF LoadRom, TypeOK, Stage
    <3>2. CASE Matched
      <4>1. Candidates("rom") # {} /\ Blocks(range.begin, Length) = First("rom")
        BY <2>1, <3>2, MatchLength
      <4>2. gpt /\ Count # 0
        BY <2>1, <3>2, <4>1, EntryFacts DEF Matched, Candidates
      <4> QED
        BY <1>b, <2>1, <3>1, <4>1, <4>2
    <3>3. CASE ~Matched
      <4>1. range = Default(gpt /\ Count > 0) /\ (gpt => Candidates("rom") = {}) /\ Count \in Nat
        BY <2>1, <3>3, EntryFacts DEF InvSelected
      <4>2. CASE gpt /\ Count > 0
        <5>1. range = Fallback(disk.parts[1])
          BY <4>1, <4>2 DEF Default
        <5>2. Length = Min({PartLen(disk.parts[1]), MaxLbas["rom"]})
          BY <2>1, <4>2, <5>1, FallbackLength
        <5>3. range.begin = disk.parts[1].begin
          BY <5>1 DEF Fallback
        <5> QED
          BY <1>b, <2>1, <3>1, <4>1, <4>2, <5>2, <5>3
      <4>3. CASE ~(gpt /\ Count > 0)
        <5>1. Blocks(range.begin, Length) = Blocks(0, MaxLbas["rom"])
          BY <4>1, <4>3, WholeLength DEF Default
        <5> QED
          BY <1>b, <2>1, <3>1, <4>1, <4>3, <5>1
      <4> QED
        BY <4>2, <4>3
    <3> QED
      BY <3>2, <3>3
  <2> QED
    BY <2>2, <2>3
<1>2. CASE LoadZsl
  <2>1. mem'["rom"] = mem["rom"] /\ gpt' = gpt
    BY <1>2 DEF LoadZsl, TypeOK, Stage
  <2> QED
    BY <1>b, <2>1 DEF RomBootsReference, RomReference
<1>3. CASE CheckSignature
  <2>1. mem' = mem /\ ~mem["rom"].ok
    BY <1>3 DEF CheckSignature, InvFlow, Stage
  <2> QED
    BY <2>1
<1>4. ASSUME DriverInit \/ ReadFails \/ ReadHeader \/ ReadEntry \/ ReadTypeGuid
             \/ NoPartition \/ BootNextStage \/ ZslStart \/ UNCHANGED vars
      PROVE  mem' = mem /\ gpt' = gpt
  BY <1>4 DEF DriverInit, ReadFails, ReadHeader, ReadEntry, ReadTypeGuid, NoPartition,
     BootNextStage, ZslStart, vars
<1>5. CASE mem' = mem /\ gpt' = gpt
  BY <1>b, <1>5 DEF RomBootsReference, RomReference
<1> QED
  BY <1>1, <1>2, <1>3, <1>4, <1>5 DEF Next

\* Whatever is about to be loaded fits, but for a fallback on an untidy disk.
LEMMA FitsNow ==
  ASSUME TypeOK, InvFlow, InvSelected, pc = "load",
         Tidy \/ stage # "rom" \/ ~gpt \/ partIdx >= 0
  PROVE  Length <= MaxLbas[stage]
<1>1. CASE Matched
  BY <1>1, MatchLength
<1>2. CASE ~Matched
  <2>1. stage = "rom" /\ range = Default(gpt /\ Count > 0)
    BY <1>2 DEF Matched, InvSelected
  <2>2. CASE gpt /\ Count > 0
    <3>1. Tidy
      BY <1>2, <2>1, <2>2 DEF Matched, TypeOK
    <3> QED
      BY <2>1, <2>2, <3>1, FallbackLength DEF Default
  <2>3. CASE ~(gpt /\ Count > 0)
    <3>1. Blocks(range.begin, Length) = Blocks(0, MaxLbas["rom"])
      BY <2>1, <2>3, WholeLength DEF Default
    <3> QED
      BY <2>1, <3>1, ConstantFacts DEF Blocks, Stage
  <2> QED
    BY <2>2, <2>3
<1> QED
  BY <1>1, <1>2

\* What has been loaded fits.
LEMMA FitsStep ==
  /\ TypeOK /\ InvFlow /\ InvSelected /\ SelectionFits /\ [Next]_vars
  => SelectionFits'
<1> SUFFICES ASSUME TypeOK, InvFlow, InvSelected, SelectionFits, [Next]_vars,
                    NEW s \in Stage, mem'[s].ok, Tidy \/ s # "rom" \/ ~gpt' \/ LoadedMatch'
             PROVE  mem'[s].len <= MaxLbas[s]
  BY ReferenceStays DEF SelectionFits
<1>a. mem[s].ok /\ (Tidy \/ s # "rom" \/ ~gpt \/ LoadedMatch) => mem[s].len <= MaxLbas[s]
  BY DEF SelectionFits
<1>1. CASE LoadRom \/ LoadZsl
  <2>1. pc = "load" /\ gpt' = gpt /\ stage \in Stage
    BY <1>1 DEF LoadRom, LoadZsl, TypeOK
  <2>2. mem'[s] = mem[s] \/ (s = stage /\ mem'[s].len = Length)
    BY <1>1, <2>1 DEF LoadRom, LoadZsl, Blocks, TypeOK
  <2>3. LoadedMatch' => stage = "rom" /\ partIdx >= 0 /\ mem'[stage].len = Length
    BY <1>1, <2>1 DEF LoadRom, LoadZsl, LoadedMatch, search, Blocks, TypeOK
  <2>4. CASE s = stage /\ mem'[s].len = Length
    <3>1. Tidy \/ stage # "rom" \/ ~gpt \/ partIdx >= 0
      BY <2>1, <2>3, <2>4
    <3>2. Length <= MaxLbas[stage]
      BY <2>1, <3>1, FitsNow
    <3> QED
      BY <2>4, <3>2
  <2>5. CASE ~(s = stage /\ mem'[s].len = Length)
    <3>1. mem'[s] = mem[s]
      BY <2>2, <2>5
    <3>2. Tidy \/ s # "rom" \/ ~gpt
      BY <2>1, <2>3, <2>5
    <3> QED
      BY <1>a, <3>1, <3>2
  <2> QED
    BY <2>4, <2>5
<1>2. CASE CheckSignature
  BY <1>2 DEF CheckSignature, InvFlow
<1>3. ASSUME DriverInit \/ ReadFails \/ ReadHeader \/ ReadEntry \/ ReadTypeGuid
             \/ NoPartition \/ BootNextStage \/ ZslStart \/ UNCHANGED vars
      PROVE  mem' = mem /\ gpt' = gpt /\ (LoadedMatch' => LoadedMatch)
  BY <1>3 DEF DriverInit, ReadFails, ReadHeader, ReadEntry, ReadTypeGuid, NoPartition,
     BootNextStage, ZslStart, vars, search, At, LoadedMatch
<1> QED
  BY <1>a, <1>1, <1>2, <1>3 DEF Next

-----------------------------------------------------------------------------
(* The theorems. *)

\* Nothing is loaded at first.
LEMMA InitInv == Init => Inv
<1> SUFFICES ASSUME Init
             PROVE  Inv
  OBVIOUS
<1>a. Count \in Nat
  BY DisksAssumption DEF Init, Count
<1>b. 0 \in Lba
  BY ConstantFacts DEF Lba
<1>c. NoPart \in Part /\ [begin |-> 0, end |-> 0] \in [begin : Lba, end : Lba]
  BY <1>b DEF NoPart, Part, Type
<1>d. [s \in Stage |-> NotLoaded] \in [Stage -> [ok : BOOLEAN, begin : Lba, len : Lba]]
  BY <1>b DEF NotLoaded
<1>e. p \in 0 .. Count /\ partIdx \in -1 .. Count - 1
  BY <1>a DEF Init
<1>1. TypeOK
  BY <1>c, <1>d, <1>e DEF Init, TypeOK, Stage
<1>2. InvFlow /\ InvEntry /\ InvFallback /\ InvSearch /\ InvSelected
  BY DEF Init, InvFlow, InvEntry, InvFallback, InvSearch, InvSelected, NotLoaded
<1>3. InvLoaded
  BY DEF Init, InvLoaded, NotLoaded, Stage
<1>4. RomBootsReference /\ SelectionFits
  BY DEF Init, RomBootsReference, SelectionFits, NotLoaded, Stage
<1> QED
  BY <1>1, <1>2, <1>3, <1>4 DEF Inv

\* The invariant holds in every state of every behaviour.
THEOREM Invariance == Spec => []Inv
<1>1. Inv /\ [Next]_vars => Inv'
  BY TypeStep, FlowStep, EntryStep, FallbackStep, SearchStep, SelectedStep, LoadedStep,
     RomStep, FitsStep DEF Inv
<1> QED
  BY InitInv, <1>1, PTL DEF Spec

\* The variables of the boot flow keep their types: every block number and every
\* length is one, although sums and differences wrap (gpt.c).
THEOREM TypeCorrect == Spec => []TypeOK
<1>1. Inv => TypeOK
  BY DEF Inv
<1> QED
  BY <1>1, Invariance, PTL

\* On every disk whose entries are in order, what the boot ROM runs is the first
\* partition of the right type that fits, else the start of the first partition,
\* else the start of the disk (gpt_boot_part_else_raw).
THEOREM RomBootsTheReference == Spec => []RomBootsReference
<1>1. Inv => RomBootsReference
  BY DEF Inv
<1> QED
  BY <1>1, Invariance, PTL

\* What gpt_find_partition selects never exceeds the buffer it is read into,
\* whatever the entries say; on tidy disks neither does the fallback.
THEOREM SelectionAlwaysFits == Spec => []SelectionFits
<1>1. Inv => SelectionFits
  BY DEF Inv
<1> QED
  BY <1>1, Invariance, PTL

\* A zero-stage loader with a disk starts the firmware only if it found a device
\* tree and a firmware partition, and has read from the first of each that fits
\* (zsl.c).
THEOREM FirmwareComesFromDisk == Spec => []FirmwareFromDisk
<1>1. Inv => FirmwareFromDisk
  BY DEF Inv, InvLoaded, FirmwareFromDisk
<1> QED
  BY <1>1, Invariance, PTL

-----------------------------------------------------------------------------
(***************************************************************************)
(* What the boot flow takes for granted of a read, that it fails or brings *)
(* what is on the disk: the EEPROM's driver, I2cEeprom.                    *)
(***************************************************************************)
\* The driver between two chunks.
Between == at \in {"access", "done"}

\* A read below 64 KiB.
Below == ~op.write /\ op.addr + op.len <= Eeprom!BlockBytes

\* The types, and what is assumed of the constants.
EepromTypes ==
  /\ Eeprom!DepthFits /\ Eeprom!AccessesFit
  /\ at \in {"access", "vacate", "enable", "receive", "done"}
  /\ op \in [addr : Nat, len : Nat \ {0}, write : BOOLEAN]
  /\ ~op.write => op.len <= BufBytes
  /\ offs \in Nat
  /\ chunk \in [offs : Nat, addr : Nat, len : Nat]
  /\ buf \in [0 .. BufBytes - 1 -> Int]
  /\ fmt \in Seq([kind : {"start", "tx", "stop", "rx"}, byte : Nat])
  /\ rx \in Seq(Nat)
  /\ enabled \in BOOLEAN
  /\ dev \in [base : Nat, ptr : Nat, bytes : Nat, left : Nat, pending : SUBSET (Nat \X Nat)]

\* A chunk under way ends in the access or, if it is the first, at the next
\* boundary; the next one starts where it ends, if there is one.  A chunk to
\* be written is never empty.
ChunkInv ==
  ~Between =>
    /\ chunk.len \in 1 .. Depth
    /\ ~op.write =>
         /\ chunk.addr = op.addr + chunk.offs /\ chunk.offs < op.len
         /\ \/ chunk.offs + chunk.len <= op.len
            \/ chunk.offs = 0 /\ op.addr % Depth # 0 /\ chunk.len = Eeprom!FirstLen
         /\ offs <= chunk.offs + chunk.len \/ op.len <= chunk.offs + chunk.len

\* What precedes the chunk under way is in the buffer.
BufInv ==
  /\ at = "done" => offs >= op.len
  /\ Below => \A i \in 0 .. op.len - 1 :
       i < (IF Between THEN offs ELSE chunk.offs) => buf[i] = op.addr + i

\* The bytes of an address.
High(a) == (a \div 256) % 256
Low(a) == a % 256

\* The format entries of a read chunk, and what is left of them after n.
E1 == Eeprom!Entry("start", Eeprom!CtrlByte(chunk.addr))
E2 == Eeprom!Entry("tx", High(chunk.addr))
E3 == Eeprom!Entry("stop", Low(chunk.addr))
E4 == Eeprom!Entry("start", Eeprom!CtrlByte(chunk.addr) + 1)
E5 == Eeprom!Entry("rx", chunk.len)

\* Nothing has been requested.
Silent == rx = <<>> /\ dev.left = 0

\* What the bytes are that have been received.
Bytes ==
  /\ dev.ptr = (chunk.addr + Len(rx)) % Eeprom!BlockBytes
  /\ \A k \in 1 .. Len(rx) : rx[k] = (chunk.addr + k - 1) % Eeprom!BlockBytes

\* The bus after n entries of a read chunk.
Stage0 == Silent /\ fmt = <<E1, E2, E3, E4, E5>>
Stage1 == Silent /\ fmt = <<E2, E3, E4, E5>> /\ (Below => dev.base = 0 /\ dev.bytes = 0)
Stage2 ==
  /\ Silent /\ fmt = <<E3, E4, E5>>
  /\ Below => dev.base = 0 /\ dev.bytes = 1 /\ dev.ptr = High(chunk.addr) * 256
Stage3 == Silent /\ fmt = <<E4, E5>> /\ (Below => dev.base = 0 /\ dev.ptr = chunk.addr)
Stage4 == Silent /\ fmt = <<E5>> /\ (Below => dev.base = 0 /\ dev.ptr = chunk.addr)
Stage5 == fmt = <<>> /\ Len(rx) + dev.left = chunk.len /\ (Below => dev.base = 0 /\ Bytes)

\* The host's FIFOs and the EEPROM while the driver reads.
ReadInv ==
  ~op.write =>
    /\ at \in {"access", "vacate", "done"} => Silent /\ fmt = <<>>
    /\ at = "enable" => ~enabled /\ Stage0
    /\ at = "receive" => Stage0 \/ Stage1 \/ Stage2 \/ Stage3 \/ Stage4 \/ Stage5

\* And while it writes.
WriteInv ==
  op.write =>
    /\ Silent
    /\ \A k \in 1 .. Len(fmt) : fmt[k].kind # "rx"
    /\ Len(fmt) <= 4 + Eeprom!Half

\* The inductive invariant.
EepromInv == EepromTypes /\ ChunkInv /\ BufInv /\ ReadInv /\ WriteInv /\ Eeprom!OverrunBounded

\* Numbers of the host and of the EEPROM.
LEMMA EepromFacts ==
  ASSUME EepromTypes
  PROVE  /\ Depth \in Nat /\ Depth >= 2 /\ Eeprom!Half \in Nat /\ Eeprom!Half >= 1
         /\ Eeprom!Half <= Depth
         /\ op.addr % Depth \in 0 .. Depth - 1
         /\ op.addr % Depth # 0 => Eeprom!FirstLen \in 1 .. Depth - 1
<1>1. Depth \in Nat /\ Depth >= 2 /\ op.addr \in Nat
  BY DEF EepromTypes, Eeprom!DepthFits
<1>2. op.addr % Depth \in 0 .. Depth - 1
  BY <1>1
<1>3. Depth \div 2 \in Nat /\ Depth \div 2 >= 1 /\ Depth \div 2 <= Depth
  BY <1>1
<1>4. QED
  BY <1>1, <1>2, <1>3 DEF Eeprom!FirstLen, Eeprom!Half

\* The control byte is a byte; below 64 KiB it selects the first block of the first
\* chip, and says "write".
LEMMA ControlByte ==
  ASSUME NEW a \in Nat
  PROVE  /\ Eeprom!CtrlByte(a) \in Nat
         /\ a < 65536 => /\ Eeprom!Selected(Eeprom!CtrlByte(a)) = 0
                         /\ Eeprom!Selected(Eeprom!CtrlByte(a) + 1) = 0
                         /\ Eeprom!Bit(Eeprom!CtrlByte(a), 0) = 0
                         /\ Eeprom!Bit(Eeprom!CtrlByte(a) + 1, 0) = 1
<1>1. Eeprom!CtrlByte(a) = (160 + ((a \div 65536) % 2) * 32768 + ((a \div 1048576) % 2) * 65536
                                + ((a \div 16777216) % 2) * 1048576) % 256
  BY SMT DEF Eeprom!CtrlByte, Eeprom!Bit
<1>2. /\ (a \div 65536) % 2 \in Nat /\ (a \div 1048576) % 2 \in Nat /\ (a \div 16777216) % 2 \in Nat
  BY SMT
<1>3. Eeprom!CtrlByte(a) \in Nat
  BY <1>1, <1>2, SMT
<1>4. ASSUME a < 65536
      PROVE  /\ Eeprom!Selected(Eeprom!CtrlByte(a)) = 0
             /\ Eeprom!Selected(Eeprom!CtrlByte(a) + 1) = 0
             /\ Eeprom!Bit(Eeprom!CtrlByte(a), 0) = 0
             /\ Eeprom!Bit(Eeprom!CtrlByte(a) + 1, 0) = 1
  <2>1. (a \div 65536) = 0 /\ (a \div 1048576) = 0 /\ (a \div 16777216) = 0
    BY <1>4, SMT
  <2>2. Eeprom!CtrlByte(a) = 160
    BY <1>1, <2>1, SMT
  <2>3. /\ Eeprom!Bit(160, 3) = 0 /\ Eeprom!Bit(160, 1) = 0 /\ Eeprom!Bit(160, 2) = 0
        /\ Eeprom!Bit(161, 3) = 0 /\ Eeprom!Bit(161, 1) = 0 /\ Eeprom!Bit(161, 2) = 0
        /\ Eeprom!Bit(160, 0) = 0 /\ Eeprom!Bit(161, 0) = 1
    BY SMT DEF Eeprom!Bit
  <2>4. QED
    BY <2>2, <2>3, SMT DEF Eeprom!Selected, Eeprom!BlockBytes
<1>5. QED
  BY <1>3, <1>4

\* What a start selects is the base of a block.
LEMMA BaseType ==
  ASSUME NEW c \in Nat
  PROVE  Eeprom!Selected(c) \in Nat
<1>1. (c \div 8) % 2 \in Nat /\ (c \div 2) % 2 \in Nat /\ (c \div 4) % 2 \in Nat
  BY SMT
<1>2. QED
  BY <1>1, SMT DEF Eeprom!Selected, Eeprom!Bit, Eeprom!BlockBytes

\* Two queues of known entries make one.
LEMMA QueueOfFive ==
  ASSUME NEW a, NEW b, NEW c, NEW d, NEW e
  PROVE  <<a, b, c>> \o <<d, e>> = <<a, b, c, d, e>>
<1> DEFINE S == {a, b, c, d, e}
           x == <<a, b, c>>
           y == <<d, e>>
           z == <<a, b, c, d, e>>
<1>1. x \in Seq(S) /\ y \in Seq(S) /\ z \in Seq(S) /\ Len(x) = 3 /\ Len(y) = 2 /\ Len(z) = 5
  OBVIOUS
<1>2. Len(x \o y) = 5 /\ x \o y \in Seq(S)
  BY <1>1
<1>3. \A k \in 1 .. 5 : (x \o y)[k] = z[k]
  BY <1>1
<1> HIDE DEF x, y, z
<1>4. x \o y = z
  BY <1>1, <1>2, <1>3
<1>5. QED
  BY <1>4 DEF x, y, z

\* A function on 1 .. n is a sequence.
LEMMA SeqOfFunction ==
  ASSUME NEW n \in Nat, NEW S, NEW f \in [1 .. n -> S]
  PROVE  f \in Seq(S) /\ Len(f) = n
OBVIOUS

\* Three queues, as a chunk to be written has them.
LEMMA ConcatThree ==
  ASSUME NEW S, NEW n \in Nat, NEW x \in Seq(S), NEW y \in Seq(S), NEW z \in Seq(S),
         Len(x) = 3, Len(y) = n, Len(z) = 1
  PROVE  x \o y \o z \in Seq(S) /\ Len(x \o y \o z) = 4 + n
<1>1. x \o y \in Seq(S) /\ Len(x \o y) = Len(x) + Len(y)
  BY ConcatProperties
<1>2. x \o y \o z \in Seq(S) /\ Len(x \o y \o z) = Len(x \o y) + Len(z)
  BY <1>1, ConcatProperties
<1>3. QED
  BY <1>1, <1>2

\* A queue of some entries is one of more.
LEMMA WiderSeq ==
  ASSUME NEW S, NEW T, S \subseteq T, NEW s \in Seq(S)
  PROVE  s \in Seq(T) /\ Len(s) \in Nat /\ \A k \in 1 .. Len(s) : s[k] \in S
<1>1. s \in [1 .. Len(s) -> S] /\ Len(s) \in Nat
  OBVIOUS
<1>2. s \in [1 .. Len(s) -> T]
  BY <1>1
<1>3. QED
  BY <1>1, <1>2, SeqOfFunction

\* The entries of a chunk, one by one.
LEMMA ReadQueue ==
  ASSUME chunk \in [offs : Nat, addr : Nat, len : Nat]
  PROVE  /\ <<>> \o Eeprom!ReadEntries = <<E1, E2, E3, E4, E5>>
         /\ Eeprom!ReadEntries \in Seq([kind : {"start", "tx", "stop", "rx"}, byte : Nat])
<1>1. /\ E1 \in [kind : {"start", "tx", "stop", "rx"}, byte : Nat]
      /\ E2 \in [kind : {"start", "tx", "stop", "rx"}, byte : Nat]
      /\ E3 \in [kind : {"start", "tx", "stop", "rx"}, byte : Nat]
      /\ E4 \in [kind : {"start", "tx", "stop", "rx"}, byte : Nat]
      /\ E5 \in [kind : {"start", "tx", "stop", "rx"}, byte : Nat]
  <2>1. chunk.addr \in Nat /\ chunk.len \in Nat /\ Eeprom!CtrlByte(chunk.addr) \in Nat
    BY ControlByte
  <2>2. High(chunk.addr) \in Nat /\ Low(chunk.addr) \in Nat
    BY <2>1, SMT DEF High, Low
  <2>3. QED
    BY <2>1, <2>2, SMT DEF E1, E2, E3, E4, E5, Eeprom!Entry
<1>2. Eeprom!ReadEntries = <<E1, E2, E3>> \o <<E4, E5>>
  BY DEF Eeprom!ReadEntries, Eeprom!Address, E1, E2, E3, E4, E5, High, Low
<1>3. <<E1, E2, E3>> \o <<E4, E5>> = <<E1, E2, E3, E4, E5>>
  BY QueueOfFive, SMT
<1>4. <<>> \o <<E1, E2, E3, E4, E5>> = <<E1, E2, E3, E4, E5>>
  BY <1>1, SMT
<1>5. QED
  BY <1>1, <1>2, <1>3, <1>4, SMT

\* A chunk that is written takes two entries for its address besides the control
\* byte, half a FIFO at most, and one for the last byte.
LEMMA WriteQueue ==
  ASSUME EepromTypes, chunk.len \in Nat \ {0}
  PROVE  /\ Eeprom!WriteEntries \in Seq([kind : {"start", "tx", "stop", "rx"}, byte : Nat])
         /\ Len(Eeprom!WriteEntries) <= 4 + Eeprom!Half
         /\ \A k \in 1 .. Len(Eeprom!WriteEntries) : Eeprom!WriteEntries[k].kind # "rx"
<1> DEFINE S == [kind : {"start", "tx"}, byte : Nat]
           n == Eeprom!Lesser(chunk.len - 1, Eeprom!Half)
           x == Eeprom!Address("tx")
           y == [k \in 1 .. n |-> Eeprom!Entry("tx", chunk.offs + k - 1)]
           z == <<Eeprom!Entry("tx", chunk.offs + chunk.len - 1)>>
<1>1. chunk.addr \in Nat /\ chunk.offs \in Nat /\ Eeprom!CtrlByte(chunk.addr) \in Nat
  BY ControlByte DEF EepromTypes
<1>2. (chunk.addr \div 256) % 256 \in Nat /\ chunk.addr % 256 \in Nat
  BY <1>1, SMT
<1>3. x \in Seq(S) /\ Len(x) = 3
  BY <1>1, <1>2 DEF Eeprom!Address, Eeprom!Entry
<1>4. n \in Nat /\ n <= Eeprom!Half
  BY EepromFacts DEF Eeprom!Lesser
<1>5. \A k \in 1 .. n : Eeprom!Entry("tx", chunk.offs + k - 1) \in S
  BY <1>1, <1>4 DEF Eeprom!Entry
<1>6. y \in [1 .. n -> S]
  BY <1>5
<1>7. y \in Seq(S) /\ Len(y) = n
  <2> HIDE DEF y, n, S
  <2>1. QED
    BY <1>4, <1>6, SeqOfFunction
<1>8. z \in Seq(S) /\ Len(z) = 1
  BY <1>1 DEF Eeprom!Entry
<1>9. Eeprom!WriteEntries = x \o y \o z
  BY DEF Eeprom!WriteEntries
<1>10. x \o y \o z \in Seq(S) /\ Len(x \o y \o z) = 4 + n
  <2> HIDE DEF x, y, z, n, S
  <2>1. x \in Seq(S) /\ y \in Seq(S) /\ z \in Seq(S) /\ Len(x) = 3 /\ Len(y) = n /\ Len(z) = 1 /\ n \in Nat
    BY <1>3, <1>4, <1>7, <1>8
  <2>2. QED
    BY <2>1, ConcatThree
<1>11. S \subseteq [kind : {"start", "tx", "stop", "rx"}, byte : Nat] /\ \A e \in S : e.kind # "rx"
  OBVIOUS
<1>12. QED
  <2> DEFINE w == x \o y \o z
             T == [kind : {"start", "tx", "stop", "rx"}, byte : Nat]
  <2>1. w \in Seq(S) /\ S \subseteq T /\ \A e \in S : e.kind # "rx"
    BY <1>10, <1>11
  <2>2. Len(w) = 4 + n /\ Eeprom!WriteEntries = w
    BY <1>9, <1>10
  <2> HIDE DEF w, x, y, z, n, S, T
  <2>3. w \in Seq(T) /\ \A k \in 1 .. Len(w) : w[k] \in S
    BY <2>1, WiderSeq, Zenon
  <2>4. Len(w) <= 4 + Eeprom!Half
    BY <1>4, <2>2, EepromFacts
  <2>5. QED
    BY <2>1, <2>2, <2>3, <2>4, Zenon DEF T

\* A chunk of a read below 64 KiB starts there.
LEMMA BelowAddr ==
  ASSUME EepromTypes, ChunkInv, at = "receive", Below
  PROVE  chunk.addr < 65536
<1>1. op.addr \in Nat /\ op.len \in Nat /\ chunk.offs \in Nat
  BY DEF EepromTypes
<1>2. chunk.addr = op.addr + chunk.offs /\ chunk.offs < op.len
  BY DEF ChunkInv, Between, Below
<1>3. op.addr + op.len <= 65536
  BY DEF Below, Eeprom!BlockBytes
<1>4. QED
  BY <1>1, <1>2, <1>3

\* Initially there is no chunk, and nothing is queued.
LEMMA EepromInit == ASSUME Eeprom!DepthFits, Eeprom!AccessesFit, Eeprom!Init PROVE EepromInv
<1>1. op \in [addr : Nat, len : Nat \ {0}, write : BOOLEAN] /\ (~op.write => op.len <= BufBytes)
  <2>1. CASE \E a \in Reads : op = [addr |-> a.addr, len |-> a.len, write |-> FALSE]
    BY <2>1 DEF Eeprom!AccessesFit
  <2>2. CASE \E a \in Writes : op = [addr |-> a.addr, len |-> a.len, write |-> TRUE]
    BY <2>2 DEF Eeprom!AccessesFit
  <2>3. QED
    BY <2>1, <2>2 DEF Eeprom!Init
<1>2. EepromTypes
  <2>1. BufBytes \in Nat
    BY DEF Eeprom!AccessesFit
  <2>2. buf \in [0 .. BufBytes - 1 -> Int]
    BY <2>1 DEF Eeprom!Init, Eeprom!Untouched
  <2>3. chunk \in [offs : Nat, addr : Nat, len : Nat]
    BY DEF Eeprom!Init, Eeprom!NoChunk
  <2>4. dev \in [base : Nat, ptr : Nat, bytes : Nat, left : Nat, pending : SUBSET (Nat \X Nat)]
    BY DEF Eeprom!Init
  <2>5. QED
    BY <1>1, <2>2, <2>3, <2>4 DEF Eeprom!Init, EepromTypes
<1>3. ChunkInv /\ BufInv
  BY <1>1 DEF Eeprom!Init, ChunkInv, BufInv, Between
<1>4. ReadInv
  BY DEF Eeprom!Init, ReadInv, Silent
<1>5. WriteInv
  BY <1>2, EepromFacts DEF Eeprom!Init, WriteInv, Silent
<1>6. Eeprom!OverrunBounded
  BY DEF Eeprom!Init, Eeprom!OverrunBounded
<1>7. QED
  BY <1>2, <1>3, <1>4, <1>5, <1>6 DEF EepromInv

\* The next chunk starts where the last one ended.
LEMMA NextChunkInv == ASSUME EepromInv, Eeprom!NextChunk PROVE EepromInv'
<1> USE DEF EepromInv
<1>1. /\ at = "access" /\ op.addr \in Nat /\ op.len \in Nat \ {0} /\ offs \in Nat /\ Depth \in Nat /\ Depth >= 2
      /\ op' = op /\ buf' = buf /\ fmt' = fmt /\ rx' = rx /\ enabled' = enabled /\ dev' = dev
  BY EepromFacts DEF Eeprom!NextChunk, EepromTypes
<1>2. CASE offs = 0 /\ op.addr % Depth # 0 /\ Eeprom!CallChunk(0, Eeprom!FirstLen) /\ offs' = Eeprom!FirstLen
  <2>1. Eeprom!FirstLen \in 1 .. Depth - 1
    BY <1>2, EepromFacts
  <2>2. at' = "vacate" /\ chunk' = [offs |-> 0, addr |-> op.addr, len |-> Eeprom!FirstLen]
    BY <1>1, <1>2 DEF Eeprom!CallChunk
  <2>3. EepromTypes'
    BY <1>1, <1>2, <2>1, <2>2 DEF EepromTypes, Eeprom!DepthFits, Eeprom!AccessesFit
  <2>4. ChunkInv'
    <3>1. Eeprom!FirstLen' = Eeprom!FirstLen
      BY <1>1 DEF Eeprom!FirstLen
    <3>2. QED
      BY <1>1, <1>2, <2>1, <2>2, <3>1 DEF ChunkInv
  <2>5. BufInv'
    BY <1>1, <2>2 DEF BufInv, Between
  <2>6. ReadInv' /\ WriteInv' /\ Eeprom!OverrunBounded'
    BY <1>1, <2>2 DEF ReadInv, WriteInv, Silent, Eeprom!OverrunBounded, Eeprom!Half
  <2>7. QED
    BY <2>3, <2>4, <2>5, <2>6
<1>3. CASE /\ Eeprom!More /\ Eeprom!CallChunk(offs, Eeprom!Lesser(Depth, op.len - offs))
           /\ offs' = offs + Depth
  <2> DEFINE n == Eeprom!Lesser(Depth, op.len - offs)
  <2>1. n \in 1 .. Depth /\ offs + n <= op.len /\ (n = Depth \/ offs + n = op.len)
    BY <1>1, <1>3 DEF Eeprom!Lesser, Eeprom!More
  <2>2. at' = "vacate" /\ chunk' = [offs |-> offs, addr |-> op.addr + offs, len |-> n]
    BY <1>1, <1>3 DEF Eeprom!CallChunk
  <2> HIDE DEF n
  <2>3. EepromTypes'
    <3>1. chunk' \in [offs : Nat, addr : Nat, len : Nat] /\ offs' \in Nat
      BY <1>1, <1>3, <2>1, <2>2
    <3>2. QED
      BY <1>1, <2>2, <3>1 DEF EepromTypes, Eeprom!DepthFits, Eeprom!AccessesFit
  <2>4. ChunkInv'
    BY <1>1, <1>3, <2>1, <2>2 DEF ChunkInv, Eeprom!More
  <2>5. BufInv'
    BY <1>1, <2>2 DEF BufInv, Between, Below
  <2>6. ReadInv' /\ WriteInv' /\ Eeprom!OverrunBounded'
    BY <1>1, <2>2 DEF ReadInv, WriteInv, Silent, Eeprom!OverrunBounded, Eeprom!Half
  <2>7. QED
    BY <2>3, <2>4, <2>5, <2>6
<1>4. CASE /\ offs # 0 \/ op.addr % Depth = 0
           /\ ~Eeprom!More /\ at' = "done" /\ UNCHANGED <<offs, chunk>>
  <2>1. EepromTypes'
    BY <1>1, <1>4 DEF EepromTypes, Eeprom!DepthFits, Eeprom!AccessesFit
  <2>2. ChunkInv' /\ BufInv'
    BY <1>1, <1>4 DEF ChunkInv, BufInv, Between, Below, Eeprom!More
  <2>3. ReadInv' /\ WriteInv' /\ Eeprom!OverrunBounded'
    BY <1>1, <1>4 DEF ReadInv, WriteInv, Silent, Eeprom!OverrunBounded, Eeprom!Half
  <2>4. QED
    BY <2>1, <2>2, <2>3
<1>5. QED
  BY <1>2, <1>3, <1>4 DEF Eeprom!NextChunk

\* A chunk is queued when the FIFOs are empty.
LEMMA FillInv == ASSUME EepromInv, Eeprom!FillFormat PROVE EepromInv'
<1> USE DEF EepromInv
<1>1. /\ at = "vacate" /\ at' = "enable" /\ ~enabled' /\ enabled' \in BOOLEAN /\ fmt = <<>> /\ rx = <<>>
      /\ op' = op /\ offs' = offs /\ chunk' = chunk /\ buf' = buf /\ rx' = rx /\ dev' = dev
  BY DEF Eeprom!FillFormat, Eeprom!Vacated
<1>2. chunk.len \in Nat \ {0} /\ chunk \in [offs : Nat, addr : Nat, len : Nat]
  BY <1>1, EepromFacts DEF ChunkInv, Between, EepromTypes
<1>3. ChunkInv' /\ BufInv' /\ Eeprom!OverrunBounded'
  BY <1>1 DEF ChunkInv, BufInv, Between, Below, Eeprom!OverrunBounded, Eeprom!FirstLen
<1>4. CASE op.write
  <2>1. fmt' = <<>> \o Eeprom!WriteEntries
    BY <1>1, <1>4 DEF Eeprom!FillFormat
  <2>2. Eeprom!WriteEntries \in Seq([kind : {"start", "tx", "stop", "rx"}, byte : Nat])
    BY <1>2, WriteQueue
  <2>3. fmt' = Eeprom!WriteEntries
    BY <2>1, <2>2
  <2>4. EepromTypes'
    BY <1>1, <2>2, <2>3 DEF EepromTypes, Eeprom!DepthFits, Eeprom!AccessesFit
  <2>5. WriteInv'
    BY <1>1, <1>2, <1>4, <2>3, WriteQueue DEF WriteInv, Silent, Eeprom!Half
  <2>6. ReadInv'
    BY <1>1, <1>4 DEF ReadInv
  <2>7. QED
    BY <1>3, <2>4, <2>5, <2>6
<1>5. CASE ~op.write
  <2>1. fmt' = <<>> \o Eeprom!ReadEntries
    BY <1>1, <1>5 DEF Eeprom!FillFormat
  <2>2. fmt' = <<E1, E2, E3, E4, E5>> /\ fmt' \in Seq([kind : {"start", "tx", "stop", "rx"}, byte : Nat])
    BY <1>2, <2>1, ReadQueue
  <2>3. EepromTypes'
    BY <1>1, <2>2 DEF EepromTypes, Eeprom!DepthFits, Eeprom!AccessesFit
  <2>4. E1' = E1 /\ E2' = E2 /\ E3' = E3 /\ E4' = E4 /\ E5' = E5
    BY <1>1 DEF E1, E2, E3, E4, E5
  <2>5. dev.left = 0
    BY <1>1, <1>5 DEF ReadInv, Silent
  <2>6. ReadInv'
    BY <1>1, <1>5, <2>2, <2>4, <2>5 DEF ReadInv, Silent, Stage0
  <2>7. WriteInv'
    BY <1>1, <1>5 DEF WriteInv
  <2>8. QED
    BY <1>3, <2>3, <2>6, <2>7
<1>6. QED
  BY <1>4, <1>5

\* A read waits for its bytes; a write goes on, perhaps with what the chunk leaves.
LEMMA EnableInv == ASSUME EepromInv, Eeprom!Enable PROVE EepromInv'
<1> USE DEF EepromInv
<1>1. /\ at = "enable" /\ enabled' = TRUE
      /\ op' = op /\ offs' = offs /\ buf' = buf /\ fmt' = fmt /\ rx' = rx /\ dev' = dev
  BY DEF Eeprom!Enable
<1>2. Eeprom!OverrunBounded'
  BY <1>1 DEF Eeprom!OverrunBounded
<1>3. CASE ~op.write
  <2>1. at' = "receive" /\ chunk' = chunk
    BY <1>1, <1>3 DEF Eeprom!Enable
  <2>2. EepromTypes'
    BY <1>1, <2>1 DEF EepromTypes, Eeprom!DepthFits, Eeprom!AccessesFit
  <2>3. ChunkInv' /\ BufInv'
    BY <1>1, <2>1 DEF ChunkInv, BufInv, Between, Below, Eeprom!FirstLen
  <2>4. E1' = E1 /\ E2' = E2 /\ E3' = E3 /\ E4' = E4 /\ E5' = E5
    BY <2>1 DEF E1, E2, E3, E4, E5
  <2>5. ReadInv' /\ WriteInv'
    BY <1>1, <1>3, <2>1, <2>4 DEF ReadInv, WriteInv, Silent, Stage0
  <2>6. QED
    BY <1>2, <2>2, <2>3, <2>5
<1>4. CASE op.write
  <2>1. \/ /\ chunk.len > Eeprom!Half /\ at' = "vacate"
           /\ chunk' = [offs |-> chunk.offs + chunk.len, addr |-> chunk.addr + chunk.len,
                        len |-> chunk.len - Eeprom!Half]
        \/ at' = "access" /\ chunk' = chunk
    BY <1>1, <1>4 DEF Eeprom!Enable
  <2>2. chunk.offs \in Nat /\ chunk.addr \in Nat /\ chunk.len \in 1 .. Depth
    BY <1>1 DEF EepromTypes, ChunkInv, Between
  <2>3. EepromTypes'
    <3>1. Eeprom!Half \in Nat /\ Depth \in Nat /\ chunk \in [offs : Nat, addr : Nat, len : Nat]
      BY EepromFacts DEF EepromTypes
    <3>2. chunk' \in [offs : Nat, addr : Nat, len : Nat]
      BY <2>1, <2>2, <3>1
    <3>3. QED
      BY <1>1, <2>1, <3>2 DEF EepromTypes, Eeprom!DepthFits, Eeprom!AccessesFit
  <2>4. ChunkInv' /\ BufInv'
    BY <1>1, <1>4, <2>1, <2>2, EepromFacts DEF ChunkInv, BufInv, Between, Below
  <2>5. ReadInv' /\ WriteInv'
    BY <1>1, <1>4 DEF ReadInv, WriteInv, Silent, Eeprom!Half
  <2>6. QED
    BY <1>2, <2>3, <2>4, <2>5
<1>5. QED
  BY <1>3, <1>4

\* The bytes that have come are exact, and those of a chunk are all that come; they are
\* copied to their place.
LEMMA ReceiveInv == ASSUME EepromInv, Eeprom!Receive PROVE EepromInv'
<1> DEFINE n == chunk.len
           o == chunk.offs
           m == op.addr % Depth
<1>1. EepromTypes /\ ChunkInv /\ BufInv /\ ReadInv /\ WriteInv /\ Eeprom!OverrunBounded
  BY DEF EepromInv
<1>2. Len(rx) >= n /\ rx' = SubSeq(rx, n + 1, Len(rx))
  BY DEF Eeprom!Receive, Eeprom!Received
<1>3. /\ at = "receive" /\ at' = "access"
      /\ op' = op /\ offs' = offs /\ chunk' = chunk /\ fmt' = fmt /\ enabled' = enabled /\ dev' = dev
  BY DEF Eeprom!Receive, Eeprom!Received
<1>4. /\ op.addr \in Nat /\ op.len \in Nat \ {0} /\ offs \in Nat /\ BufBytes \in Nat
      /\ o \in Nat /\ chunk.addr \in Nat /\ n \in Nat /\ dev.left \in Nat
  BY <1>1 DEF EepromTypes, Eeprom!AccessesFit
<1>5. Depth \in Nat /\ m \in 0 .. Depth - 1
  BY <1>1, EepromFacts
<1>6. /\ rx \in Seq(Nat) /\ Len(rx) \in Nat /\ buf \in [0 .. BufBytes - 1 -> Int]
      /\ ~op.write => op.len <= BufBytes
  BY <1>1 DEF EepromTypes
<1>7. n \in 1 .. Depth
  BY <1>1, <1>3 DEF ChunkInv, Between
<1>8. ~op.write
  <2>1. Len(rx) > 0
    BY <1>2, <1>4, <1>6, <1>7
  <2>2. QED
    BY <1>1, <2>1 DEF WriteInv, Silent
<1>9. Len(rx) = n /\ dev.left = 0 /\ fmt = <<>> /\ (Below => Bytes)
  <2>1. Stage0 \/ Stage1 \/ Stage2 \/ Stage3 \/ Stage4 \/ Stage5
    BY <1>1, <1>3, <1>8 DEF ReadInv
  <2>2. rx # <<>>
    BY <1>2, <1>5, <1>6, <1>7
  <2>3. Stage5
    BY <2>1, <2>2 DEF Silent, Stage0, Stage1, Stage2, Stage3, Stage4
  <2>4. QED
    BY <1>2, <1>4, <1>6, <2>3 DEF Stage5
<1>10. rx' = <<>>
  BY <1>2, <1>6, <1>9
<1>11. buf' = [i \in 0 .. BufBytes - 1 |->
                IF i - o \in 0 .. n - 1 THEN rx[i - o + 1] ELSE buf[i]]
  <2>1. DOMAIN buf = 0 .. BufBytes - 1
    BY <1>6
  <2>2. Eeprom!Lesser(n, Len(rx)) = n
    BY <1>4, <1>9 DEF Eeprom!Lesser
  <2>3. buf' = [i \in DOMAIN buf |->
                 IF i - o \in 0 .. Eeprom!Lesser(n, Len(rx)) - 1 THEN rx[i - o + 1] ELSE buf[i]]
    BY DEF Eeprom!Receive
  <2>4. QED
    BY <2>1, <2>2, <2>3
<1>12. \A i \in 0 .. BufBytes - 1 : i - o \in 0 .. n - 1 => rx[i - o + 1] \in Nat
  <2> SUFFICES ASSUME NEW i \in 0 .. BufBytes - 1, i - o \in 0 .. n - 1 PROVE rx[i - o + 1] \in Nat
    OBVIOUS
  <2>1. i - o + 1 \in 1 .. Len(rx)
    BY <1>4, <1>9
  <2>2. QED
    BY <1>6, <2>1
<1>13. buf' \in [0 .. BufBytes - 1 -> Int]
  BY <1>6, <1>11, <1>12
<1> HIDE DEF n, o, m
<1>14. EepromTypes'
  <2>1. rx' \in Seq(Nat)
    BY <1>10
  <2>2. /\ at' \in {"access", "vacate", "enable", "receive", "done"}
        /\ op' = op /\ offs' = offs /\ chunk' = chunk /\ fmt' = fmt /\ enabled' = enabled /\ dev' = dev
    BY <1>3
  <2>3. QED
    BY <1>1, <1>13, <2>1, <2>2 DEF EepromTypes, Eeprom!DepthFits, Eeprom!AccessesFit
<1>15. ChunkInv' /\ ReadInv' /\ WriteInv'
  BY <1>3, <1>8, <1>9, <1>10 DEF ChunkInv, Between, ReadInv, WriteInv, Silent
<1>16. /\ chunk.addr = op.addr + o
       /\ o + n <= op.len \/ (o = 0 /\ m # 0 /\ n = Depth - m)
       /\ offs <= o + n \/ op.len <= o + n
  <2>1. ~Between
    BY <1>3 DEF Between
  <2>2. /\ chunk.addr = op.addr + chunk.offs
        /\ \/ chunk.offs + chunk.len <= op.len
           \/ chunk.offs = 0 /\ op.addr % Depth # 0 /\ chunk.len = Eeprom!FirstLen
        /\ offs <= chunk.offs + chunk.len \/ op.len <= chunk.offs + chunk.len
    BY <1>1, <1>8, <2>1 DEF ChunkInv
  <2>3. Eeprom!FirstLen = Depth - m
    BY DEF Eeprom!FirstLen, m
  <2>4. o = chunk.offs /\ n = chunk.len /\ m = op.addr % Depth
    BY DEF n, o, m
  <2>5. QED
    BY <2>2, <2>3, <2>4
<1>17. ASSUME Below, NEW i \in 0 .. op.len - 1, i < offs
       PROVE  buf'[i] = op.addr + i
  <2>1. op.addr + op.len <= 65536
    BY <1>17 DEF Below, Eeprom!BlockBytes
  <2>2. op.len <= BufBytes
    BY <1>6, <1>8
  <2>3. i \in Nat /\ i \in 0 .. BufBytes - 1 /\ i < o + n /\ op.addr + i < 65536
    BY <1>4, <1>8, <1>16, <1>17, <2>1, <2>2
  <2>4. CASE i < o
    <3>1. buf[i] = op.addr + i
      BY <1>1, <1>3, <1>17, <2>4 DEF BufInv, Between, o
    <3>2. i - o \notin 0 .. n - 1
      BY <1>4, <2>3, <2>4
    <3>3. QED
      BY <1>11, <2>3, <3>1, <3>2
  <2>5. CASE i >= o
    <3>1. i - o \in 0 .. n - 1 /\ i - o + 1 \in 1 .. n
      BY <1>4, <1>5, <1>7, <2>3, <2>5
    <3>2. rx[i - o + 1] = (chunk.addr + (i - o + 1) - 1) % 65536
      BY <1>9, <1>17, <3>1 DEF Bytes, Eeprom!BlockBytes
    <3>3. chunk.addr + (i - o + 1) - 1 = op.addr + i
      BY <1>4, <1>16, <2>3
    <3>4. (op.addr + i) % 65536 = op.addr + i
      BY <1>4, <2>3, SMT
    <3>5. buf'[i] = rx[i - o + 1]
      BY <1>11, <2>3, <3>1
    <3>6. QED
      BY <3>2, <3>3, <3>4, <3>5
  <2>6. QED
    BY <1>4, <2>3, <2>4, <2>5
<1>18. BufInv'
  BY <1>3, <1>17 DEF BufInv, Between, Below
<1>19. ASSUME NEW i \in 0 .. BufBytes - 1, i >= op.len, m = 0 \/ i >= Depth - m
       PROVE  buf'[i] = -1
  <2>1. buf[i] = -1
    BY <1>1, <1>6, <1>19 DEF Eeprom!OverrunBounded, Eeprom!Untouched, m
  <2>2. i - o \notin 0 .. n - 1
    BY <1>4, <1>5, <1>7, <1>16, <1>19
  <2>3. QED
    BY <1>11, <2>1, <2>2
<1>20. Eeprom!OverrunBounded'
  BY <1>3, <1>13, <1>19 DEF Eeprom!OverrunBounded, Eeprom!Untouched, m
<1>21. QED
  BY <1>14, <1>15, <1>18, <1>20 DEF EepromInv

\* The first entry of a queue.
LEMMA QueueHead ==
  ASSUME NEW S, NEW s \in Seq(S), s # <<>>
  PROVE  /\ Head(s) \in S /\ Tail(s) \in Seq(S)
         /\ Len(s) \in Nat \ {0} /\ Len(Tail(s)) = Len(s) - 1
         /\ \A k \in 1 .. Len(Tail(s)) : Tail(s)[k] = s[k + 1]
<1>1. Len(s) \in Nat \ {0}
  OBVIOUS
<1>2. QED
  BY <1>1, HeadTailProperties, Zenon

\* Division with remainder.
LEMMA DivisionRule ==
  ASSUME NEW a \in Int, NEW B \in Nat \ {0}
  PROVE  a \div B \in Int /\ a % B \in Int /\ a = B * (a \div B) + (a % B)
OBVIOUS

\* An address of 16 bits, from its bytes.
LEMMA TwoBytes == ASSUME NEW a \in Nat, a < 65536 PROVE High(a) * 256 + Low(a) = a
<1> DEFINE q == a \div 256
           r == a % 256
<1>1. q \in 0 .. 255
  BY SMT
<1>2. a = 256 * q + r /\ r \in Int
  BY DivisionRule
<1> HIDE DEF q, r
<1>3. q % 256 = q
  BY <1>1, SMT
<1>4. (q % 256) * 256 + r = a
  BY <1>1, <1>2, <1>3, SMT
<1>5. High(a) = q % 256 /\ Low(a) = r
  BY DEF High, Low, q, r
<1>6. QED
  BY <1>4, <1>5

\* A start selects a block.
LEMMA BusStartInv == ASSUME EepromInv, Eeprom!BusStart PROVE EepromInv'
<1>1. EepromTypes /\ ChunkInv /\ BufInv /\ ReadInv /\ WriteInv /\ Eeprom!OverrunBounded
  BY DEF EepromInv
<1>2. /\ at' = at /\ op' = op /\ offs' = offs /\ chunk' = chunk /\ buf' = buf /\ rx' = rx /\ enabled' = enabled
      /\ enabled /\ fmt # <<>> /\ Head(fmt).kind = "start" /\ fmt' = Tail(fmt)
  BY DEF Eeprom!BusStart
<1>3. dev' = [dev EXCEPT !.base = Eeprom!Selected(Head(fmt).byte), !.pending = {},
                         !.bytes = IF Eeprom!Bit(Head(fmt).byte, 0) = 1 THEN @ ELSE 0]
  BY DEF Eeprom!BusStart
<1>4. fmt \in Seq([kind : {"start", "tx", "stop", "rx"}, byte : Nat])
  BY <1>1 DEF EepromTypes
<1>5. /\ Head(fmt) \in [kind : {"start", "tx", "stop", "rx"}, byte : Nat]
      /\ Tail(fmt) \in Seq([kind : {"start", "tx", "stop", "rx"}, byte : Nat])
      /\ Len(fmt) \in Nat \ {0} /\ Len(Tail(fmt)) = Len(fmt) - 1
      /\ \A k \in 1 .. Len(Tail(fmt)) : Tail(fmt)[k] = fmt[k + 1]
  BY <1>2, <1>4, QueueHead, Zenon
<1>6. dev \in [base : Nat, ptr : Nat, bytes : Nat, left : Nat, pending : SUBSET (Nat \X Nat)]
  BY <1>1 DEF EepromTypes
<1>7. Eeprom!Selected(Head(fmt).byte) \in Nat
  BY <1>5, BaseType
<1>8. /\ dev' \in [base : Nat, ptr : Nat, bytes : Nat, left : Nat, pending : SUBSET (Nat \X Nat)]
      /\ dev'.base = Eeprom!Selected(Head(fmt).byte) /\ dev'.left = dev.left /\ dev'.ptr = dev.ptr
      /\ dev'.bytes = IF Eeprom!Bit(Head(fmt).byte, 0) = 1 THEN dev.bytes ELSE 0
  BY <1>3, <1>6, <1>7
<1>9. EepromTypes'
  BY <1>1, <1>2, <1>5, <1>8 DEF EepromTypes, Eeprom!DepthFits, Eeprom!AccessesFit
<1>10. ChunkInv' /\ BufInv' /\ Eeprom!OverrunBounded'
  BY <1>1, <1>2 DEF ChunkInv, BufInv, Between, Below, Eeprom!OverrunBounded, Eeprom!FirstLen
<1>11. WriteInv'
  <2> SUFFICES ASSUME op.write PROVE WriteInv'
    BY <1>2 DEF WriteInv
  <2>1. Silent /\ (\A k \in 1 .. Len(fmt) : fmt[k].kind # "rx") /\ Len(fmt) <= 4 + Eeprom!Half
    BY <1>1 DEF WriteInv
  <2>2. Silent'
    BY <1>2, <1>8, <2>1 DEF Silent
  <2>3. \A k \in 1 .. Len(Tail(fmt)) : Tail(fmt)[k].kind # "rx"
    BY <1>5, <2>1
  <2>4. Eeprom!Half' = Eeprom!Half /\ Eeprom!Half \in Nat
    BY <1>1, EepromFacts DEF Eeprom!Half
  <2>5. Len(Tail(fmt)) <= 4 + Eeprom!Half
    BY <1>5, <2>1, <2>4
  <2>6. QED
    BY <1>2, <2>2, <2>3, <2>4, <2>5 DEF WriteInv
<1>12. ReadInv'
  <2> SUFFICES ASSUME ~op.write PROVE ReadInv'
    BY <1>2 DEF ReadInv
  <2>1. at = "receive" /\ (Stage0 \/ Stage1 \/ Stage2 \/ Stage3 \/ Stage4 \/ Stage5)
    BY <1>1, <1>2 DEF ReadInv, EepromTypes
  <2>2. E1' = E1 /\ E2' = E2 /\ E3' = E3 /\ E4' = E4 /\ E5' = E5
    BY <1>2 DEF E1, E2, E3, E4, E5
  <2>3. Below => chunk.addr < 65536
    BY <1>1, <1>2, <2>1, BelowAddr
  <2>4. chunk.addr \in Nat
    BY <1>1 DEF EepromTypes
  <2>5. E2.kind = "tx" /\ E3.kind = "stop" /\ E5.kind = "rx"
    BY DEF E2, E3, E5, Eeprom!Entry
  <2>6. CASE Stage0
    <3>1. Head(fmt) = E1 /\ Tail(fmt) = <<E2, E3, E4, E5>>
      BY <2>6 DEF Stage0
    <3>2. E1.byte = Eeprom!CtrlByte(chunk.addr)
      BY DEF E1, Eeprom!Entry
    <3>3. Below => /\ Eeprom!Selected(Eeprom!CtrlByte(chunk.addr)) = 0
                   /\ Eeprom!Bit(Eeprom!CtrlByte(chunk.addr), 0) = 0
      BY <2>3, <2>4, ControlByte, SMT
    <3>4. Below => dev'.base = 0 /\ dev'.bytes = 0
      BY <1>8, <3>1, <3>2, <3>3
    <3>5. Stage1'
      BY <1>2, <1>8, <2>2, <2>6, <3>1, <3>4 DEF Stage0, Stage1, Silent, Below
    <3>6. QED
      BY <1>2, <2>1, <3>5 DEF ReadInv
  <2>7. CASE Stage3
    <3>1. Head(fmt) = E4 /\ Tail(fmt) = <<E5>>
      BY <2>7 DEF Stage3
    <3>2. E4.byte = Eeprom!CtrlByte(chunk.addr) + 1
      BY DEF E4, Eeprom!Entry
    <3>3. Below => Eeprom!Selected(Eeprom!CtrlByte(chunk.addr) + 1) = 0
      BY <2>3, <2>4, ControlByte, SMT
    <3>4. Below => dev'.base = 0
      BY <1>8, <3>1, <3>2, <3>3
    <3>5. Stage4'
      BY <1>2, <1>8, <2>2, <2>7, <3>1, <3>4 DEF Stage3, Stage4, Silent, Below
    <3>6. QED
      BY <1>2, <2>1, <3>5 DEF ReadInv
  <2>8. ~Stage1 /\ ~Stage2 /\ ~Stage4 /\ ~Stage5
    BY <1>2, <2>5 DEF Stage1, Stage2, Stage4, Stage5
  <2>9. QED
    BY <2>1, <2>6, <2>7, <2>8
<1>13. QED
  BY <1>9, <1>10, <1>11, <1>12 DEF EepromInv

\* A byte of the address sets the pointer; a stop programs what is pending.
LEMMA BusByteInv == ASSUME EepromInv, Eeprom!BusByte PROVE EepromInv'
<1> DEFINE d == Eeprom!TakesByte(dev, Head(fmt).byte)
           DevType == [base : Nat, ptr : Nat, bytes : Nat, left : Nat, pending : SUBSET (Nat \X Nat)]
<1>1. EepromTypes /\ ChunkInv /\ BufInv /\ ReadInv /\ WriteInv /\ Eeprom!OverrunBounded
  BY DEF EepromInv
<1>2. /\ at' = at /\ op' = op /\ offs' = offs /\ chunk' = chunk /\ buf' = buf /\ rx' = rx /\ enabled' = enabled
      /\ enabled /\ fmt # <<>> /\ Head(fmt).kind \in {"tx", "stop"} /\ fmt' = Tail(fmt)
  BY DEF Eeprom!BusByte
<1>3. dev' = IF Head(fmt).kind = "stop" THEN [d EXCEPT !.pending = {}] ELSE d
  BY DEF Eeprom!BusByte
<1>4. fmt \in Seq([kind : {"start", "tx", "stop", "rx"}, byte : Nat])
  BY <1>1 DEF EepromTypes
<1>5. /\ Head(fmt) \in [kind : {"start", "tx", "stop", "rx"}, byte : Nat]
      /\ Tail(fmt) \in Seq([kind : {"start", "tx", "stop", "rx"}, byte : Nat])
      /\ Len(fmt) \in Nat \ {0} /\ Len(Tail(fmt)) = Len(fmt) - 1
      /\ \A k \in 1 .. Len(Tail(fmt)) : Tail(fmt)[k] = fmt[k + 1]
  BY <1>2, <1>4, QueueHead, Zenon
<1>6. dev \in DevType /\ Head(fmt).byte \in Nat
  BY <1>1, <1>5 DEF EepromTypes
<1>7. /\ d \in DevType /\ d.base = dev.base /\ d.left = dev.left
      /\ dev.bytes = 0 => d.bytes = 1 /\ d.ptr = Head(fmt).byte * 256
      /\ dev.bytes = 1 => d.ptr = dev.ptr + Head(fmt).byte
  <2>1. CASE dev.bytes = 0
    <3> DEFINE x == Head(fmt).byte * 256
    <3>1. d = [dev EXCEPT !.bytes = 1, !.ptr = x]
      BY <2>1 DEF Eeprom!TakesByte
    <3>2. x \in Nat
      BY <1>6
    <3> HIDE DEF d, x
    <3>3. d \in DevType /\ d.base = dev.base /\ d.left = dev.left /\ d.bytes = 1 /\ d.ptr = x
      BY <1>6, <3>1, <3>2
    <3>4. QED
      BY <2>1, <3>3 DEF x
  <2>2. CASE dev.bytes = 1
    <3> DEFINE x == dev.ptr + Head(fmt).byte
    <3>1. d = [dev EXCEPT !.bytes = 2, !.ptr = x]
      BY <2>2 DEF Eeprom!TakesByte
    <3>2. x \in Nat
      BY <1>6
    <3> HIDE DEF d, x
    <3>3. d \in DevType /\ d.base = dev.base /\ d.left = dev.left /\ d.ptr = x
      BY <1>6, <3>1, <3>2
    <3>4. QED
      BY <2>2, <3>3 DEF x
  <2>3. CASE dev.bytes # 0 /\ dev.bytes # 1
    <3>1. d = [dev EXCEPT !.ptr = Eeprom!Bump(@),
                          !.pending = @ \cup {<<dev.base + dev.ptr, Head(fmt).byte>>}]
      BY <2>3 DEF Eeprom!TakesByte
    <3>2. Eeprom!Bump(dev.ptr) \in Nat
      BY <1>6 DEF Eeprom!Bump, Eeprom!BlockBytes
    <3>3. dev.pending \cup {<<dev.base + dev.ptr, Head(fmt).byte>>} \in SUBSET (Nat \X Nat)
      BY <1>6
    <3>4. QED
      BY <1>6, <2>3, <3>1, <3>2, <3>3
  <2>4. QED
    BY <2>1, <2>2, <2>3
<1>8. /\ dev' \in DevType /\ dev'.base = d.base /\ dev'.left = d.left /\ dev'.ptr = d.ptr
      /\ dev'.bytes = d.bytes
  <2> HIDE DEF d
  <2>1. QED
    BY <1>3, <1>7
<1> HIDE DEF d
<1>9. EepromTypes'
  BY <1>1, <1>2, <1>5, <1>8 DEF EepromTypes, Eeprom!DepthFits, Eeprom!AccessesFit
<1>10. ChunkInv' /\ BufInv' /\ Eeprom!OverrunBounded'
  BY <1>1, <1>2 DEF ChunkInv, BufInv, Between, Below, Eeprom!OverrunBounded, Eeprom!FirstLen
<1>11. WriteInv'
  <2> SUFFICES ASSUME op.write PROVE WriteInv'
    BY <1>2 DEF WriteInv
  <2>1. Silent /\ (\A k \in 1 .. Len(fmt) : fmt[k].kind # "rx") /\ Len(fmt) <= 4 + Eeprom!Half
    BY <1>1 DEF WriteInv
  <2>2. Silent'
    BY <1>2, <1>7, <1>8, <2>1 DEF Silent
  <2>3. \A k \in 1 .. Len(Tail(fmt)) : Tail(fmt)[k].kind # "rx"
    BY <1>5, <2>1
  <2>4. Eeprom!Half' = Eeprom!Half /\ Eeprom!Half \in Nat
    BY <1>1, EepromFacts DEF Eeprom!Half
  <2>5. Len(Tail(fmt)) <= 4 + Eeprom!Half
    BY <1>5, <2>1, <2>4
  <2>6. QED
    BY <1>2, <2>2, <2>3, <2>4, <2>5 DEF WriteInv
<1>12. ReadInv'
  <2> SUFFICES ASSUME ~op.write PROVE ReadInv'
    BY <1>2 DEF ReadInv
  <2>1. at = "receive" /\ (Stage0 \/ Stage1 \/ Stage2 \/ Stage3 \/ Stage4 \/ Stage5)
    BY <1>1, <1>2 DEF ReadInv, EepromTypes
  <2>2. E1' = E1 /\ E2' = E2 /\ E3' = E3 /\ E4' = E4 /\ E5' = E5
    BY <1>2 DEF E1, E2, E3, E4, E5
  <2>3. Below => chunk.addr < 65536
    BY <1>1, <1>2, <2>1, BelowAddr
  <2>4. chunk.addr \in Nat
    BY <1>1 DEF EepromTypes
  <2>5. E1.kind = "start" /\ E4.kind = "start" /\ E5.kind = "rx"
    BY DEF E1, E4, E5, Eeprom!Entry
  <2>6. CASE Stage1
    <3>1. Head(fmt) = E2 /\ Tail(fmt) = <<E3, E4, E5>>
      BY <2>6 DEF Stage1
    <3>2. Below => dev'.base = 0 /\ dev'.bytes = 1 /\ dev'.ptr = High(chunk.addr) * 256
      BY <1>7, <1>8, <2>6, <3>1 DEF Stage1, E2, Eeprom!Entry
    <3>3. Stage2'
      BY <1>2, <1>7, <1>8, <2>2, <2>6, <3>1, <3>2 DEF Stage1, Stage2, Silent, Below
    <3>4. QED
      BY <1>2, <2>1, <3>3 DEF ReadInv
  <2>7. CASE Stage2
    <3>1. Head(fmt) = E3 /\ Tail(fmt) = <<E4, E5>>
      BY <2>7 DEF Stage2
    <3>2. Below => High(chunk.addr) * 256 + Low(chunk.addr) = chunk.addr
      BY <2>3, <2>4, TwoBytes, SMT
    <3>3. Below => dev'.base = 0 /\ dev'.ptr = chunk.addr
      <4>1. Head(fmt).byte = Low(chunk.addr)
        BY <3>1 DEF E3, Eeprom!Entry
      <4>2. Below => /\ dev.base = 0 /\ dev.bytes = 1
                     /\ dev.ptr = High(chunk.addr) * 256
        BY <2>7 DEF Stage2
      <4>3. Below => dev'.base = 0 /\ dev'.ptr = dev.ptr + Low(chunk.addr)
        <5>1. dev.bytes = 1 => d.ptr = dev.ptr + Head(fmt).byte
          BY <1>7
        <5>2. dev'.base = dev.base /\ dev'.ptr = d.ptr
          BY <1>7, <1>8
        <5>3. QED
          BY <4>1, <4>2, <5>1, <5>2
      <4>4. QED
        BY <3>2, <4>2, <4>3
    <3>4. Stage3'
      BY <1>2, <1>7, <1>8, <2>2, <2>7, <3>1, <3>3 DEF Stage2, Stage3, Silent, Below
    <3>5. QED
      BY <1>2, <2>1, <3>4 DEF ReadInv
  <2>8. ~Stage0 /\ ~Stage3 /\ ~Stage4 /\ ~Stage5
    BY <1>2, <2>5 DEF Stage0, Stage3, Stage4, Stage5
  <2>9. QED
    BY <2>1, <2>6, <2>7, <2>8
<1>13. QED
  BY <1>9, <1>10, <1>11, <1>12 DEF EepromInv

\* A request is for the bytes of the chunk.
LEMMA BusRequestInv == ASSUME EepromInv, Eeprom!BusRequest PROVE EepromInv'
<1>1. EepromTypes /\ ChunkInv /\ BufInv /\ ReadInv /\ WriteInv /\ Eeprom!OverrunBounded
  BY DEF EepromInv
<1>2. /\ at' = at /\ op' = op /\ offs' = offs /\ chunk' = chunk /\ buf' = buf /\ rx' = rx /\ enabled' = enabled
      /\ enabled /\ fmt # <<>> /\ Head(fmt).kind = "rx" /\ fmt' = Tail(fmt)
  BY DEF Eeprom!BusRequest
<1>3. dev' = [dev EXCEPT !.left = Head(fmt).byte]
  BY DEF Eeprom!BusRequest
<1>4. fmt \in Seq([kind : {"start", "tx", "stop", "rx"}, byte : Nat])
  BY <1>1 DEF EepromTypes
<1>5. /\ Head(fmt) \in [kind : {"start", "tx", "stop", "rx"}, byte : Nat]
      /\ Tail(fmt) \in Seq([kind : {"start", "tx", "stop", "rx"}, byte : Nat])
      /\ Len(fmt) \in Nat \ {0} /\ Len(Tail(fmt)) = Len(fmt) - 1
      /\ \A k \in 1 .. Len(Tail(fmt)) : Tail(fmt)[k] = fmt[k + 1]
  BY <1>2, <1>4, QueueHead, Zenon
<1>6. /\ dev' \in [base : Nat, ptr : Nat, bytes : Nat, left : Nat, pending : SUBSET (Nat \X Nat)]
      /\ dev'.left = Head(fmt).byte /\ dev'.base = dev.base /\ dev'.ptr = dev.ptr
  BY <1>1, <1>3, <1>5 DEF EepromTypes
<1>7. EepromTypes'
  BY <1>1, <1>2, <1>5, <1>6 DEF EepromTypes, Eeprom!DepthFits, Eeprom!AccessesFit
<1>8. ChunkInv' /\ BufInv' /\ Eeprom!OverrunBounded'
  BY <1>1, <1>2 DEF ChunkInv, BufInv, Between, Below, Eeprom!OverrunBounded, Eeprom!FirstLen
<1>9. ~op.write
  <2>1. Head(fmt) = fmt[1] /\ 1 \in 1 .. Len(fmt)
    BY <1>5
  <2>2. QED
    BY <1>1, <1>2, <2>1 DEF WriteInv
<1>10. WriteInv'
  BY <1>2, <1>9 DEF WriteInv
<1>11. ReadInv'
  <2>1. at = "receive" /\ (Stage0 \/ Stage1 \/ Stage2 \/ Stage3 \/ Stage4 \/ Stage5)
    BY <1>1, <1>2, <1>9 DEF ReadInv, EepromTypes
  <2>2. E1.kind = "start" /\ E2.kind = "tx" /\ E3.kind = "stop" /\ E4.kind = "start"
    BY DEF E1, E2, E3, E4, Eeprom!Entry
  <2>3. Stage4
    BY <1>2, <2>1, <2>2 DEF Stage0, Stage1, Stage2, Stage3, Stage5
  <2>4. Head(fmt) = E5 /\ Tail(fmt) = <<>> /\ rx = <<>> /\ Len(rx) = 0
    BY <2>3 DEF Stage4, Silent
  <2>5. dev'.left = chunk.len /\ chunk.len \in Nat /\ chunk.addr \in Nat
    BY <1>1, <1>6, <2>4 DEF E5, Eeprom!Entry, EepromTypes
  <2>6. Below => dev'.base = 0 /\ dev'.ptr = chunk.addr % 65536
    <3>1. Below => chunk.addr < 65536
      BY <1>1, <2>1, BelowAddr
    <3>2. Below => chunk.addr % 65536 = chunk.addr
      BY <2>5, <3>1, SMT
    <3>3. QED
      BY <1>6, <2>3, <3>2 DEF Stage4
  <2>7. Below => Bytes'
    BY <1>2, <2>4, <2>5, <2>6 DEF Bytes, Eeprom!BlockBytes
  <2>8. Stage5'
    BY <1>2, <2>4, <2>5, <2>6, <2>7 DEF Stage5, Below, Eeprom!BlockBytes
  <2>9. QED
    BY <1>2, <2>1, <2>8 DEF ReadInv
<1>12. QED
  BY <1>7, <1>8, <1>10, <1>11 DEF EepromInv

\* The pointer wraps like a sum.
LEMMA BumpSum == ASSUME NEW y \in Nat PROVE ((y % 65536) + 1) % 65536 = (y + 1) % 65536
BY SMT

\* The EEPROM sends the byte its pointer names.
LEMMA BusReceiveInv == ASSUME EepromInv, Eeprom!BusReceive PROVE EepromInv'
<1> DEFINE v == dev.base + dev.ptr
<1>1. EepromTypes /\ ChunkInv /\ BufInv /\ ReadInv /\ WriteInv /\ Eeprom!OverrunBounded
  BY DEF EepromInv
<1>2. /\ at' = at /\ op' = op /\ offs' = offs /\ chunk' = chunk /\ buf' = buf /\ fmt' = fmt /\ enabled' = enabled
      /\ dev.left > 0 /\ rx' = Append(rx, v)
  BY DEF Eeprom!BusReceive
<1>3. dev' = [dev EXCEPT !.ptr = Eeprom!Bump(@), !.left = @ - 1]
  BY DEF Eeprom!BusReceive
<1>4. /\ dev \in [base : Nat, ptr : Nat, bytes : Nat, left : Nat, pending : SUBSET (Nat \X Nat)]
      /\ rx \in Seq(Nat) /\ Len(rx) \in Nat /\ chunk.addr \in Nat /\ chunk.len \in Nat
  BY <1>1 DEF EepromTypes
<1>5. v \in Nat /\ Eeprom!Bump(dev.ptr) \in Nat /\ dev.left - 1 \in Nat
  BY <1>2, <1>4 DEF Eeprom!Bump, Eeprom!BlockBytes
<1>6. /\ dev' \in [base : Nat, ptr : Nat, bytes : Nat, left : Nat, pending : SUBSET (Nat \X Nat)]
      /\ dev'.left = dev.left - 1 /\ dev'.base = dev.base /\ dev'.ptr = (dev.ptr + 1) % 65536
  <2>1. Eeprom!Bump(dev.ptr) = (dev.ptr + 1) % 65536
    BY DEF Eeprom!Bump, Eeprom!BlockBytes
  <2> DEFINE b == Eeprom!Bump(dev.ptr)
             l == dev.left - 1
  <2>2. dev' = [dev EXCEPT !.ptr = b, !.left = l] /\ b \in Nat /\ l \in Nat
    BY <1>3, <1>5
  <2> HIDE DEF b, l
  <2>3. /\ dev' \in [base : Nat, ptr : Nat, bytes : Nat, left : Nat, pending : SUBSET (Nat \X Nat)]
        /\ dev'.left = l /\ dev'.base = dev.base /\ dev'.ptr = b
    BY <1>4, <2>2
  <2>4. QED
    BY <2>1, <2>3 DEF b, l
<1> HIDE DEF v
<1>7. rx' \in Seq(Nat) /\ Len(rx') = Len(rx) + 1
      /\ (\A k \in 1 .. Len(rx) : rx'[k] = rx[k]) /\ rx'[Len(rx) + 1] = v
  BY <1>2, <1>4, <1>5
<1>8. EepromTypes'
  <2>1. rx' \in Seq(Nat)
    BY <1>7
  <2>2. /\ dev' \in [base : Nat, ptr : Nat, bytes : Nat, left : Nat, pending : SUBSET (Nat \X Nat)]
        /\ at' = at /\ op' = op /\ offs' = offs /\ chunk' = chunk /\ buf' = buf /\ fmt' = fmt
        /\ enabled' = enabled
    BY <1>2, <1>6
  <2>3. QED
    BY <1>1, <2>1, <2>2 DEF EepromTypes, Eeprom!DepthFits, Eeprom!AccessesFit
<1>9. ChunkInv' /\ BufInv' /\ Eeprom!OverrunBounded'
  BY <1>1, <1>2 DEF ChunkInv, BufInv, Between, Below, Eeprom!OverrunBounded, Eeprom!FirstLen
<1>10. dev.left # 0
  BY <1>2, <1>4
<1>11. ~op.write
  BY <1>1, <1>10 DEF WriteInv, Silent
<1>12. WriteInv'
  BY <1>2, <1>11 DEF WriteInv
<1>13. ReadInv'
  <2>1. at = "receive" /\ Stage5
    BY <1>1, <1>10, <1>11 DEF ReadInv, EepromTypes, Silent, Stage0, Stage1, Stage2, Stage3, Stage4
  <2>2. Len(rx') + dev'.left = chunk.len
    BY <1>4, <1>6, <1>7, <2>1 DEF Stage5
  <2>3. ASSUME Below PROVE Bytes'
    <3>1. chunk.addr < 65536
      BY <1>1, <2>1, <2>3, BelowAddr
    <3>2. dev.base = 0 /\ dev.ptr = (chunk.addr + Len(rx)) % 65536
      BY <2>1, <2>3 DEF Stage5, Bytes, Eeprom!BlockBytes
    <3>3. (((chunk.addr + Len(rx)) % 65536) + 1) % 65536 = (chunk.addr + (Len(rx) + 1)) % 65536
      <4>1. chunk.addr + Len(rx) \in Nat /\ chunk.addr + Len(rx) + 1 = chunk.addr + (Len(rx) + 1)
        <5>1. chunk.addr \in Nat /\ Len(rx) \in Nat
          BY <1>4
        <5>2. QED
          BY <5>1
      <4>2. QED
        BY <4>1, BumpSum
    <3>4. dev'.ptr = (chunk.addr + Len(rx')) % 65536
      BY <1>6, <1>7, <3>2, <3>3
    <3>5. v = (chunk.addr + Len(rx)) % 65536
      BY <1>4, <3>2 DEF v
    <3>6. ASSUME NEW k \in 1 .. Len(rx') PROVE rx'[k] = (chunk.addr + k - 1) % 65536
      <4>1. CASE k \in 1 .. Len(rx)
        BY <1>7, <2>1, <2>3, <4>1 DEF Stage5, Bytes, Eeprom!BlockBytes
      <4>2. CASE k = Len(rx) + 1
        <5>1. chunk.addr + k - 1 = chunk.addr + Len(rx)
          BY <1>4, <4>2
        <5>2. QED
          BY <1>7, <3>5, <4>2, <5>1
      <4>3. QED
        BY <1>4, <1>7, <4>1, <4>2
    <3>7. QED
      BY <1>2, <3>4, <3>6 DEF Bytes, Eeprom!BlockBytes
  <2>4. Below => dev'.base = 0
    BY <1>6, <2>1 DEF Stage5
  <2>5. Stage5'
    BY <1>2, <2>1, <2>2, <2>3, <2>4 DEF Stage5, Below
  <2>6. QED
    BY <1>2, <2>1, <2>5 DEF ReadInv
<1>14. QED
  BY <1>8, <1>9, <1>12, <1>13 DEF EepromInv

\* A step that changes nothing changes no part of the invariant.
LEMMA EepromStutter == ASSUME EepromInv, UNCHANGED Eeprom!vars PROVE EepromInv'
<1>1. /\ at' = at /\ op' = op /\ offs' = offs /\ chunk' = chunk /\ buf' = buf /\ fmt' = fmt /\ rx' = rx
      /\ enabled' = enabled /\ dev' = dev
  BY DEF Eeprom!vars
<1>2. EepromTypes'
  BY <1>1 DEF EepromInv, EepromTypes, Eeprom!DepthFits, Eeprom!AccessesFit
<1>3. ChunkInv' /\ BufInv' /\ Eeprom!OverrunBounded'
  BY <1>1 DEF EepromInv, ChunkInv, BufInv, Between, Below, Eeprom!OverrunBounded, Eeprom!FirstLen
<1>4. E1' = E1 /\ E2' = E2 /\ E3' = E3 /\ E4' = E4 /\ E5' = E5 /\ Silent' = Silent /\ Below' = Below /\ Bytes' = Bytes
  BY <1>1 DEF E1, E2, E3, E4, E5, Silent, Below, Bytes
<1>5. ReadInv'
  BY <1>1, <1>4 DEF EepromInv, ReadInv, Stage0, Stage1, Stage2, Stage3, Stage4, Stage5
<1>6. WriteInv'
  BY <1>1, <1>4 DEF EepromInv, WriteInv, Eeprom!Half
<1>7. QED
  BY <1>2, <1>3, <1>5, <1>6 DEF EepromInv

\* Each step of driver, host and EEPROM preserves the invariant.
LEMMA EepromNext == EepromInv /\ [Eeprom!Next]_Eeprom!vars => EepromInv'
<1> SUFFICES ASSUME EepromInv, [Eeprom!Next]_Eeprom!vars PROVE EepromInv'
  OBVIOUS
<1>1. CASE Eeprom!Driver
  BY <1>1, NextChunkInv, FillInv, EnableInv, ReceiveInv DEF Eeprom!Driver
<1>2. CASE Eeprom!Bus
  BY <1>2, BusStartInv, BusByteInv, BusRequestInv, BusReceiveInv DEF Eeprom!Bus
<1>3. CASE UNCHANGED Eeprom!vars
  BY <1>3, EepromStutter
<1>4. QED
  BY <1>1, <1>2, <1>3 DEF Eeprom!Next

\* The invariant holds while the driver of the EEPROM, the host and the EEPROM run.
THEOREM EepromInvariance == Eeprom!Spec => []EepromInv
<1>1. Eeprom!Init => EepromInv
  BY EepromInit, DepthAssumption, AccessAssumption
<1>2. QED
  BY <1>1, EepromNext, PTL DEF Eeprom!Spec

\* i2c_24fc1025_read below 64 KiB returns the bytes asked for (EepromReadExact): what
\* precedes the chunk under way is in place, and chunks leave no gap.
THEOREM EepromReadsExactly == Eeprom!Spec => []EepromReadExact
<1>1. EepromInv => EepromReadExact
  <2> SUFFICES ASSUME EepromInv, at = "done", ~op.write, op.addr + op.len <= Eeprom!BlockBytes,
                      NEW i \in 0 .. op.len - 1
               PROVE  buf[i] = op.addr + i
    BY DEF EepromReadExact, Eeprom!ReadExact
  <2>1. Below /\ Between /\ offs >= op.len /\ offs \in Nat /\ op.len \in Nat
    BY DEF EepromInv, EepromTypes, BufInv, Below, Between
  <2>2. i < offs
    BY <2>1
  <2>3. QED
    BY <2>1, <2>2 DEF EepromInv, BufInv
<1>2. QED
  BY <1>1, EepromInvariance, PTL

\* A read writes behind the caller's buffer up to the next boundary of addresses, and no
\* further (EepromOverrunBounded): only the first chunk may be longer than the access.
THEOREM EepromOverrunsInRow == Eeprom!Spec => []EepromOverrunBounded
<1>1. EepromInv => EepromOverrunBounded
  BY DEF EepromInv, EepromOverrunBounded
<1>2. QED
  BY <1>1, EepromInvariance, PTL

\* __i2c_24fc1025_access_chunk never overflows the host's FIFOs (EepromFifosFit), if they
\* have eight entries: a written chunk takes half of one and four entries besides.
THEOREM EepromFifosSuffice ==
  ASSUME Depth >= 8
  PROVE  Eeprom!Spec => []EepromFifosFit
<1>1. EepromInv => EepromFifosFit
  <2> SUFFICES ASSUME EepromInv PROVE Len(fmt) <= Depth /\ Len(rx) <= Depth
    BY DEF EepromFifosFit, Eeprom!FifosFit
  <2>1. EepromTypes /\ ChunkInv /\ ReadInv /\ WriteInv
    BY DEF EepromInv
  <2>2. Depth \in Nat /\ 4 + Eeprom!Half <= Depth
    <3>1. Depth \in Nat /\ Eeprom!Half = Depth \div 2
      BY <2>1, EepromFacts DEF Eeprom!Half
    <3>2. 4 + Depth \div 2 <= Depth
      BY <3>1, SMT
    <3>3. QED
      BY <3>1, <3>2
  <2>3. CASE op.write
    <3>1. Len(rx) = 0 /\ Len(fmt) <= 4 + Eeprom!Half /\ Len(fmt) \in Nat
      BY <2>1, <2>3 DEF EepromTypes, WriteInv, Silent
    <3>2. Eeprom!Half \in Nat
      BY <2>1, EepromFacts
    <3>3. QED
      BY <2>2, <3>1, <3>2
  <2>4. CASE ~op.write
    <3>1. \/ Silent /\ fmt = <<>>
          \/ Stage0 \/ Stage1 \/ Stage2 \/ Stage3 \/ Stage4
          \/ at = "receive" /\ Stage5
      BY <2>1, <2>4 DEF EepromTypes, ReadInv
    <3>2. CASE at = "receive" /\ Stage5
      <4>1. chunk.len <= Depth /\ chunk.len \in Nat
        BY <2>1, <2>2, <3>2 DEF ChunkInv, Between
      <4>2. Len(fmt) = 0 /\ Len(rx) + dev.left = chunk.len /\ Len(rx) \in Nat /\ dev.left \in Nat
        BY <2>1, <3>2 DEF Stage5, EepromTypes
      <4>3. QED
        BY <2>2, <4>1, <4>2
    <3>3. CASE Stage0 \/ Stage1 \/ Stage2 \/ Stage3 \/ Stage4 \/ (Silent /\ fmt = <<>>)
      <4>1. Len(fmt) \in 0 .. 5
        BY <3>3 DEF Stage0, Stage1, Stage2, Stage3, Stage4
      <4>2. Len(rx) = 0
        BY <3>3 DEF Silent, Stage0, Stage1, Stage2, Stage3, Stage4
      <4>3. Depth \in Nat /\ Depth >= 8
        BY <2>2
      <4>4. \A m \in 0 .. 5 : m <= Depth
        BY <4>3
      <4>5. 0 <= Depth
        BY <4>3
      <4>6. QED
        BY <4>1, <4>2, <4>4, <4>5, Zenon
    <3>4. QED
      BY <3>1, <3>2, <3>3
  <2>5. QED
    BY <2>3, <2>4
<1>2. QED
  BY <1>1, EepromInvariance, PTL
=============================================================================
