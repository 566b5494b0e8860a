-------------------------- MODULE FlashToolProofs ---------------------------
(***************************************************************************)
(* Proofs about FlashTool and the driver in NorFlash, for every size of    *)
(* sectors, erases and small sectors, every configuration of the flash and *)
(* any calls.                                                              *)
(*                                                                         *)
(* Whatever state an earlier call left the flash in, the poll after the    *)
(* CR3V write finds it idle and without an error bit; from then on it does *)
(* what it is asked (InvOurs), and memory is written up to a front and     *)
(* erased behind it, as far as the erases have come (InvMem).  If no call  *)
(* has failed yet, it does so from the first command on.                   *)
(***************************************************************************)
EXTENDS FlashTool, TLAPS

(***************************************************************************)
(* The inductive invariant.                                                *)
(***************************************************************************)

Late == {"small", "erase", "program"}

\* Whose call is under way, and how far it is.
InvFlow ==
  /\ step = "idle" \/ pc = IF call.read THEN "boot" ELSE "flash"
  /\ step = "init" => at = 0
  /\ step = "read" => call.read
  /\ step \in Operations => ~call.read
  /\ pc = "flash" => ~call.read /\ scratch.target = 2
  /\ pc \in {"main", "flash"} => scratch.len > 0 /\ scratch.first + scratch.len <= Sectors
  /\ pc = "boot" => call.read
  /\ pc = "exit" /\ status = "ok" /\ scratch.target = 2 => Done /\ ~call.read
  /\ pc = "exit" /\ status = "ok" =>
       CASE scratch.target = 1 -> written = Handed
         [] scratch.target \in {2, 3} -> TRUE
         [] OTHER -> FALSE
  /\ call.first + call.len <= IF call.read THEN Sectors * SectorPages ELSE Sectors
  /\ step \in Late => sect < call.len
  /\ step = "small" => at < NumSmall /\ Alignment(sect) \in {0, Cycle - 1}
  /\ step = "program" => at < SectorPages

\* Where the flash is certain to be ours: for a tool that has not failed, always.
Ours == ~trouble \/ step \in Late \/ (Done /\ ~call.read)

\* The flash is idle between operations, enabled where a command is sent, and busy
\* with nothing but that command.
InvOurs ==
  Ours =>
    /\ dev.op # None => step \in Operations \ {"mode"} /\ part = "poll" /\ dev.op = Requested
    /\ dev.err => step \in Operations /\ part = "poll" /\ dev.op = None
    /\ step \in Operations /\ part = "command" => dev.wel
    /\ ~trouble /\ step \in Operations \ {"mode"} => dev.mode4b

\* A blank flash is busy with nothing or the CR3V write, and still blank.
InvBlank ==
  ~call.read /\ blank /\ step \in {"init", "mode", "config"} =>
    /\ dev.op # None => step = "config" /\ part = "poll" /\ dev.op.kind = "config"
    /\ \A p \in Wanted(call) : mem[p] = Erased

\* What a read has delivered.
InvRead ==
  call.read /\ ~trouble /\ (step = "read" \/ Done) =>
    \A i \in 0 .. call.len - 1 : i < at \/ Done => buf[i] = mem[call.first + i]

\* What page p is to be programmed with.
Target(p) == p - call.first * SectorPages + 1

\* The operation at hand has ended.
Landed == part = "poll" /\ dev.op = None

\* Where the pages that are written end.
Front == SectorPage + IF step = "program" THEN at + (IF Landed THEN 1 ELSE 0) ELSE 0

\* Page p of the sector at hand has been erased, by small or sector erases.
Swept(p) ==
  /\ p < SectorPage + SectorPages
  /\ \/ step = "program"
     \/ step = "erase" /\ (Landed \/ p \in Overlay)
     \/ step = "small" /\ p \in Overlay /\ p < SmallPage(at) + IF Landed THEN SmallPages ELSE 0

InvMem ==
  step \in Late /\ ~dev.err /\ (dev.long \/ blank) =>
    \A p \in Wanted(call) :
      /\ p < Front => mem[p] = Target(p)
      /\ p >= Front /\ (blank \/ Swept(p)) => mem[p] = Erased

InvWritten == Done /\ ~call.read /\ (dev.long \/ blank) => Written

Inv == TypeOK /\ InvFlow /\ InvOurs /\ InvBlank /\ InvRead /\ InvMem /\ InvWritten

-----------------------------------------------------------------------------
(* Arithmetic: sectors, small sectors and blocks. *)

\* The parameters are positive.
LEMMA Sizes ==
  /\ Sectors \in Nat /\ Sectors > 0 /\ SectorPages \in Nat /\ SectorPages > 0
  /\ ShortPages \in Nat /\ ShortPages > 0 /\ SmallPages \in Nat /\ SmallPages > 0
  /\ NumSmall \in Nat /\ NumSmall > 0 /\ ReadPages \in Nat /\ ReadPages > 0
  /\ Cycle \in Nat /\ Cycle > 1
BY SizesAssumption

\* Products are monotonic.
LEMMA ProductOrder ==
  ASSUME NEW B \in Int, B > 0, NEW m \in Int, NEW n \in Int
  PROVE  /\ m * B \in Int /\ n * B \in Int
         /\ m <= n => m * B <= n * B
         /\ m < n => m * B + B <= n * B
<1>1. m <= n => m * B <= n * B
  OBVIOUS
<1>2. m + 1 <= n => (m + 1) * B <= n * B
  OBVIOUS
<1>3. (m + 1) * B = m * B + B
  OBVIOUS
<1> QED
  BY <1>1, <1>2, <1>3

\* The multiples of B between which a lies.
LEMMA Between ==
  ASSUME NEW B \in Int, B > 0, NEW a \in Int, NEW q \in Int
  PROVE  /\ a \div B \in Int
         /\ a \div B = q <=> q * B <= a /\ a < q * B + B
<1> DEFINE d == a \div B
<1>1. d \in Int /\ d * B <= a /\ a < d * B + B
  OBVIOUS
<1> HIDE DEF d
<1>2. ASSUME q * B <= a, a < q * B + B
      PROVE  d = q
  <2>1. ~(d < q)
    BY <1>1, <1>2, ProductOrder
  <2>2. ~(q < d)
    BY <1>1, <1>2, ProductOrder
  <2> QED
    BY <1>1, <2>1, <2>2
<1>3. d = q <=> q * B <= a /\ a < q * B + B
  BY <1>1, <1>2
<1> QED
  BY <1>1, <1>3 DEF d

\* A multiple of B.
LEMMA Multiple ==
  ASSUME NEW B \in Int, B > 0, NEW a \in Int, a % B = 0
  PROVE  \E q \in Int : a = q * B
<1> DEFINE d == a \div B
<1>1. d \in Int /\ a = d * B
  OBVIOUS
<1> QED
  BY <1>1

\* The array ends with a cycle.
LEMMA Cycles == \E q \in Int : Sectors = q * Cycle
<1>1. Sectors \in Int /\ Cycle \in Int /\ Cycle > 0 /\ Sectors % Cycle = 0
  BY Sizes, SizesAssumption
<1> QED
  BY <1>1, Multiple

\* Short erases divide a sector, small sectors a short erase, and the small sectors
\* together fit in one sector.
LEMMA Shares ==
  /\ \E a \in Int : SectorPages = a * ShortPages
  /\ \E b \in Int : ShortPages = b * SmallPages
  /\ ShortPages <= SectorPages
  /\ NumSmall * SmallPages \in Nat /\ NumSmall * SmallPages <= SectorPages
  /\ NumSmall <= SectorPages
<1>1. PICK a \in Int : SectorPages = a * ShortPages
  BY Sizes, Multiple, SizesAssumption
<1>2. \E b \in Int : ShortPages = b * SmallPages
  BY Sizes, Multiple, SizesAssumption
<1>3. ~(a <= 0)
  BY <1>1, Sizes, ProductOrder
<1>4. 1 * ShortPages <= a * ShortPages
  BY <1>3, Sizes, ProductOrder
<1>5. ShortPages <= SectorPages
  BY <1>1, <1>4, Sizes
<1>6. NumSmall * SmallPages \in Nat /\ NumSmall <= NumSmall * SmallPages
  BY Sizes
<1>7. NumSmall * SmallPages <= ShortPages
  BY SizesAssumption
<1> QED
  BY <1>1, <1>2, <1>5, <1>6, <1>7, Sizes

\* Pages of sector k.
SectorOf(k) == {p \in Pages : k * SectorPages <= p /\ p < k * SectorPages + SectorPages}

\* Where the small sectors of sector k begin, if it has any.
SmallStart(k) ==
  k * SectorPages + (IF k % Cycle = Cycle - 1 THEN SectorPages - NumSmall * SmallPages ELSE 0)

\* Sector k lies in the array, and its small sectors in sector k.
LEMMA SectorFacts ==
  ASSUME NEW k \in 0 .. Sectors - 1
  PROVE  /\ k * SectorPages \in Nat
         /\ k * SectorPages + SectorPages <= Sectors * SectorPages
         /\ Sectors * SectorPages \in Nat
         /\ SmallStart(k) \in Nat
         /\ k * SectorPages <= SmallStart(k)
         /\ SmallStart(k) + NumSmall * SmallPages <= k * SectorPages + SectorPages
<1>1. k * SectorPages \in Nat /\ Sectors * SectorPages \in Nat
  BY Sizes
<1>2. k * SectorPages + SectorPages <= Sectors * SectorPages
  BY Sizes, ProductOrder
<1> QED
  BY <1>1, <1>2, Sizes, Shares DEF SmallStart

\* An erase at the start of sector k covers the sector or the first part of it.
LEMMA SectorBlock ==
  ASSUME NEW k \in 0 .. Sectors - 1
  PROVE  /\ Block(k * SectorPages, SectorPages) = SectorOf(k)
         /\ Block(k * SectorPages, ShortPages) \subseteq SectorOf(k)
<1>1. k * SectorPages \in Int
  BY SectorFacts
<1> DEFINE K == k * SectorPages
<1>2. K \div SectorPages = k
  BY <1>1, Between, Sizes
<1>3. \A p \in Pages : p \div SectorPages = k <=> K <= p /\ p < K + SectorPages
  BY Between, Sizes, SectorFacts DEF Pages
<1>4. Block(K, SectorPages) = SectorOf(k)
  BY <1>2, <1>3 DEF Block, SectorOf
<1>5. PICK a \in Int : SectorPages = a * ShortPages
  BY Shares
<1>6. K = (k * a) * ShortPages /\ k * a \in Int
  BY <1>5, Sizes
<1> DEFINE m == k * a
<1>7. m \in Int /\ K = m * ShortPages /\ K \in Int
  BY <1>1, <1>6
<1> HIDE DEF m, K
<1>8. K \div ShortPages = m
  BY <1>7, Between, Sizes
<1>9. \A p \in Pages : p \div ShortPages = m => K <= p /\ p < K + ShortPages
  BY <1>7, Between, Sizes, SectorFacts DEF Pages
<1>10. Block(K, ShortPages) \subseteq SectorOf(k)
  BY <1>7, <1>8, <1>9, Shares, Sizes DEF Block, SectorOf, K, Pages
<1> QED
  BY <1>4, <1>10 DEF K

\* Small sector i of sector k is a block of its own.
LEMMA SmallBlock ==
  ASSUME NEW k \in 0 .. Sectors - 1, NEW i \in 0 .. NumSmall - 1
  PROVE  LET a == SmallStart(k) + i * SmallPages IN
         /\ a \in Pages
         /\ Block(a, SmallPages) = {p \in Pages : a <= p /\ p < a + SmallPages}
         /\ SmallStart(k) <= a /\ a + SmallPages <= SmallStart(k) + NumSmall * SmallPages
<1> DEFINE a == SmallStart(k) + i * SmallPages
<1>1. i * SmallPages \in Nat /\ i * SmallPages + SmallPages <= NumSmall * SmallPages
  BY Sizes, ProductOrder
<1>2. a \in Pages /\ SmallStart(k) <= a /\ a + SmallPages <= SmallStart(k) + NumSmall * SmallPages
  BY <1>1, SectorFacts, Sizes DEF Pages
<1>3. PICK x \in Int : SectorPages = x * ShortPages
  BY Shares
<1>4. PICK y \in Int : ShortPages = y * SmallPages
  BY Shares
<1>5. SectorPages = (x * y) * SmallPages /\ x * y \in Int
  BY <1>3, <1>4, Sizes
<1> DEFINE z == x * y
<1>6. z \in Int /\ SectorPages = z * SmallPages
  BY <1>5
<1> HIDE DEF z
<1>7. \E m \in Int : a = m * SmallPages
  <2>1. CASE k % Cycle = Cycle - 1
    <3>1. a = (k * z + z - NumSmall + i) * SmallPages
      BY <2>1, <1>6, Sizes DEF SmallStart
    <3>2. k * z + z - NumSmall + i \in Int
      BY <1>6, Sizes
    <3> QED
      BY <3>1, <3>2
  <2>2. CASE k % Cycle # Cycle - 1
    <3>1. a = (k * z + i) * SmallPages
      BY <2>2, <1>6, Sizes DEF SmallStart
    <3>2. k * z + i \in Int
      BY <1>6
    <3> QED
      BY <3>1, <3>2
  <2> QED
    BY <2>1, <2>2
<1>8. PICK m \in Int : a = m * SmallPages
  BY <1>7
<1> HIDE DEF a
<1>9. a \in Int
  BY <1>2 DEF Pages
<1>10. a \div SmallPages = m
  BY <1>8, <1>9, Between, Sizes
<1>11. \A p \in Pages : p \div SmallPages = m <=> a <= p /\ p < a + SmallPages
  BY <1>8, Between, Sizes, SectorFacts DEF Pages
<1>12. Block(a, SmallPages) = {p \in Pages : a <= p /\ p < a + SmallPages}
  BY <1>10, <1>11 DEF Block
<1> QED
  BY <1>2, <1>12 DEF a

\* If there are small sectors in sector k, they are where the driver takes them to be.
LEMMA OverlayPlace ==
  ASSUME dev.uniform \in BOOLEAN, dev.top \in BOOLEAN, NEW k \in 0 .. Sectors - 1,
         NEW p \in Overlay \cap SectorOf(k)
  PROVE  /\ k % Cycle \in {0, Cycle - 1}
         /\ SmallStart(k) <= p /\ p < SmallStart(k) + NumSmall * SmallPages
         /\ \A q \in Pages : SmallStart(k) <= q /\ q < SmallStart(k) + NumSmall * SmallPages
                               => q \in Overlay
<1>1. ~dev.uniform
  BY DEF Overlay
<1>2. p \in Int /\ k * SectorPages <= p /\ p < k * SectorPages + SectorPages
  BY SectorFacts DEF SectorOf, Pages
<1>3. CASE dev.top
  <2>1. p >= Sectors * SectorPages - NumSmall * SmallPages
    BY <1>1, <1>3 DEF Overlay
  <2>2. ~(k < Sectors - 1)
    <3>1. SUFFICES ASSUME k < Sectors - 1 PROVE FALSE
      OBVIOUS
    <3> DEFINE l == Sectors - 1
    <3>4. l \in Int /\ k < l
      BY <3>1, Sizes
    <3>5. k * SectorPages + SectorPages <= l * SectorPages
      <4> HIDE DEF l
      <4> QED
        BY <3>4, ProductOrder, Sizes
    <3>2. k * SectorPages + SectorPages <= (Sectors - 1) * SectorPages
      BY <3>5
    <3>3. (Sectors - 1) * SectorPages + SectorPages = Sectors * SectorPages
      BY Sizes
    <3> DEFINE K == k * SectorPages
    <3> DEFINE T == Sectors * SectorPages
    <3> DEFINE N == NumSmall * SmallPages
    <3>6. K + SectorPages <= T - SectorPages /\ p >= T - N /\ p < K + SectorPages
      BY <3>2, <3>3, <2>1, <1>2, SectorFacts, Sizes
    <3>7. K \in Int /\ T \in Int /\ N \in Int /\ N <= SectorPages
      BY Shares, SectorFacts, Sizes
    <3> HIDE DEF K, T, N
    <3> QED
      BY <3>6, <3>7, <1>2, Sizes
  <2>3. k = Sectors - 1
    BY <2>2, Sizes
  <2>4. k % Cycle = Cycle - 1
    <3>1. PICK q \in Int : Sectors = q * Cycle
      BY Cycles
    <3>2. (q - 1) * Cycle + Cycle = Sectors
      BY <3>1, Sizes
    <3>3. k = (q - 1) * Cycle + (Cycle - 1)
      BY <3>2, <2>3, Sizes
    <3> DEFINE r == q - 1
    <3>4. r \in Int /\ k = r * Cycle + (Cycle - 1)
      BY <3>1, <3>3
    <3> HIDE DEF r
    <3>5. k \div Cycle = r
      BY <3>4, Between, Sizes
    <3>6. k = Cycle * (k \div Cycle) + (k % Cycle) /\ k % Cycle \in Int
      BY Sizes
    <3>8. k = Cycle * r + (k % Cycle) /\ Cycle * r = r * Cycle /\ r * Cycle \in Int
      BY <3>4, <3>5, <3>6, Sizes
    <3> QED
      BY <3>4, <3>6, <3>8, Sizes
  <2>5. k * SectorPages + SectorPages = Sectors * SectorPages
    BY <2>3, Sizes
  <2>6. SmallStart(k) = Sectors * SectorPages - NumSmall * SmallPages
    BY <2>4, <2>5, SectorFacts, Shares, Sizes DEF SmallStart
  <2>7. \A q \in Pages : q >= SmallStart(k) => q \in Overlay
    BY <2>6, <1>1, <1>3 DEF Overlay
  <2> QED
    BY <2>1, <2>4, <2>5, <2>6, <2>7, <1>2, SectorFacts, Shares, Sizes
<1>4. CASE ~dev.top
  <2>1. p < NumSmall * SmallPages
    BY <1>1, <1>4 DEF Overlay
  <2>2. ~(0 < k)
    <3>1. SUFFICES ASSUME 0 < k PROVE FALSE
      OBVIOUS
    <3>2. SectorPages <= k * SectorPages
      <4>1. 1 * SectorPages <= k * SectorPages
        BY <3>1, ProductOrder, Sizes
      <4> QED
        BY <4>1, Sizes
    <3> DEFINE K == k * SectorPages
    <3> DEFINE N == NumSmall * SmallPages
    <3>3. SectorPages <= K /\ p >= K /\ p < N
      BY <3>2, <2>1, <1>2
    <3>4. K \in Int /\ N \in Int /\ N <= SectorPages
      BY Shares, SectorFacts, Sizes
    <3> HIDE DEF K, N
    <3> QED
      BY <3>3, <3>4, <1>2, Sizes
  <2>3. k = 0
    BY <2>2
  <2>4. k % Cycle = 0
    BY <2>3, Sizes
  <2>5. k * SectorPages = 0
    BY <2>3, Sizes
  <2>6. SmallStart(k) = 0
    BY <2>4, <2>5, Sizes DEF SmallStart
  <2>7. \A q \in Pages : q < NumSmall * SmallPages => q \in Overlay
    BY <1>1, <1>4 DEF Overlay
  <2> QED
    BY <2>1, <2>4, <2>6, <2>7, <1>2, SectorFacts, Shares, Sizes
<1> QED
  BY <1>3, <1>4

-----------------------------------------------------------------------------
(* The sector at hand. *)

Here == call.first + sect

\* Where the driver is, in terms of sectors.
LEMMA Place ==
  ASSUME TypeOK, InvFlow, step \in Late
  PROVE  /\ Here \in 0 .. Sectors - 1
         /\ SectorPage = Here * SectorPages
         /\ Alignment(sect) = Here % Cycle
         /\ \A i \in Nat : SmallPage(i) = SmallStart(Here) + i * SmallPages
         /\ SectorOf(Here) \subseteq Wanted(call)
<1>1. ~call.read /\ call.first \in Nat /\ call.len \in Nat /\ sect \in Nat
  BY DEF TypeOK, InvFlow, Late, Operations
<1>2. sect < call.len /\ call.first + call.len <= Sectors
  BY <1>1 DEF InvFlow
<1>3. Here \in 0 .. Sectors - 1
  BY <1>1, <1>2, Sizes DEF Here
<1>4. SectorPage = Here * SectorPages /\ Alignment(sect) = Here % Cycle
  BY DEF SectorPage, Alignment, Here
<1>5. ASSUME NEW i \in Nat
      PROVE  SmallPage(i) = SmallStart(Here) + i * SmallPages
  <2> DEFINE x == i * SmallPages
  <2> DEFINE y == Here * SectorPages
  <2> DEFINE z == NumSmall * SmallPages
  <2>1. x \in Int /\ y \in Int /\ z \in Int
    BY <1>3, Sizes, Shares, SectorFacts
  <2>2. SmallPage(i) = y + x + (IF Here % Cycle = Cycle - 1 THEN SectorPages - z ELSE 0)
    BY <1>4 DEF SmallPage
  <2>3. SmallStart(Here) = y + (IF Here % Cycle = Cycle - 1 THEN SectorPages - z ELSE 0)
    BY DEF SmallStart
  <2> HIDE DEF y, z
  <2> QED
    BY <2>1, <2>2, <2>3, Sizes
<1>6. ASSUME NEW p \in SectorOf(Here)
      PROVE  p \in Wanted(call)
  <2>1. p \div SectorPages = Here
    BY <1>3, Between, Sizes, SectorFacts DEF SectorOf, Pages
  <2>2. Here \in call.first .. call.first + call.len - 1
    BY <1>1, <1>2 DEF Here
  <2> QED
    BY <2>1, <2>2 DEF Wanted, SectorOf
<1> QED
  BY <1>3, <1>4, <1>5, <1>6

\* The sector at hand lies in the array.
LEMMA SectorPageFacts ==
  ASSUME TypeOK, InvFlow, step \in Late
  PROVE  /\ SectorPage \in Nat /\ SectorPage + SectorPages <= Sectors * SectorPages
         /\ Sectors * SectorPages \in Nat
         /\ \A i \in 0 .. SectorPages - 1 : SectorPage + i \in SectorOf(Here)
<1>1. SectorPage = Here * SectorPages /\ Here \in 0 .. Sectors - 1
  BY Place
<1>2. SectorPage \in Nat /\ SectorPage + SectorPages <= Sectors * SectorPages /\ Sectors * SectorPages \in Nat
  BY <1>1, SectorFacts
<1>3. ASSUME NEW i \in 0 .. SectorPages - 1
      PROVE  SectorPage + i \in SectorOf(Here)
  <2>1. SectorPage + i \in Pages
    BY <1>2, Sizes DEF Pages
  <2>2. SectorPage + i >= SectorPage /\ SectorPage + i < SectorPage + SectorPages
    BY <1>2, Sizes
  <2> QED
    BY <2>1, <2>2, <1>1 DEF SectorOf
<1> QED
  BY <1>2, <1>3

\* What is requested, operation by operation.
LEMMA Requests ==
  /\ step = "config" => Requested = Op("config", 0, Erased)
  /\ step = "small" => Requested = Op("small", SmallPage(at), Erased)
  /\ step = "erase" => Requested = Op("erase", SectorPage, Erased)
  /\ step = "program" => Requested = Op("program", SectorPage + at, sect * SectorPages + at + 1)
BY DEF Requested

\* There is a page.
LEMMA ZeroPage == 0 \in Pages
<1>1. Sectors * SectorPages \in Nat /\ Sectors * SectorPages > 0
  BY Sizes
<1> QED
  BY <1>1 DEF Pages

\* What the driver requests is an operation of the flash.
LEMMA RequestedType ==
  ASSUME TypeOK, InvFlow, step \in Late \cup {"config"}
  PROVE  Requested \in Operation
<1>1. CASE step = "config"
  BY <1>1, Requests, ZeroPage DEF Op, Operation, Content
<1>2. CASE step = "small"
  <2>1. at \in 0 .. NumSmall - 1
    BY <1>2, Sizes DEF TypeOK, InvFlow
  <2>2. SmallPage(at) \in Pages
    BY <2>1, <1>2, Place, SmallBlock DEF Late
  <2> QED
    BY <1>2, <2>2, Requests DEF Op, Operation, Content
<1>3. CASE step = "erase"
  <2>1. SectorPage \in Pages
    <3>1. 0 \in 0 .. SectorPages - 1 /\ SectorPage + 0 = SectorPage
      BY <1>3, SectorPageFacts, Sizes DEF Late
    <3> QED
      BY <1>3, <3>1, SectorPageFacts DEF Late, SectorOf
  <2> QED
    BY <1>3, <2>1, Requests DEF Op, Operation, Content
<1>4. CASE step = "program"
  <2>1. at \in 0 .. SectorPages - 1
    BY <1>4, Sizes DEF TypeOK, InvFlow
  <2>2. SectorPage + at \in Pages
    BY <1>4, <2>1, SectorPageFacts DEF Late, SectorOf
  <2>3. sect \in 0 .. Sectors - 1
    <3>1. ~call.read /\ sect < call.len /\ call.first + call.len <= Sectors
      BY <1>4 DEF InvFlow, Late, Operations
    <3>2. call.first \in Nat /\ call.len \in Nat /\ sect \in Nat
      BY DEF TypeOK
    <3> QED
      BY <3>1, <3>2, Sizes
  <2>4. sect * SectorPages \in Nat /\ sect * SectorPages + SectorPages <= Sectors * SectorPages
    BY <2>3, SectorFacts
  <2>5. sect * SectorPages + at + 1 \in 1 .. Sectors * SectorPages
    BY <2>1, <2>3, <2>4, Sizes, SectorFacts
  <2> QED
    BY <1>4, <2>2, <2>5, Requests DEF Op, Operation, Content
<1> QED
  BY <1>1, <1>2, <1>3, <1>4 DEF Late

\* An operation on the sector at hand changes no page outside it.
LEMMA AffectedHere ==
  ASSUME TypeOK, InvFlow, step \in Late
  PROVE  Affected(Requested) \subseteq SectorOf(Here)
<1>1. CASE step = "small"
  <2>1. at \in 0 .. NumSmall - 1
    BY <1>1, Sizes DEF TypeOK, InvFlow
  <2>2. SmallPage(at) = SmallStart(Here) + at * SmallPages
    BY <2>1, Place, Sizes
  <2>3. Block(SmallPage(at), SmallPages) = {p \in Pages : SmallPage(at) <= p /\ p < SmallPage(at) + SmallPages}
    BY <2>1, <2>2, Place, SmallBlock
  <2>4. /\ SmallStart(Here) <= SmallPage(at)
        /\ SmallPage(at) + SmallPages <= SmallStart(Here) + NumSmall * SmallPages
        /\ SmallPage(at) \in Pages
    BY <2>1, <2>2, Place, SmallBlock
  <2>5. Block(SmallPage(at), SmallPages) \subseteq SectorOf(Here)
    BY <2>3, <2>4, Place, SectorFacts, Shares, Sizes DEF SectorOf, Pages
  <2> QED
    BY <1>1, <2>5, Requests DEF Affected, Op
<1>2. CASE step = "erase"
  BY <1>2, Requests, Place, SectorBlock DEF Affected, Op
<1>3. CASE step = "program"
  <2>1. at \in 0 .. SectorPages - 1
    BY <1>3, Sizes DEF TypeOK, InvFlow
  <2>2. SectorPage + at \in SectorOf(Here)
    BY <2>1, <1>3, SectorPageFacts
  <2> QED
    BY <1>3, <2>2, Requests DEF Affected, Op
<1> QED
  BY <1>1, <1>2, <1>3 DEF Late

\* The buffer of a call that is no read.
LEMMA EmptyBuffer == <<>> \in [0 .. 0 - 1 -> Content]
OBVIOUS

-----------------------------------------------------------------------------
(* The steps of the driver. *)

Caller == <<pc, scratch, calls, status, written>>

\* What a poll that ends the loop can do: it fails, the call is over, the flash of
\* sector n begins, or the sector at hand goes on with operation s at i.
PollFails == dev.err /\ Return("error")

PollOver ==
  /\ ~dev.err /\ Return("ok")
  /\ \/ step = "config" /\ ~MoreSectors(0)
     \/ step = "program" /\ at + 1 = SectorPages /\ ~MoreSectors(sect + 1)

PollEnters(n) ==
  /\ ~dev.err /\ MoreSectors(n)
  /\ \/ step = "config" /\ n = 0
     \/ step = "program" /\ at + 1 = SectorPages /\ n = sect + 1
  /\ Continue(IF Alignment(n) \in {0, Cycle - 1} THEN "small" ELSE "erase", 0, n)

PollAdvances(s, i) ==
  /\ ~dev.err /\ Continue(s, i, sect)
  /\ \/ step = "small" /\ at + 1 < NumSmall /\ s = "small" /\ i = at + 1
     \/ step = "small" /\ at + 1 = NumSmall /\ s = "erase" /\ i = 0
     \/ step = "erase" /\ s = "program" /\ i = 0
     \/ step = "program" /\ at + 1 < SectorPages /\ s = "program" /\ i = at + 1

\* These are all the ways a poll can end the loop.
LEMMA PollCases ==
  ASSUME PollWip
  PROVE  \/ PollFails
         \/ PollOver
         \/ \E n \in {0, sect + 1} : PollEnters(n)
         \/ \E s \in Late, i \in {0, at + 1} : PollAdvances(s, i)
<1>1. CASE dev.err
  BY <1>1 DEF PollWip, PollFails
<1>2. CASE ~dev.err /\ step = "config" /\ StartSector(0)
  BY <1>2 DEF PollOver, PollEnters, StartSector
<1>3. CASE ~dev.err /\ step = "program" /\ at + 1 = SectorPages /\ StartSector(sect + 1)
  BY <1>3 DEF PollOver, PollEnters, StartSector
<1>4. CASE ~dev.err /\ step = "small" /\ at + 1 < NumSmall /\ Continue("small", at + 1, sect)
  BY <1>4 DEF PollAdvances, Late
<1>5. CASE ~dev.err /\ step = "small" /\ at + 1 = NumSmall /\ Continue("erase", 0, sect)
  BY <1>5 DEF PollAdvances, Late
<1>6. CASE ~dev.err /\ step = "erase" /\ Continue("program", 0, sect)
  BY <1>6 DEF PollAdvances, Late
<1>7. CASE ~dev.err /\ step = "program" /\ at + 1 < SectorPages /\ Continue("program", at + 1, sect)
  BY <1>7 DEF PollAdvances, Late
<1> QED
  BY <1>1, <1>2, <1>3, <1>4, <1>5, <1>6, <1>7 DEF PollWip, AfterOperation

\* The steps of the tool, of the driver and of the flash.
LEMMA NextCases ==
  ASSUME Next
  PROVE  \/ Invoke \/ BootRead \/ FlashSdCard \/ FlashEeprom \/ NoDisk \/ FlashNor
         \/ FlashNorReturns \/ BootReadReturns
         \/ UNCHANGED Caller /\ (Setup \/ ReadChunk \/ SetWen \/ Enter4bMode \/ Command \/ PollWip
                                 \/ GiveUp \/ FlashEnds)
BY DEF Next, Nor, NorStep, Driver, Caller

-----------------------------------------------------------------------------
(* Types. *)

\* The types hold at first.
LEMMA TypeInit == Init => TypeOK
<1> SUFFICES ASSUME Init PROVE TypeOK
  OBVIOUS
<1>1. at \in 0 .. SectorPages + ReadPages + Sectors * SectorPages /\ sect \in 0 .. Sectors
  <2>1. Sectors * SectorPages \in Nat
    BY Sizes
  <2> QED
    BY <2>1, Sizes DEF Init, NorInit
<1>2. call \in [read : BOOLEAN, first : Nat, len : Nat] /\ call.read /\ call.len = 0
  BY DEF Init, NorInit
<1>3. buf \in [0 .. (IF call.read THEN call.len ELSE 0) - 1 -> Content]
  BY <1>2, EmptyBuffer DEF Init, NorInit
<1>4. mem \in [Pages -> Content]
  BY DEF Init, NorInit, Content
<1>5. calls \in 0 .. MaxCalls /\ scratch \in [target : 0 .. 4, first : 0 .. Sectors, len : 0 .. Sectors]
  BY CallsAssumption, Sizes DEF Init
<1>6. dev \in [wel : BOOLEAN, op : Operation \cup {None}, err : BOOLEAN, mode4b : BOOLEAN,
               long : BOOLEAN, top : BOOLEAN, uniform : BOOLEAN]
  BY DEF Init, NorInit
<1> QED
  BY <1>1, <1>2, <1>3, <1>4, <1>5, <1>6 DEF Init, NorInit, TypeOK, Operations

\* Every step keeps the types.
LEMMA TypeStep == TypeOK /\ InvFlow /\ [Next]_vars => TypeOK'
<1> SUFFICES ASSUME TypeOK, InvFlow, [Next]_vars PROVE TypeOK'
  OBVIOUS
<1>0. Sectors * SectorPages \in Nat
  BY Sizes
<1>1. CASE Invoke
  <2>1. PICK t \in 0 .. 4, s \in Segments : scratch' = [target |-> t, first |-> s.first, len |-> s.len]
    BY <1>1 DEF Invoke
  <2>2. s.first \in 0 .. Sectors /\ s.len \in 0 .. Sectors
    BY CallsAssumption, Sizes
  <2>3. calls' \in 0 .. MaxCalls
    BY <1>1, CallsAssumption DEF Invoke, TypeOK
  <2> QED
    BY <1>1, <2>1, <2>2, <2>3 DEF Invoke, TypeOK, norVars, driverVars
<1>2. CASE FlashSdCard \/ FlashEeprom \/ NoDisk \/ FlashNorReturns \/ BootReadReturns
  BY <1>2 DEF FlashSdCard, FlashEeprom, NoDisk, FlashNorReturns, BootReadReturns, Exit, TypeOK, norVars, driverVars
<1>3. CASE FlashNor
  <2>1. call' = [read |-> FALSE, first |-> scratch.first, len |-> scratch.len] /\ buf' = <<>>
    BY <1>3 DEF FlashNor, NorCall
  <2>2. call' \in [read : BOOLEAN, first : Nat, len : Nat] /\ ~call'.read
    BY <2>1, Sizes DEF TypeOK
  <2>3. buf' \in [0 .. (IF call'.read THEN call'.len ELSE 0) - 1 -> Content]
    BY <2>1, <2>2, EmptyBuffer
  <2>4. at' \in 0 .. SectorPages + ReadPages + Sectors * SectorPages /\ sect' \in 0 .. Sectors
    BY <1>3, <1>0, Sizes DEF FlashNor, NorCall
  <2> QED
    BY <1>3, <2>2, <2>3, <2>4 DEF FlashNor, NorCall, TypeOK
<1>4. CASE BootRead
  <2>1. PICK r \in Reads : NorCall([read |-> TRUE, first |-> r.first, len |-> r.len])
    BY <1>4 DEF BootRead
  <2>2. call' = [read |-> TRUE, first |-> r.first, len |-> r.len]
    BY <2>1 DEF NorCall
  <2>3. call' \in [read : BOOLEAN, first : Nat, len : Nat] /\ call'.read /\ call'.len = r.len
    BY <2>2, CallsAssumption
  <2>4. buf' = [i \in 0 .. call'.len - 1 |-> Old]
    BY <2>1, <2>3 DEF NorCall
  <2>5. buf' \in [0 .. (IF call'.read THEN call'.len ELSE 0) - 1 -> Content]
    BY <2>3, <2>4 DEF Content
  <2>6. at' \in 0 .. SectorPages + ReadPages + Sectors * SectorPages /\ sect' \in 0 .. Sectors
    BY <2>1, <1>0, Sizes DEF NorCall
  <2>7. calls' \in 0 .. MaxCalls
    BY <1>4, CallsAssumption DEF BootRead, TypeOK
  <2> QED
    BY <1>4, <2>1, <2>3, <2>5, <2>6, <2>7 DEF BootRead, NorCall, TypeOK
<1>5. CASE UNCHANGED Caller /\ Setup
  <2>1. CASE Legal
    BY <1>5, <2>1 DEF Caller, Setup, TypeOK, Operations
  <2>2. CASE ~Legal
    <3>1. Return("error") /\ UNCHANGED <<dev, mem>>
      BY <1>5, <2>2 DEF Setup
    <3> QED
      BY <1>5, <3>1 DEF Caller, Return, TypeOK, Operations
  <2> QED
    BY <2>1, <2>2
<1>6. CASE UNCHANGED Caller /\ ReadChunk
  <2>1. CASE at >= call.len /\ Return("ok") /\ UNCHANGED <<dev, mem>>
    BY <1>6, <2>1 DEF Caller, Return, TypeOK, Operations
  <2>2. CASE ~(at >= call.len /\ Return("ok"))
    <3>1. at < call.len /\ call.read /\ at' = at + ReadPages
      BY <1>6, <2>2 DEF ReadChunk, InvFlow
    <3>7. at \in Nat /\ call.first \in Nat /\ call.len \in Nat
      BY <1>0, Sizes DEF TypeOK
    <3>8. call.first + call.len <= Sectors * SectorPages
      BY <3>1 DEF InvFlow
    <3>2. at' \in 0 .. SectorPages + ReadPages + Sectors * SectorPages
      BY <3>1, <3>7, <3>8, <1>0, Sizes
    <3>3. DOMAIN buf = 0 .. call.len - 1
      BY <3>1 DEF TypeOK
    <3>4. /\ UNCHANGED <<step, part, call, sect, ret, spi, blank, trouble, dev, mem>>
          /\ buf' = [i \in DOMAIN buf |->
                     LET k == i - BufferOffset IN
                     IF k \notin 0 .. Lesser(ReadPages, call.len - at) - 1 THEN buf[i]
                     ELSE IF dev.op = None THEN mem[call.first + at + k] ELSE Mixed]
      BY <1>6, <2>2 DEF ReadChunk
    <3>5. ASSUME NEW i \in 0 .. call.len - 1
          PROVE  LET k == i - BufferOffset IN
                 (IF k \notin 0 .. Lesser(ReadPages, call.len - at) - 1 THEN buf[i]
                     ELSE IF dev.op = None THEN mem[call.first + at + k] ELSE Mixed) \in Content
      <4> DEFINE k == i - at
      <4>1. buf[i] \in Content /\ Mixed \in Content
        BY <3>1 DEF TypeOK, Content
      <4>2. ASSUME k \in 0 .. Lesser(ReadPages, call.len - at) - 1
            PROVE  mem[call.first + at + k] \in Content
        <5>1. call.first + at + k \in Pages
          BY <4>2, <3>1, <3>7, <3>8, <1>0, Sizes DEF Lesser, Pages
        <5> QED
          BY <5>1 DEF TypeOK
      <4> QED
        BY <4>1, <4>2 DEF BufferOffset
    <3>6. buf' \in [0 .. call.len - 1 -> Content]
      BY <3>3, <3>4, <3>5
    <3> QED
      BY <1>6, <3>1, <3>2, <3>4, <3>6 DEF Caller, TypeOK
  <2> QED
    BY <1>6, <2>1, <2>2 DEF ReadChunk
<1>7. CASE UNCHANGED Caller /\ (SetWen \/ Enter4bMode)
  <2>1. PICK b \in BOOLEAN : dev' = [dev EXCEPT !.wel = b] \/ dev' = [dev EXCEPT !.mode4b = b]
    <3>1. CASE SetWen
      <4>1. dev' = [dev EXCEPT !.wel = dev.wel \/ dev.op = None]
        BY <3>1 DEF SetWen
      <4> QED
        BY <4>1
    <3>2. CASE Enter4bMode
      <4>1. dev' = [dev EXCEPT !.mode4b = dev.mode4b \/ dev.op = None]
        BY <3>2 DEF Enter4bMode
      <4> QED
        BY <4>1
    <3> QED
      BY <1>7, <3>1, <3>2
  <2>2. dev' \in [wel : BOOLEAN, op : Operation \cup {None}, err : BOOLEAN, mode4b : BOOLEAN,
                  long : BOOLEAN, top : BOOLEAN, uniform : BOOLEAN]
    BY <2>1 DEF TypeOK
  <2> QED
    BY <1>7, <2>2 DEF Caller, SetWen, Enter4bMode, TypeOK, Operations
<1>8. CASE UNCHANGED Caller /\ Command
  <2>1. Requested \in Operation
    BY <1>8, RequestedType DEF Command, Late, Operations
  <2> QED
    BY <1>8, <2>1 DEF Caller, Command, TypeOK
<1>9. CASE UNCHANGED Caller /\ PollWip
  <2>1. CASE PollFails \/ PollOver
    BY <1>9, <2>1 DEF Caller, PollWip, PollFails, PollOver, Return, TypeOK, Operations
  <2>2. ASSUME NEW n \in {0, sect + 1}, PollEnters(n)
        PROVE  TypeOK'
    <3>1. n \in 0 .. Sectors
      <4>1. ~call.read /\ call.first + call.len <= Sectors
        BY <1>9 DEF PollWip, InvFlow
      <4>2. n < call.len /\ sect \in Nat /\ call.first \in Nat /\ call.len \in Nat
        BY <2>2 DEF PollEnters, MoreSectors, TypeOK
      <4> QED
        BY <4>1, <4>2, Sizes
    <3>2. at' \in 0 .. SectorPages + ReadPages + Sectors * SectorPages /\ sect' \in 0 .. Sectors
      BY <2>2, <3>1, <1>0, Sizes DEF PollEnters, Continue
    <3> QED
      BY <1>9, <2>2, <3>2 DEF Caller, PollWip, PollEnters, Continue, Begins, TypeOK, Operations
  <2>3. ASSUME NEW s \in Late, NEW i \in {0, at + 1}, PollAdvances(s, i)
        PROVE  TypeOK'
    <3>1. i \in Nat /\ i <= SectorPages
      BY <2>3, Shares, Sizes DEF PollAdvances, TypeOK
    <3>2. at' \in 0 .. SectorPages + ReadPages + Sectors * SectorPages /\ sect' \in 0 .. Sectors
      BY <2>3, <3>1, <1>0, Sizes DEF PollAdvances, Continue, TypeOK
    <3> QED
      BY <1>9, <2>3, <3>2 DEF Caller, PollWip, PollAdvances, Continue, Begins, TypeOK, Operations, Late
  <2> QED
    BY <1>9, <2>1, <2>2, <2>3, PollCases
<1>10. CASE UNCHANGED Caller /\ GiveUp
  BY <1>10 DEF Caller, GiveUp, Return, TypeOK, Operations
<1>11. CASE UNCHANGED Caller /\ FlashEnds
  <2>1. PICK err, long, uniform \in BOOLEAN :
          /\ dev' = [dev EXCEPT !.op = None, !.wel = FALSE, !.err = @ \/ err,
                                !.long = long, !.uniform = uniform]
          /\ mem' = [p \in Pages |-> IF p \notin Affected(dev.op) THEN mem[p]
                                  ELSE IF err THEN Mixed ELSE After(dev.op, p)]
    BY <1>11 DEF FlashEnds
  <2>2. dev.op \in Operation
    BY <1>11 DEF FlashEnds, TypeOK
  <2>3. mem' \in [Pages -> Content]
    BY <2>1, <2>2 DEF TypeOK, Operation, After, Content
  <2>4. dev' \in [wel : BOOLEAN, op : Operation \cup {None}, err : BOOLEAN, mode4b : BOOLEAN,
                  long : BOOLEAN, top : BOOLEAN, uniform : BOOLEAN]
    BY <2>1 DEF TypeOK
  <2> QED
    BY <1>11, <2>3, <2>4 DEF Caller, FlashEnds, driverVars, TypeOK
<1>12. CASE UNCHANGED vars
  BY <1>12 DEF vars, norVars, driverVars, TypeOK
<1> QED
  BY <1>1, <1>2, <1>3, <1>4, <1>5, <1>6, <1>7, <1>8, <1>9, <1>10, <1>11, <1>12, NextCases

-----------------------------------------------------------------------------
(* Whose call is under way. *)

\* No call is under way at first.
LEMMA FlowInit == Init => InvFlow
<1> SUFFICES ASSUME Init PROVE InvFlow
  OBVIOUS
<1>1. Sectors * SectorPages \in Nat
  BY Sizes
<1> QED
  BY <1>1 DEF Init, NorInit, InvFlow, Late, Operations

\* Every step keeps calls and counters in order.
LEMMA FlowStep == TypeOK /\ InvFlow /\ [Next]_vars => InvFlow'
<1> SUFFICES ASSUME TypeOK, InvFlow, [Next]_vars PROVE InvFlow'
  OBVIOUS
<1> USE DEF Late, Operations
<1>1. CASE Invoke
  <2>1. PICK t \in 0 .. 4, s \in Segments : scratch' = [target |-> t, first |-> s.first, len |-> s.len]
    BY <1>1 DEF Invoke
  <2>2. scratch'.len > 0 /\ scratch'.first + scratch'.len <= Sectors
    BY <2>1, CallsAssumption, Sizes
  <2>3. step = "idle"
    BY <1>1 DEF Invoke, InvFlow
  <2> QED
    BY <1>1, <2>2, <2>3 DEF Invoke, InvFlow, norVars, driverVars
<1>2. CASE FlashSdCard \/ FlashEeprom
  <2>1. step = "idle" /\ UNCHANGED norVars
    BY <1>2 DEF FlashSdCard, FlashEeprom, InvFlow
  <2> QED
    BY <1>2, <2>1 DEF FlashSdCard, FlashEeprom, Exit, InvFlow, norVars, driverVars, Handed, Done
<1>3. CASE NoDisk
  <2>1. step = "idle" /\ UNCHANGED norVars
    BY <1>3 DEF NoDisk, InvFlow
  <2> QED
    BY <1>3, <2>1 DEF NoDisk, Exit, InvFlow, norVars, driverVars
<1>4. CASE FlashNorReturns
  <2>1. step = "idle" /\ UNCHANGED norVars /\ scratch.target = 2 /\ ~call.read
    BY <1>4 DEF FlashNorReturns, InvFlow
  <2> QED
    BY <1>4, <2>1 DEF FlashNorReturns, Exit, InvFlow, norVars, driverVars, Done
<1>5. CASE BootReadReturns
  BY <1>5 DEF BootReadReturns, InvFlow, norVars, driverVars
<1>6. CASE FlashNor
  <2>1. call' = [read |-> FALSE, first |-> scratch.first, len |-> scratch.len] /\ step' = "init" /\ at' = 0
    BY <1>6 DEF FlashNor, NorCall
  <2> QED
    BY <1>6, <2>1 DEF FlashNor, InvFlow
<1>7. CASE BootRead
  <2>1. PICK r \in Reads : NorCall([read |-> TRUE, first |-> r.first, len |-> r.len])
    BY <1>7 DEF BootRead
  <2>2. call' = [read |-> TRUE, first |-> r.first, len |-> r.len] /\ step' = "init" /\ at' = 0
    BY <2>1 DEF NorCall
  <2>3. call'.first + call'.len <= Sectors * SectorPages
    BY <2>2, CallsAssumption
  <2> QED
    BY <1>7, <2>2, <2>3 DEF BootRead, InvFlow
<1>8. CASE UNCHANGED Caller /\ Setup
  <2>1. CASE Legal
    BY <1>8, <2>1 DEF Caller, Setup, InvFlow, Done
  <2>2. CASE ~Legal
    <3>1. Return("error") /\ UNCHANGED <<dev, mem>>
      BY <1>8, <2>2 DEF Setup
    <3> QED
      BY <1>8, <3>1 DEF Caller, Setup, Return, InvFlow, Done
  <2> QED
    BY <2>1, <2>2
<1>9. CASE UNCHANGED Caller /\ ReadChunk
  BY <1>9 DEF Caller, ReadChunk, Return, InvFlow, Done
<1>10. CASE UNCHANGED Caller /\ (SetWen \/ Enter4bMode \/ Command)
  BY <1>10 DEF Caller, SetWen, Enter4bMode, Command, InvFlow, Done, Alignment
<1>11. CASE UNCHANGED Caller /\ PollWip
  <2>1. CASE PollFails \/ PollOver
    BY <1>11, <2>1 DEF Caller, PollWip, PollFails, PollOver, Return, InvFlow, Done
  <2>2. ASSUME NEW n \in {0, sect + 1}, PollEnters(n)
        PROVE  InvFlow'
    <3>1. step' = (IF Alignment(n) \in {0, Cycle - 1} THEN "small" ELSE "erase") /\ at' = 0 /\ sect' = n
          /\ UNCHANGED <<call, ret>> /\ n < call.len
      BY <2>2 DEF PollEnters, Continue, MoreSectors
    <3>2. step' = "small" => Alignment(sect)' \in {0, Cycle - 1}
      BY <3>1 DEF Alignment
    <3> QED
      BY <1>11, <3>1, <3>2, Sizes DEF Caller, PollWip, InvFlow, Done
  <2>3. ASSUME NEW s \in Late, NEW i \in {0, at + 1}, PollAdvances(s, i)
        PROVE  InvFlow'
    <3>1. step' = s /\ at' = i /\ UNCHANGED <<sect, call, ret>> /\ step \in Late
      BY <2>3 DEF PollAdvances, Continue
    <3>2. step' = "small" => Alignment(sect)' \in {0, Cycle - 1} /\ at' < NumSmall
      BY <2>3, <3>1 DEF PollAdvances, Alignment, InvFlow
    <3>3. step' = "program" => at' < SectorPages
      BY <2>3, <3>1, Sizes DEF PollAdvances
    <3> QED
      BY <1>11, <3>1, <3>2, <3>3 DEF Caller, PollWip, InvFlow, Done
  <2> QED
    BY <1>11, <2>1, <2>2, <2>3, PollCases
<1>12. CASE UNCHANGED Caller /\ GiveUp
  BY <1>12 DEF Caller, GiveUp, Return, InvFlow, Done
<1>13. CASE UNCHANGED Caller /\ FlashEnds
  <2>1. UNCHANGED Caller /\ UNCHANGED driverVars
    BY <1>13 DEF FlashEnds
  <2>2. Alignment(sect)' = Alignment(sect)
    BY <2>1 DEF driverVars, Alignment
  <2>3. (pc = "exit" /\ status = "ok" =>
           CASE scratch.target = 1 -> written = Handed
             [] scratch.target \in {2, 3} -> TRUE
             [] OTHER -> FALSE)'
    BY <2>1 DEF Caller, InvFlow, Handed
  <2> QED
    BY <2>1, <2>2, <2>3 DEF Caller, driverVars, InvFlow, Done
<1>14. CASE UNCHANGED vars
  BY <1>14 DEF vars, norVars, driverVars, InvFlow, Done, Alignment, Handed
<1> QED
  BY <1>1, <1>2, <1>3, <1>4, <1>5, <1>6, <1>7, <1>8, <1>9, <1>10, <1>11, <1>12, <1>13, <1>14, NextCases

-----------------------------------------------------------------------------
(* The flash, as far as it is ours. *)

\* The flash is idle at first.
LEMMA OursInit == Init => InvOurs
BY DEF Init, NorInit, InvOurs, Operations

\* While neither driver nor flash take a step, all that concerns them stays.
LEMMA NorFrame ==
  ASSUME UNCHANGED norVars
  PROVE  /\ InvOurs => InvOurs'
         /\ InvBlank => InvBlank'
         /\ InvRead => InvRead'
         /\ InvMem => InvMem'
         /\ InvWritten => InvWritten'
<1>1. UNCHANGED <<step, part, call, at, sect, ret, buf, spi, blank, trouble, dev, mem>>
  BY DEF norVars, driverVars
<1>2. UNCHANGED <<Requested, Overlay, SectorPage, SmallPage(at), Landed>>
  BY <1>1 DEF Requested, Op, Overlay, SectorPage, SmallPage, Alignment, Landed
<1>3. InvOurs => InvOurs'
  BY <1>1, <1>2 DEF InvOurs, Ours, Done
<1>4. InvBlank => InvBlank'
  BY <1>1 DEF InvBlank
<1>5. InvRead => InvRead'
  BY <1>1 DEF InvRead, Done
<1>6. InvMem => InvMem'
  BY <1>1, <1>2 DEF InvMem, Front, Swept, Target
<1>7. InvWritten => InvWritten'
  BY <1>1 DEF InvWritten, Done, Written
<1> QED
  BY <1>3, <1>4, <1>5, <1>6, <1>7

\* The flash stays ours: a command is only sent after an enable that was not ignored,
\* and the next operation only begins when the one before has ended well.
LEMMA OursStep == TypeOK /\ InvFlow /\ InvOurs /\ [Next]_vars => InvOurs'
<1> SUFFICES ASSUME TypeOK, InvFlow, InvOurs, [Next]_vars, Ours' PROVE InvOurs'
  BY DEF InvOurs
<1> USE DEF Late, Operations
<1>1. CASE Invoke \/ FlashSdCard \/ FlashEeprom \/ NoDisk \/ FlashNorReturns \/ BootReadReturns
           \/ UNCHANGED vars
  <2>1. UNCHANGED norVars
    BY <1>1 DEF Invoke, FlashSdCard, FlashEeprom, NoDisk, FlashNorReturns, BootReadReturns, vars
  <2> QED
    BY <2>1, NorFrame
<1>2. CASE FlashNor \/ BootRead
  <2>1. PICK c \in {call'} : NorCall(c)
    BY <1>2 DEF FlashNor, BootRead, NorCall
  <2>2. ~trouble /\ step = "idle" /\ step' = "init" /\ UNCHANGED <<part, trouble, dev>>
    BY <2>1 DEF NorCall, Ours, Done
  <2> QED
    BY <2>2 DEF InvOurs, Ours
<1>3. CASE UNCHANGED Caller /\ Setup
  <2>1. CASE Legal
    BY <1>3, <2>1 DEF Setup, InvOurs, Ours, Done
  <2>2. CASE ~Legal
    BY <1>3, <2>2 DEF Setup, Return, InvOurs, Ours, Done
  <2> QED
    BY <2>1, <2>2
<1>4. CASE UNCHANGED Caller /\ ReadChunk
  <2>1. CASE at >= call.len /\ Return("ok") /\ UNCHANGED <<dev, mem>>
    BY <1>4, <2>1 DEF ReadChunk, Return, InvOurs, Ours, Done, InvFlow
  <2>2. CASE ~(at >= call.len /\ Return("ok"))
    <3>1. UNCHANGED <<step, part, call, sect, ret, spi, blank, trouble, dev, mem>>
      BY <1>4, <2>2 DEF ReadChunk
    <3> QED
      BY <1>4, <3>1 DEF ReadChunk, InvOurs, Ours, Done
  <2> QED
    BY <1>4, <2>1, <2>2 DEF ReadChunk
<1>5. CASE UNCHANGED Caller /\ SetWen
  BY <1>5 DEF SetWen, InvOurs, Ours, Done, TypeOK
<1>6. CASE UNCHANGED Caller /\ Enter4bMode
  BY <1>6 DEF Enter4bMode, InvOurs, Ours, Done, TypeOK
<1>7. CASE UNCHANGED Caller /\ Command
  <2>1. Ours /\ dev.op = None /\ ~dev.err /\ dev.wel
    BY <1>7 DEF Command, InvOurs, Ours, Done
  <2>2. Accepts /\ dev' = [dev EXCEPT !.op = Requested]
    BY <1>7, <2>1 DEF Command, Accepts
  <2>3. dev'.op = Requested /\ dev'.err = dev.err /\ dev'.mode4b = dev.mode4b
    BY <2>2 DEF TypeOK
  <2>4. Requested' = Requested
    BY <1>7 DEF Command, Requested, Op, SectorPage, SmallPage, Alignment
  <2> QED
    BY <1>7, <2>1, <2>3, <2>4 DEF Command, InvOurs, Ours, Done
<1>8. CASE UNCHANGED Caller /\ PollWip
  <2>1. CASE PollFails
    BY <1>8, <2>1 DEF PollFails, PollWip, Return, Ours, Done
  <2>2. CASE PollOver
    BY <1>8, <2>2 DEF PollOver, PollWip, PollEnds, Return, InvOurs, Ours, Done
  <2>3. CASE \E n \in {0, sect + 1} : PollEnters(n)
    <3>1. /\ ~dev.err /\ dev.op = None /\ part' = "enable" /\ step' \in Late
          /\ UNCHANGED <<trouble, dev>> /\ step \in Operations \ {"mode"}
      BY <1>8, <2>3 DEF PollEnters, PollWip, PollEnds, Continue, Begins
    <3> QED
      BY <3>1 DEF InvOurs, Ours, Done
  <2>4. CASE \E s \in Late, i \in {0, at + 1} : PollAdvances(s, i)
    <3>1. /\ ~dev.err /\ dev.op = None /\ part' = "enable" /\ step' \in Late
          /\ UNCHANGED <<trouble, dev>> /\ step \in Operations \ {"mode"}
      BY <1>8, <2>4 DEF PollAdvances, PollWip, PollEnds, Continue, Begins
    <3> QED
      BY <3>1 DEF InvOurs, Ours, Done
  <2> QED
    BY <1>8, <2>1, <2>2, <2>3, <2>4, PollCases
<1>9. CASE UNCHANGED Caller /\ GiveUp
  BY <1>9 DEF GiveUp, Return, Ours, Done
<1>10. CASE UNCHANGED Caller /\ FlashEnds
  <2>1. UNCHANGED driverVars /\ dev'.op = None /\ dev'.mode4b = dev.mode4b
    BY <1>10 DEF FlashEnds, TypeOK
  <2>2. UNCHANGED <<step, part, trouble, ret, call>>
    BY <2>1 DEF driverVars
  <2>3. Ours /\ dev.op # None
    BY <1>10, <2>2 DEF FlashEnds, Ours, Done
  <2>4. step \in Operations \ {"mode"} /\ part = "poll"
    BY <2>3 DEF InvOurs
  <2> QED
    BY <2>1, <2>2, <2>3, <2>4 DEF InvOurs, Ours, Done
<1> QED
  BY <1>1, <1>2, <1>3, <1>4, <1>5, <1>6, <1>7, <1>8, <1>9, <1>10, NextCases

-----------------------------------------------------------------------------
(* A blank flash stays blank until the first sector. *)

\* The first call has not been made.
LEMMA BlankInit == Init => InvBlank
BY DEF Init, NorInit, InvBlank

\* Nothing is erased or programmed before the first sector.
LEMMA BlankStep == TypeOK /\ InvFlow /\ InvBlank /\ [Next]_vars => InvBlank'
<1> SUFFICES ASSUME TypeOK, InvFlow, InvBlank, [Next]_vars,
                    ~call'.read, blank', step' \in {"init", "mode", "config"}
             PROVE  InvBlank'
  BY DEF InvBlank
<1>1. CASE Invoke \/ FlashSdCard \/ FlashEeprom \/ NoDisk \/ FlashNorReturns \/ BootReadReturns
           \/ UNCHANGED vars
  <2>1. UNCHANGED norVars
    BY <1>1 DEF Invoke, FlashSdCard, FlashEeprom, NoDisk, FlashNorReturns, BootReadReturns, vars
  <2> QED
    BY <2>1, NorFrame
<1>2. CASE FlashNor \/ BootRead
  <2>1. PICK c \in {call'} : NorCall(c)
    BY <1>2 DEF FlashNor, BootRead, NorCall
  <2>2. dev.op = None /\ \A p \in Wanted(call') : mem[p] = Erased
    BY <2>1 DEF NorCall
  <2>3. UNCHANGED <<dev, mem>>
    BY <2>1 DEF NorCall
  <2> QED
    BY <2>2, <2>3 DEF InvBlank
<1>3. CASE UNCHANGED Caller /\ (Setup \/ SetWen \/ Enter4bMode)
  <2>1. UNCHANGED <<call, blank, mem>> /\ dev'.op = dev.op /\ part' # "poll"
    BY <1>3 DEF Setup, Return, SetWen, Enter4bMode, TypeOK
  <2>2. step \in {"init", "mode", "config"} /\ ~(step = "config" /\ part = "poll")
    BY <1>3 DEF Setup, Return, SetWen, Enter4bMode
  <2> QED
    BY <2>1, <2>2 DEF InvBlank
<1>4. CASE UNCHANGED Caller /\ (ReadChunk \/ PollWip \/ GiveUp)
  BY <1>4, PollCases DEF ReadChunk, GiveUp, Return, PollFails, PollOver, PollEnters, PollAdvances, Continue,
                          InvFlow, Late
<1>5. CASE UNCHANGED Caller /\ Command
  <2>1. step = "config" /\ step' = "config" /\ part' = "poll" /\ UNCHANGED <<call, blank, mem>> /\ part # "poll"
    BY <1>5 DEF Command, Operations
  <2>2. dev' = [dev EXCEPT !.op = Requested] \/ dev' = dev
    BY <1>5 DEF Command
  <2>3. Requested.kind = "config"
    BY <2>1, Requests DEF Op
  <2>4. dev.op = None
    BY <2>1 DEF InvBlank
  <2> QED
    BY <2>1, <2>2, <2>3, <2>4 DEF InvBlank, TypeOK
<1>6. CASE UNCHANGED Caller /\ FlashEnds
  <2>1. dev'.op = None /\ UNCHANGED <<step, part, call, blank>>
    BY <1>6 DEF FlashEnds, driverVars, TypeOK
  <2>2. dev.op.kind = "config"
    BY <1>6, <2>1 DEF FlashEnds, InvBlank
  <2>3. Affected(dev.op) = {}
    BY <2>2 DEF Affected
  <2>4. mem' = [p \in Pages |-> mem[p]]
    BY <1>6, <2>3 DEF FlashEnds
  <2>5. \A p \in Wanted(call) : mem'[p] = mem[p]
    BY <2>4 DEF Wanted
  <2> QED
    BY <2>1, <2>5 DEF InvBlank
<1> QED
  BY <1>1, <1>2, <1>3, <1>4, <1>5, <1>6, NextCases

-----------------------------------------------------------------------------
(* Reads. *)

\* Nothing has been read.
LEMMA ReadInit == Init => InvRead
BY DEF Init, NorInit, InvRead, Done

\* Every chunk goes where the one before ended.
LEMMA ReadStep == TypeOK /\ InvFlow /\ InvOurs /\ InvRead /\ [Next]_vars => InvRead'
<1> SUFFICES ASSUME TypeOK, InvFlow, InvOurs, InvRead, [Next]_vars,
                    call'.read, ~trouble', step' = "read" \/ Done'
             PROVE  InvRead'
  BY DEF InvRead
<1>1. CASE Invoke \/ FlashSdCard \/ FlashEeprom \/ NoDisk \/ FlashNorReturns \/ BootReadReturns
           \/ UNCHANGED vars
  <2>1. UNCHANGED norVars
    BY <1>1 DEF Invoke, FlashSdCard, FlashEeprom, NoDisk, FlashNorReturns, BootReadReturns, vars
  <2> QED
    BY <2>1, NorFrame
<1>2. CASE FlashNor \/ BootRead \/ (UNCHANGED Caller /\ (SetWen \/ Enter4bMode \/ Command \/ GiveUp))
  BY <1>2 DEF FlashNor, BootRead, NorCall, SetWen, Enter4bMode, Command, GiveUp, Return, Done, Operations
<1>3. CASE UNCHANGED Caller /\ PollWip
  <2>1. ~call.read /\ UNCHANGED call
    BY <1>3, PollCases DEF PollWip, PollFails, PollOver, PollEnters, PollAdvances, Continue, Return, InvFlow
  <2> QED
    BY <2>1
<1>4. CASE UNCHANGED Caller /\ Setup
  <2>1. step' = "read" /\ at' = 0 /\ ~Done'
    BY <1>4 DEF Setup, Return, Done, InvFlow
  <2> QED
    BY <2>1 DEF InvRead
<1>5. CASE UNCHANGED Caller /\ ReadChunk
  <2>1. call.read /\ ~trouble /\ step = "read" /\ UNCHANGED <<call, mem>>
    <3>1. step = "read" /\ UNCHANGED <<call, mem>>
      BY <1>5 DEF ReadChunk, Return
    <3>2. ~trouble
      BY <1>5 DEF ReadChunk, Return
    <3> QED
      BY <3>1, <3>2 DEF InvFlow
  <2>2. \A i \in 0 .. call.len - 1 : i < at => buf[i] = mem[call.first + i]
    BY <2>1 DEF InvRead
  <2>3. CASE at >= call.len /\ Return("ok")
    BY <2>1, <2>2, <2>3 DEF Return, InvRead, TypeOK
  <2>4. CASE ~(at >= call.len /\ Return("ok"))
    <3>1. dev.op = None
      BY <2>1 DEF InvOurs, Ours, Operations
    <3>2. /\ at' = at + ReadPages /\ step' = step
          /\ buf' = [i \in DOMAIN buf |->
                     LET k == i - BufferOffset IN
                     IF k \notin 0 .. Lesser(ReadPages, call.len - at) - 1 THEN buf[i]
                     ELSE IF dev.op = None THEN mem[call.first + at + k] ELSE Mixed]
      BY <1>5, <2>4 DEF ReadChunk
    <3>3. DOMAIN buf = 0 .. call.len - 1 /\ call.first \in Nat /\ call.len \in Nat /\ at \in Nat
      <4>1. Sectors * SectorPages \in Nat
        BY Sizes
      <4> QED
        BY <2>1, <4>1, Sizes DEF TypeOK
    <3>4. ASSUME NEW i \in 0 .. call.len - 1, i < at + ReadPages
          PROVE  buf'[i] = mem[call.first + i]
      <4> DEFINE k == i - at
      <4>1. k \in Int /\ call.first + at + k = call.first + i
        BY <3>3
      <4>2. CASE k < 0
        <5>1. k \notin 0 .. Lesser(ReadPages, call.len - at) - 1
          BY <4>2
        <5> QED
          BY <5>1, <4>2, <3>2, <3>3, <2>2 DEF BufferOffset
      <4>3. CASE k >= 0
        <5>1. k \in 0 .. Lesser(ReadPages, call.len - at) - 1
          BY <4>3, <3>3, <3>4, Sizes DEF Lesser
        <5> QED
          BY <5>1, <3>1, <3>2, <3>3, <4>1 DEF BufferOffset
      <4> QED
        BY <4>1, <4>2, <4>3
    <3>5. ~Done'
      BY <2>1, <3>2 DEF Done
    <3> QED
      BY <2>1, <3>2, <3>4, <3>5 DEF InvRead
  <2> QED
    BY <2>3, <2>4
<1>6. CASE UNCHANGED Caller /\ FlashEnds
  <2>1. UNCHANGED <<step, call, ret, trouble>>
    BY <1>6 DEF FlashEnds, driverVars
  <2>2. dev.op = None
    BY <2>1 DEF InvOurs, Ours, Done, Operations
  <2> QED
    BY <1>6, <2>2 DEF FlashEnds
<1> QED
  BY <1>1, <1>2, <1>3, <1>4, <1>5, <1>6, NextCases

-----------------------------------------------------------------------------
(* What the memory holds. *)

\* Where the pages of a call lie.
LEMMA WantedBounds ==
  ASSUME TypeOK, NEW p \in Wanted(call)
  PROVE  /\ p \in Pages /\ p \in Int
         /\ call.first * SectorPages <= p
         /\ p < (call.first + call.len) * SectorPages
<1>1. call.first \in Nat /\ call.len \in Nat
  BY DEF TypeOK
<1>2. p \in Pages /\ p \in Int
  BY Sizes DEF Wanted, Pages
<1> DEFINE d == p \div SectorPages
<1>3. d \in Int /\ call.first <= d /\ d <= call.first + call.len - 1
  BY <1>1, <1>2, Sizes DEF Wanted
<1>4. d * SectorPages <= p /\ p < d * SectorPages + SectorPages
  BY <1>2, <1>3, Between, Sizes
<1> HIDE DEF d
<1>5. call.first * SectorPages <= d * SectorPages
  BY <1>1, <1>3, ProductOrder, Sizes
<1> DEFINE e == call.first + call.len
<1>6. e \in Int /\ d < e
  BY <1>1, <1>3
<1>7. d * SectorPages + SectorPages <= e * SectorPages
  <2> HIDE DEF e
  <2> QED
    BY <1>3, <1>6, ProductOrder, Sizes
<1>8. call.first * SectorPages \in Int /\ d * SectorPages \in Int /\ e * SectorPages \in Int
  BY <1>1, <1>3, <1>6, Sizes
<1> HIDE DEF e
<1>9. call.first * SectorPages <= p /\ p < e * SectorPages
  BY <1>2, <1>4, <1>5, <1>7, <1>8, Sizes
<1> QED
  BY <1>2, <1>9 DEF e

\* The properties of the configuration on which the memory depends.
Setting == <<dev.err, dev.long, dev.uniform, dev.top>>

\* A step that leaves the operation where it is leaves its effect on memory.
LEMMA MemFrame ==
  ASSUME InvMem, UNCHANGED <<step, call, at, sect, blank, mem, Setting>>, Landed' = Landed
  PROVE  InvMem'
<1>1. UNCHANGED <<Overlay, SectorPage, SmallPage(at), Landed>>
  BY DEF Overlay, SectorPage, SmallPage, Alignment, Setting
<1> QED
  BY <1>1 DEF InvMem, Front, Swept, Target, Setting

\* Nothing of the next sector counts as swept when its flash begins.
LEMMA NothingSwept ==
  ASSUME dev.uniform \in BOOLEAN, dev.top \in BOOLEAN, NEW k \in 0 .. Sectors - 1,
         NEW p \in Overlay \cap SectorOf(k)
  PROVE  k % Cycle \in {0, Cycle - 1} /\ ~(p < SmallStart(k))
<1>1. k % Cycle \in {0, Cycle - 1} /\ SmallStart(k) <= p
  BY OverlayPlace
<1>2. SmallStart(k) \in Int /\ p \in Int
  BY SectorFacts DEF SectorOf, Pages
<1> QED
  BY <1>1, <1>2

\* A new sector begins where the last one ended.
LEMMA MemEnters ==
  ASSUME TypeOK, InvFlow, InvBlank, InvMem, NEW n \in {0, sect + 1}, PollWip, PollEnters(n)
  PROVE  InvMem'
<1>1. /\ ~dev.err /\ dev.op = None /\ part = "poll" /\ UNCHANGED <<dev, mem, call, blank>>
      /\ step' = (IF Alignment(n) \in {0, Cycle - 1} THEN "small" ELSE "erase")
      /\ at' = 0 /\ sect' = n /\ part' = "enable" /\ n < call.len /\ ~call.read
  BY DEF PollWip, PollEnds, PollEnters, Continue, MoreSectors, Begins, InvFlow
<1> DEFINE k == call.first + n
<1>2. call.first \in Nat /\ call.len \in Nat /\ sect \in Nat /\ n \in Nat
  BY DEF TypeOK
<1>3. k \in 0 .. Sectors - 1
  BY <1>1, <1>2, Sizes DEF InvFlow
<1>4. SectorPage' = k * SectorPages /\ Front' = k * SectorPages /\ k * SectorPages \in Nat
  <2>1. SectorPage' = k * SectorPages
    BY <1>1 DEF SectorPage
  <2>2. Front' = k * SectorPages + 0
    BY <1>1, <2>1 DEF Front
  <2> QED
    BY <2>1, <2>2, <1>3, SectorFacts
<1>5. SmallPage(at)' = SmallStart(k)
  <2>1. SmallPage(at)' = k * SectorPages + 0 * SmallPages
           + (IF k % Cycle = Cycle - 1 THEN SectorPages - NumSmall * SmallPages ELSE 0)
    BY <1>1, <1>4 DEF SmallPage, Alignment
  <2> QED
    BY <2>1, <1>4, Sizes, Shares DEF SmallStart
<1>6. Overlay' = Overlay /\ ~Landed'
  BY <1>1 DEF Overlay, Landed
<1>7. SUFFICES ASSUME dev.long \/ blank, NEW p \in Wanted(call)
               PROVE  /\ p < Front' => mem[p] = Target(p)
                      /\ p >= Front' /\ (blank \/ Swept(p)') => mem[p] = Erased
  BY <1>1 DEF InvMem, Target
<1>8. p \in Pages /\ p \in Int /\ call.first * SectorPages <= p
  BY WantedBounds
<1>9. ASSUME step = "program", at + 1 = SectorPages, n = sect + 1
      PROVE  Front = k * SectorPages
  <2>1. Front = SectorPage + (at + 1)
    BY <1>1, <1>9 DEF Front, Landed
  <2>2. SectorPage = (call.first + sect) * SectorPages
    BY DEF SectorPage
  <2>3. k * SectorPages = (call.first + sect) * SectorPages + SectorPages
    <3> DEFINE h == call.first + sect
    <3>1. h \in Int /\ k = h + 1
      BY <1>2, <1>9
    <3>2. (h + 1) * SectorPages = h * SectorPages + SectorPages
      <4> HIDE DEF h
      <4> QED
        BY <3>1, Sizes
    <3> QED
      BY <3>1, <3>2
  <2> QED
    BY <1>9, <2>1, <2>2, <2>3
<1>10. p < Front' => mem[p] = Target(p)
  <2>1. CASE step = "config" /\ n = 0
    <3>1. k = call.first
      BY <2>1, <1>2
    <3> QED
      BY <3>1, <1>4, <1>8
  <2>2. CASE step = "program" /\ at + 1 = SectorPages /\ n = sect + 1
    BY <2>2, <1>1, <1>4, <1>7, <1>9 DEF InvMem, Late
  <2> QED
    BY <2>1, <2>2 DEF PollEnters
<1>11. p >= Front' /\ blank => mem[p] = Erased
  <2>1. CASE step = "config"
    BY <2>1, <1>1, <1>7 DEF InvBlank
  <2>2. CASE step = "program" /\ at + 1 = SectorPages /\ n = sect + 1
    BY <2>2, <1>1, <1>4, <1>7, <1>9 DEF InvMem, Late
  <2> QED
    BY <2>1, <2>2 DEF PollEnters
<1>12. ~(p >= Front' /\ Swept(p)')
  <2> SUFFICES ASSUME p >= Front', Swept(p)' PROVE FALSE
    OBVIOUS
  <2>1. p \in SectorOf(k)
    BY <1>4, <1>8 DEF Swept, SectorOf
  <2>2. p \in Overlay
    BY <1>1, <1>6 DEF Swept
  <2>3. k % Cycle \in {0, Cycle - 1} /\ ~(p < SmallStart(k))
    BY <1>3, <2>1, <2>2, NothingSwept DEF TypeOK
  <2>4. step' = "small"
    BY <1>1, <2>3 DEF Alignment
  <2>5. p < SmallStart(k) + 0
    BY <1>5, <1>6, <2>4 DEF Swept
  <2> QED
    BY <2>3, <2>5, <1>3, SectorFacts
<1> QED
  BY <1>10, <1>11, <1>12

\* The next operation on a sector finds what the one before has left.
LEMMA MemAdvances ==
  ASSUME TypeOK, InvFlow, InvMem, NEW s \in Late, NEW i \in {0, at + 1}, PollWip, PollAdvances(s, i)
  PROVE  InvMem'
<1>1. /\ ~dev.err /\ dev.op = None /\ part = "poll" /\ UNCHANGED <<dev, mem, call, blank, sect>>
      /\ step' = s /\ at' = i /\ part' = "enable" /\ step \in Late
  BY DEF PollWip, PollEnds, PollAdvances, Continue, Begins, Late
<1>2. Overlay' = Overlay /\ ~Landed' /\ Landed
  BY <1>1 DEF Overlay, Landed
<1>3. SectorPage' = SectorPage /\ SectorPage \in Int
  BY <1>1, SectorPageFacts DEF SectorPage
<1>4. at \in Nat
  <2>1. Sectors * SectorPages \in Nat
    BY Sizes
  <2> QED
    BY <2>1, Sizes DEF TypeOK
<1>5. Front' = Front
  BY <1>1, <1>2, <1>3, <1>4 DEF Front, PollAdvances
<1>6. SUFFICES ASSUME dev.long \/ blank, NEW p \in Wanted(call), p >= Front, Swept(p)'
               PROVE  Swept(p)
  BY <1>1, <1>5 DEF InvMem, Target
<1>7. CASE step = "small" /\ s = "small" /\ i = at + 1
  <2>1. SmallPage(at)' = SmallPage(at) + SmallPages
    <3>1. SmallPage(at)' = SmallPage(at + 1)
      BY <1>1, <1>3, <1>7 DEF SmallPage, Alignment
    <3>2. /\ SmallPage(at) = SmallStart(Here) + at * SmallPages
          /\ SmallPage(at + 1) = SmallStart(Here) + (at + 1) * SmallPages
      BY <1>1, <1>4, Place
    <3>3. (at + 1) * SmallPages = at * SmallPages + SmallPages /\ at * SmallPages \in Int
      BY <1>4, Sizes
    <3>4. SmallStart(Here) \in Int
      BY <1>1, Place, SectorFacts
    <3> QED
      BY <3>1, <3>2, <3>3, <3>4, Sizes
  <2>2. p \in Int /\ SmallPage(at) + SmallPages \in Int
    <3>1. p \in Int
      BY WantedBounds
    <3>2. SmallPage(at) = SmallStart(Here) + at * SmallPages /\ SmallStart(Here) \in Int
      BY <1>1, <1>4, Place, SectorFacts
    <3> QED
      BY <3>1, <3>2, <1>4, Sizes
  <2>3. p \in Overlay /\ p < SmallPage(at) + SmallPages /\ p < SectorPage + SectorPages
    <3>1. p \in Overlay /\ p < SmallPage(at)' + 0 /\ p < SectorPage + SectorPages
      BY <1>1, <1>2, <1>3, <1>6, <1>7 DEF Swept
    <3> QED
      BY <3>1, <2>1, <2>2
  <2> QED
    BY <2>3, <1>2, <1>7 DEF Swept
<1>8. CASE step = "small" /\ at + 1 = NumSmall /\ s = "erase"
  <2>1. p \in Overlay /\ p < SectorPage + SectorPages
    BY <1>1, <1>2, <1>3, <1>6, <1>8 DEF Swept
  <2>2. p \in Pages /\ p \in Int
    BY WantedBounds
  <2>3. p >= SectorPage
    BY <1>6, <1>8, <1>3 DEF Front
  <2>4. p \in SectorOf(Here)
    BY <1>1, <2>1, <2>2, <2>3, Place DEF SectorOf
  <2>5. p < SmallStart(Here) + NumSmall * SmallPages
    BY <1>1, <2>1, <2>4, Place, OverlayPlace DEF TypeOK
  <2>6. SmallPage(at) = SmallStart(Here) + at * SmallPages /\ SmallStart(Here) \in Int
    BY <1>1, <1>4, Place, SectorFacts
  <2>7. NumSmall * SmallPages = at * SmallPages + SmallPages /\ at * SmallPages \in Int
    BY <1>4, <1>8, Sizes
  <2>8. p < SmallPage(at) + SmallPages
    BY <2>2, <2>5, <2>6, <2>7, Sizes
  <2> QED
    BY <2>1, <2>8, <1>2, <1>8 DEF Swept
<1>9. CASE step = "erase" \/ step = "program"
  <2>1. p < SectorPage + SectorPages
    BY <1>3, <1>6 DEF Swept
  <2> QED
    BY <1>2, <1>9, <2>1 DEF Swept
<1> QED
  BY <1>7, <1>8, <1>9 DEF PollAdvances

\* An operation ends: the pages it changes are those of the sector at hand it is for.
LEMMA MemEnds ==
  ASSUME TypeOK, InvFlow, InvOurs, InvMem, FlashEnds
  PROVE  InvMem'
<1>1. UNCHANGED <<step, part, call, at, sect, blank>> /\ dev.op # None
  BY DEF FlashEnds, driverVars
<1>2. PICK err, long, uniform \in BOOLEAN :
        /\ dev.op.kind # "config" => long = dev.long /\ uniform = dev.uniform
        /\ dev' = [dev EXCEPT !.op = None, !.wel = FALSE, !.err = @ \/ err,
                              !.long = long, !.uniform = uniform]
        /\ mem' = [p \in Pages |-> IF p \notin Affected(dev.op) THEN mem[p]
                                   ELSE IF err THEN Mixed ELSE After(dev.op, p)]
  BY DEF FlashEnds
<1>3. dev'.op = None /\ dev'.err = (dev.err \/ err) /\ dev'.long = long
      /\ dev'.uniform = uniform /\ dev'.top = dev.top
  BY <1>2 DEF TypeOK
<1>4. SUFFICES ASSUME step \in Late, ~dev'.err, dev'.long \/ blank, NEW p \in Wanted(call)
               PROVE  /\ p < Front' => mem'[p] = Target(p)
                      /\ p >= Front' /\ (blank \/ Swept(p)') => mem'[p] = Erased
  BY <1>1 DEF InvMem, Target
<1>5. ~err /\ ~dev.err
  BY <1>3, <1>4
<1>6. dev.op = Requested /\ part = "poll"
  BY <1>1, <1>4 DEF InvOurs, Ours, Operations
<1>7. Requested.kind = step
  BY <1>4, Requests DEF Late, Op
<1>8. dev'.long = dev.long /\ dev'.uniform = dev.uniform
  BY <1>2, <1>3, <1>4, <1>6, <1>7 DEF Late
<1>9. Overlay' = Overlay /\ ~Landed /\ Landed'
  BY <1>1, <1>3, <1>6, <1>8 DEF Overlay, Landed
<1>10. UNCHANGED <<SectorPage, SmallPage(at)>>
  BY <1>1 DEF SectorPage, SmallPage, Alignment
<1>11. p \in Pages /\ p \in Int /\ at \in Nat /\ SectorPage \in Int
  <2>1. Sectors * SectorPages \in Nat
    BY Sizes
  <2> QED
    BY <2>1, <1>4, WantedBounds, SectorPageFacts, Sizes DEF TypeOK
<1>12. mem'[p] = IF p \notin Affected(Requested) THEN mem[p] ELSE After(Requested, p)
  BY <1>2, <1>5, <1>6, <1>11
<1>13. /\ p < Front => mem[p] = Target(p)
       /\ p >= Front /\ (blank \/ Swept(p)) => mem[p] = Erased
  BY <1>4, <1>5, <1>8 DEF InvMem
<1>14. p \in Affected(Requested) => p \in SectorOf(Here) /\ SectorPage <= p
  BY <1>4, AffectedHere, Place DEF SectorOf
<1>15. p >= SectorPage /\ p < SectorPage + SectorPages => p \in SectorOf(Here)
  BY <1>4, <1>11, Place DEF SectorOf
<1>16. CASE step \in {"small", "erase"}
  <2>1. Front = SectorPage /\ Front' = SectorPage
    BY <1>1, <1>10, <1>11, <1>16 DEF Front
  <2>2. p < Front' => mem'[p] = Target(p)
    BY <2>1, <1>11, <1>12, <1>13, <1>14
  <2>3. After(Requested, p) = Erased
    BY <1>7, <1>16 DEF After
  <2>4. p >= Front' /\ blank => mem'[p] = Erased
    BY <2>1, <2>3, <1>12, <1>13
  <2>5. ASSUME p >= Front', Swept(p)', ~blank, p \notin Affected(Requested)
        PROVE  Swept(p)
    <3>1. p \in SectorOf(Here) /\ p < SectorPage + SectorPages
      BY <2>1, <2>5, <1>10, <1>15 DEF Swept
    <3>2. CASE step = "erase"
      <4>1. dev.long
        BY <1>4, <1>8, <2>5
      <4>2. Affected(Requested) = Block(SectorPage, SectorPages) \ Overlay
        BY <3>2, <4>1, Requests DEF Affected, Op
      <4>3. Block(SectorPage, SectorPages) = SectorOf(Here)
        BY <1>4, Place, SectorBlock
      <4>4. p \in Overlay
        BY <2>5, <3>1, <4>2, <4>3
      <4> QED
        BY <3>1, <3>2, <4>4 DEF Swept
    <3>3. CASE step = "small"
      <4>1. p \in Overlay /\ p < SmallPage(at) + SmallPages
        BY <1>1, <1>9, <1>10, <2>5, <3>3 DEF Swept
      <4>2. at \in 0 .. NumSmall - 1
        BY <1>11, <3>3, Sizes DEF InvFlow
      <4>3. SmallPage(at) = SmallStart(Here) + at * SmallPages /\ Here \in 0 .. Sectors - 1
        BY <1>4, <1>11, Place
      <4>4. /\ SmallPage(at) \in Pages
            /\ Block(SmallPage(at), SmallPages)
                 = {q \in Pages : SmallPage(at) <= q /\ q < SmallPage(at) + SmallPages}
            /\ SmallStart(Here) <= SmallPage(at)
            /\ SmallPage(at) + SmallPages <= SmallStart(Here) + NumSmall * SmallPages
        BY <4>2, <4>3, SmallBlock
      <4>5. SmallPage(at) < SmallStart(Here) + NumSmall * SmallPages
        <5>1. SmallPage(at) \in Int /\ SmallStart(Here) \in Int /\ NumSmall * SmallPages \in Int
          BY <4>3, <4>4, SectorFacts, Shares, Sizes DEF Pages
        <5> QED
          BY <5>1, <4>4, Sizes
      <4>6. SmallPage(at) \in Overlay
        BY <3>1, <4>1, <4>3, <4>4, <4>5, OverlayPlace DEF TypeOK
      <4>7. Affected(Requested) = Block(SmallPage(at), SmallPages)
        BY <3>3, <4>6, Requests DEF Affected, Op
      <4>8. ~(SmallPage(at) <= p)
        BY <1>11, <2>5, <4>1, <4>4, <4>7
      <4>9. SmallPage(at) \in Int
        BY <4>4, Sizes DEF Pages
      <4> QED
        BY <1>9, <1>11, <3>1, <3>3, <4>1, <4>8, <4>9 DEF Swept
    <3> QED
      BY <1>16, <3>2, <3>3
  <2>6. p >= Front' /\ Swept(p)' => mem'[p] = Erased
    BY <2>1, <2>3, <2>4, <2>5, <1>12, <1>13
  <2> QED
    BY <2>2, <2>4, <2>6
<1>17. CASE step = "program"
  <2>1. Front = SectorPage + at /\ Front' = SectorPage + (at + 1)
    <3>1. Front = SectorPage + (at + 0)
      BY <1>9, <1>17 DEF Front
    <3> QED
      BY <3>1, <1>1, <1>9, <1>10, <1>11, <1>17 DEF Front
  <2>2. Requested = Op("program", SectorPage + at, sect * SectorPages + at + 1)
    BY <1>17, Requests
  <2>3. Affected(Requested) = {SectorPage + at}
    BY <2>2 DEF Affected, Op
  <2>4. CASE p = SectorPage + at
    <3>1. at \in 0 .. SectorPages - 1
      BY <1>11, <1>17, Sizes DEF InvFlow
    <3>2. Swept(p) /\ p >= Front
      BY <2>1, <2>4, <3>1, <1>11, <1>17, Sizes DEF Swept
    <3>3. mem[p] = Erased
      BY <3>2, <1>13
    <3>4. mem'[p] = sect * SectorPages + at + 1
      BY <3>3, <2>2, <2>3, <2>4, <1>12 DEF After, Op
    <3>5. SectorPage = call.first * SectorPages + sect * SectorPages
          /\ call.first * SectorPages \in Int /\ sect * SectorPages \in Int
      BY Sizes DEF SectorPage, TypeOK
    <3>6. Target(p) = sect * SectorPages + at + 1
      BY <3>5, <2>4, <1>11 DEF Target
    <3>7. ~(p >= Front')
      BY <2>1, <2>4, <1>11
    <3> QED
      BY <3>4, <3>6, <3>7
  <2>5. CASE p # SectorPage + at
    <3>1. mem'[p] = mem[p]
      BY <2>3, <2>5, <1>12
    <3>2. p < Front' => p < Front
      BY <2>1, <2>5, <1>11
    <3>3. p >= Front' => p >= Front
      BY <2>1, <1>11
    <3>4. Swept(p)' => Swept(p)
      BY <1>10, <1>17 DEF Swept
    <3> QED
      BY <3>1, <3>2, <3>3, <3>4, <1>13
  <2> QED
    BY <2>4, <2>5
<1> QED
  BY <1>4, <1>16, <1>17 DEF Late

\* No sector is being flashed at first.
LEMMA MemInit == Init => InvMem
BY DEF Init, NorInit, InvMem, Late

\* Every step keeps the memory in order.
LEMMA MemStep == TypeOK /\ InvFlow /\ InvOurs /\ InvBlank /\ InvMem /\ [Next]_vars => InvMem'
<1> SUFFICES ASSUME TypeOK, InvFlow, InvOurs, InvBlank, InvMem, [Next]_vars, step' \in Late
             PROVE  InvMem'
  BY DEF InvMem
<1>1. CASE Invoke \/ FlashSdCard \/ FlashEeprom \/ NoDisk \/ FlashNorReturns \/ BootReadReturns
           \/ UNCHANGED vars
  <2>1. UNCHANGED norVars
    BY <1>1 DEF Invoke, FlashSdCard, FlashEeprom, NoDisk, FlashNorReturns, BootReadReturns, vars
  <2> QED
    BY <2>1, NorFrame
<1>2. CASE FlashNor \/ BootRead \/ (UNCHANGED Caller /\ (Setup \/ ReadChunk \/ Enter4bMode \/ GiveUp))
  BY <1>2 DEF FlashNor, BootRead, NorCall, Setup, ReadChunk, Enter4bMode, GiveUp, Return, Late
<1>3. CASE UNCHANGED Caller /\ SetWen
  <2>1. UNCHANGED <<step, call, at, sect, blank, mem>> /\ part = "enable" /\ part' = "command"
    BY <1>3 DEF SetWen
  <2>2. UNCHANGED Setting /\ Landed' = Landed
    BY <1>3, <2>1 DEF SetWen, TypeOK, Setting, Landed
  <2> QED
    BY <2>1, <2>2, MemFrame
<1>4. CASE UNCHANGED Caller /\ Command
  <2>1. UNCHANGED <<step, call, at, sect, blank, mem>> /\ part = "command" /\ part' = "poll"
    BY <1>4 DEF Command
  <2>2. Accepts
    BY <1>4, <2>1 DEF Command, InvOurs, Ours, Accepts, Operations, Late
  <2>3. dev' = [dev EXCEPT !.op = Requested] /\ Requested # None
    BY <1>4, <2>1, <2>2, RequestedType, NoneAssumption DEF Command
  <2>4. UNCHANGED Setting /\ Landed' = Landed
    BY <2>1, <2>3 DEF TypeOK, Setting, Landed
  <2> QED
    BY <2>1, <2>4, MemFrame
<1>5. CASE UNCHANGED Caller /\ PollWip
  <2>1. ~PollFails /\ ~PollOver
    BY DEF PollFails, PollOver, Return, Late
  <2> QED
    BY <1>5, <2>1, PollCases, MemEnters, MemAdvances
<1>6. CASE UNCHANGED Caller /\ FlashEnds
  BY <1>6, MemEnds
<1> QED
  BY <1>1, <1>2, <1>3, <1>4, <1>5, <1>6, NextCases

\* No call has returned.
LEMMA WrittenInit == Init => InvWritten
BY DEF Init, NorInit, InvWritten, Done

\* When the last page of the last sector is programmed, the segment is written.
LEMMA WrittenStep == TypeOK /\ InvFlow /\ InvOurs /\ InvMem /\ InvWritten /\ [Next]_vars => InvWritten'
<1> SUFFICES ASSUME TypeOK, InvFlow, InvOurs, InvMem, InvWritten, [Next]_vars,
                    Done', ~call'.read, dev'.long \/ blank'
             PROVE  Written'
  BY DEF InvWritten
<1>1. CASE Invoke \/ FlashSdCard \/ FlashEeprom \/ NoDisk \/ FlashNorReturns \/ BootReadReturns
           \/ UNCHANGED vars
  <2>1. UNCHANGED norVars
    BY <1>1 DEF Invoke, FlashSdCard, FlashEeprom, NoDisk, FlashNorReturns, BootReadReturns, vars
  <2> QED
    BY <2>1, NorFrame DEF InvWritten
<1>2. CASE FlashNor \/ BootRead \/ (UNCHANGED Caller /\ (Setup \/ SetWen \/ Enter4bMode \/ Command \/ GiveUp))
  BY <1>2 DEF FlashNor, BootRead, NorCall, Setup, SetWen, Enter4bMode, Command, GiveUp, Return, Done, Operations
<1>3. CASE UNCHANGED Caller /\ ReadChunk
  BY <1>3 DEF ReadChunk, Return, InvFlow
<1>4. CASE UNCHANGED Caller /\ PollWip
  <2>1. PollOver
    BY <1>4, PollCases DEF PollFails, PollEnters, PollAdvances, Continue, Return, Done, Late
  <2>2. UNCHANGED <<call, dev, mem, blank>> /\ ~dev.err /\ dev.op = None /\ part = "poll"
    BY <1>4, <2>1 DEF PollWip, PollEnds, PollOver, Return
  <2>3. call.first \in Nat /\ call.len \in Nat /\ sect \in Nat
    BY DEF TypeOK
  <2>4. SUFFICES ASSUME NEW p \in Wanted(call) PROVE mem[p] = Target(p)
    BY <2>2 DEF Written, Target
  <2>5. p \in Int /\ call.first * SectorPages <= p /\ p < (call.first + call.len) * SectorPages
    BY WantedBounds
  <2>6. CASE step = "config"
    <3>1. call.len = 0
      BY <2>1, <2>3, <2>6 DEF PollOver, MoreSectors
    <3>2. call.first + call.len = call.first /\ call.first * SectorPages \in Int
      BY <2>3, <3>1, Sizes
    <3> QED
      BY <2>5, <3>2
  <2>7. CASE step = "program"
    <3>1. at + 1 = SectorPages /\ sect + 1 = call.len
      BY <2>1, <2>3, <2>7 DEF PollOver, MoreSectors, InvFlow, Late
    <3>2. Front = SectorPage + (at + 1)
      BY <2>2, <2>7 DEF Front, Landed
    <3> DEFINE h == call.first + sect
    <3>3. h \in Int /\ call.first + call.len = h + 1
      BY <2>3, <3>1
    <3>4. (h + 1) * SectorPages = h * SectorPages + SectorPages
      <4> HIDE DEF h
      <4> QED
        BY <3>3, Sizes
    <3>5. SectorPage = h * SectorPages
      BY DEF SectorPage
    <3>6. p < Front
      BY <2>5, <3>1, <3>2, <3>3, <3>4, <3>5
    <3>7. dev.long \/ blank
      BY <2>2
    <3> QED
      BY <2>2, <2>7, <3>6, <3>7 DEF InvMem, Late
  <2> QED
    BY <2>1, <2>6, <2>7 DEF PollOver
<1>5. CASE UNCHANGED Caller /\ FlashEnds
  <2>1. UNCHANGED <<step, call, ret>>
    BY <1>5 DEF FlashEnds, driverVars
  <2>2. Ours /\ step = "idle"
    BY <2>1 DEF Ours, Done
  <2>3. dev.op = None
    BY <2>2 DEF InvOurs, Operations
  <2> QED
    BY <1>5, <2>3 DEF FlashEnds
<1> QED
  BY <1>1, <1>2, <1>3, <1>4, <1>5, NextCases

-----------------------------------------------------------------------------

\* The invariant holds in every state of every behaviour.
THEOREM Invariance == Spec => []Inv
<1>1. Init => Inv
  BY TypeInit, FlowInit, OursInit, BlankInit, ReadInit, MemInit, WrittenInit DEF Inv
<1>2. Inv /\ [Next]_vars => Inv'
  BY TypeStep, FlowStep, OursStep, BlankStep, ReadStep, MemStep, WrittenStep DEF Inv
<1> QED
  BY <1>1, <1>2, PTL DEF Spec

\* The variables of tool, driver and flash keep their types: no counter leaves the
\* array, and the flash is busy only with commands the driver sends.
THEOREM TypeCorrect == Spec => []TypeOK
<1>1. Inv => TypeOK
  BY DEF Inv
<1> QED
  BY <1>1, Invariance, PTL

\* No erase, program or configuration command is lost: each one finds the flash
\* enabled, idle and in 4-byte mode (__spi_s25fs512s_set_wen before, and
\* __spi_s25fs512s_poll_wip after every command).
THEOREM NoCommandLost == Spec => []CommandsAccepted
<1>1. Inv => CommandsAccepted
  BY DEF Inv, InvOurs, Ours, Operations, CommandsAccepted, Accepts
<1> QED
  BY <1>1, Invariance, PTL

\* A read that returns success has delivered the contents of the flash, for every
\* length and size of the receive FIFO (spi_s25fs512s_single_read).
THEOREM ReadsExactly == Spec => []ReadExact
<1>1. Inv => ReadExact
  <2> SUFFICES ASSUME Inv, Done, call.read, ~trouble, NEW i \in DOMAIN buf
               PROVE  buf[i] = mem[call.first + i]
    BY DEF ReadExact
  <2>1. DOMAIN buf = 0 .. call.len - 1
    BY DEF Inv, TypeOK
  <2> QED
    BY <2>1 DEF Inv, InvRead
<1> QED
  BY <1>1, Invariance, PTL

\* When the tool returns 0 for an SD card or the NOR flash, the segment is where it
\* was to go: on the NOR flash page by page, wherever small sectors are and whatever
\* state an earlier call left the flash in, if sector erases cover a sector or the
\* flash was blank.  (Nothing is said of the EEPROM.)
THEOREM ZeroIsWritten == Spec => []ZeroMeansWritten
<1>1. Inv => ZeroMeansWritten
  <2> SUFFICES ASSUME Inv, pc = "exit", status = "ok", scratch.target # 3
               PROVE  CASE scratch.target = 1 -> written = [to |-> scratch.first * SectorBytes,
                                                            bytes |-> scratch.len * SectorBytes]
                        [] scratch.target = 2 -> Done /\ ~call.read /\ (dev.long \/ blank => Written)
                        [] OTHER -> FALSE
    BY DEF ZeroMeansWritten
  <2>1. CASE scratch.target = 1
    <3>1. written = [to |-> SdBlocks(scratch.first) * 512, bytes |-> SdBlocks(scratch.len) * 512]
      BY <2>1 DEF Inv, InvFlow, Handed
    <3>2. scratch.first \in Nat /\ scratch.len \in Nat
      BY Sizes DEF Inv, TypeOK
    <3>3. \A n \in Nat : SdBlocks(n) * 512 = n * SectorBytes
      BY DEF SdBlocks, SectorBytes, KiB
    <3> QED
      BY <2>1, <3>1, <3>2, <3>3
  <2>2. CASE scratch.target = 2
    BY <2>2 DEF Inv, InvFlow, InvWritten
  <2>3. scratch.target \in {1, 2}
    BY DEF Inv, InvFlow
  <2> QED
    BY <2>1, <2>2, <2>3
<1> QED
  BY <1>1, Invariance, PTL

\* As long as no call has failed, the flash changes in no page but those of the
\* sectors that are flashed, small sectors included.
THEOREM OthersStay == Spec => OthersUntouched
<1>1. Inv /\ [Next]_vars =>
        [~trouble => \A p \in Pages : mem'[p] # mem[p] => p \in Wanted(call)]_norVars
  <2> SUFFICES ASSUME Inv, Next, ~trouble, NEW p \in Pages, mem'[p] # mem[p]
               PROVE  p \in Wanted(call)
    BY DEF vars, norVars
  <2>1. FlashEnds
    BY NextCases DEF Invoke, BootRead, NorCall, FlashSdCard, FlashEeprom, NoDisk, FlashNor, FlashNorReturns, BootReadReturns,
                     Setup, ReadChunk, SetWen, Enter4bMode, Command, PollWip, GiveUp, norVars
  <2>2. dev.op # None /\ step \in Operations \ {"mode"} /\ dev.op = Requested
    BY <2>1 DEF FlashEnds, Inv, InvOurs, Ours
  <2>3. p \in Affected(Requested)
    BY <2>1, <2>2 DEF FlashEnds
  <2>4. CASE step = "config"
    BY <2>3, <2>4, Requests DEF Affected, Op
  <2>5. CASE step \in Late
    BY <2>3, <2>5, AffectedHere, Place DEF Inv
  <2> QED
    BY <2>2, <2>4, <2>5 DEF Operations, Late
<1> QED
  BY <1>1, Invariance, PTL DEF Spec, OthersUntouched
=============================================================================
