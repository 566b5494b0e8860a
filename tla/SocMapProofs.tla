---------------------------- MODULE SocMapProofs ----------------------------
(***************************************************************************)
(* For every configuration: the ports of SocMap are apart, whatever number *)
(* of cores, choice of units and external ports that fit an index; an      *)
(* access reaches the unit whose region holds its address; and the cores   *)
(* treat every address as the unit behind it allows.                       *)
(***************************************************************************)
EXTENDS SocMap, SequenceTheorems, FiniteSetTheorems, WellFoundedInduction, TLAPS

\* How the units of a generator count: in gen_axi_in the cores come first and
\* count afterwards, then the debug module shares; all others count first, but for
\* the SPM, which has no port of its own.
Shape(g) ==
  /\ Len(Units(g)) \in Nat
  /\ DOMAIN Units(g) = 1 .. Len(Units(g))
  /\ g = "in" => Len(Units(g)) = cfg.NumCores + 5
  /\ g = "out" => Len(Units(g)) = 6
  /\ g = "reg" => Len(Units(g)) >= 14
  /\ \A n \in 1 .. Len(Units(g)) :
       LET u == Units(g)[n] IN
       /\ u.how \in {"pre", "same", "post"}
       /\ u.how = "post" <=> g = "in" /\ n <= cfg.NumCores
       /\ g = "in" => (u.how = "same" <=> n = cfg.NumCores + 1)
       /\ u.how = "same" /\ g # "in" => u.name # "dbg"

\* A function on 1 .. n is a sequence.
LEMMA FunctionIsSeq ==
  ASSUME NEW n \in Nat, NEW S, NEW f \in [1 .. n -> S]
  PROVE  f \in Seq(S) /\ Len(f) = n
OBVIOUS

\* The concatenation of such a function with a sequence.
LEMMA FunctionConcat ==
  ASSUME NEW n \in Nat, NEW S, NEW f \in [1 .. n -> S], NEW s \in Seq(S)
  PROVE  /\ Len(f \o s) = n + Len(s) /\ DOMAIN (f \o s) = 1 .. n + Len(s)
         /\ \A m \in 1 .. n : (f \o s)[m] = f[m]
         /\ \A m \in n + 1 .. n + Len(s) : (f \o s)[m] = s[m - n]
<1>1. f \in Seq(S) /\ Len(f) = n
  BY FunctionIsSeq
<1>2. QED
  BY <1>1

\* gen_axi_in has cores, the debug module and four optional masters.
LEMMA ShapeIn == ASSUME cfg \in Configs PROVE Shape("in")
<1> DEFINE N == cfg.NumCores
           Core(n) == Unit("core", n - 1, TRUE, "post", <<>>)
           cores == [n \in 1 .. N |-> Core(n)]
           first == Unit("dbg", 0, TRUE, "same", <<>>)
           second == Master(cfg, "dma", "Dma")
           third == Master(cfg, "slink", "SerialLink")
           fourth == Master(cfg, "vga", "Vga")
           fifth == Master(cfg, "usb", "Usb")
           rest == <<first, second, third, fourth, fifth>>
           S == {Core(n) : n \in 1 .. N} \cup {first, second, third, fourth, fifth}
<1>1. N \in Nat
  BY ConfigsAssumption
<1>2. Units("in") = cores \o rest
  BY DEF Units, InUnits
<1>3. /\ \A n \in 1 .. N : Core(n).how = "post"
      /\ first.how = "same" /\ second.how = "pre" /\ third.how = "pre"
      /\ fourth.how = "pre" /\ fifth.how = "pre"
  BY DEF Unit, Master
<1> HIDE DEF N, Core, first, second, third, fourth, fifth
<1>4. cores \in [1 .. N -> S]
  OBVIOUS
<1>5. /\ rest \in Seq(S) /\ Len(rest) = 5
      /\ rest[1] = first /\ rest[2] = second /\ rest[3] = third
      /\ rest[4] = fourth /\ rest[5] = fifth
  OBVIOUS
<1>6. \A n \in 1 .. N : cores[n].how = "post"
  BY <1>3
<1> HIDE DEF cores, rest, S
<1>7. /\ Len(Units("in")) = N + 5 /\ DOMAIN Units("in") = 1 .. N + 5
      /\ \A n \in 1 .. N : Units("in")[n] = cores[n]
      /\ \A n \in N + 1 .. N + 5 : Units("in")[n] = rest[n - N]
  <2>1. /\ Len(cores \o rest) = N + Len(rest) /\ DOMAIN (cores \o rest) = 1 .. N + Len(rest)
        /\ \A m \in 1 .. N : (cores \o rest)[m] = cores[m]
        /\ \A m \in N + 1 .. N + Len(rest) : (cores \o rest)[m] = rest[m - N]
    <3>1. rest \in Seq(S)
      BY <1>5
    <3>2. QED
      BY <1>1, <1>4, <3>1, FunctionConcat, SMT
  <2>2. QED
    BY <1>2, <1>5, <2>1
<1>8. \A n \in 1 .. 5 : rest[n].how = (IF n = 1 THEN "same" ELSE "pre")
  BY <1>3, <1>5
<1>9. \A n \in 1 .. N + 5 :
        Units("in")[n].how = (IF n <= N THEN "post" ELSE IF n = N + 1 THEN "same" ELSE "pre")
  <2>1. TAKE n \in 1 .. N + 5
  <2>2. CASE n <= N
    BY <1>1, <1>6, <1>7, <2>2
  <2>3. CASE n > N
    <3>1. n - N \in 1 .. 5 /\ Units("in")[n] = rest[n - N]
      BY <1>1, <1>7, <2>3
    <3>2. QED
      BY <1>1, <1>8, <2>3, <3>1
  <2>4. QED
    BY <1>1, <2>2, <2>3
<1>10. QED
  BY <1>1, <1>7, <1>9 DEF Shape, N

\* gen_axi_out has six units, of which only the SPM shares an index.
LEMMA ShapeOut == Shape("out")
<1> DEFINE u1 == Unit("dbg", 0, TRUE, "pre", <<EXTROM>>)
           u2 == Unit("reg_demux", 0, TRUE, "pre", <<REG_DEMUX>>)
           u3 == Option(cfg, "llc", "LlcOutConnect", cfg.LlcOut)
           u4 == Unit("spm", 0, "LlcNotBypass" \in cfg.on, "same", <<Spm(cfg), SpmUnc(cfg)>>)
           u5 == Option(cfg, "dma", "Dma", DMA)
           u6 == Option(cfg, "slink", "SerialLink", cfg.Slink)
<1>1. Units("out") = <<u1, u2, u3, u4, u5, u6>>
  BY DEF Units, OutUnits
<1>2. /\ u1.how = "pre" /\ u2.how = "pre" /\ u3.how = "pre"
      /\ u4.how = "same" /\ u4.name = "spm" /\ u5.how = "pre" /\ u6.how = "pre"
  BY DEF Unit, Option
<1> HIDE DEF u1, u2, u3, u4, u5, u6
<1>3. QED
  BY <1>1, <1>2 DEF Shape

\* All units of gen_reg_out count first, whatever number of cores there is.
LEMMA ShapeReg == ASSUME cfg \in Configs PROVE Shape("reg")
<1> DEFINE N == cfg.NumCores
           M == BusErrUnits(cfg)
           Clic(n) == Unit("clic", n - 1, "Clic" \in cfg.on, "pre", <<CLIC(n - 1)>>)
           BusErr(n) == Unit("bus_err", n - 1, "BusErr" \in cfg.on, "pre", <<BUS_ERR(n - 1)>>)
           clics == [n \in 1 .. N |-> Clic(n)]
           errs == [n \in 1 .. M |-> BusErr(n)]
           u1 == Unit("clint", 0, TRUE, "pre", <<CLINT>>)
           u2 == Unit("plic", 0, TRUE, "pre", <<PLIC>>)
           u3 == Unit("regs", 0, TRUE, "pre", <<REGS>>)
           u4 == Option(cfg, "bootrom", "Bootrom", BOOTROM)
           u5 == Option(cfg, "llc_cfg", "LlcNotBypass", PAGE(1))
           u6 == Option(cfg, "uart", "Uart", PAGE(2))
           u7 == Option(cfg, "i2c", "I2c", PAGE(3))
           u8 == Option(cfg, "spi_host", "SpiHost", PAGE(4))
           u9 == Option(cfg, "gpio", "Gpio", PAGE(5))
           u10 == Option(cfg, "slink_cfg", "SerialLink", PAGE(6))
           u11 == Option(cfg, "vga", "Vga", PAGE(7))
           u12 == Option(cfg, "usb", "Usb", PAGE(8))
           u13 == Option(cfg, "irq_router", "IrqRouter", IRQ_ROUTER)
           u14 == Option(cfg, "axirt", "AxiRt", AXIRT)
           first == <<u1, u2, u3, u4, u5, u6, u7, u8, u9, u10, u11, u12, u13, u14>>
           S == {u1, u2, u3, u4, u5, u6, u7, u8, u9, u10, u11, u12, u13, u14}
                \cup {Clic(n) : n \in 1 .. N} \cup {BusErr(n) : n \in 1 .. M}
<1>1. N \in Nat /\ M \in Nat
  BY ConfigsAssumption DEF BusErrUnits
<1>2. Units("reg") = first \o clics \o errs
  BY DEF Units, RegUnits
<1>3. /\ \A n \in 1 .. N : Clic(n).how = "pre"
      /\ \A n \in 1 .. M : BusErr(n).how = "pre"
      /\ u1.how = "pre" /\ u2.how = "pre" /\ u3.how = "pre" /\ u4.how = "pre" /\ u5.how = "pre"
      /\ u6.how = "pre" /\ u7.how = "pre" /\ u8.how = "pre" /\ u9.how = "pre" /\ u10.how = "pre"
      /\ u11.how = "pre" /\ u12.how = "pre" /\ u13.how = "pre" /\ u14.how = "pre"
  BY DEF Unit, Option
<1> HIDE DEF N, M, Clic, BusErr, u1, u2, u3, u4, u5, u6, u7, u8, u9, u10, u11, u12, u13, u14
<1>4. \A u \in S : u.how = "pre"
  BY <1>3
<1>5. first \in Seq(S) /\ Len(first) = 14
  OBVIOUS
<1>6. clics \in [1 .. N -> S] /\ errs \in [1 .. M -> S]
  OBVIOUS
<1> HIDE DEF first, clics, errs, S
<1>7. clics \in Seq(S) /\ Len(clics) = N
  <2>1. N \in Nat /\ clics \in [1 .. N -> S]
    BY <1>1, <1>6
  <2>2. QED
    BY <2>1, FunctionIsSeq, SMT
<1>8. errs \in Seq(S) /\ Len(errs) = M
  <2>1. M \in Nat /\ errs \in [1 .. M -> S]
    BY <1>1, <1>6
  <2>2. QED
    BY <2>1, FunctionIsSeq, SMT
<1>9. Units("reg") \in Seq(S) /\ Len(Units("reg")) = 14 + N + M
  <2>1. first \o clics \in Seq(S) /\ Len(first \o clics) = 14 + N
    <3>1. first \in Seq(S) /\ Len(first) = 14
      BY <1>5
    <3>2. clics \in Seq(S) /\ Len(clics) = N
      BY <1>7
    <3>3. first \o clics \in Seq(S) /\ Len(first \o clics) = Len(first) + Len(clics)
      BY <3>1, <3>2, ConcatProperties
    <3>4. QED
      BY <3>1, <3>2, <3>3
  <2>2. QED
    BY <1>2, <1>8, <2>1, ConcatProperties
<1>10. \A n \in 1 .. Len(Units("reg")) : Units("reg")[n].how = "pre"
  BY <1>4, <1>9
<1>11. QED
  BY <1>1, <1>9, <1>10 DEF Shape

\* All three generators have their shape.
LEMMA Shapes == ASSUME cfg \in Configs PROVE \A g \in Generators : Shape(g)
BY ShapeIn, ShapeOut, ShapeReg DEF Generators

(***************************************************************************)
(* The inductive invariant.                                                *)
(***************************************************************************)

\* The counter leads the indices given so far, which grow from unit to unit; while
\* the cores are numbered it is the next free index, later the last one given.
Spaced ==
  gen # "done" /\ i < IdxValues /\ ArraysFit(gen) =>
    \A n \in 1 .. Len(port) : Separate(Units(gen)[n]) =>
      /\ port[n] <= i
      /\ gen = "in" /\ Len(port) <= cfg.NumCores => port[n] < i
      /\ \A m \in 1 .. n - 1 : Separate(Units(gen)[m]) => port[m] < port[n]

IInv == TypeOK /\ Spaced /\ PortsApart

\* A number below the index range is its own index.
LEMMA IdxSame == ASSUME NEW n \in Nat, n < IdxValues PROVE Idx(n) = n
BY IdxAssumption DEF Idx

\* An index is a natural number.
LEMMA IdxNat == ASSUME NEW n \in Nat PROVE Idx(n) \in Nat
BY IdxAssumption DEF Idx

\* No unit has an index yet.
LEMMA InitInv == Init => IInv
<1> SUFFICES ASSUME Init PROVE IInv
  OBVIOUS
<1> USE DEF Init
<1>1. TypeOK
  BY Shapes DEF TypeOK, Shape, Generators
<1>2. Spaced
  BY DEF Spaced
<1>3. PortsApart
  BY DEF PortsApart, Past, Generators
<1>4. QED
  BY <1>1, <1>2, <1>3 DEF IInv

\* A finished generator stays as it is.
LEMMA ApartKept ==
  ASSUME NEW g \in Generators, Fits(g) => Apart(g), cfg' = cfg, made'[g] = made[g]
  PROVE  (Fits(g) => Apart(g))'
<1>1. Units(g)' = Units(g) /\ ExtPorts(g)' = ExtPorts(g)
  BY DEF Units, ExtPorts
<1>2. ArraysFit(g)' = ArraysFit(g)
  BY <1>1 DEF ArraysFit
<1>3. Fits(g)' = Fits(g)
  BY <1>1, <1>2 DEF Fits
<1>4. Ports(g)' = Ports(g)
  BY DEF Ports
<1>5. Apart(g) => Apart(g)'
  BY <1>1, <1>4 DEF Apart, Separate
<1>6. QED
  BY <1>3, <1>5

\* A step within a generator leaves the finished ones apart.
LEMMA StepWithin ==
  ASSUME IInv, UNCHANGED <<cfg, gen, made>>
  PROVE  PortsApart'
<1> SUFFICES ASSUME NEW g \in Generators, Past(g)' PROVE (Fits(g) => Apart(g))'
  BY DEF PortsApart, Generators
<1>1. Past(g)
  BY DEF Past
<1>2. Fits(g) => Apart(g)
  BY <1>1 DEF IInv, PortsApart, Generators
<1>3. QED
  BY <1>2, ApartKept

\* An enabled unit gets an index past all others: the three ways to count.
LEMMA AddUnitInv == ASSUME IInv, AddUnit PROVE IInv'
<1> DEFINE n == Len(port) + 1
           u == Units(gen)[n]
<1>1. Units(gen)' = Units(gen) /\ cfg' = cfg /\ gen' = gen /\ gen \in Generators
  BY DEF IInv, TypeOK, AddUnit, Units
<1>2. Shape(gen) /\ n \in 1 .. Len(Units(gen)) /\ cfg.NumCores \in Nat
  BY <1>1, Shapes, ConfigsAssumption DEF IInv, TypeOK, AddUnit, Shape
<1>3. u = Current /\ u.on
  BY DEF Current, AddUnit
<1>4. i \in Nat /\ port \in Seq(Nat)
  BY DEF IInv, TypeOK
<1>5. PortsApart'
  BY StepWithin DEF AddUnit
<1>6. Assigned(u) = (IF u.how = "pre" THEN i + 1 ELSE i) /\ Counted(u) = (IF u.how = "same" THEN i ELSE i + 1)
  BY DEF Assigned, Counted
<1>7. port' = Append(port, IF u.j < MaxCores THEN Idx(Assigned(u)) ELSE 0) /\ i' = Counted(u)
  BY <1>3 DEF AddUnit
<1> HIDE DEF u
<1>8. Assigned(u) \in Nat /\ Counted(u) \in Nat
  BY <1>4, <1>6
<1>9. i' \in Nat /\ port' \in Seq(Nat) /\ Len(port') = n
  BY <1>4, <1>7, <1>8, IdxNat
<1>10. TypeOK'
  BY <1>1, <1>2, <1>9 DEF IInv, TypeOK, AddUnit
<1>11. Spaced'
  <2> SUFFICES ASSUME i' < IdxValues, ArraysFit(gen)
               PROVE  \A k \in 1 .. n : Separate(Units(gen)[k]) =>
                        /\ port'[k] <= i'
                        /\ gen = "in" /\ n <= cfg.NumCores => port'[k] < i'
                        /\ \A m \in 1 .. k - 1 : Separate(Units(gen)[m]) => port'[m] < port'[k]
    <3>1. ArraysFit(gen)' = ArraysFit(gen) /\ Len(port') = n
      BY <1>1, <1>9 DEF ArraysFit
    <3>2. QED
      BY <1>1, <3>1 DEF Spaced, Separate
  <2>1. i <= i' /\ i < IdxValues
    BY <1>4, <1>6, <1>7, IdxAssumption
  <2>2. port'[n] = Assigned(u)
    <3>1. u.j < MaxCores
      BY <1>2, <1>3 DEF ArraysFit, Shape, u
    <3>2. Assigned(u) < IdxValues
      BY <1>2, <1>4, <1>6, <1>7, <2>1, IdxAssumption DEF Shape, u
    <3>3. QED
      BY <1>4, <1>7, <1>8, <3>1, <3>2, IdxSame
  <2>3. \A k \in 1 .. n - 1 : port'[k] = port[k] /\ port[k] \in Nat
    BY <1>4, <1>7
  <2>4. \A k \in 1 .. n - 1 : Separate(Units(gen)[k]) =>
          /\ port[k] <= i
          /\ gen = "in" /\ n <= cfg.NumCores + 1 => port[k] < i
          /\ \A m \in 1 .. k - 1 : Separate(Units(gen)[m]) => port[m] < port[k]
    <3>1. Len(port) \in Nat /\ n = Len(port) + 1 /\ gen # "done"
      BY <1>4 DEF AddUnit
    <3>2. \A k \in 1 .. Len(port) : Separate(Units(gen)[k]) =>
            /\ port[k] <= i
            /\ gen = "in" /\ Len(port) <= cfg.NumCores => port[k] < i
            /\ \A m \in 1 .. k - 1 : Separate(Units(gen)[m]) => port[m] < port[k]
      BY <2>1, <3>1 DEF IInv, Spaced
    <3>3. n - 1 = Len(port) /\ (n <= cfg.NumCores + 1 <=> Len(port) <= cfg.NumCores)
      BY <1>2, <3>1
    <3> HIDE DEF n
    <3>4. QED
      BY <3>2, <3>3
  <2>5. /\ u.how \in {"pre", "same", "post"}
        /\ u.how = "post" <=> gen = "in" /\ n <= cfg.NumCores
        /\ gen = "in" => (u.how = "same" <=> n = cfg.NumCores + 1)
        /\ u.how = "same" /\ gen # "in" => u.name # "dbg"
    BY <1>2 DEF Shape, u
  <2>6. n \in Nat \ {0}
    BY <1>4
  <2> HIDE DEF n
  <2>7. Separate(u) =>
          /\ Assigned(u) <= i'
          /\ gen = "in" /\ n <= cfg.NumCores => Assigned(u) < i'
          /\ \A m \in 1 .. n - 1 : Separate(Units(gen)[m]) => port[m] < Assigned(u)
    <3> SUFFICES ASSUME Separate(u)
                 PROVE  /\ Assigned(u) <= i'
                        /\ gen = "in" /\ n <= cfg.NumCores => Assigned(u) < i'
                        /\ \A m \in 1 .. n - 1 : Separate(Units(gen)[m]) => port[m] < Assigned(u)
      OBVIOUS
    <3>1. CASE u.how = "pre"
      <4>1. Assigned(u) = i + 1 /\ i' = i + 1
        BY <1>6, <1>7, <3>1
      <4>2. QED
        BY <1>2, <1>4, <2>3, <2>4, <2>5, <3>1, <4>1
    <3>2. CASE u.how = "post"
      <4>1. Assigned(u) = i /\ i' = i + 1
        BY <1>6, <1>7, <3>2
      <4>2. gen = "in" /\ n <= cfg.NumCores + 1
        BY <1>2, <2>5, <2>6, <3>2
      <4>3. QED
        BY <1>4, <2>4, <4>1, <4>2
    <3>3. CASE u.how = "same"
      <4>1. Assigned(u) = i /\ i' = i
        BY <1>6, <1>7, <3>3
      <4>2. gen = "in" /\ n = cfg.NumCores + 1
        BY <2>5, <3>3 DEF Separate
      <4>3. QED
        BY <1>2, <1>4, <2>4, <4>1, <4>2
    <3>4. QED
      BY <2>5, <3>1, <3>2, <3>3
  <2>8. SUFFICES ASSUME NEW k \in 1 .. n, Separate(Units(gen)[k])
                 PROVE  /\ port'[k] <= i'
                        /\ gen = "in" /\ n <= cfg.NumCores => port'[k] < i'
                        /\ \A m \in 1 .. k - 1 : Separate(Units(gen)[m]) => port'[m] < port'[k]
    OBVIOUS
  <2>9. CASE k = n
    BY <2>2, <2>3, <2>6, <2>7, <2>8, <2>9 DEF u
  <2>10. CASE k < n
    <3>1. k \in 1 .. n - 1 /\ \A m \in 1 .. k - 1 : m \in 1 .. n - 1
      BY <2>6, <2>10
    <3>2. i \in Nat /\ i' \in Nat /\ cfg.NumCores \in Nat
      BY <1>2, <1>4, <1>9
    <3>3. QED
      BY <2>1, <2>3, <2>4, <2>6, <2>8, <3>1, <3>2
  <2>11. QED
    BY <2>6, <2>9, <2>10
<1>12. QED
  BY <1>5, <1>10, <1>11 DEF IInv

\* A disabled unit changes nothing that counts.
LEMMA SkipUnitInv == ASSUME IInv, SkipUnit PROVE IInv'
<1> DEFINE n == Len(port) + 1
<1>1. Units(gen)' = Units(gen) /\ cfg' = cfg /\ gen' = gen /\ gen \in Generators /\ i' = i
  BY DEF IInv, TypeOK, SkipUnit, Units
<1>2. Shape(gen) /\ n \in 1 .. Len(Units(gen)) /\ cfg.NumCores \in Nat
  BY <1>1, Shapes, ConfigsAssumption DEF IInv, TypeOK, SkipUnit, Shape
<1>3. i \in Nat /\ port \in Seq(Nat)
  BY DEF IInv, TypeOK
<1>4. ~Separate(Units(gen)[n])
  BY DEF SkipUnit, Current, Separate
<1>5. /\ port' \in Seq(Nat) /\ Len(port') = n
      /\ \A k \in 1 .. n - 1 : port'[k] = port[k]
  BY <1>3 DEF SkipUnit
<1>6. PortsApart'
  BY StepWithin DEF SkipUnit
<1>7. TypeOK'
  BY <1>1, <1>2, <1>5 DEF IInv, TypeOK, SkipUnit
<1>8. Spaced'
  <2> SUFFICES ASSUME i < IdxValues, ArraysFit(gen),
                      NEW k \in 1 .. n, Separate(Units(gen)[k])
               PROVE  /\ port'[k] <= i
                      /\ gen = "in" /\ n <= cfg.NumCores => port'[k] < i
                      /\ \A m \in 1 .. k - 1 : Separate(Units(gen)[m]) => port'[m] < port'[k]
    <3>1. ArraysFit(gen)' = ArraysFit(gen)
      BY <1>1 DEF ArraysFit
    <3>2. QED
      BY <1>1, <1>5, <3>1 DEF Spaced, Separate
  <2>1. k \in 1 .. Len(port) /\ Len(port) \in Nat /\ \A m \in 1 .. k - 1 : m \in 1 .. Len(port)
    BY <1>3, <1>4
  <2>2. /\ port[k] <= i
        /\ gen = "in" /\ Len(port) <= cfg.NumCores => port[k] < i
        /\ \A m \in 1 .. k - 1 : Separate(Units(gen)[m]) => port[m] < port[k]
    BY <2>1 DEF IInv, Spaced, SkipUnit
  <2>3. QED
    BY <1>2, <1>5, <2>1, <2>2
<1>9. QED
  BY <1>6, <1>7, <1>8 DEF IInv

\* A generator that ends has kept its ports apart.
LEMMA FinishApart ==
  ASSUME IInv, Finish, NEW g, g = gen
  PROVE  (Fits(g) => Apart(g))'
<1>1. g \in Generators /\ i \in Nat /\ port \in Seq(Nat) /\ cfg' = cfg /\ cfg \in Configs
  BY DEF IInv, TypeOK, Finish, Generators
<1>2. Units(g)' = Units(g) /\ ExtPorts(g)' = ExtPorts(g)
  BY <1>1 DEF Units, ExtPorts
<1>3. ExtPorts(g) \in Nat
  BY <1>1, ConfigsAssumption DEF ExtPorts, Generators
<1>4. /\ made'[g].port = port /\ made'[g].i = i
      /\ made'[g].ext_base = Idx(i + 1) /\ made'[g].num = Idx(i + 1 + ExtPorts(g))
  BY <1>1 DEF IInv, TypeOK, Finish
<1>5. SUFFICES ASSUME i + 1 + ExtPorts(g) < IdxValues, ArraysFit(g) PROVE Apart(g)'
  BY <1>2, <1>4 DEF Fits, ArraysFit
<1>6. Idx(i + 1) = i + 1 /\ Idx(i + 1 + ExtPorts(g)) = i + 1 + ExtPorts(g)
  <2>1. i + 1 \in Nat /\ i + 1 < IdxValues /\ i + 1 + ExtPorts(g) \in Nat
    BY <1>1, <1>3, <1>5, IdxAssumption
  <2>2. QED
    BY <1>5, <2>1, IdxSame
<1>7. DOMAIN Units(g) = 1 .. Len(port)
  BY <1>1, Shapes DEF Finish, Shape
<1>8. \A n \in 1 .. Len(port) : Separate(Units(g)[n]) =>
        /\ port[n] <= i
        /\ \A m \in 1 .. n - 1 : Separate(Units(g)[m]) => port[m] < port[n]
  <2>1. i < IdxValues /\ gen # "done"
    BY <1>1, <1>3, <1>5, IdxAssumption DEF Finish
  <2>2. QED
    BY <1>5, <2>1 DEF IInv, Spaced
<1>9. \A n \in 1 .. Len(port) : port[n] \in Nat
  BY <1>1
<1>10. \A m, n \in 1 .. Len(port) :
         Separate(Units(g)[m]) /\ Separate(Units(g)[n]) =>
           /\ m # n => port[m] # port[n]
           /\ port[m] < i + 1
  <2> SUFFICES ASSUME NEW m \in 1 .. Len(port), NEW n \in 1 .. Len(port),
                      Separate(Units(g)[m]), Separate(Units(g)[n])
               PROVE  (m # n => port[m] # port[n]) /\ port[m] < i + 1
    OBVIOUS
  <2>1. port[m] < i + 1
    BY <1>1, <1>8, <1>9
  <2>2. CASE m < n
    BY <1>8, <1>9, <2>1, <2>2
  <2>3. CASE n < m
    BY <1>8, <1>9, <2>1, <2>3
  <2>4. QED
    BY <1>1, <2>1, <2>2, <2>3
<1>11. QED
  BY <1>2, <1>4, <1>6, <1>7, <1>10 DEF Apart, Ports, Separate

\* The next generator starts with as many units as were set beforehand.
LEMMA BeginInv ==
  ASSUME cfg \in Configs, cfg' = cfg, NEW g \in {"out", "reg"}, Begin(g)
  PROVE  /\ i' \in Nat /\ port' \in Seq(Nat) /\ Len(port') <= Len(Units(g))
         /\ Spaced'
<1>1. Units(g)' = Units(g) /\ Shape(g)
  BY Shapes DEF Units, Generators
<1>2. CASE g = "out"
  <2>1. gen' = "out" /\ i' = 1 /\ port' = <<0, 1>>
    BY <1>2 DEF Begin, Preset
  <2>2. Spaced'
    BY <2>1 DEF Spaced
  <2>3. QED
    BY <1>1, <1>2, <2>1, <2>2 DEF Shape
<1>3. CASE g = "reg"
  <2>1. gen' = "reg" /\ i' = 3 /\ port' = <<1, 2, 3>>
    BY <1>3 DEF Begin, Preset
  <2>2. Spaced'
    BY <2>1 DEF Spaced
  <2>3. QED
    BY <1>1, <1>3, <2>1, <2>2 DEF Shape
<1>4. QED
  BY <1>2, <1>3

\* A generator ends and the next begins.
LEMMA FinishInv == ASSUME IInv, Finish PROVE IInv'
<1>1. /\ gen \in Generators /\ i \in Nat /\ port \in Seq(Nat)
      /\ cfg' = cfg /\ cfg \in Configs /\ DOMAIN made = Generators
  BY DEF IInv, TypeOK, Finish, Generators
<1>2. DOMAIN made' = Generators /\ \A g \in Generators \ {gen} : made'[g] = made[g]
  BY <1>1 DEF Finish
<1>3. PortsApart'
  <2> SUFFICES ASSUME NEW g \in Generators, Past(g)' PROVE (Fits(g) => Apart(g))'
    BY DEF PortsApart, Generators
  <2>1. CASE g = gen
    BY <2>1, FinishApart
  <2>2. CASE g # gen
    <3>1. Past(g)
      <4>1. gen' = Following(gen)
        BY DEF Finish, Begin
      <4>2. CASE gen = "in"
        <5>1. gen' = "out"
          BY <4>1, <4>2 DEF Following
        <5>2. g # "out" /\ g # "reg"
          BY <5>1 DEF Past
        <5>3. QED
          BY <2>2, <4>2, <5>2 DEF Generators
      <4>3. CASE gen = "out"
        <5>1. gen' = "reg"
          BY <4>1, <4>3 DEF Following
        <5>2. g # "reg"
          BY <5>1 DEF Past
        <5>3. g = "in"
          BY <2>2, <4>3, <5>2 DEF Generators
        <5>4. QED
          BY <4>3, <5>3 DEF Past
      <4>4. CASE gen = "reg"
        <5>1. g = "in" \/ g = "out"
          BY <2>2, <4>4 DEF Generators
        <5>2. QED
          BY <4>4, <5>1 DEF Past
      <4>5. QED
        BY <1>1, <4>2, <4>3, <4>4 DEF Generators
    <3>2. Fits(g) => Apart(g)
      BY <3>1 DEF IInv, PortsApart, Generators
    <3>3. QED
      BY <1>1, <1>2, <2>2, <3>2, ApartKept
  <2>3. QED
    BY <2>1, <2>2
<1>4. CASE Following(gen) = "done"
  <2>1. gen' = "done" /\ i' = i /\ port' = port
    BY <1>4 DEF Finish
  <2>2. QED
    BY <1>1, <1>2, <1>3, <2>1 DEF IInv, TypeOK, Spaced
<1>5. CASE Following(gen) # "done"
  <2>1. Following(gen) \in {"out", "reg"} /\ Begin(Following(gen)) /\ gen' = Following(gen)
    BY <1>5 DEF Finish, Following, Begin
  <2>2. /\ i' \in Nat /\ port' \in Seq(Nat) /\ Len(port') <= Len(Units(Following(gen))) /\ Spaced'
    BY <1>1, <2>1, BeginInv
  <2>3. Units(gen)' = Units(Following(gen))
    BY <1>1, <2>1 DEF Units
  <2>4. QED
    BY <1>1, <1>2, <1>3, <2>1, <2>2, <2>3 DEF IInv, TypeOK, Generators
<1>6. QED
  BY <1>4, <1>5

\* Nor does it if nothing changes.
LEMMA StutterInv == ASSUME IInv, UNCHANGED vars PROVE IInv'
<1>1. PortsApart'
  BY StepWithin DEF vars
<1>2. TypeOK'
  BY DEF vars, IInv, TypeOK, Units
<1>3. Spaced'
  BY DEF vars, IInv, Spaced, ArraysFit, Units, Separate
<1>4. QED
  BY <1>1, <1>2, <1>3 DEF IInv

(***************************************************************************)
(* What the cores may do with an address.                                  *)
(***************************************************************************)

\* The flags, each from its set of regions.
LEMMA FlagsFrom ==
  ASSUME NEW a
  PROVE  CoreFlags(a) = (IF In(a, Cached) THEN {"C"} ELSE {})
                          \cup (IF In(a, NonIdempotent) THEN {} ELSE {"I"})
                          \cup (IF In(a, Executable) THEN {"E"} ELSE {})
<1>1. CoreFlags(a) \subseteq {"C", "I", "E"}
  BY DEF CoreFlags
<1>2. "C" \in CoreFlags(a) <=> In(a, Cached)
  BY DEF CoreFlags
<1>3. "I" \in CoreFlags(a) <=> ~In(a, NonIdempotent)
  BY DEF CoreFlags
<1>4. "E" \in CoreFlags(a) <=> In(a, Executable)
  BY DEF CoreFlags
<1> HIDE DEF In
<1>5. QED
  BY <1>1, <1>2, <1>3, <1>4

\* The regions the generator of the core's configuration names, one by one.
LEMMA Named ==
  ASSUME NEW a
  PROVE  /\ In(a, Cached) <=> Inside(a, Spm(cfg)) \/ Inside(a, cfg.LlcOut) \/ Inside(a, Cie)
         /\ In(a, NonIdempotent) <=>
              \/ Inside(a, Region(EXTROM.start, SPM_BASE_ADDR))
              \/ Inside(a, Region(NoCieBase, ExtEnd - ExtStart - cfg.CieLength))
         /\ In(a, Executable) <=>
              In(a, Cached) \/ Inside(a, EXTROM) \/ Inside(a, BOOTROM) \/ Inside(a, SpmUnc(cfg))
<1>1. In(a, Cached) <=> Inside(a, Spm(cfg)) \/ Inside(a, cfg.LlcOut) \/ Inside(a, Cie)
  BY DEF In, Cached
<1>2. In(a, NonIdempotent) <=>
        \/ Inside(a, Region(EXTROM.start, SPM_BASE_ADDR))
        \/ Inside(a, Region(NoCieBase, ExtEnd - ExtStart - cfg.CieLength))
  BY DEF In, NonIdempotent
<1>3. In(a, Executable) <=>
        In(a, Cached) \/ Inside(a, EXTROM) \/ Inside(a, BOOTROM) \/ Inside(a, SpmUnc(cfg))
  BY DEF In, Executable
<1>4. QED
  BY <1>1, <1>2, <1>3

\* Which of those regions an address can be in, by its part of the address space.
LEMMA Bounds ==
  ASSUME cfg \in Configs, NEW a \in Int
  PROVE  /\ Inside(a, Spm(cfg)) => SPM_BASE_ADDR <= a /\ a < SPM_UNC_BASE_ADDR
         /\ Inside(a, SpmUnc(cfg)) => SPM_UNC_BASE_ADDR <= a /\ a < ExtStart
         /\ Inside(a, cfg.LlcOut) => ExtEnd <= a
         /\ Inside(a, Cie) => ExtStart <= a /\ a < ExtEnd
         /\ Inside(a, EXTROM) \/ Inside(a, BOOTROM) => 0 <= a /\ a < SPM_BASE_ADDR
         /\ Inside(a, Region(EXTROM.start, SPM_BASE_ADDR)) <=> 0 <= a /\ a < SPM_BASE_ADDR
         /\ Inside(a, Region(NoCieBase, ExtEnd - ExtStart - cfg.CieLength)) <=>
              ExtStart <= a /\ a < ExtEnd /\ ~Inside(a, Cie)
<1>1. /\ cfg.LlcSize \in Nat /\ cfg.LlcSize <= 64 * MiB /\ cfg.CieLength \in Nat
      /\ cfg.CieLength <= ExtEnd - ExtStart
      /\ cfg.LlcOut.start \in Nat /\ cfg.LlcOut.start >= ExtEnd
  BY RegionsAssumption DEF Spm, Region, SPM_BASE_ADDR, SPM_UNC_BASE_ADDR, MiB, KiB
<1>2. /\ Inside(a, Spm(cfg)) => SPM_BASE_ADDR <= a /\ a < SPM_UNC_BASE_ADDR
      /\ Inside(a, SpmUnc(cfg)) => SPM_UNC_BASE_ADDR <= a /\ a < ExtStart
  BY <1>1 DEF Inside, Spm, SpmUnc, Region, SPM_BASE_ADDR, SPM_UNC_BASE_ADDR, ExtStart, MiB, KiB
<1>3. Inside(a, cfg.LlcOut) => ExtEnd <= a
  BY <1>1 DEF Inside, ExtEnd, MiB, KiB
<1>4. Inside(a, Cie) => ExtStart <= a /\ a < ExtEnd
  BY <1>1 DEF Inside, Cie, CieBase, Region, ExtStart, ExtEnd, MiB, KiB
<1>5. /\ Inside(a, EXTROM) \/ Inside(a, BOOTROM) => 0 <= a /\ a < SPM_BASE_ADDR
      /\ Inside(a, Region(EXTROM.start, SPM_BASE_ADDR)) <=> 0 <= a /\ a < SPM_BASE_ADDR
  BY DEF Inside, EXTROM, BOOTROM, Region, SPM_BASE_ADDR, MiB, KiB
<1>6. Inside(a, Region(NoCieBase, ExtEnd - ExtStart - cfg.CieLength)) <=>
        ExtStart <= a /\ a < ExtEnd /\ ~Inside(a, Cie)
  <2>1. CASE Feature("CieOnTop")
    BY <1>1, <2>1 DEF Inside, Cie, CieBase, NoCieBase, Region, ExtStart, ExtEnd, MiB, KiB
  <2>2. CASE ~Feature("CieOnTop")
    BY <1>1, <2>2 DEF Inside, Cie, CieBase, NoCieBase, Region, ExtStart, ExtEnd, MiB, KiB
  <2>3. QED
    BY <2>1, <2>2
<1>7. QED
  BY <1>2, <1>3, <1>4, <1>5, <1>6

\* Where the parts of the address space that the cores tell apart begin.
LEMMA Parts ==
  /\ SPM_BASE_ADDR \in Int /\ SPM_UNC_BASE_ADDR \in Int /\ ExtStart \in Int /\ ExtEnd \in Int
  /\ 0 < SPM_BASE_ADDR /\ SPM_BASE_ADDR < SPM_UNC_BASE_ADDR
  /\ SPM_UNC_BASE_ADDR < ExtStart /\ ExtStart < ExtEnd
BY DEF SPM_BASE_ADDR, SPM_UNC_BASE_ADDR, ExtStart, ExtEnd, MiB, KiB

\* Below the SPM nothing is cached or repeated, and only the ROMs are executed.
LEMMA FlagsLow ==
  ASSUME cfg \in Configs, NEW a \in Int, 0 <= a, a < SPM_BASE_ADDR
  PROVE  CoreFlags(a) = IF Inside(a, EXTROM) \/ Inside(a, BOOTROM) THEN {"E"} ELSE {}
<1>1. ~Inside(a, Spm(cfg)) /\ ~Inside(a, SpmUnc(cfg)) /\ ~Inside(a, cfg.LlcOut) /\ ~Inside(a, Cie)
  BY Bounds, Parts
<1>2. Inside(a, Region(EXTROM.start, SPM_BASE_ADDR))
  BY Bounds
<1>3. /\ ~In(a, Cached) /\ In(a, NonIdempotent)
      /\ In(a, Executable) <=> Inside(a, EXTROM) \/ Inside(a, BOOTROM)
  BY <1>1, <1>2, Named
<1>4. QED
  BY <1>3, FlagsFrom, Zenon

\* The cached SPM and the LLC's output have all flags, the uncached SPM is not cached.
LEMMA FlagsLlc ==
  ASSUME cfg \in Configs, NEW a \in Int,
         Inside(a, Spm(cfg)) \/ Inside(a, SpmUnc(cfg)) \/ Inside(a, cfg.LlcOut)
  PROVE  CoreFlags(a) = IF Inside(a, SpmUnc(cfg)) THEN {"I", "E"} ELSE {"C", "I", "E"}
<1>1. /\ ~Inside(a, Region(EXTROM.start, SPM_BASE_ADDR))
      /\ ~Inside(a, Region(NoCieBase, ExtEnd - ExtStart - cfg.CieLength))
  BY Bounds, Parts
<1>2. Inside(a, SpmUnc(cfg)) => ~Inside(a, Spm(cfg)) /\ ~Inside(a, cfg.LlcOut) /\ ~Inside(a, Cie)
  BY Bounds, Parts
<1>3. In(a, Executable) /\ ~In(a, NonIdempotent) /\ (In(a, Cached) <=> ~Inside(a, SpmUnc(cfg)))
  BY <1>1, <1>2, Named
<1>4. CASE Inside(a, SpmUnc(cfg))
  <2>1. CoreFlags(a) = {} \cup {"I"} \cup {"E"}
    BY <1>3, <1>4, FlagsFrom
  <2>2. QED
    BY <1>4, <2>1
<1>5. CASE ~Inside(a, SpmUnc(cfg))
  <2>1. CoreFlags(a) = {"C"} \cup {"I"} \cup {"E"}
    BY <1>3, <1>5, FlagsFrom
  <2>2. QED
    BY <1>5, <2>1
<1>6. QED
  BY <1>4, <1>5

\* The external on-chip region has a part with all flags and a part with none.
LEMMA FlagsExt ==
  ASSUME cfg \in Configs, NEW a \in Int, ExtStart <= a, a < ExtEnd
  PROVE  CoreFlags(a) = IF Inside(a, Cie) THEN {"C", "I", "E"} ELSE {}
<1>1. /\ ~Inside(a, Region(EXTROM.start, SPM_BASE_ADDR)) /\ ~Inside(a, EXTROM) /\ ~Inside(a, BOOTROM)
      /\ ~Inside(a, Spm(cfg)) /\ ~Inside(a, SpmUnc(cfg)) /\ ~Inside(a, cfg.LlcOut)
      /\ Inside(a, Region(NoCieBase, ExtEnd - ExtStart - cfg.CieLength)) <=> ~Inside(a, Cie)
  BY Bounds, Parts
<1>2. /\ In(a, Cached) <=> Inside(a, Cie)
      /\ In(a, NonIdempotent) <=> ~Inside(a, Cie)
      /\ In(a, Executable) <=> Inside(a, Cie)
  BY <1>1, Named
<1>3. CASE Inside(a, Cie)
  <2>1. CoreFlags(a) = {"C"} \cup {"I"} \cup {"E"}
    BY <1>2, <1>3, FlagsFrom
  <2>2. QED
    BY <1>3, <2>1
<1>4. CASE ~Inside(a, Cie)
  <2>1. CoreFlags(a) = {} \cup {} \cup {}
    BY <1>2, <1>4, FlagsFrom
  <2>2. QED
    BY <1>4, <2>1
<1>5. QED
  BY <1>3, <1>4

\* A region below the SPM that neither ROM overlaps.
Plain(g) ==
  \A a \in Int : Inside(a, g) =>
    0 <= a /\ a < SPM_BASE_ADDR /\ ~Inside(a, EXTROM) /\ ~Inside(a, BOOTROM)

\* The regions of the units behind the demultiplexer, those that come once.
LEMMA PlainOnce ==
  /\ Plain(DMA) /\ Plain(CLINT) /\ Plain(IRQ_ROUTER) /\ Plain(AXIRT) /\ Plain(REGS) /\ Plain(PLIC)
  /\ \A n \in 1 .. 8 : Plain(PAGE(n))
<1> USE DEF Plain, Inside, Region, EXTROM, BOOTROM, SPM_BASE_ADDR, MiB, KiB
<1>1. Plain(DMA) /\ Plain(CLINT) /\ Plain(IRQ_ROUTER)
  BY DEF DMA, CLINT, IRQ_ROUTER
<1>2. Plain(AXIRT) /\ Plain(REGS) /\ Plain(PLIC)
  BY DEF AXIRT, REGS, PLIC
<1>3. \A n \in 1 .. 8 : Plain(PAGE(n))
  BY DEF PAGE
<1>4. QED
  BY <1>1, <1>2, <1>3

\* Those that come with every core.
LEMMA PlainPerCore ==
  ASSUME cfg \in Configs, NEW j \in 0 .. cfg.NumCores + 1
  PROVE  Plain(BUS_ERR(j)) /\ (j < cfg.NumCores => Plain(CLIC(j)))
<1>1. cfg.NumCores \in Nat /\ cfg.NumCores <= 256
  BY ConfigsAssumption, RegionsAssumption DEF CLIC, Region, REG_DEMUX, BOOTROM, MiB, KiB
<1>2. j \in Nat /\ j <= 257 /\ (j < cfg.NumCores => j <= 255)
  BY <1>1
<1> USE DEF Plain, Inside, Region, EXTROM, BOOTROM, SPM_BASE_ADDR, MiB, KiB
<1>3. Plain(BUS_ERR(j))
  BY <1>2 DEF BUS_ERR
<1>4. j < cfg.NumCores => Plain(CLIC(j))
  BY <1>2 DEF CLIC
<1>5. QED
  BY <1>3, <1>4

\* The memory map's own units: the cache and its memory, the two ROMs, and others.
LEMMA Blocks ==
  ASSUME cfg \in Configs, NEW e \in MemoryMap, e[1] \notin {"slink", "axi", "reg"}
  PROVE  \/ e[1] = "llc" /\ e[4] \in {Spm(cfg), SpmUnc(cfg), cfg.LlcOut}
         \/ e[1] = "dbg" /\ e[4] = EXTROM
         \/ e[1] = "bootrom" /\ e[4] = BOOTROM
         \/ e[1] \notin {"llc", "dbg", "bootrom"} /\ Plain(e[4])
<1> DEFINE one == {<<"dbg", 0, {}, EXTROM>>, <<"dma", 0, {"Dma"}, DMA>>, <<"bootrom", 0, {"Bootrom"}, BOOTROM>>,
                   <<"clint", 0, {}, CLINT>>, <<"irq_router", 0, {"IrqRouter"}, IRQ_ROUTER>>,
                   <<"axirt", 0, {"AxiRt"}, AXIRT>>, <<"regs", 0, {}, REGS>>, <<"plic", 0, {}, PLIC>>}
           two == {<<"llc_cfg", 0, {"LlcOutConnect", "LlcNotBypass"}, PAGE(1)>>,
                   <<"uart", 0, {"Uart"}, PAGE(2)>>, <<"i2c", 0, {"I2c"}, PAGE(3)>>,
                   <<"spi_host", 0, {"SpiHost"}, PAGE(4)>>, <<"gpio", 0, {"Gpio"}, PAGE(5)>>,
                   <<"slink_cfg", 0, {"SerialLink"}, PAGE(6)>>, <<"vga", 0, {"Vga"}, PAGE(7)>>,
                   <<"usb", 0, {"Usb"}, PAGE(8)>>}
           three == {<<"bus_err", 0, {"BusErr", "Vga"}, BUS_ERR(0)>>, <<"bus_err", 1, {"BusErr", "Dma"}, BUS_ERR(1)>>}
           four == {<<"llc", 0, {"LlcOutConnect", "LlcNotBypass"}, Spm(cfg)>>,
                    <<"llc", 0, {"LlcOutConnect", "LlcNotBypass"}, SpmUnc(cfg)>>,
                    <<"llc", 0, {"LlcOutConnect"}, cfg.LlcOut>>, <<"slink", 0, {"SerialLink"}, cfg.Slink>>}
           five == {<<"clic", j, {"Clic"}, CLIC(j)>> : j \in 0 .. cfg.NumCores - 1}
           six == {<<"bus_err", 2 + j, {"BusErr"}, BUS_ERR(2 + j)>> : j \in 0 .. cfg.NumCores - 1}
<1>1. cfg.NumCores \in Nat \ {0}
  BY ConfigsAssumption
<1>2. e \in one \cup two \cup three \cup four \cup five \cup six
  <2>1. \/ e \in one \cup two \cup three \cup four \cup five \cup six
        \/ \E x \in DOMAIN cfg.AxiExt : e = <<"axi", cfg.AxiExt[x].idx, {}, cfg.AxiExt[x]>>
        \/ \E x \in DOMAIN cfg.RegExt : e = <<"reg", cfg.RegExt[x].idx, {}, cfg.RegExt[x]>>
    BY Zenon DEF MemoryMap
  <2>2. QED
    BY <2>1
<1>3. CASE e \in one
  BY <1>3, PlainOnce
<1>4. CASE e \in two
  BY <1>4, PlainOnce
<1>5. CASE e \in three
  <2>1. Plain(BUS_ERR(0)) /\ Plain(BUS_ERR(1))
    BY <1>1, PlainPerCore
  <2>2. QED
    BY <1>5, <2>1
<1>6. CASE e \in four
  BY <1>6
<1>7. CASE e \in five
  <2>1. PICK j \in 0 .. cfg.NumCores - 1 : e = <<"clic", j, {"Clic"}, CLIC(j)>>
    BY <1>7
  <2>2. Plain(CLIC(j))
    BY <1>1, PlainPerCore
  <2>3. QED
    BY <2>1, <2>2
<1>8. CASE e \in six
  <2>1. PICK j \in 0 .. cfg.NumCores - 1 : e = <<"bus_err", 2 + j, {"BusErr"}, BUS_ERR(2 + j)>>
    BY <1>8
  <2>2. Plain(BUS_ERR(2 + j))
    BY <1>1, PlainPerCore
  <2>3. QED
    BY <2>1, <2>2
<1>9. QED
  BY <1>2, <1>3, <1>4, <1>5, <1>6, <1>7, <1>8

\* The cores have the flags of the unit, at every word of its region.
LEMMA FlagsOfUnit ==
  ASSUME cfg \in Configs, NEW o \in Owned, NEW a \in Int, Inside(a, o.region),
         o.unit[1] \notin {"slink", "axi", "reg"}
  PROVE  CoreFlags(a) = UnitFlags(o.unit[1], a)
<1>1. PICK e \in MemoryMap : o = [unit |-> <<e[1], e[2]>>, region |-> e[4]]
  BY Zenon DEF Owned
<1>2. o.unit[1] = e[1] /\ o.region = e[4]
  BY <1>1
<1>3. CASE e[1] = "llc" /\ e[4] \in {Spm(cfg), SpmUnc(cfg), cfg.LlcOut}
  <2>1. CoreFlags(a) = IF Inside(a, SpmUnc(cfg)) THEN {"I", "E"} ELSE {"C", "I", "E"}
    BY <1>2, <1>3, FlagsLlc
  <2>2. UnitFlags(o.unit[1], a) = IF Inside(a, SpmUnc(cfg)) THEN {"I", "E"} ELSE {"C", "I", "E"}
    BY <1>2, <1>3 DEF UnitFlags
  <2>3. QED
    BY <2>1, <2>2
<1>4. CASE e[1] \in {"dbg", "bootrom"} /\ e[4] \in {EXTROM, BOOTROM}
  <2>1. CoreFlags(a) = {"E"}
    BY <1>2, <1>4, FlagsLow, Bounds
  <2>2. UnitFlags(o.unit[1], a) = {"E"}
    BY <1>2, <1>4 DEF UnitFlags
  <2>3. QED
    BY <2>1, <2>2
<1>5. CASE e[1] \notin {"llc", "dbg", "bootrom"} /\ Plain(e[4])
  <2>1. 0 <= a /\ a < SPM_BASE_ADDR /\ ~Inside(a, EXTROM) /\ ~Inside(a, BOOTROM)
    BY <1>2, <1>5 DEF Plain
  <2>2. CoreFlags(a) = {}
    BY <2>1, FlagsLow
  <2>3. UnitFlags(o.unit[1], a) = {}
    BY <1>2, <1>5 DEF UnitFlags
  <2>4. QED
    BY <2>2, <2>3
<1>6. QED
  BY <1>2, <1>3, <1>4, <1>5, Blocks

\* A region's ends are numbers.
Numbered(g) == g.start \in Int /\ g.pte \in Int

\* All regions of the memory map and of the cores are numbers, so the probes are.
LEMMA ProbesInt == ASSUME cfg \in Configs PROVE Probes \subseteq Int
<1> DEFINE regions == {o.region : o \in Owned} \cup NonIdempotent \cup Executable
                        \cup {PAGE(n) : n \in 0 .. 9} \cup {DMA, IRQ_ROUTER, AXIRT, CLIC(cfg.NumCores)}
<1>1. /\ cfg.NumCores \in Nat \ {0} /\ cfg.CieLength \in Nat /\ cfg.LlcSize \in Nat
      /\ Numbered(cfg.LlcOut) /\ Numbered(cfg.Slink)
      /\ \A x \in DOMAIN cfg.AxiExt : Numbered(cfg.AxiExt[x])
      /\ \A x \in DOMAIN cfg.RegExt : Numbered(cfg.RegExt[x])
  <2> DEFINE Rule == [idx : Nat, start : Nat, pte : Nat]
  <2>1. \A g \in Rule : Numbered(g)
    BY DEF Numbered
  <2>2. cfg.AxiExt \in Seq(Rule) /\ cfg.RegExt \in Seq(Rule)
    BY ConfigsAssumption
  <2> HIDE DEF Rule
  <2>3. \A s \in Seq(Rule) : \A x \in DOMAIN s : s[x] \in Rule
    <3>1. TAKE s \in Seq(Rule)
    <3>2. DOMAIN s = 1 .. Len(s) /\ s \in [1 .. Len(s) -> Rule]
      BY <3>1
    <3>3. QED
      BY <3>2
  <2>4. /\ cfg.NumCores \in Nat \ {0} /\ cfg.CieLength \in Nat /\ cfg.LlcSize \in Nat
        /\ Numbered(cfg.LlcOut) /\ Numbered(cfg.Slink)
    BY ConfigsAssumption, RegionsAssumption DEF Numbered
  <2>5. QED
    BY <2>1, <2>2, <2>3, <2>4
<1>2. \A start, size \in Int : Numbered(Region(start, size))
  BY DEF Numbered, Region
<1>3. /\ Numbered(EXTROM) /\ Numbered(DMA) /\ Numbered(BOOTROM) /\ Numbered(CLINT)
      /\ Numbered(IRQ_ROUTER) /\ Numbered(AXIRT) /\ Numbered(REGS) /\ Numbered(PLIC)
      /\ \A j \in Int : Numbered(PAGE(j)) /\ Numbered(BUS_ERR(j)) /\ Numbered(CLIC(j))
      /\ Numbered(Spm(cfg)) /\ Numbered(SpmUnc(cfg))
  BY <1>1 DEF Numbered, Region, EXTROM, DMA, BOOTROM, CLINT, IRQ_ROUTER, AXIRT, REGS, PLIC, PAGE,
              BUS_ERR, CLIC, Spm, SpmUnc, SPM_BASE_ADDR, SPM_UNC_BASE_ADDR, MiB, KiB
<1>4. \A g \in Executable : Numbered(g)
  <2>1. Numbered(Cie)
    BY <1>1 DEF Cie, CieBase, Region, Numbered, ExtStart, ExtEnd, MiB, KiB
  <2>2. QED
    BY <1>1, <1>3, <2>1, Zenon DEF Executable, Cached
<1>5. \A g \in NonIdempotent : Numbered(g)
  <2>1. Numbered(Region(NoCieBase, ExtEnd - ExtStart - cfg.CieLength))
    BY <1>1 DEF NoCieBase, Region, Numbered, ExtStart, ExtEnd, MiB, KiB
  <2>2. Numbered(Region(EXTROM.start, SPM_BASE_ADDR))
    BY DEF EXTROM, Region, Numbered, SPM_BASE_ADDR, MiB, KiB
  <2>3. QED
    BY <2>1, <2>2 DEF NonIdempotent
<1>6. \A o \in Owned : Numbered(o.region)
  <2>1. \A e \in MemoryMap : Numbered(e[4])
    BY <1>1, <1>3 DEF MemoryMap
  <2>2. QED
    BY <2>1 DEF Owned
<1>7. \A g \in regions : Numbered(g)
  <2>1. \A n \in 0 .. 9 : Numbered(PAGE(n))
    BY <1>3
  <2>2. Numbered(CLIC(cfg.NumCores))
    BY <1>1, <1>3
  <2>3. QED
    BY <1>3, <1>4, <1>5, <1>6, <2>1, <2>2
<1>8. Probes = UNION {{g.start - 1, g.start, g.pte - 1, g.pte} : g \in regions} \ {-1}
  BY DEF Probes
<1> HIDE DEF regions
<1>9. \A g \in regions : {g.start - 1, g.start, g.pte - 1, g.pte} \subseteq Int
  BY <1>7 DEF Numbered
<1>10. QED
  BY <1>8, <1>9

(***************************************************************************)
(* The rules of a generator.                                               *)
(***************************************************************************)

\* The rules of the first n units, as <<unit, rule>>.
RulePairs(g, n) ==
  {x \in (1 .. n) \X {1, 2} : Units(g)[x[1]].on /\ x[2] \in DOMAIN Units(g)[x[1]].rules}

RuleTo(n, g) == [idx |-> n, start |-> g.start, pte |-> g.pte]
RulesTo(n, rules) == {RuleTo(n, rules[k]) : k \in DOMAIN rules}

\* External rules as the map holds them.
Wrapped(rules) == {[rules[k] EXCEPT !.idx = Idx(@)] : k \in 1 .. Len(rules)}

\* The entries of a map up to p.
Entries(m, p) == {m[x] : x \in 0 .. p}

\* The same with the ports the units have.
UnitRules(g, pt) == {RuleTo(pt[x[1]], Units(g)[x[1]].rules[x[2]]) : x \in RulePairs(g, Len(pt))}

\* The external rules behind them, if external ports begin at b.
ExtRuleSet(g, b) ==
  IF g = "reg" THEN {RuleTo(Idx(b + cfg.RegExt[x].idx), cfg.RegExt[x]) : x \in DOMAIN cfg.RegExt}
  ELSE {RuleTo(Idx(b + cfg.AxiExt[x].idx), cfg.AxiExt[x]) : x \in DOMAIN cfg.AxiExt}
       \cup {RuleTo(Idx(1), cfg.RegExt[x]) : x \in DOMAIN cfg.RegExt}

(***************************************************************************)
(* The inductive invariant.                                                *)
(***************************************************************************)

\* The counter of rules counts the rules of the units so far.
RulesCounted == gen # "done" => r \in Int /\ r + 1 = Cardinality(RulePairs(gen, Len(port)))

\* The map so far has the rules of the units so far, and no others.
Mapped ==
  gen # "done" /\ ArraysFit(gen) /\ r < IdxValues =>
    DOMAIN map = 0 .. r /\ Entries(map, r) = UnitRules(gen, port)

\* The ports that are set beforehand, and that of the SPM: the LLC's if there is one,
\* else that of the unit before, which is the register demultiplexer.
PortsOut(pt) ==
  /\ Len(pt) >= 2 /\ pt[1] = 0 /\ pt[2] = 1
  /\ Len(pt) >= 3 /\ "LlcOutConnect" \in cfg.on => pt[3] = Idx(2)
  /\ Len(pt) >= 4 /\ "LlcNotBypass" \in cfg.on =>
       pt[4] = Idx(IF "LlcOutConnect" \in cfg.on THEN 2 ELSE 1)

PortsReg(pt) == Len(pt) >= 3 /\ pt[1] = 1

\* A generator's ports as far as they are set.
FirstPorts(g, pt) == (g = "out" => PortsOut(pt)) /\ (g = "reg" => PortsReg(pt))

\* The counter when the LLC's unit and the SPM's are next.
BeforeSpm ==
  gen = "out" =>
    /\ Len(port) = 2 => i = 1
    /\ Len(port) = 3 => i = IF "LlcOutConnect" \in cfg.on THEN 2 ELSE 1

\* The ports of units that have one of their own rise.
Rising(g, m) ==
  m.i + 1 + ExtPorts(g) < IdxValues /\ ArraysFit(g) =>
    \A k, n \in DOMAIN Units(g) :
      k < n /\ Separate(Units(g)[k]) /\ Separate(Units(g)[n]) => m.port[k] < m.port[n]

\* A generator that has finished.
Finished(g, m) ==
  /\ m.port \in Seq(Nat) /\ Len(m.port) = Len(Units(g)) /\ FirstPorts(g, m.port)
  /\ m.i \in Nat /\ m.ext_base = Idx(m.i + 1) /\ Rising(g, m)
  /\ ArraysFit(g) /\ RulesFit(g) =>
       /\ m.num_rules \in Nat /\ DOMAIN m.map = 0 .. m.num_rules - 1
       /\ Entries(m.map, m.num_rules - 1) = UnitRules(g, m.port) \cup ExtRuleSet(g, m.ext_base)

\* So have all before the one at work.
AllFinished == \A g \in {"out", "reg"} : Past(g) => Finished(g, made[g])

\* Together with IInv these are inductive.
DInv == RulesCounted /\ Mapped /\ FirstPorts(gen, port) /\ BeforeSpm /\ AllFinished

(***************************************************************************)
(* Units and their rules.                                                  *)
(***************************************************************************)

\* A unit has no rule, one or two.
FewRules(rules) ==
  \/ rules = <<>> /\ Len(rules) = 0 /\ DOMAIN rules = {}
  \/ rules # <<>> /\ Len(rules) = 1 /\ DOMAIN rules = {1}
  \/ rules # <<>> /\ Len(rules) = 2 /\ DOMAIN rules = {1, 2}

\* Lists of no rule, one and two.
LEMMA RuleLists ==
  /\ FewRules(<<>>)
  /\ \A g : FewRules(<<g>>) /\ <<g>>[1] = g
  /\ \A g, h : FewRules(<<g, h>>) /\ <<g, h>>[1] = g /\ <<g, h>>[2] = h
BY DEF FewRules

\* The units of gen_axi_out, one by one.
LEMMA UnitsOut ==
  LET U == Units("out") IN
  /\ DOMAIN U = 1 .. 6 /\ Len(U) = 6
  /\ U[1] = Unit("dbg", 0, TRUE, "pre", <<EXTROM>>)
  /\ U[2] = Unit("reg_demux", 0, TRUE, "pre", <<REG_DEMUX>>)
  /\ U[3] = Option(cfg, "llc", "LlcOutConnect", cfg.LlcOut)
  /\ U[4] = Unit("spm", 0, "LlcNotBypass" \in cfg.on, "same", <<Spm(cfg), SpmUnc(cfg)>>)
  /\ U[5] = Option(cfg, "dma", "Dma", DMA)
  /\ U[6] = Option(cfg, "slink", "SerialLink", cfg.Slink)
<1> DEFINE u1 == Unit("dbg", 0, TRUE, "pre", <<EXTROM>>)
           u2 == Unit("reg_demux", 0, TRUE, "pre", <<REG_DEMUX>>)
           u3 == Option(cfg, "llc", "LlcOutConnect", cfg.LlcOut)
           u4 == Unit("spm", 0, "LlcNotBypass" \in cfg.on, "same", <<Spm(cfg), SpmUnc(cfg)>>)
           u5 == Option(cfg, "dma", "Dma", DMA)
           u6 == Option(cfg, "slink", "SerialLink", cfg.Slink)
<1>1. Units("out") = <<u1, u2, u3, u4, u5, u6>>
  BY DEF Units, OutUnits
<1> HIDE DEF u1, u2, u3, u4, u5, u6
<1>2. LET U == Units("out") IN
      /\ DOMAIN U = 1 .. 6 /\ Len(U) = 6
      /\ U[1] = u1 /\ U[2] = u2 /\ U[3] = u3 /\ U[4] = u4 /\ U[5] = u5 /\ U[6] = u6
  BY <1>1
<1>3. QED
  BY <1>2 DEF u1, u2, u3, u4, u5, u6

\* The first units of gen_reg_out, those that come once.
RegOnce ==
  <<Unit("clint", 0, TRUE, "pre", <<CLINT>>), Unit("plic", 0, TRUE, "pre", <<PLIC>>),
    Unit("regs", 0, TRUE, "pre", <<REGS>>), Option(cfg, "bootrom", "Bootrom", BOOTROM),
    Option(cfg, "llc_cfg", "LlcNotBypass", PAGE(1)), Option(cfg, "uart", "Uart", PAGE(2)),
    Option(cfg, "i2c", "I2c", PAGE(3)), Option(cfg, "spi_host", "SpiHost", PAGE(4)),
    Option(cfg, "gpio", "Gpio", PAGE(5)), Option(cfg, "slink_cfg", "SerialLink", PAGE(6)),
    Option(cfg, "vga", "Vga", PAGE(7)), Option(cfg, "usb", "Usb", PAGE(8)),
    Option(cfg, "irq_router", "IrqRouter", IRQ_ROUTER), Option(cfg, "axirt", "AxiRt", AXIRT)>>

ClicUnit(n) == Unit("clic", n - 1, "Clic" \in cfg.on, "pre", <<CLIC(n - 1)>>)
BusErrUnit(n) == Unit("bus_err", n - 1, "BusErr" \in cfg.on, "pre", <<BUS_ERR(n - 1)>>)

\* The entries of two sequences put together.
LEMMA ConcatAt ==
  ASSUME NEW S, NEW s, NEW t, NEW k, NEW l, s \in Seq(S) /\ Len(s) = k, t \in Seq(S) /\ Len(t) = l
  PROVE  /\ s \o t \in Seq(S) /\ Len(s \o t) = k + l /\ DOMAIN (s \o t) = 1 .. k + l
         /\ \A n \in 1 .. k : (s \o t)[n] = s[n]
         /\ \A n \in 1 .. l : (s \o t)[k + n] = t[n]
<1>1. s \o t \in Seq(S) /\ Len(s \o t) = k + l /\ DOMAIN (s \o t) = 1 .. k + l
  OBVIOUS
<1>2. \A n \in 1 .. k : (s \o t)[n] = s[n]
  OBVIOUS
<1>3. \A n \in 1 .. l : (s \o t)[k + n] = t[n]
  OBVIOUS
<1>4. QED
  BY <1>1, <1>2, <1>3

\* After them come the CLICs, then the bus error units: one a core, and two more.
LEMMA UnitsReg ==
  ASSUME cfg \in Configs
  PROVE  LET U == Units("reg")
             N == cfg.NumCores
         IN /\ Len(U) = 16 + 2 * N /\ DOMAIN U = 1 .. 16 + 2 * N
            /\ \A n \in 1 .. 14 : U[n] = RegOnce[n]
            /\ \A n \in 1 .. N : U[14 + n] = ClicUnit(n)
            /\ \A n \in 1 .. N + 2 : U[14 + N + n] = BusErrUnit(n)
<1> DEFINE N == cfg.NumCores
           M == BusErrUnits(cfg)
           clics == [n \in 1 .. N |-> ClicUnit(n)]
           errs == [n \in 1 .. M |-> BusErrUnit(n)]
           first == RegOnce
           S == {RegOnce[n] : n \in 1 .. 14}
                \cup {ClicUnit(n) : n \in 1 .. N} \cup {BusErrUnit(n) : n \in 1 .. M}
<1>1. N \in Nat /\ M = N + 2
  BY ConfigsAssumption DEF BusErrUnits
<1>2. Units("reg") = first \o clics \o errs
  BY DEF Units, RegUnits, RegOnce, ClicUnit, BusErrUnit
<1>3. first \in Seq(S) /\ Len(first) = 14
  <2> DEFINE R == {RegOnce[n] : n \in 1 .. 14}
  <2>1. RegOnce \in Seq(R) /\ Len(RegOnce) = 14
    <3>1. Len(RegOnce) = 14 /\ DOMAIN RegOnce = 1 .. 14 /\ RegOnce = [n \in 1 .. 14 |-> RegOnce[n]]
      BY DEF RegOnce
    <3> HIDE DEF RegOnce
    <3>2. RegOnce \in [1 .. 14 -> R]
      BY <3>1
    <3>3. QED
      BY <3>2, FunctionIsSeq
  <2>2. R \subseteq S
    OBVIOUS
  <2> HIDE DEF R, S
  <2>3. QED
    BY <2>1, <2>2
<1>4. clics \in [1 .. N -> S] /\ errs \in [1 .. M -> S]
  OBVIOUS
<1>5. /\ \A n \in 1 .. N : clics[n] = ClicUnit(n)
      /\ \A n \in 1 .. M : errs[n] = BusErrUnit(n)
  OBVIOUS
<1> HIDE DEF N, M, clics, errs, first, S
<1>6. clics \in Seq(S) /\ Len(clics) = N
  BY <1>1, <1>4, FunctionIsSeq, SMT
<1>7. errs \in Seq(S) /\ Len(errs) = M
  <2>1. M \in Nat /\ errs \in [1 .. M -> S]
    BY <1>1, <1>4
  <2>2. QED
    BY <2>1, FunctionIsSeq, SMT
<1>8. /\ first \o clics \in Seq(S) /\ Len(first \o clics) = 14 + N
      /\ \A n \in 1 .. 14 : (first \o clics)[n] = first[n]
      /\ \A n \in 1 .. N : (first \o clics)[14 + n] = clics[n]
  <2>1. clics \in Seq(S) /\ Len(clics) = N
    BY <1>6
  <2> DEFINE k == 14
  <2> HIDE DEF k
  <2>2. first \in Seq(S) /\ Len(first) = k
    BY <1>3 DEF k
  <2>3. /\ first \o clics \in Seq(S) /\ Len(first \o clics) = k + N
        /\ \A n \in 1 .. k : (first \o clics)[n] = first[n]
        /\ \A n \in 1 .. N : (first \o clics)[k + n] = clics[n]
    BY <2>1, <2>2, ConcatAt
  <2>4. QED
    BY <2>3 DEF k
<1> DEFINE both == first \o clics
<1> HIDE DEF both
<1>9. both \in Seq(S) /\ Len(both) = 14 + N /\ Units("reg") = both \o errs
  BY <1>2, <1>8 DEF both
<1>10. /\ Len(both \o errs) = 16 + 2 * N /\ DOMAIN (both \o errs) = 1 .. 16 + 2 * N
       /\ \A n \in 1 .. 14 + N : (both \o errs)[n] = both[n]
       /\ \A n \in 1 .. M : (both \o errs)[14 + N + n] = errs[n]
  <2>1. 14 + N + M = 16 + 2 * N
    BY <1>1
  <2>2. /\ Len(both \o errs) = 14 + N + M /\ DOMAIN (both \o errs) = 1 .. 14 + N + M
        /\ \A n \in 1 .. 14 + N : (both \o errs)[n] = both[n]
        /\ \A n \in 1 .. M : (both \o errs)[14 + N + n] = errs[n]
    <3>1. both \in Seq(S) /\ Len(both) = 14 + N
      BY <1>9
    <3>2. errs \in Seq(S) /\ Len(errs) = M
      BY <1>7
    <3>3. QED
      BY <3>1, <3>2, ConcatAt
  <2>3. QED
    BY <2>1, <2>2
<1>11. /\ \A n \in 1 .. 14 : n \in 1 .. 14 + N
       /\ \A n \in 1 .. N : 14 + n \in 1 .. 14 + N
  BY <1>1
<1>12. /\ \A n \in 1 .. 14 : both[n] = first[n]
       /\ \A n \in 1 .. N : both[14 + n] = clics[n]
  BY <1>8 DEF both
<1>13. QED
  BY <1>1, <1>5, <1>9, <1>10, <1>11, <1>12 DEF N, first

\* The units of all generators: few rules, and the first ones are there with one each.
UnitShape(g) ==
  /\ \A n \in 1 .. Len(Units(g)) : FewRules(Units(g)[n].rules)
  /\ g = "in" => \A n \in 1 .. Len(Units(g)) : Units(g)[n].rules = <<>>
  /\ \A n \in 1 .. Len(Preset(g).port) : Units(g)[n].on /\ DOMAIN Units(g)[n].rules = {1}
  /\ Len(Preset(g).port) \in 0 .. Len(Units(g))

\* The managers have no rules.
LEMMA UnitShapeIn == ASSUME cfg \in Configs PROVE UnitShape("in")
<1> DEFINE N == cfg.NumCores
           cores == [n \in 1 .. N |-> Unit("core", n - 1, TRUE, "post", <<>>)]
           first == Unit("dbg", 0, TRUE, "same", <<>>)
           second == Master(cfg, "dma", "Dma")
           third == Master(cfg, "slink", "SerialLink")
           fourth == Master(cfg, "vga", "Vga")
           fifth == Master(cfg, "usb", "Usb")
           rest == <<first, second, third, fourth, fifth>>
           S == {cores[n] : n \in 1 .. N} \cup {first, second, third, fourth, fifth}
<1>1. N \in Nat
  BY ConfigsAssumption
<1>2. Units("in") = cores \o rest
  BY DEF Units, InUnits
<1>3. \A u \in S : u.rules = <<>>
  <2>1. \A n \in 1 .. N : cores[n].rules = <<>>
    BY DEF Unit
  <2>2. /\ first.rules = <<>> /\ second.rules = <<>> /\ third.rules = <<>>
        /\ fourth.rules = <<>> /\ fifth.rules = <<>>
    BY DEF Unit, Master
  <2> HIDE DEF N, cores, first, second, third, fourth, fifth
  <2>3. QED
    BY <2>1, <2>2
<1> HIDE DEF first, second, third, fourth, fifth
<1>4. cores \in [1 .. N -> S] /\ rest \in Seq(S)
  <2>1. cores \in [1 .. N -> S]
    <3>1. \A n \in 1 .. N : cores[n] \in S
      OBVIOUS
    <3>2. cores = [n \in 1 .. N |-> cores[n]]
      OBVIOUS
    <3> HIDE DEF cores, N, S
    <3>3. QED
      BY <3>1, <3>2
  <2>2. rest \in Seq(S)
    <3> HIDE DEF cores
    <3>1. QED
      OBVIOUS
  <2>3. QED
    BY <2>1, <2>2
<1> HIDE DEF cores, rest, S, N
<1>5. Units("in") \in Seq(S)
  <2>1. cores \in Seq(S)
    BY <1>1, <1>4, FunctionIsSeq
  <2>2. cores \o rest \in Seq(S)
    BY <1>4, <2>1
  <2>3. QED
    BY <1>2, <2>2
<1>6. \A n \in 1 .. Len(Units("in")) : Units("in")[n].rules = <<>>
  BY <1>3, <1>5
<1>7. Preset("in").port = <<>> /\ Len(Preset("in").port) = 0 /\ Len(Units("in")) \in Nat
  BY <1>5 DEF Preset
<1>8. QED
  BY <1>6, <1>7, RuleLists DEF UnitShape

\* On the crossbar only the SPM has two rules.
LEMMA UnitShapeOut == UnitShape("out")
<1> DEFINE U == Units("out")
<1>1. Len(U) = 6 /\ U[1].on /\ U[2].on /\ DOMAIN U[1].rules = {1} /\ DOMAIN U[2].rules = {1}
  BY UnitsOut DEF Unit
<1>2. /\ U[1].rules = <<EXTROM>> /\ U[2].rules = <<REG_DEMUX>> /\ U[3].rules = <<cfg.LlcOut>>
      /\ U[4].rules = <<Spm(cfg), SpmUnc(cfg)>> /\ U[5].rules = <<DMA>> /\ U[6].rules = <<cfg.Slink>>
  BY UnitsOut DEF Unit, Option
<1> HIDE DEF U
<1>3. \A n \in 1 .. 6 : FewRules(U[n].rules)
  <2>1. /\ FewRules(U[1].rules) /\ FewRules(U[2].rules) /\ FewRules(U[3].rules)
        /\ FewRules(U[4].rules) /\ FewRules(U[5].rules) /\ FewRules(U[6].rules)
    BY <1>2, RuleLists
  <2>2. QED
    BY <2>1
<1>4. Len(Preset("out").port) = 2
  BY DEF Preset
<1>5. \A n \in 1 .. 2 : U[n].on /\ DOMAIN U[n].rules = {1}
  BY <1>1
<1>6. QED
  <2>1. \A n \in 1 .. Len(U) : FewRules(U[n].rules)
    BY <1>1, <1>3
  <2>2. \A n \in 1 .. Len(Preset("out").port) : U[n].on /\ DOMAIN U[n].rules = {1}
    BY <1>4, <1>5
  <2>3. Len(Preset("out").port) \in 0 .. Len(U)
    BY <1>1, <1>4
  <2>4. QED
    BY <2>1, <2>2, <2>3, Zenon DEF UnitShape, U

\* Every unit behind the demultiplexer has one rule.
LEMMA UnitShapeReg == ASSUME cfg \in Configs PROVE UnitShape("reg")
<1> DEFINE U == Units("reg")
           N == cfg.NumCores
<1>1. N \in Nat
  BY ConfigsAssumption
<1>2. /\ Len(U) = 16 + 2 * N
      /\ \A n \in 1 .. 14 : U[n] = RegOnce[n]
      /\ \A n \in 1 .. N : U[14 + n] = ClicUnit(n)
      /\ \A n \in 1 .. N + 2 : U[14 + N + n] = BusErrUnit(n)
  BY UnitsReg
<1>3. \A n \in 1 .. 14 : FewRules(RegOnce[n].rules)
  <2>1. /\ FewRules(RegOnce[1].rules) /\ FewRules(RegOnce[2].rules) /\ FewRules(RegOnce[3].rules)
        /\ FewRules(RegOnce[4].rules) /\ FewRules(RegOnce[5].rules) /\ FewRules(RegOnce[6].rules)
        /\ FewRules(RegOnce[7].rules) /\ FewRules(RegOnce[8].rules) /\ FewRules(RegOnce[9].rules)
        /\ FewRules(RegOnce[10].rules) /\ FewRules(RegOnce[11].rules) /\ FewRules(RegOnce[12].rules)
        /\ FewRules(RegOnce[13].rules) /\ FewRules(RegOnce[14].rules)
    BY RuleLists DEF RegOnce, Unit, Option
  <2>2. QED
    BY <2>1
<1>4. \A n \in 1 .. N : FewRules(ClicUnit(n).rules)
  BY RuleLists DEF ClicUnit, Unit
<1>5. \A n \in 1 .. N + 2 : FewRules(BusErrUnit(n).rules)
  BY RuleLists DEF BusErrUnit, Unit
<1>6. \A n \in 1 .. 3 : RegOnce[n].on /\ DOMAIN RegOnce[n].rules = {1}
  BY DEF RegOnce, Unit
<1>7. Len(Preset("reg").port) = 3
  BY DEF Preset
<1> HIDE DEF U, N
<1>8. \A n \in 1 .. 16 + 2 * N : FewRules(U[n].rules)
  <2>1. TAKE n \in 1 .. 16 + 2 * N
  <2>2. CASE n <= 14
    BY <1>2, <1>3, <2>2
  <2>3. CASE n > 14 /\ n <= 14 + N
    <3>1. n - 14 \in 1 .. N /\ n = 14 + (n - 14)
      BY <1>1, <2>3
    <3>2. U[n] = ClicUnit(n - 14)
      BY <1>2, <3>1
    <3>3. QED
      BY <1>4, <3>1, <3>2
  <2>4. CASE n > 14 + N
    <3>1. n - 14 - N \in 1 .. N + 2 /\ n = 14 + N + (n - 14 - N)
      BY <1>1, <2>4
    <3>2. U[n] = BusErrUnit(n - 14 - N)
      BY <1>2, <3>1
    <3>3. QED
      BY <1>5, <3>1, <3>2
  <2>5. QED
    BY <1>1, <2>2, <2>3, <2>4
<1>9. \A n \in 1 .. 3 : U[n].on /\ DOMAIN U[n].rules = {1}
  BY <1>2, <1>6
<1>10. QED
  <2>1. \A n \in 1 .. Len(U) : FewRules(U[n].rules)
    BY <1>2, <1>8
  <2>2. \A n \in 1 .. Len(Preset("reg").port) : U[n].on /\ DOMAIN U[n].rules = {1}
    BY <1>7, <1>9
  <2>3. Len(Preset("reg").port) \in 0 .. Len(U)
    <3>1. Len(U) = 16 + 2 * N
      BY <1>2
    <3>2. Len(Preset("reg").port) = 3
      BY <1>7
    <3>3. 3 \in 0 .. Len(U)
      BY <1>1, <3>1
    <3>4. QED
      BY <3>2, <3>3
  <2>4. QED
    BY <2>1, <2>2, <2>3, Zenon DEF UnitShape, U

\* All three generators have units of that kind.
LEMMA UnitShapes == ASSUME cfg \in Configs PROVE \A g \in Generators : UnitShape(g)
BY UnitShapeIn, UnitShapeOut, UnitShapeReg DEF Generators

(***************************************************************************)
(* Maps and counters, unit by unit.                                        *)
(***************************************************************************)

\* Writing a rule at the next free place of a map.
LEMMA PutNext ==
  ASSUME NEW m, NEW p \in Int, p >= -1, DOMAIN m = 0 .. p, p + 1 < IdxValues, NEW n, NEW g,
         NEW q, q = Put(m, p + 1, n, g)
  PROVE  DOMAIN q = 0 .. p + 1 /\ q[p + 1] = RuleTo(Idx(n), g) /\ \A x \in 0 .. p : q[x] = m[x]
<1>1. q = [x \in 0 .. p + 1 |-> IF x = p + 1 THEN RuleTo(Idx(n), g) ELSE m[x]]
  <2>1. (0 .. p) \cup {p + 1} = 0 .. p + 1
    OBVIOUS
  <2>2. ~(p + 1 >= IdxValues)
    BY IdxAssumption
  <2>3. QED
    BY <2>1, <2>2 DEF Put, RuleTo
<1>2. QED
  BY <1>1

\* The rules of a unit at the next free places.
LEMMA PutRules ==
  ASSUME NEW m, NEW p \in Int, p >= -1, DOMAIN m = 0 .. p, NEW n, NEW rules, FewRules(rules),
         p + Len(rules) < IdxValues, NEW q, q = WithRules(m, p, n, rules)
  PROVE  /\ DOMAIN q = 0 .. p + Len(rules)
         /\ Entries(q, p + Len(rules)) = Entries(m, p) \cup RulesTo(Idx(n), rules)
<1>1. CASE rules = <<>> /\ Len(rules) = 0 /\ DOMAIN rules = {}
  <2>1. q = m
    BY <1>1 DEF WithRules
  <2>2. {RuleTo(Idx(n), rules[k]) : k \in DOMAIN rules} = {}
    BY <1>1
  <2>3. QED
    BY <1>1, <2>1, <2>2 DEF Entries, RulesTo
<1>2. CASE rules # <<>> /\ Len(rules) = 1 /\ DOMAIN rules = {1}
  <2>1. q = Put(m, p + 1, n, rules[1])
    BY <1>2 DEF WithRules
  <2>2. {RuleTo(Idx(n), rules[k]) : k \in DOMAIN rules} = {RuleTo(Idx(n), rules[1])}
    BY <1>2
  <2>3. DOMAIN q = 0 .. p + 1 /\ q[p + 1] = RuleTo(Idx(n), rules[1]) /\ \A x \in 0 .. p : q[x] = m[x]
    <3>1. p + 1 < IdxValues
      BY <1>2
    <3>2. QED
      BY <2>1, <3>1, PutNext
  <2>4. QED
    BY <1>2, <2>2, <2>3 DEF Entries, RulesTo
<1>3. CASE rules # <<>> /\ Len(rules) = 2 /\ DOMAIN rules = {1, 2}
  <2> DEFINE one == Put(m, p + 1, n, rules[1])
             s == p + 1
  <2>1. q = Put(one, p + 2, n, rules[2])
    BY <1>3 DEF WithRules
  <2>2. {RuleTo(Idx(n), rules[k]) : k \in DOMAIN rules}
          = {RuleTo(Idx(n), rules[1]), RuleTo(Idx(n), rules[2])}
    BY <1>3
  <2>3. DOMAIN one = 0 .. p + 1 /\ one[p + 1] = RuleTo(Idx(n), rules[1]) /\ \A x \in 0 .. p : one[x] = m[x]
    <3>1. p + 1 < IdxValues
      BY <1>3, IdxAssumption
    <3>2. QED
      BY <3>1, PutNext
  <2>4. s \in Int /\ s >= -1 /\ s + 1 = p + 2 /\ s + 1 < IdxValues /\ DOMAIN one = 0 .. s
    BY <1>3, <2>3
  <2> HIDE DEF one, s
  <2>5. DOMAIN q = 0 .. s + 1 /\ q[s + 1] = RuleTo(Idx(n), rules[2]) /\ \A x \in 0 .. s : q[x] = one[x]
    <3>1. q = Put(one, s + 1, n, rules[2])
      BY <2>1, <2>4
    <3>2. QED
      BY <2>4, <3>1, PutNext
  <2>6. /\ DOMAIN q = 0 .. p + 2
        /\ q[p + 1] = RuleTo(Idx(n), rules[1]) /\ q[p + 2] = RuleTo(Idx(n), rules[2])
        /\ \A x \in 0 .. p : q[x] = m[x]
    BY <2>3, <2>4, <2>5 DEF s
  <2>7. {q[x] : x \in 0 .. p + 2} = {m[x] : x \in 0 .. p} \cup {q[p + 1], q[p + 2]}
    BY <2>6
  <2>8. QED
    BY <1>3, <2>2, <2>6, <2>7 DEF Entries, RulesTo
<1>4. QED
  BY <1>1, <1>2, <1>3 DEF FewRules

\* No unit, no rule.
LEMMA PairsNone == ASSUME NEW g PROVE RulePairs(g, 0) = {} /\ Cardinality(RulePairs(g, 0)) = 0
<1>1. RulePairs(g, 0) = {}
  BY DEF RulePairs
<1>2. QED
  BY <1>1, FS_EmptySet

\* The rules are finitely many.
LEMMA PairsFinite == ASSUME NEW g, NEW n \in Nat PROVE IsFiniteSet(RulePairs(g, n))
<1>1. IsFiniteSet(1 .. n) /\ IsFiniteSet({1, 2})
  <2>1. IsFiniteSet(1 .. n)
    BY FS_Interval
  <2>2. {1, 2} = {1} \cup {2}
    OBVIOUS
  <2>3. IsFiniteSet({1} \cup {2})
    BY FS_Singleton, FS_AddElement
  <2>4. QED
    BY <2>1, <2>2, <2>3
<1>2. IsFiniteSet((1 .. n) \X {1, 2})
  BY <1>1, FS_Product
<1>3. RulePairs(g, n) \in SUBSET ((1 .. n) \X {1, 2})
  BY DEF RulePairs
<1>4. QED
  BY <1>2, <1>3, FS_Subset

\* What a unit that is there adds, and one that is not.
LEMMA PairsNext ==
  ASSUME NEW g, NEW n \in Nat, FewRules(Units(g)[n + 1].rules)
  PROVE  LET u == Units(g)[n + 1] IN
         /\ u.on => RulePairs(g, n + 1) = RulePairs(g, n) \cup {<<n + 1, k>> : k \in DOMAIN u.rules}
         /\ ~u.on => RulePairs(g, n + 1) = RulePairs(g, n)
<1> DEFINE u == Units(g)[n + 1]
<1>1. DOMAIN u.rules \subseteq {1, 2}
  BY DEF FewRules
<1>2. 1 .. n + 1 = (1 .. n) \cup {n + 1}
  OBVIOUS
<1>3. RulePairs(g, n + 1) = RulePairs(g, n) \cup {x \in {n + 1} \X {1, 2} : u.on /\ x[2] \in DOMAIN u.rules}
  BY <1>2 DEF RulePairs
<1> HIDE DEF u
<1>4. u.on => {x \in {n + 1} \X {1, 2} : u.on /\ x[2] \in DOMAIN u.rules} = {<<n + 1, k>> : k \in DOMAIN u.rules}
  BY <1>1
<1>5. ~u.on => {x \in {n + 1} \X {1, 2} : u.on /\ x[2] \in DOMAIN u.rules} = {}
  OBVIOUS
<1>6. QED
  BY <1>3, <1>4, <1>5 DEF u

\* There are as many of them.
LEMMA PairsCount ==
  ASSUME NEW g, NEW n \in Nat, FewRules(Units(g)[n + 1].rules), Units(g)[n + 1].on
  PROVE  Cardinality(RulePairs(g, n + 1)) = Cardinality(RulePairs(g, n)) + Len(Units(g)[n + 1].rules)
<1> DEFINE rules == Units(g)[n + 1].rules
           P == RulePairs(g, n)
<1>1. RulePairs(g, n + 1) = P \cup {<<n + 1, k>> : k \in DOMAIN rules}
  BY PairsNext
<1>2. \A k : <<n + 1, k>> \notin P
  BY DEF RulePairs
<1>3. IsFiniteSet(P) /\ Cardinality(P) \in Nat
  BY PairsFinite, FS_CardinalityType
<1>4. FewRules(rules)
  OBVIOUS
<1> HIDE DEF rules, P
<1>5. CASE rules = <<>> /\ Len(rules) = 0 /\ DOMAIN rules = {}
  <2>1. RulePairs(g, n + 1) = P
    BY <1>1, <1>5
  <2>2. QED
    BY <1>3, <1>5, <2>1 DEF P, rules
<1>6. CASE rules # <<>> /\ Len(rules) = 1 /\ DOMAIN rules = {1}
  <2>1. RulePairs(g, n + 1) = P \cup {<<n + 1, 1>>}
    BY <1>1, <1>6
  <2>2. Cardinality(P \cup {<<n + 1, 1>>}) = Cardinality(P) + 1
    BY <1>2, <1>3, FS_AddElement
  <2>3. QED
    BY <1>6, <2>1, <2>2 DEF P, rules
<1>7. CASE rules # <<>> /\ Len(rules) = 2 /\ DOMAIN rules = {1, 2}
  <2> DEFINE Q == P \cup {<<n + 1, 1>>}
  <2>1. RulePairs(g, n + 1) = Q \cup {<<n + 1, 2>>}
    BY <1>1, <1>7
  <2>2. Cardinality(Q) = Cardinality(P) + 1 /\ IsFiniteSet(Q)
    BY <1>2, <1>3, FS_AddElement
  <2>3. <<n + 1, 2>> \notin Q
    BY <1>2
  <2> HIDE DEF Q
  <2>4. Cardinality(Q \cup {<<n + 1, 2>>}) = Cardinality(Q) + 1
    BY <2>2, <2>3, FS_AddElement
  <2>5. Cardinality(RulePairs(g, n + 1)) = Cardinality(P) + 2
    BY <1>3, <2>1, <2>2, <2>4
  <2>6. QED
    BY <1>7, <2>5 DEF P, rules
<1>8. QED
  BY <1>4, <1>5, <1>6, <1>7 DEF FewRules

\* What an appended unit adds to the rules.
LEMMA UnitRulesNext ==
  ASSUME NEW g, NEW pt \in Seq(Nat), NEW v, NEW u, u = Units(g)[Len(pt) + 1], FewRules(u.rules)
  PROVE  /\ u.on => UnitRules(g, Append(pt, v)) = UnitRules(g, pt) \cup RulesTo(v, u.rules)
         /\ ~u.on => UnitRules(g, Append(pt, v)) = UnitRules(g, pt)
<1> DEFINE n == Len(pt)
           P == RulePairs(g, n)
           q == Append(pt, v)
<1>1. n \in Nat /\ Len(q) = n + 1 /\ q[n + 1] = v /\ \A m \in 1 .. n : q[m] = pt[m]
  OBVIOUS
<1>2. /\ u.on => RulePairs(g, n + 1) = P \cup {<<n + 1, k>> : k \in DOMAIN u.rules}
      /\ ~u.on => RulePairs(g, n + 1) = P
  BY <1>1, PairsNext
<1>3. \A x \in P : x[1] \in 1 .. n
  BY DEF RulePairs
<1>4. u = Units(g)[n + 1]
  OBVIOUS
<1>5. /\ UnitRules(g, pt) = {RuleTo(pt[x[1]], Units(g)[x[1]].rules[x[2]]) : x \in P}
      /\ UnitRules(g, q) = {RuleTo(q[x[1]], Units(g)[x[1]].rules[x[2]]) : x \in RulePairs(g, n + 1)}
  BY <1>1 DEF UnitRules
<1> HIDE DEF P, q, n
<1>6. \A x \in P : RuleTo(q[x[1]], Units(g)[x[1]].rules[x[2]]) = RuleTo(pt[x[1]], Units(g)[x[1]].rules[x[2]])
  BY <1>1, <1>3
<1>7. CASE u.on
  <2>1. UnitRules(g, q) = {RuleTo(q[x[1]], Units(g)[x[1]].rules[x[2]]) : x \in P}
                          \cup {RuleTo(q[n + 1], u.rules[k]) : k \in DOMAIN u.rules}
    <3>1. {RuleTo(q[x[1]], Units(g)[x[1]].rules[x[2]]) : x \in {<<n + 1, k>> : k \in DOMAIN u.rules}}
            = {RuleTo(q[n + 1], u.rules[k]) : k \in DOMAIN u.rules}
      <4> DEFINE F(x) == RuleTo(q[x[1]], Units(g)[x[1]].rules[x[2]])
                 G(k) == RuleTo(q[n + 1], u.rules[k])
      <4>1. \A k : F(<<n + 1, k>>) = G(k)
        BY <1>4
      <4> HIDE DEF F, G
      <4>2. {F(x) : x \in {<<n + 1, k>> : k \in DOMAIN u.rules}} = {G(k) : k \in DOMAIN u.rules}
        BY <4>1
      <4>3. QED
        BY <4>2 DEF F, G
    <3>2. QED
      BY <1>2, <1>5, <1>7, <3>1
  <2>2. {RuleTo(q[x[1]], Units(g)[x[1]].rules[x[2]]) : x \in P} = UnitRules(g, pt)
    BY <1>5, <1>6
  <2>3. QED
    BY <1>1, <1>7, <2>1, <2>2 DEF q, RulesTo
<1>8. CASE ~u.on
  BY <1>2, <1>5, <1>6, <1>8 DEF q
<1>9. QED
  BY <1>7, <1>8

\* As long as the configuration stays, primes move inwards.
LEMMA Primes ==
  ASSUME cfg' = cfg
  PROVE  /\ (gen' # "done" => r' \in Int /\ r' + 1 = Cardinality(RulePairs(gen', Len(port')))) => RulesCounted'
         /\ (gen' # "done" /\ ArraysFit(gen') /\ r' < IdxValues =>
               DOMAIN map' = 0 .. r' /\ Entries(map', r') = UnitRules(gen', port')) => Mapped'
         /\ FirstPorts(gen', port') => FirstPorts(gen, port)'
         /\ (\A g \in {"out", "reg"} : Past(g)' => Finished(g, made'[g])) => AllFinished'
<1>1. \A g : Units(g)' = Units(g)
  BY DEF Units
<1>2. Units(gen)' = Units(gen') /\ ArraysFit(gen)' = ArraysFit(gen')
  BY DEF Units, ArraysFit
<1>3. RulePairs(gen, Len(port))' = RulePairs(gen', Len(port'))
  BY <1>2 DEF RulePairs
<1>4. UnitRules(gen, port)' = UnitRules(gen', port')
  BY <1>2, <1>3 DEF UnitRules
<1>5. FirstPorts(gen, port)' = FirstPorts(gen', port')
  BY DEF FirstPorts, PortsOut, PortsReg
<1>6. \A g : Finished(g, made[g])' = Finished(g, made'[g])
  BY DEF Finished, Rising, ExtPorts, Separate, FirstPorts, PortsOut, PortsReg, ArraysFit, RulesFit, ExtRules, Units, UnitRules, RulePairs, ExtRuleSet
<1>7. QED
  BY <1>3, <1>4, <1>5, <1>6, <1>2, Zenon DEF RulesCounted, Mapped, AllFinished

\* The LLC's unit and the SPM's.
LEMMA LlcUnits ==
  LET U == Units("out") IN
  /\ U[3].how = "pre" /\ U[3].j = 0 /\ (U[3].on <=> "LlcOutConnect" \in cfg.on)
  /\ U[4].how = "same" /\ U[4].j = 0 /\ (U[4].on <=> "LlcNotBypass" \in cfg.on)
<1>1. LET U == Units("out") IN U[3].how = "pre" /\ U[3].j = 0 /\ (U[3].on <=> "LlcOutConnect" \in cfg.on)
  <2>1. Units("out")[3] = Option(cfg, "llc", "LlcOutConnect", cfg.LlcOut)
    BY UnitsOut
  <2>2. Units("out")[3].how = "pre" /\ Units("out")[3].j = 0
    BY <2>1 DEF Option, Unit
  <2>3. Units("out")[3].on = ("LlcOutConnect" \in cfg.on)
    BY <2>1 DEF Option, Unit
  <2>4. QED
    BY <2>2, <2>3
<1>2. LET U == Units("out") IN U[4].how = "same" /\ U[4].j = 0 /\ (U[4].on <=> "LlcNotBypass" \in cfg.on)
  <2>1. Units("out")[4] = Unit("spm", 0, "LlcNotBypass" \in cfg.on, "same", <<Spm(cfg), SpmUnc(cfg)>>)
    BY UnitsOut
  <2>2. Units("out")[4].how = "same" /\ Units("out")[4].j = 0
    BY <2>1 DEF Unit
  <2>3. Units("out")[4].on = ("LlcNotBypass" \in cfg.on)
    BY <2>1 DEF Unit
  <2>4. QED
    BY <2>2, <2>3
<1>3. QED
  BY <1>1, <1>2

\* The ports that are set beforehand stay, and the SPM gets the LLC's or the port before.
LEMMA AddUnitPorts ==
  ASSUME IInv, FirstPorts(gen, port), BeforeSpm, AddUnit
  PROVE  FirstPorts(gen', port') /\ BeforeSpm'
<1>1. port \in Seq(Nat) /\ i \in Nat /\ cfg' = cfg /\ gen' = gen
  BY DEF IInv, TypeOK, AddUnit
<1> DEFINE k == Len(port)
           n == k + 1
           v == IF Current.j < MaxCores THEN Idx(Assigned(Current)) ELSE 0
<1>2. port' = Append(port, v) /\ i' = Counted(Current)
  BY DEF AddUnit
<1>3. n \in Nat /\ Len(port') = n /\ port'[n] = v /\ \A m \in 1 .. n - 1 : port'[m] = port[m]
  BY <1>1, <1>2
<1>4. k \in Nat
  BY <1>1
<1> HIDE DEF v, k
<1>5. CASE gen = "out"
  <2>1. Len(port) >= 2 /\ port[1] = 0 /\ port[2] = 1
    BY <1>5 DEF FirstPorts, PortsOut
  <2>2. port'[1] = 0 /\ port'[2] = 1 /\ n >= 3
    BY <1>1, <1>3, <2>1 DEF k
  <2>3. Current = Units("out")[n] /\ Current.on
    BY <1>5 DEF Current, AddUnit, k
  <2>4. CASE n = 3
    <3>1. i = 1 /\ Current.how = "pre" /\ Current.j = 0 /\ "LlcOutConnect" \in cfg.on
      <4>1. k = 2
        BY <1>4, <2>4
      <4>2. Len(port) = 2
        BY <4>1 DEF k
      <4>3. QED
        BY <1>5, <2>3, <2>4, <4>2, LlcUnits DEF BeforeSpm
    <3>2. v = Idx(2) /\ i' = 2
      BY <1>2, <3>1, IdxAssumption DEF v, Assigned, Counted
    <3>3. QED
      BY <1>1, <1>3, <1>5, <2>2, <2>4, <3>1, <3>2 DEF FirstPorts, PortsOut, BeforeSpm
  <2>5. CASE n = 4
    <3>1. /\ i = IF "LlcOutConnect" \in cfg.on THEN 2 ELSE 1
          /\ Current.how = "same" /\ Current.j = 0
      <4>1. k = 3
        BY <1>4, <2>5
      <4>2. Len(port) = 3
        BY <4>1 DEF k
      <4>3. QED
        BY <1>5, <2>3, <2>5, <4>2, LlcUnits DEF BeforeSpm
    <3>2. v = Idx(IF "LlcOutConnect" \in cfg.on THEN 2 ELSE 1)
      BY <3>1, IdxAssumption DEF v, Assigned
    <3>3. "LlcOutConnect" \in cfg.on => port'[3] = Idx(2)
      BY <1>1, <1>3, <1>5, <2>5 DEF FirstPorts, PortsOut, k
    <3>4. QED
      BY <1>1, <1>3, <1>5, <2>2, <2>5, <3>2, <3>3 DEF FirstPorts, PortsOut, BeforeSpm
  <2>6. CASE n > 4
    <3>1. /\ port'[3] = port[3] /\ port'[4] = port[4]
      BY <1>3, <2>6
    <3>2. /\ "LlcOutConnect" \in cfg.on => port[3] = Idx(2)
          /\ "LlcNotBypass" \in cfg.on => port[4] = Idx(IF "LlcOutConnect" \in cfg.on THEN 2 ELSE 1)
      BY <1>1, <1>5, <2>6 DEF FirstPorts, PortsOut, k
    <3>3. QED
      BY <1>1, <1>3, <1>5, <2>2, <2>6, <3>1, <3>2 DEF FirstPorts, PortsOut, BeforeSpm
  <2>7. QED
    BY <1>3, <2>2, <2>4, <2>5, <2>6
<1>6. CASE gen = "reg"
  <2>1. Len(port) >= 3 /\ port[1] = 1
    BY <1>6 DEF FirstPorts, PortsReg
  <2>2. QED
    BY <1>1, <1>3, <1>6, <2>1 DEF FirstPorts, PortsReg, BeforeSpm, k
<1>7. CASE gen \notin {"out", "reg"}
  BY <1>1, <1>7 DEF FirstPorts, BeforeSpm
<1>8. QED
  BY <1>5, <1>6, <1>7

\* A unit that is left out moves neither the first ports nor the counter.
LEMMA SkipUnitPorts ==
  ASSUME IInv, FirstPorts(gen, port), BeforeSpm, SkipUnit
  PROVE  FirstPorts(gen', port') /\ BeforeSpm'
<1>1. port \in Seq(Nat) /\ i \in Nat /\ cfg' = cfg /\ gen' = gen /\ i' = i
  BY DEF IInv, TypeOK, SkipUnit
<1> DEFINE k == Len(port)
           n == k + 1
<1>2. n \in Nat /\ Len(port') = n /\ \A m \in 1 .. n - 1 : port'[m] = port[m]
  BY <1>1 DEF SkipUnit
<1>3. k \in Nat
  BY <1>1
<1> HIDE DEF k
<1>4. CASE gen = "out"
  <2>1. Len(port) >= 2 /\ port[1] = 0 /\ port[2] = 1
    BY <1>4 DEF FirstPorts, PortsOut
  <2>2. port'[1] = 0 /\ port'[2] = 1 /\ n >= 3
    BY <1>1, <1>2, <2>1 DEF k
  <2>3. Current = Units("out")[n] /\ ~Current.on
    BY <1>4 DEF Current, SkipUnit, k
  <2>4. CASE n = 3
    <3>1. i = 1 /\ "LlcOutConnect" \notin cfg.on
      <4>1. k = 2
        BY <1>3, <2>4
      <4>2. Len(port) = 2
        BY <4>1 DEF k
      <4>3. QED
        BY <1>4, <2>3, <2>4, <4>2, LlcUnits DEF BeforeSpm
    <3>2. QED
      BY <1>1, <1>2, <1>4, <2>2, <2>4, <3>1 DEF FirstPorts, PortsOut, BeforeSpm
  <2>5. CASE n = 4
    <3>1. "LlcNotBypass" \notin cfg.on
      BY <2>3, <2>5, LlcUnits
    <3>2. "LlcOutConnect" \in cfg.on => port'[3] = Idx(2)
      BY <1>1, <1>2, <1>4, <2>5 DEF FirstPorts, PortsOut, k
    <3>3. QED
      BY <1>1, <1>2, <1>4, <2>2, <2>5, <3>1, <3>2 DEF FirstPorts, PortsOut, BeforeSpm
  <2>6. CASE n > 4
    <3>1. /\ port'[3] = port[3] /\ port'[4] = port[4]
      BY <1>2, <2>6
    <3>2. /\ "LlcOutConnect" \in cfg.on => port[3] = Idx(2)
          /\ "LlcNotBypass" \in cfg.on => port[4] = Idx(IF "LlcOutConnect" \in cfg.on THEN 2 ELSE 1)
      BY <1>1, <1>4, <2>6 DEF FirstPorts, PortsOut, k
    <3>3. QED
      BY <1>1, <1>2, <1>4, <2>2, <2>6, <3>1, <3>2 DEF FirstPorts, PortsOut, BeforeSpm
  <2>7. QED
    BY <1>2, <2>2, <2>4, <2>5, <2>6
<1>5. CASE gen = "reg"
  <2>1. Len(port) >= 3 /\ port[1] = 1
    BY <1>5 DEF FirstPorts, PortsReg
  <2>2. QED
    BY <1>1, <1>2, <1>5, <2>1 DEF FirstPorts, PortsReg, BeforeSpm, k
<1>6. CASE gen \notin {"out", "reg"}
  BY <1>1, <1>6 DEF FirstPorts, BeforeSpm
<1>7. QED
  BY <1>4, <1>5, <1>6

\* What is known of the unit at hand.
LEMMA AtUnit ==
  ASSUME IInv, gen # "done", Len(port) < Len(Units(gen))
  PROVE  /\ gen \in Generators /\ cfg \in Configs /\ port \in Seq(Nat) /\ Len(port) \in Nat
         /\ FewRules(Units(gen)[Len(port) + 1].rules)
<1>1. gen \in Generators /\ cfg \in Configs /\ port \in Seq(Nat)
  BY DEF IInv, TypeOK
<1>2. Shape(gen) /\ UnitShape(gen)
  BY <1>1, Shapes, UnitShapes
<1>3. Len(port) + 1 \in 1 .. Len(Units(gen))
  BY <1>1, <1>2 DEF Shape
<1>4. QED
  BY <1>1, <1>2, <1>3 DEF UnitShape

\* Finished generators stay finished in a step of another.
LEMMA FinishedKept ==
  ASSUME AllFinished, UNCHANGED <<gen, made>>, NEW g \in {"out", "reg"}, Past(g)'
  PROVE  Finished(g, made'[g])
<1>1. Past(g)
  BY DEF Past
<1>2. QED
  BY <1>1 DEF AllFinished

\* The same for the map at hand.
LEMMA MapGrown ==
  ASSUME NEW rules, NEW n, FewRules(rules), r \in Int, r >= -1, DOMAIN map = 0 .. r,
         r + Len(rules) < IdxValues, map' = WithRules(map, r, n, rules)
  PROVE  /\ DOMAIN map' = 0 .. r + Len(rules)
         /\ Entries(map', r + Len(rules)) = Entries(map, r) \cup RulesTo(Idx(n), rules)
BY PutRules

\* The same for the units at hand.
LEMMA RulesGrown ==
  ASSUME NEW u, NEW v, port \in Seq(Nat), u = Units(gen)[Len(port) + 1], FewRules(u.rules), u.on
  PROVE  UnitRules(gen, Append(port, v)) = UnitRules(gen, port) \cup RulesTo(v, u.rules)
BY UnitRulesNext

\* A unit's rules join the map with the port the unit gets.
LEMMA AddUnitRules == ASSUME IInv, DInv, AddUnit PROVE DInv'
<1> DEFINE n == Len(port)
           u == Units(gen)[n + 1]
           v == IF u.j < MaxCores THEN Idx(Assigned(u)) ELSE 0
<1>1. gen # "done" /\ Len(port) < Len(Units(gen)) /\ u.on /\ cfg' = cfg /\ gen' = gen
  BY DEF AddUnit, Current
<1>2. gen \in Generators /\ cfg \in Configs /\ port \in Seq(Nat) /\ n \in Nat /\ FewRules(u.rules)
  BY <1>1, AtUnit
<1>3. /\ port' = Append(port, v) /\ r' = r + Len(u.rules)
      /\ map' = WithRules(map, r, Assigned(u), u.rules)
  BY DEF AddUnit, Current
<1>4. Len(port') = n + 1
  BY <1>2, <1>3
<1>5. r \in Int /\ r + 1 = Cardinality(RulePairs(gen, n))
  BY <1>1 DEF DInv, RulesCounted
<1>6. Len(u.rules) \in Nat
  BY <1>2 DEF FewRules
<1>7. r + 1 \in Nat
  BY <1>2, <1>5, PairsFinite, FS_CardinalityType
<1>8. r' \in Int /\ r' + 1 = Cardinality(RulePairs(gen', Len(port')))
  <2>1. Cardinality(RulePairs(gen, n + 1)) = Cardinality(RulePairs(gen, n)) + Len(u.rules)
    BY <1>1, <1>2, PairsCount
  <2>2. QED
    <3>1. RulePairs(gen', Len(port')) = RulePairs(gen, n + 1)
      BY <1>1, <1>4
    <3> HIDE DEF u, n, v
    <3>2. QED
      BY <1>3, <1>5, <1>6, <2>1, <3>1
<1>9. ASSUME ArraysFit(gen'), r' < IdxValues
      PROVE  DOMAIN map' = 0 .. r' /\ Entries(map', r') = UnitRules(gen', port')
  <2>1. r >= -1 /\ r < IdxValues /\ r + Len(u.rules) < IdxValues
    BY <1>3, <1>5, <1>6, <1>7, <1>9, IdxAssumption
  <2>2. DOMAIN map = 0 .. r /\ Entries(map, r) = UnitRules(gen, port)
    BY <1>1, <1>9, <2>1 DEF DInv, Mapped
  <2>3. v = Idx(Assigned(u))
    <3>1. n + 1 \in DOMAIN Units(gen)
      BY <1>1, <1>2, Shapes DEF Shape
    <3>2. u.j < MaxCores
      BY <1>1, <1>9, <3>1 DEF ArraysFit
    <3>3. QED
      BY <3>2
  <2>4. /\ port \in Seq(Nat) /\ u = Units(gen)[Len(port) + 1] /\ FewRules(u.rules) /\ u.on
        /\ r \in Int /\ map' = WithRules(map, r, Assigned(u), u.rules)
    BY <1>1, <1>2, <1>3, <1>5
  <2> HIDE DEF u, v, n
  <2>5. /\ DOMAIN map' = 0 .. r + Len(u.rules)
        /\ Entries(map', r + Len(u.rules)) = Entries(map, r) \cup RulesTo(Idx(Assigned(u)), u.rules)
    BY <2>1, <2>2, <2>4, MapGrown
  <2>6. UnitRules(gen, Append(port, v)) = UnitRules(gen, port) \cup RulesTo(v, u.rules)
    BY <2>4, RulesGrown
  <2>7. QED
    BY <1>1, <1>3, <2>2, <2>3, <2>5, <2>6
<1>10. FirstPorts(gen', port') /\ BeforeSpm'
  BY AddUnitPorts DEF DInv
<1>11. \A g \in {"out", "reg"} : Past(g)' => Finished(g, made'[g])
  BY FinishedKept DEF DInv, AddUnit
<1>12. RulesCounted' /\ Mapped' /\ FirstPorts(gen, port)' /\ AllFinished'
  BY <1>1, <1>8, <1>9, <1>10, <1>11, Primes
<1>13. QED
  BY <1>10, <1>12 DEF DInv

\* A unit that is not there adds no rule.
LEMMA SkipUnitRules == ASSUME IInv, DInv, SkipUnit PROVE DInv'
<1> DEFINE n == Len(port)
           u == Units(gen)[n + 1]
<1>1. gen # "done" /\ Len(port) < Len(Units(gen)) /\ ~u.on /\ cfg' = cfg /\ gen' = gen
  BY DEF SkipUnit, Current
<1>2. gen \in Generators /\ cfg \in Configs /\ port \in Seq(Nat) /\ n \in Nat /\ FewRules(u.rules)
  BY <1>1, AtUnit
<1>3. port' = Append(port, 0) /\ r' = r /\ map' = map
  BY DEF SkipUnit
<1>4. Len(port') = n + 1
  BY <1>2, <1>3
<1>5. r \in Int /\ r + 1 = Cardinality(RulePairs(gen, n))
  BY <1>1 DEF DInv, RulesCounted
<1>6. RulePairs(gen, n + 1) = RulePairs(gen, n)
  BY <1>1, <1>2, PairsNext
<1>7. r' \in Int /\ r' + 1 = Cardinality(RulePairs(gen', Len(port')))
  BY <1>1, <1>3, <1>4, <1>5, <1>6
<1>8. ASSUME ArraysFit(gen'), r' < IdxValues
      PROVE  DOMAIN map' = 0 .. r' /\ Entries(map', r') = UnitRules(gen', port')
  <2>1. DOMAIN map = 0 .. r /\ Entries(map, r) = UnitRules(gen, port)
    BY <1>1, <1>3, <1>8 DEF DInv, Mapped
  <2>2. UnitRules(gen, port') = UnitRules(gen, port)
    BY <1>1, <1>2, <1>3, UnitRulesNext
  <2>3. QED
    BY <1>1, <1>3, <2>1, <2>2
<1>9. FirstPorts(gen', port') /\ BeforeSpm'
  BY SkipUnitPorts DEF DInv
<1>10. \A g \in {"out", "reg"} : Past(g)' => Finished(g, made'[g])
  BY FinishedKept DEF DInv, SkipUnit
<1>11. RulesCounted' /\ Mapped' /\ FirstPorts(gen, port)' /\ AllFinished'
  BY <1>1, <1>7, <1>8, <1>9, <1>10, Primes
<1>12. QED
  BY <1>9, <1>11 DEF DInv

(***************************************************************************)
(* The external rules.                                                     *)
(***************************************************************************)

\* They go behind those of the units.
LEMMA ExtBehind ==
  ASSUME NEW m, NEW p \in Int, p >= -1, DOMAIN m = 0 .. p, NEW rules, Len(rules) \in Nat,
         p + 1 + Len(rules) <= IdxValues, NEW q, q = WithExt(m, p + 1, rules)
  PROVE  DOMAIN q = 0 .. p + Len(rules) /\ Entries(q, p + Len(rules)) = Entries(m, p) \cup Wrapped(rules)
<1> DEFINE l == Len(rules)
           F(k) == [rules[k] EXCEPT !.idx = Idx(@)]
<1>1. l \in Nat /\ p + 1 + l <= IdxValues /\ p + 1 + l - 1 = p + l
  OBVIOUS
<1>2. q = [x \in DOMAIN m \cup {y \in p + 1 .. p + 1 + l - 1 : y < IdxValues} |->
            IF x \in p + 1 .. p + 1 + l - 1 THEN F(x - (p + 1) + 1) ELSE m[x]]
  BY DEF WithExt
<1>3. Wrapped(rules) = {F(k) : k \in 1 .. l}
  BY DEF Wrapped
<1> HIDE DEF l, F
<1>4. (0 .. p) \cup {y \in p + 1 .. p + l : y < IdxValues} = 0 .. p + l
  BY <1>1, IdxAssumption
<1>5. q = [x \in 0 .. p + l |-> IF x \in p + 1 .. p + l THEN F(x - (p + 1) + 1) ELSE m[x]]
  BY <1>1, <1>2, <1>4
<1>6. \A x \in 0 .. p : x \in 0 .. p + l /\ q[x] = m[x]
  BY <1>1, <1>5
<1>7. \A k \in 1 .. l : p + k \in 0 .. p + l /\ q[p + k] = F(k)
  <2>1. TAKE k \in 1 .. l
  <2>2. p + k \in 0 .. p + l /\ p + k \in p + 1 .. p + l /\ p + k - (p + 1) + 1 = k
    BY <1>1
  <2> DEFINE y == p + k
  <2>3. y \in 0 .. p + l /\ y \in p + 1 .. p + l /\ y - (p + 1) + 1 = k
    BY <2>2
  <2> HIDE DEF y
  <2>4. q[y] = F(y - (p + 1) + 1)
    BY <1>5, <2>3
  <2>5. q[y] = F(k)
    BY <2>3, <2>4
  <2>6. QED
    BY <2>2, <2>5 DEF y
<1>8. \A x \in 0 .. p + l : x \in 0 .. p \/ (x - p \in 1 .. l /\ x = p + (x - p))
  BY <1>1
<1>9. {q[x] : x \in 0 .. p + l} = {m[x] : x \in 0 .. p} \cup {F(k) : k \in 1 .. l}
  <2>1. ASSUME NEW x \in 0 .. p + l PROVE q[x] \in {m[y] : y \in 0 .. p} \cup {F(k) : k \in 1 .. l}
    BY <1>6, <1>7, <1>8
  <2>2. ASSUME NEW x \in 0 .. p PROVE m[x] \in {q[y] : y \in 0 .. p + l}
    BY <1>6
  <2>3. ASSUME NEW k \in 1 .. l PROVE F(k) \in {q[y] : y \in 0 .. p + l}
    BY <1>7
  <2>4. QED
    BY <2>1, <2>2, <2>3
<1>10. QED
  BY <1>3, <1>5, <1>9 DEF Entries, l

\* The rules of the crossbar's ports and those of the demultiplexer's.
Values(s) == {s[x] : x \in DOMAIN s}
Shifted(rules, b) == [x \in DOMAIN rules |-> [rules[x] EXCEPT !.idx = Idx(b) + @]]
ToDemux(rules) == [x \in DOMAIN rules |-> [rules[x] EXCEPT !.idx = 1]]

\* They are sequences as long as what the configuration gives.
LEMMA ExtParts ==
  ASSUME NEW S, NEW rules \in Seq(S), NEW b
  PROVE  /\ Len(rules) \in Nat /\ DOMAIN rules = 1 .. Len(rules)
         /\ Shifted(rules, b) \in Seq(Values(Shifted(rules, b)))
         /\ Len(Shifted(rules, b)) = Len(rules) /\ DOMAIN Shifted(rules, b) = 1 .. Len(rules)
         /\ ToDemux(rules) \in Seq(Values(ToDemux(rules)))
         /\ Len(ToDemux(rules)) = Len(rules) /\ DOMAIN ToDemux(rules) = 1 .. Len(rules)
<1> DEFINE l == Len(rules)
           s == Shifted(rules, b)
           t == ToDemux(rules)
<1>1. l \in Nat /\ DOMAIN rules = 1 .. l
  OBVIOUS
<1>2. DOMAIN s = 1 .. l /\ s = [x \in 1 .. l |-> s[x]]
  BY <1>1 DEF Shifted
<1>3. DOMAIN t = 1 .. l /\ t = [x \in 1 .. l |-> t[x]]
  BY <1>1 DEF ToDemux
<1> HIDE DEF l, s, t
<1>4. s \in [1 .. l -> {s[x] : x \in 1 .. l}]
  BY <1>2
<1>5. t \in [1 .. l -> {t[x] : x \in 1 .. l}]
  BY <1>3
<1>6. s \in Seq({s[x] : x \in 1 .. l}) /\ Len(s) = l
  BY <1>1, <1>4, FunctionIsSeq
<1>7. t \in Seq({t[x] : x \in 1 .. l}) /\ Len(t) = l
  BY <1>1, <1>5, FunctionIsSeq
<1>8. s \in Seq(Values(s)) /\ t \in Seq(Values(t))
  BY <1>2, <1>3, <1>6, <1>7 DEF Values
<1>9. QED
  BY <1>1, <1>2, <1>3, <1>6, <1>7, <1>8 DEF l, s, t

\* How many rules the crossbar has, and which.
LEMMA ExtOut ==
  ASSUME cfg \in Configs, NEW b
  PROVE  LET k == Len(cfg.AxiExt)
             l == Len(cfg.RegExt)
             e == ExtRules("out", b)
         IN /\ k \in Nat /\ l \in Nat /\ Len(e) = k + l
            /\ \A x \in 1 .. k : e[x] = [cfg.AxiExt[x] EXCEPT !.idx = Idx(b) + @]
            /\ \A x \in 1 .. l : e[k + x] = [cfg.RegExt[x] EXCEPT !.idx = 1]
<1> DEFINE k == Len(cfg.AxiExt)
           l == Len(cfg.RegExt)
           s == Shifted(cfg.AxiExt, b)
           t == ToDemux(cfg.RegExt)
           S == Values(s) \cup Values(t)
<1>1. cfg.AxiExt \in Seq([idx : Nat, start : Nat, pte : Nat]) /\ cfg.RegExt \in Seq([idx : Nat, start : Nat, pte : Nat])
  BY ConfigsAssumption
<1>2. /\ k \in Nat /\ DOMAIN cfg.AxiExt = 1 .. k /\ s \in Seq(Values(s)) /\ Len(s) = k
  BY <1>1, ExtParts
<1>3. /\ l \in Nat /\ DOMAIN cfg.RegExt = 1 .. l /\ t \in Seq(Values(t)) /\ Len(t) = l
  BY <1>1, ExtParts
<1>4. ExtRules("out", b) = s \o t
  BY DEF ExtRules, Shifted, ToDemux
<1>5. \A x \in 1 .. k : s[x] = [cfg.AxiExt[x] EXCEPT !.idx = Idx(b) + @]
  BY <1>2 DEF Shifted
<1>6. \A x \in 1 .. l : t[x] = [cfg.RegExt[x] EXCEPT !.idx = 1]
  BY <1>3 DEF ToDemux
<1> HIDE DEF k, l, s, t
<1>7. s \in Seq(S) /\ t \in Seq(S)
  <2>1. Values(s) \subseteq S /\ Values(t) \subseteq S
    OBVIOUS
  <2> HIDE DEF S
  <2>2. QED
    BY <1>2, <1>3, <2>1
<1> HIDE DEF S
<1>8. /\ Len(s \o t) = k + l
      /\ \A x \in 1 .. k : (s \o t)[x] = s[x]
      /\ \A x \in 1 .. l : (s \o t)[k + x] = t[x]
  <2>1. s \in Seq(S) /\ Len(s) = k
    BY <1>2, <1>7
  <2>2. t \in Seq(S) /\ Len(t) = l
    BY <1>3, <1>7
  <2>3. QED
    BY <2>1, <2>2, ConcatAt
<1>9. QED
  BY <1>2, <1>3, <1>4, <1>5, <1>6, <1>8 DEF k, l

\* The same for the demultiplexer.
LEMMA ExtReg ==
  ASSUME cfg \in Configs, NEW b
  PROVE  LET l == Len(cfg.RegExt)
             e == ExtRules("reg", b)
         IN l \in Nat /\ Len(e) = l /\ \A x \in 1 .. l : e[x] = [cfg.RegExt[x] EXCEPT !.idx = Idx(b) + @]
<1> DEFINE l == Len(cfg.RegExt)
           s == Shifted(cfg.RegExt, b)
<1>1. cfg.RegExt \in Seq([idx : Nat, start : Nat, pte : Nat])
  BY ConfigsAssumption
<1>2. l \in Nat /\ DOMAIN cfg.RegExt = 1 .. l /\ Len(s) = l
  BY <1>1, ExtParts
<1>3. ExtRules("reg", b) = s
  BY DEF ExtRules, Shifted
<1>4. \A x \in 1 .. l : s[x] = [cfg.RegExt[x] EXCEPT !.idx = Idx(b) + @]
  BY <1>2 DEF Shifted
<1> HIDE DEF s
<1>5. QED
  BY <1>2, <1>3, <1>4

\* How many they are does not depend on where external ports begin.
LEMMA ExtLen ==
  ASSUME cfg \in Configs, NEW g \in {"out", "reg"}, NEW b
  PROVE  Len(ExtRules(g, b)) \in Nat /\ Len(ExtRules(g, b)) = Len(ExtRules(g, 0))
<1>1. CASE g = "out"
  <2> DEFINE k == Len(cfg.AxiExt)
             l == Len(cfg.RegExt)
  <2>1. k \in Nat /\ l \in Nat /\ Len(ExtRules("out", b)) = k + l
    BY ExtOut
  <2>2. Len(ExtRules("out", 0)) = k + l
    BY ExtOut
  <2> HIDE DEF k, l
  <2>3. QED
    BY <1>1, <2>1, <2>2
<1>2. CASE g = "reg"
  <2>1. Len(cfg.RegExt) \in Nat /\ Len(ExtRules("reg", b)) = Len(cfg.RegExt) /\ Len(ExtRules("reg", 0)) = Len(cfg.RegExt)
    BY ExtReg
  <2>2. QED
    BY <1>2, <2>1
<1>3. QED
  BY <1>1, <1>2

\* A rule with another index.
LEMMA WrapOne ==
  ASSUME NEW q \in [idx : Nat, start : Nat, pte : Nat], NEW c
  PROVE  /\ [[q EXCEPT !.idx = Idx(c) + @] EXCEPT !.idx = Idx(@)] = RuleTo(Idx(Idx(c) + q.idx), q)
         /\ [[q EXCEPT !.idx = 1] EXCEPT !.idx = Idx(@)] = RuleTo(Idx(1), q)
<1>1. q = [idx |-> q.idx, start |-> q.start, pte |-> q.pte]
  OBVIOUS
<1>2. ASSUME NEW n PROVE [[q EXCEPT !.idx = n] EXCEPT !.idx = Idx(@)] = RuleTo(Idx(n), q)
  <2>1. [q EXCEPT !.idx = n] = [idx |-> n, start |-> q.start, pte |-> q.pte]
    BY <1>1
  <2>2. [[idx |-> n, start |-> q.start, pte |-> q.pte] EXCEPT !.idx = Idx(@)]
          = [idx |-> Idx(n), start |-> q.start, pte |-> q.pte]
    OBVIOUS
  <2>3. QED
    BY <2>1, <2>2 DEF RuleTo
<1>3. QED
  <2> DEFINE n == Idx(c) + q.idx
  <2>1. [q EXCEPT !.idx = Idx(c) + @] = [q EXCEPT !.idx = n]
    OBVIOUS
  <2> HIDE DEF n
  <2>2. [[q EXCEPT !.idx = n] EXCEPT !.idx = Idx(@)] = RuleTo(Idx(n), q)
    BY <1>2
  <2>3. [[q EXCEPT !.idx = 1] EXCEPT !.idx = Idx(@)] = RuleTo(Idx(1), q)
    BY <1>2
  <2>4. [[q EXCEPT !.idx = Idx(c) + @] EXCEPT !.idx = Idx(@)] = RuleTo(Idx(n), q)
    BY <2>1, <2>2
  <2>5. QED
    BY <2>3, <2>4 DEF n

\* The external rules in a map are those of the configuration.
LEMMA ExtAsSet ==
  ASSUME cfg \in Configs, NEW g \in {"out", "reg"}, NEW b
  PROVE  Wrapped(ExtRules(g, b)) = ExtRuleSet(g, Idx(b))
<1> DEFINE A == cfg.AxiExt
           R == cfg.RegExt
           k == Len(A)
           l == Len(R)
           F(x) == RuleTo(Idx(Idx(b) + A[x].idx), A[x])
           G(x) == RuleTo(Idx(Idx(b) + R[x].idx), R[x])
           H(x) == RuleTo(Idx(1), R[x])
           W(e, x) == [e[x] EXCEPT !.idx = Idx(@)]
<1>1. A \in Seq([idx : Nat, start : Nat, pte : Nat]) /\ R \in Seq([idx : Nat, start : Nat, pte : Nat])
  BY ConfigsAssumption
<1>2. DOMAIN A = 1 .. k /\ DOMAIN R = 1 .. l /\ k \in Nat /\ l \in Nat
  BY <1>1
<1>3. /\ \A x \in 1 .. k : A[x] \in [idx : Nat, start : Nat, pte : Nat]
      /\ \A x \in 1 .. l : R[x] \in [idx : Nat, start : Nat, pte : Nat]
  <2> DEFINE S == [idx : Nat, start : Nat, pte : Nat]
  <2>1. A \in Seq(S) /\ R \in Seq(S)
    BY <1>1
  <2> HIDE DEF S, A, R
  <2>2. (\A x \in 1 .. Len(A) : A[x] \in S) /\ (\A x \in 1 .. Len(R) : R[x] \in S)
    BY <2>1
  <2>3. QED
    BY <2>2 DEF S, A, R
<1>4. CASE g = "out"
  <2> DEFINE e == ExtRules("out", b)
  <2>1. /\ Len(e) = k + l
        /\ \A x \in 1 .. k : e[x] = [A[x] EXCEPT !.idx = Idx(b) + @]
        /\ \A x \in 1 .. l : e[k + x] = [R[x] EXCEPT !.idx = 1]
    BY ExtOut
  <2>2. \A x \in 1 .. k : W(e, x) = F(x)
    BY <1>3, <2>1, WrapOne
  <2>3. \A x \in 1 .. l : W(e, k + x) = H(x)
    BY <1>3, <2>1, WrapOne
  <2>4. Wrapped(e) = {W(e, x) : x \in 1 .. k + l}
    BY <2>1 DEF Wrapped
  <2>5. ExtRuleSet(g, Idx(b)) = {F(x) : x \in 1 .. k} \cup {H(x) : x \in 1 .. l}
    BY <1>2, <1>4 DEF ExtRuleSet
  <2> HIDE DEF A, R, k, l, F, H, W, e
  <2>6. {W(e, x) : x \in 1 .. k + l} = {F(x) : x \in 1 .. k} \cup {H(x) : x \in 1 .. l}
    <3>1. ASSUME NEW x \in 1 .. k + l PROVE W(e, x) \in {F(y) : y \in 1 .. k} \cup {H(y) : y \in 1 .. l}
      <4>1. CASE x \in 1 .. k
        BY <2>2, <4>1
      <4>2. CASE x \notin 1 .. k
        <5> DEFINE y == x - k
        <5>1. y \in 1 .. l /\ x = k + y
          BY <1>2, <4>2
        <5> HIDE DEF y
        <5>2. W(e, x) = H(y)
          BY <2>3, <5>1
        <5>3. QED
          BY <5>1, <5>2
      <4>3. QED
        BY <4>1, <4>2
    <3>2. ASSUME NEW y \in 1 .. k PROVE F(y) \in {W(e, x) : x \in 1 .. k + l}
      <4>1. y \in 1 .. k + l
        BY <1>2
      <4>2. QED
        BY <2>2, <4>1
    <3>3. ASSUME NEW y \in 1 .. l PROVE H(y) \in {W(e, x) : x \in 1 .. k + l}
      <4>1. k + y \in 1 .. k + l
        BY <1>2
      <4>2. QED
        BY <2>3, <4>1
    <3>4. QED
      BY <3>1, <3>2, <3>3
  <2>7. QED
    BY <1>4, <2>4, <2>5, <2>6 DEF e
<1>5. CASE g = "reg"
  <2> DEFINE e == ExtRules("reg", b)
  <2>1. Len(e) = l /\ \A x \in 1 .. l : e[x] = [R[x] EXCEPT !.idx = Idx(b) + @]
    BY ExtReg
  <2>2. \A x \in 1 .. l : W(e, x) = G(x)
    BY <1>3, <2>1, WrapOne
  <2>3. Wrapped(e) = {W(e, x) : x \in 1 .. l}
    BY <2>1 DEF Wrapped
  <2>4. ExtRuleSet(g, Idx(b)) = {G(x) : x \in 1 .. l}
    BY <1>2, <1>5 DEF ExtRuleSet
  <2> HIDE DEF A, R, k, l, G, W, e
  <2>5. {W(e, x) : x \in 1 .. l} = {G(x) : x \in 1 .. l}
    BY <2>2
  <2>6. QED
    BY <1>5, <2>3, <2>4, <2>5 DEF e
<1>6. QED
  BY <1>4, <1>5

(***************************************************************************)
(* Where generators begin and end.                                         *)
(***************************************************************************)

\* The rules set beforehand are those of the first units, with their ports.
LEMMA FirstCounted ==
  ASSUME NEW g, NEW n \in Nat, \A m \in 1 .. n : Units(g)[m].on /\ DOMAIN Units(g)[m].rules = {1}
  PROVE  /\ RulePairs(g, n) = {<<m, 1>> : m \in 1 .. n}
         /\ \A pt : Len(pt) = n => UnitRules(g, pt) = {RuleTo(pt[m], Units(g)[m].rules[1]) : m \in 1 .. n}
<1>1. RulePairs(g, n) = {<<m, 1>> : m \in 1 .. n}
  BY DEF RulePairs
<1>2. ASSUME NEW pt, Len(pt) = n
      PROVE  UnitRules(g, pt) = {RuleTo(pt[m], Units(g)[m].rules[1]) : m \in 1 .. n}
  <2> DEFINE F(x) == RuleTo(pt[x[1]], Units(g)[x[1]].rules[x[2]])
             G(m) == RuleTo(pt[m], Units(g)[m].rules[1])
  <2>1. UnitRules(g, pt) = {F(x) : x \in {<<m, 1>> : m \in 1 .. n}}
    BY <1>1, <1>2 DEF UnitRules
  <2>2. \A m : F(<<m, 1>>) = G(m)
    OBVIOUS
  <2> HIDE DEF F, G
  <2>3. {F(x) : x \in {<<m, 1>> : m \in 1 .. n}} = {G(m) : m \in 1 .. n}
    BY <2>2
  <2>4. QED
    BY <2>1, <2>3 DEF G
<1>3. QED
  BY <1>1, <1>2

\* Their number.
LEMMA FirstNumber == ASSUME NEW g, NEW n \in Nat, RulePairs(g, n) = {<<m, 1>> : m \in 1 .. n}
                     PROVE  n \in {2, 3} => Cardinality(RulePairs(g, n)) = n
<1>1. CASE n = 2
  <2>1. RulePairs(g, n) = {<<1, 1>>} \cup {<<2, 1>>}
    BY <1>1
  <2>2. Cardinality({<<1, 1>>}) = 1 /\ IsFiniteSet({<<1, 1>>})
    BY FS_Singleton
  <2>3. <<2, 1>> \notin {<<1, 1>>}
    OBVIOUS
  <2>4. Cardinality({<<1, 1>>} \cup {<<2, 1>>}) = 1 + 1
    BY <2>2, <2>3, FS_AddElement
  <2>5. QED
    BY <1>1, <2>1, <2>4
<1>2. CASE n = 3
  <2> DEFINE T == {<<1, 1>>} \cup {<<2, 1>>}
  <2>1. RulePairs(g, n) = T \cup {<<3, 1>>} /\ <<3, 1>> \notin T
    BY <1>2
  <2>2. Cardinality({<<1, 1>>}) = 1 /\ IsFiniteSet({<<1, 1>>})
    BY FS_Singleton
  <2>3. <<2, 1>> \notin {<<1, 1>>}
    OBVIOUS
  <2>4. Cardinality(T) = 1 + 1 /\ IsFiniteSet(T)
    BY <2>2, <2>3, FS_AddElement
  <2> HIDE DEF T
  <2>5. Cardinality(T \cup {<<3, 1>>}) = 1 + 1 + 1
    BY <2>1, <2>4, FS_AddElement
  <2>6. QED
    BY <1>2, <2>1, <2>5
<1>3. QED
  BY <1>1, <1>2

\* So that a generator begins with a map of its first units.
LEMMA BeginRules ==
  ASSUME cfg \in Configs, NEW g \in {"out", "reg"}
  PROVE  LET pt == Preset(g).port
             p == Len(pt) - 1
         IN  /\ p \in Int /\ p + 1 = Cardinality(RulePairs(g, Len(pt)))
             /\ DOMAIN FirstRules(g) = 0 .. p /\ Entries(FirstRules(g), p) = UnitRules(g, pt)
             /\ FirstPorts(g, pt)
<1> DEFINE pt == Preset(g).port
           n == Len(pt)
           p == n - 1
           U == Units(g)
           G(m) == RuleTo(pt[m], U[m].rules[1])
<1>1. n \in {2, 3} /\ n \in Nat
  BY DEF Preset
<1>2. FirstPorts(g, pt)
  BY DEF Preset, FirstPorts, PortsOut, PortsReg
<1>3. \A m \in 1 .. n : U[m].on /\ DOMAIN U[m].rules = {1}
  <2>1. UnitShape(g)
    BY UnitShapes DEF Generators
  <2>2. QED
    BY <2>1 DEF UnitShape
<1>4. FirstRules(g) = [x \in 0 .. p |-> [idx |-> pt[x + 1], start |-> U[x + 1].rules[1].start, pte |-> U[x + 1].rules[1].pte]]
  BY DEF FirstRules
<1> HIDE DEF pt, n, U
<1>5. RulePairs(g, n) = {<<m, 1>> : m \in 1 .. n} /\ UnitRules(g, pt) = {G(m) : m \in 1 .. n}
  <2>1. \A m \in 1 .. n : Units(g)[m].on /\ DOMAIN Units(g)[m].rules = {1}
    BY <1>3 DEF U
  <2>2. Len(pt) = n
    BY DEF n
  <2>3. QED
    BY <1>1, <2>1, <2>2, FirstCounted DEF U
<1>6. Cardinality(RulePairs(g, n)) = n
  BY <1>1, <1>5, FirstNumber
<1>7. FirstRules(g) = [x \in 0 .. p |-> G(x + 1)]
  BY <1>4 DEF RuleTo
<1> HIDE DEF G
<1>8. Entries(FirstRules(g), p) = {G(m) : m \in 1 .. n}
  <2>1. Entries(FirstRules(g), p) = {G(x + 1) : x \in 0 .. p}
    BY <1>7 DEF Entries
  <2>2. {G(x + 1) : x \in 0 .. p} = {G(m) : m \in 1 .. n}
    <3>1. ASSUME NEW x \in 0 .. p PROVE x + 1 \in 1 .. n
      BY <1>1
    <3>2. ASSUME NEW m \in 1 .. n PROVE \E x \in 0 .. p : m = x + 1
      <4>1. m - 1 \in 0 .. p /\ m = (m - 1) + 1
        BY <1>1
      <4>2. QED
        BY <4>1
    <3>3. QED
      BY <3>1, <3>2
  <2>3. QED
    BY <2>1, <2>2
<1>9. p \in Int /\ p + 1 = Cardinality(RulePairs(g, n)) /\ DOMAIN FirstRules(g) = 0 .. p
  BY <1>1, <1>6, <1>7
<1>10. QED
  BY <1>2, <1>5, <1>8, <1>9 DEF n, pt

\* What a generator returns has the rules of all its units and the external ones.
LEMMA FinishMap ==
  ASSUME IInv, DInv, Finish, gen \in {"out", "reg"}
  PROVE  Finished(gen, made'[gen])
<1> DEFINE rules == ExtRules(gen, i + 1)
           l == Len(rules)
           m == made'[gen]
           n == Len(port)
<1>1. /\ cfg \in Configs /\ i \in Nat /\ port \in Seq(Nat) /\ n \in Nat /\ DOMAIN made = Generators
      /\ n = Len(Units(gen)) /\ DOMAIN Units(gen) = 1 .. n
  <2>1. cfg \in Configs /\ i \in Nat /\ port \in Seq(Nat) /\ DOMAIN made = Generators
    BY DEF IInv, TypeOK
  <2>2. Shape(gen)
    BY <2>1, Shapes DEF Generators
  <2>3. QED
    BY <2>1, <2>2 DEF Finish, Shape
<1>2. /\ m.port = port /\ m.i = i /\ m.ext_base = Idx(i + 1)
      /\ m.num_rules = Idx(r + 1 + l) /\ m.map = WithExt(map, r + 1, rules)
  BY <1>1 DEF Finish, Generators
<1>3. FirstPorts(gen, port)
  BY DEF DInv
<1>4. l \in Nat /\ l = Len(ExtRules(gen, 0))
  BY <1>1, ExtLen
<1>5. Wrapped(rules) = ExtRuleSet(gen, Idx(i + 1))
  BY <1>1, ExtAsSet
<1>6. r \in Int /\ r + 1 = Cardinality(RulePairs(gen, n))
  BY DEF DInv, RulesCounted
<1>7. r + 1 \in Nat
  BY <1>1, <1>6, PairsFinite, FS_CardinalityType
<1> HIDE DEF rules, l, m, n
<1>8. ASSUME ArraysFit(gen), RulesFit(gen)
      PROVE  /\ m.num_rules \in Nat /\ DOMAIN m.map = 0 .. m.num_rules - 1
             /\ Entries(m.map, m.num_rules - 1) = UnitRules(gen, m.port) \cup ExtRuleSet(gen, m.ext_base)
  <2>1. r + 1 + l < IdxValues
    <3>1. RulePairs(gen, n) = {x \in (DOMAIN Units(gen)) \X {1, 2} :
                                 Units(gen)[x[1]].on /\ x[2] \in DOMAIN Units(gen)[x[1]].rules}
      BY <1>1 DEF RulePairs
    <3>2. Cardinality(RulePairs(gen, n)) + Len(ExtRules(gen, 0)) < IdxValues
      BY <1>8, <3>1 DEF RulesFit
    <3>3. QED
      BY <1>4, <1>6, <3>2
  <2>2. m.num_rules = r + 1 + l /\ m.num_rules - 1 = r + l
    <3>1. r + 1 + l \in Nat
      BY <1>4, <1>7
    <3>2. Idx(r + 1 + l) = r + 1 + l
      BY <2>1, <3>1, IdxSame
    <3>3. QED
      BY <1>2, <1>4, <1>6, <3>2
  <2>3. DOMAIN map = 0 .. r /\ Entries(map, r) = UnitRules(gen, port)
    <3>1. r < IdxValues
      BY <1>4, <1>6, <2>1, IdxAssumption
    <3>2. QED
      BY <1>8, <3>1 DEF DInv, Mapped
  <2>4. DOMAIN m.map = 0 .. r + l /\ Entries(m.map, r + l) = Entries(map, r) \cup Wrapped(rules)
    <3>1. r >= -1 /\ r + 1 + Len(rules) <= IdxValues /\ Len(rules) \in Nat
      BY <1>4, <1>6, <1>7, <2>1, IdxAssumption DEF l
    <3> DEFINE q == m.map
    <3>2. q = WithExt(map, r + 1, rules)
      BY <1>2
    <3> HIDE DEF q
    <3>3. DOMAIN q = 0 .. r + Len(rules) /\ Entries(q, r + Len(rules)) = Entries(map, r) \cup Wrapped(rules)
      BY <1>6, <2>3, <3>1, <3>2, ExtBehind
    <3>4. QED
      BY <3>3 DEF q, l
  <2>5. QED
    <3>1. m.num_rules \in Nat
      BY <1>4, <1>7, <2>2
    <3>2. QED
      BY <1>2, <1>5, <2>2, <2>3, <2>4, <3>1
<1>9. m.port \in Seq(Nat) /\ Len(m.port) = Len(Units(gen)) /\ m.i \in Nat /\ m.ext_base = Idx(m.i + 1)
  BY <1>1, <1>2 DEF n
<1>10. FirstPorts(gen, m.port)
  BY <1>2, <1>3
<1>11. Rising(gen, m)
  <2> SUFFICES ASSUME i + 1 + ExtPorts(gen) < IdxValues, ArraysFit(gen),
                      NEW s \in 1 .. n, NEW t \in 1 .. n, s < t,
                      Separate(Units(gen)[s]), Separate(Units(gen)[t])
               PROVE  port[s] < port[t]
    BY <1>1, <1>2, Zenon DEF Rising
  <2>1. i < IdxValues /\ gen # "done"
    <3>1. ExtPorts(gen) \in Nat
      BY <1>1, ConfigsAssumption DEF ExtPorts
    <3>2. QED
      BY <1>1, <3>1, IdxAssumption DEF Finish
  <2>2. s \in 1 .. t - 1 /\ t \in 1 .. Len(port)
    BY <1>1 DEF n
  <2>3. QED
    BY <2>1, <2>2 DEF IInv, Spaced
<1>12. Finished(gen, m)
  BY <1>8, <1>9, <1>10, <1>11 DEF Finished
<1>13. QED
  BY <1>12 DEF m

\* Generators that have finished when one ends.
LEMMA PastThen ==
  ASSUME Finish, gen \in Generators, NEW g \in {"out", "reg"}, Past(g)'
  PROVE  g = gen \/ (g # gen /\ Past(g))
<1>1. gen' = Following(gen)
  BY DEF Finish, Begin
<1>2. CASE gen = "in"
  BY <1>1, <1>2 DEF Following, Past
<1>3. CASE gen = "out"
  BY <1>1, <1>3 DEF Following, Past
<1>4. CASE gen = "reg"
  BY <1>1, <1>4 DEF Following, Past
<1>5. QED
  BY <1>2, <1>3, <1>4 DEF Generators

\* A generator ends and the next begins.
LEMMA FinishRules == ASSUME IInv, DInv, Finish PROVE DInv'
<1>1. gen \in Generators /\ cfg' = cfg /\ cfg \in Configs /\ DOMAIN made = Generators
  BY DEF IInv, TypeOK, Finish, Generators
<1>2. \A g \in {"out", "reg"} : Past(g)' => Finished(g, made'[g])
  <2> SUFFICES ASSUME NEW g \in {"out", "reg"}, Past(g)' PROVE Finished(g, made'[g])
    OBVIOUS
  <2>1. CASE g = gen
    BY <2>1, FinishMap
  <2>2. CASE g # gen
    <3>1. Past(g)
      BY <1>1, <2>2, PastThen
    <3>2. made'[g] = made[g]
      BY <1>1, <2>2 DEF Finish, Generators
    <3>3. QED
      BY <3>1, <3>2 DEF DInv, AllFinished
  <2>3. QED
    BY <2>1, <2>2
<1>3. CASE Following(gen) = "done"
  <2>1. gen' = "done"
    BY <1>3 DEF Finish
  <2>2. FirstPorts(gen', port') /\ BeforeSpm'
    BY <2>1 DEF FirstPorts, BeforeSpm
  <2>3. RulesCounted' /\ Mapped' /\ FirstPorts(gen, port)' /\ AllFinished'
    BY <1>1, <1>2, <2>1, <2>2, Primes
  <2>4. QED
    BY <2>2, <2>3 DEF DInv
<1>4. CASE Following(gen) # "done"
  <2> DEFINE g == Following(gen)
             pt == Preset(g).port
             p == Len(pt) - 1
  <2>1. g \in {"out", "reg"} /\ Begin(g)
    BY <1>4 DEF Finish, Following
  <2>2. gen' = g /\ i' = Preset(g).i /\ port' = pt /\ r' = p /\ map' = FirstRules(g)
    BY <2>1 DEF Begin
  <2>3. /\ p \in Int /\ p + 1 = Cardinality(RulePairs(g, Len(pt)))
        /\ DOMAIN FirstRules(g) = 0 .. p /\ Entries(FirstRules(g), p) = UnitRules(g, pt)
        /\ FirstPorts(g, pt)
    BY <1>1, <2>1, BeginRules
  <2>4. BeforeSpm'
    <3>1. gen' = "out" => i' = 1 /\ Len(port') = 2
      BY <2>2 DEF Preset
    <3>2. QED
      BY <3>1 DEF BeforeSpm
  <2> HIDE DEF g, pt, p
  <2>5. /\ r' \in Int /\ r' + 1 = Cardinality(RulePairs(gen', Len(port')))
        /\ DOMAIN map' = 0 .. r' /\ Entries(map', r') = UnitRules(gen', port')
        /\ FirstPorts(gen', port')
    BY <2>2, <2>3
  <2>6. RulesCounted' /\ Mapped' /\ FirstPorts(gen, port)' /\ AllFinished'
    BY <1>1, <1>2, <2>5, Primes
  <2>7. QED
    BY <2>4, <2>6 DEF DInv
<1>5. QED
  BY <1>3, <1>4

\* Nothing is mapped to begin with.
LEMMA InitRules == ASSUME Init PROVE DInv
<1>1. gen = "in" /\ r = -1 /\ port = <<>> /\ map = <<>>
  BY DEF Init
<1>2. RulePairs(gen, Len(port)) = {} /\ Cardinality(RulePairs(gen, Len(port))) = 0
  BY <1>1, PairsNone
<1>3. RulesCounted
  BY <1>1, <1>2 DEF RulesCounted
<1>4. Mapped
  BY <1>1, <1>2 DEF Mapped, Entries, UnitRules
<1>5. FirstPorts(gen, port) /\ BeforeSpm /\ AllFinished
  BY <1>1 DEF FirstPorts, BeforeSpm, AllFinished, Past
<1>6. QED
  BY <1>3, <1>4, <1>5 DEF DInv

\* What a state says stays true as long as nothing changes.
LEMMA StutterRules == ASSUME IInv, DInv, UNCHANGED vars PROVE DInv'
<1>1. cfg' = cfg /\ gen' = gen /\ i' = i /\ r' = r /\ port' = port /\ map' = map /\ made' = made
  BY DEF vars
<1>2. \A g \in {"out", "reg"} : Past(g)' => Finished(g, made'[g])
  BY <1>1, FinishedKept DEF DInv
<1>3. RulesCounted' /\ Mapped' /\ FirstPorts(gen, port)' /\ AllFinished'
  <2>1. gen' # "done" => r' \in Int /\ r' + 1 = Cardinality(RulePairs(gen', Len(port')))
    BY <1>1 DEF DInv, RulesCounted
  <2>2. gen' # "done" /\ ArraysFit(gen') /\ r' < IdxValues =>
          DOMAIN map' = 0 .. r' /\ Entries(map', r') = UnitRules(gen', port')
    BY <1>1 DEF DInv, Mapped
  <2>3. FirstPorts(gen', port')
    BY <1>1 DEF DInv
  <2>4. QED
    BY <1>1, <1>2, <2>1, <2>2, <2>3, Primes
<1>4. BeforeSpm'
  BY <1>1 DEF DInv, BeforeSpm
<1>5. QED
  BY <1>3, <1>4 DEF DInv

(***************************************************************************)
(* Decoding.                                                               *)
(***************************************************************************)

\* A set of numbers has a least one, and below a bound a greatest.
LEMMA Smallest == ASSUME NEW T \in SUBSET Nat, T # {} PROVE \E x \in T : \A y \in T : x <= y
<1>1. PICK x \in T : \A y \in T : ~(<<y, x>> \in OpToRel(<, Nat))
  BY NatLessThanWellFounded, WFMin
<1>2. \A y \in T : ~(y < x)
  BY <1>1 DEF OpToRel
<1>3. QED
  BY <1>2

\* Likewise for the greatest, mirrored at the bound.
LEMMA Largest == ASSUME NEW n \in Int, NEW S \in SUBSET (0 .. n), S # {} PROVE \E x \in S : \A y \in S : y <= x
<1> DEFINE T == {n - x : x \in S}
<1>1. T \in SUBSET Nat /\ T # {}
  <2>1. \A x \in S : n - x \in Nat
    <3>1. TAKE x \in S
    <3>2. x \in 0 .. n
      OBVIOUS
    <3>3. QED
      BY <3>2
  <2>2. QED
    BY <2>1
<1>2. PICK t \in T : \A u \in T : t <= u
  <2> HIDE DEF T
  <2>1. QED
    BY <1>1, Smallest
<1>3. PICK x \in S : t = n - x
  BY <1>2
<1>4. \A y \in S : y <= x
  <2>1. TAKE y \in S
  <2>2. n - x <= n - y
    BY <1>2, <1>3, <2>1
  <2>3. x \in 0 .. n /\ y \in 0 .. n
    BY <1>3, <2>1
  <2>4. QED
    BY <2>2, <2>3
<1>5. QED
  BY <1>4

\* The decoder gives the port of a rule that holds the address; the default, if none does.
LEMMA DecodeRule ==
  ASSUME NEW m, m.num_rules \in Nat, DOMAIN m.map = 0 .. m.num_rules - 1,
         NEW H, Entries(m.map, m.num_rules - 1) = H, NEW a, NEW d
  PROVE  /\ (\A h \in H : ~Inside(a, h)) => Decode(m, a, d) = d
         /\ (\E h \in H : Inside(a, h)) => \E h \in H : Inside(a, h) /\ Decode(m, a, d) = h.idx
<1> DEFINE p == m.num_rules - 1
           map0 == m.map
           hits == {x \in DOMAIN m.map : x < m.num_rules /\ Inside(a, m.map[x])}
           last == CHOOSE x \in hits : \A y \in hits : y <= x
<1>1. p \in Int /\ \A x \in 0 .. p : x < m.num_rules
  OBVIOUS
<1>2. H = {map0[x] : x \in 0 .. p}
  BY DEF Entries
<1>3. hits = {x \in 0 .. p : Inside(a, map0[x])}
  BY <1>1
<1>4. Decode(m, a, d) = IF hits = {} THEN d ELSE map0[last].idx
  BY DEF Decode
<1> HIDE DEF p, map0, hits, last
<1>5. CASE hits = {}
  BY <1>2, <1>3, <1>4, <1>5
<1>6. CASE hits # {}
  <2>1. hits \in SUBSET (0 .. p)
    BY <1>3
  <2>2. \E x \in hits : \A y \in hits : y <= x
    BY <1>1, <1>6, <2>1, Largest
  <2>3. last \in hits
    BY <2>2 DEF last
  <2>4. map0[last] \in H /\ Inside(a, map0[last])
    BY <1>2, <1>3, <2>3
  <2>5. QED
    BY <1>4, <1>6, <2>4
<1>7. QED
  BY <1>5, <1>6

(***************************************************************************)
(* Where the units are.                                                    *)
(***************************************************************************)

\* The regions of the SoC in numbers, those of the crossbar's units first.
LEMMA OutNumbers ==
  /\ EXTROM.start = 0 /\ EXTROM.pte = 65536 /\ DMA.start = 4194304 /\ DMA.pte = 4195328
  /\ REG_DEMUX.start = 8388608 /\ REG_DEMUX.pte = 50331648
  /\ SPM_BASE_ADDR = 67108864 /\ SPM_UNC_BASE_ADDR = 83886080
BY SMT DEF EXTROM, DMA, REG_DEMUX, BOOTROM, SPM_BASE_ADDR, SPM_UNC_BASE_ADDR, Region, KiB, MiB

\* Those that come with every core.
LEMMA CoreNumbers ==
  ASSUME NEW j \in Int
  PROVE  /\ CLIC(j).start = 33554432 + 65536 * j /\ CLIC(j).pte = 33619968 + 65536 * j
         /\ BUS_ERR(j).start = 12592128 + 16 * j /\ BUS_ERR(j).pte = 12592144 + 16 * j
BY SMT DEF CLIC, BUS_ERR, Region, KiB, MiB

\* The regions behind the demultiplexer that come once.
OnceRegion(n) == RegOnce[n].rules[1]

\* They are those of the address map package.
LEMMA OnceRegions ==
  /\ OnceRegion(1) = CLINT /\ OnceRegion(2) = PLIC /\ OnceRegion(3) = REGS /\ OnceRegion(4) = BOOTROM
  /\ OnceRegion(5) = PAGE(1) /\ OnceRegion(6) = PAGE(2) /\ OnceRegion(7) = PAGE(3) /\ OnceRegion(8) = PAGE(4)
  /\ OnceRegion(9) = PAGE(5) /\ OnceRegion(10) = PAGE(6) /\ OnceRegion(11) = PAGE(7) /\ OnceRegion(12) = PAGE(8)
  /\ OnceRegion(13) = IRQ_ROUTER /\ OnceRegion(14) = AXIRT
BY DEF OnceRegion, RegOnce, Unit, Option

\* Where they begin and end.
OnceStart ==
  <<8454144, 16777216, 12582912, 8388608, 12583936, 12584960, 12585984, 12587008,
    12588032, 12589056, 12590080, 12591104, 8519680, 8585216>>
OncePte ==
  <<8519680, 33554432, 12582935, 8454144, 12584960, 12585984, 12587008, 12588032,
    12589056, 12590080, 12591104, 12592128, 8585216, 8650752>>

\* The tables are right.
LEMMA OnceNumbers ==
  ASSUME NEW n \in 1 .. 14
  PROVE  OnceRegion(n).start = OnceStart[n] /\ OnceRegion(n).pte = OncePte[n]
<1>1. OnceRegion(1).start = OnceStart[1] /\ OnceRegion(1).pte = OncePte[1]
  BY OnceRegions, SMT DEF OnceStart, OncePte, CLINT, Region, KiB, MiB
<1>2. OnceRegion(2).start = OnceStart[2] /\ OnceRegion(2).pte = OncePte[2]
  BY OnceRegions, SMT DEF OnceStart, OncePte, PLIC, Region, KiB, MiB
<1>3. OnceRegion(3).start = OnceStart[3] /\ OnceRegion(3).pte = OncePte[3]
  BY OnceRegions, SMT DEF OnceStart, OncePte, REGS, Region, KiB, MiB
<1>4. OnceRegion(4).start = OnceStart[4] /\ OnceRegion(4).pte = OncePte[4]
  BY OnceRegions, SMT DEF OnceStart, OncePte, BOOTROM, Region, KiB, MiB
<1>5. OnceRegion(5).start = OnceStart[5] /\ OnceRegion(5).pte = OncePte[5]
  BY OnceRegions, SMT DEF OnceStart, OncePte, PAGE, Region, KiB, MiB
<1>6. OnceRegion(6).start = OnceStart[6] /\ OnceRegion(6).pte = OncePte[6]
  BY OnceRegions, SMT DEF OnceStart, OncePte, PAGE, Region, KiB, MiB
<1>7. OnceRegion(7).start = OnceStart[7] /\ OnceRegion(7).pte = OncePte[7]
  BY OnceRegions, SMT DEF OnceStart, OncePte, PAGE, Region, KiB, MiB
<1>8. OnceRegion(8).start = OnceStart[8] /\ OnceRegion(8).pte = OncePte[8]
  BY OnceRegions, SMT DEF OnceStart, OncePte, PAGE, Region, KiB, MiB
<1>9. OnceRegion(9).start = OnceStart[9] /\ OnceRegion(9).pte = OncePte[9]
  BY OnceRegions, SMT DEF OnceStart, OncePte, PAGE, Region, KiB, MiB
<1>10. OnceRegion(10).start = OnceStart[10] /\ OnceRegion(10).pte = OncePte[10]
  BY OnceRegions, SMT DEF OnceStart, OncePte, PAGE, Region, KiB, MiB
<1>11. OnceRegion(11).start = OnceStart[11] /\ OnceRegion(11).pte = OncePte[11]
  BY OnceRegions, SMT DEF OnceStart, OncePte, PAGE, Region, KiB, MiB
<1>12. OnceRegion(12).start = OnceStart[12] /\ OnceRegion(12).pte = OncePte[12]
  BY OnceRegions, SMT DEF OnceStart, OncePte, PAGE, Region, KiB, MiB
<1>13. OnceRegion(13).start = OnceStart[13] /\ OnceRegion(13).pte = OncePte[13]
  BY OnceRegions, SMT DEF OnceStart, OncePte, IRQ_ROUTER, Region, KiB, MiB
<1>14. OnceRegion(14).start = OnceStart[14] /\ OnceRegion(14).pte = OncePte[14]
  BY OnceRegions, SMT DEF OnceStart, OncePte, AXIRT, Region, KiB, MiB
<1>15. QED
  BY <1>1, <1>2, <1>3, <1>4, <1>5, <1>6, <1>7,
     <1>8, <1>9, <1>10, <1>11, <1>12, <1>13, <1>14, SMT

\* No two of them share a word; all are inside the demultiplexer's, below the CLICs and
\* away from the bus error units.
LEMMA OnceApart ==
  ASSUME NEW a \in Int, NEW n \in 1 .. 14, Inside(a, OnceRegion(n))
  PROVE  /\ \A m \in 1 .. 14 : Inside(a, OnceRegion(m)) => m = n
         /\ 8388608 <= a /\ a < 33554432
         /\ a < 12592128 \/ a >= 16777216
<1>1. \A m \in 1 .. 14 : Inside(a, OnceRegion(m)) => OnceStart[m] <= a /\ a < OncePte[m]
  BY OnceNumbers, SMT DEF Inside
<1>2. OnceStart[n] <= a /\ a < OncePte[n]
  BY <1>1, SMT
<1>3. 8388608 <= a /\ a < 33554432 /\ (a < 12592128 \/ a >= 16777216)
  BY <1>2, SMT DEF OnceStart, OncePte
<1>4. ASSUME NEW m \in 1 .. 14, OnceStart[m] <= a, a < OncePte[m] PROVE m = n
  BY <1>2, <1>4, SMT DEF OnceStart, OncePte
<1>5. QED
  BY <1>1, <1>3, <1>4, SMT

\* The units behind the demultiplexer: each has one region.
RegRegion(n) == Units("reg")[n].rules[1]

\* Those that come once come first, then the CLICs, then the bus error units.
LEMMA RegParts ==
  ASSUME cfg \in Configs
  PROVE  LET N == cfg.NumCores IN
         /\ N \in Nat /\ N <= 256 /\ DOMAIN Units("reg") = 1 .. 16 + 2 * N
         /\ \A n \in 1 .. 16 + 2 * N :
              \/ n \in 1 .. 14 /\ RegRegion(n) = OnceRegion(n)
              \/ n - 14 \in 1 .. N /\ RegRegion(n) = CLIC(n - 15)
              \/ n - 14 - N \in 1 .. N + 2 /\ RegRegion(n) = BUS_ERR(n - 15 - N)
         /\ \A n \in 1 .. 16 + 2 * N :
              Units("reg")[n].rules = <<RegRegion(n)>> /\ Units("reg")[n].how = "pre"
<1> DEFINE N == cfg.NumCores
           U == Units("reg")
<1>1. N \in Nat /\ N <= 256
  <2>1. CLIC(N).start <= REG_DEMUX.pte /\ N \in Nat
    BY ConfigsAssumption, RegionsAssumption
  <2> HIDE DEF N
  <2>2. N \in Int
    BY <2>1
  <2>3. CLIC(N).start = 33554432 + 65536 * N
    BY <2>2, CoreNumbers, SMT
  <2>4. REG_DEMUX.pte = 50331648
    BY OutNumbers, SMT
  <2>5. QED
    BY <2>1, <2>3, <2>4, SMT
<1>2. /\ DOMAIN U = 1 .. 16 + 2 * N
      /\ \A n \in 1 .. 14 : U[n] = RegOnce[n]
      /\ \A n \in 1 .. N : U[14 + n] = ClicUnit(n)
      /\ \A n \in 1 .. N + 2 : U[14 + N + n] = BusErrUnit(n)
  BY UnitsReg
<1>3. \A n \in 1 .. 14 : RegOnce[n].rules = <<OnceRegion(n)>> /\ RegOnce[n].how = "pre"
  <2>1. /\ RegOnce[1].rules = <<CLINT>> /\ RegOnce[2].rules = <<PLIC>> /\ RegOnce[3].rules = <<REGS>>
        /\ RegOnce[4].rules = <<BOOTROM>> /\ RegOnce[5].rules = <<PAGE(1)>> /\ RegOnce[6].rules = <<PAGE(2)>>
        /\ RegOnce[7].rules = <<PAGE(3)>> /\ RegOnce[8].rules = <<PAGE(4)>> /\ RegOnce[9].rules = <<PAGE(5)>>
        /\ RegOnce[10].rules = <<PAGE(6)>> /\ RegOnce[11].rules = <<PAGE(7)>> /\ RegOnce[12].rules = <<PAGE(8)>>
        /\ RegOnce[13].rules = <<IRQ_ROUTER>> /\ RegOnce[14].rules = <<AXIRT>>
    BY DEF RegOnce, Unit, Option
  <2>2. \A n \in 1 .. 14 : RegOnce[n].how = "pre"
    BY DEF RegOnce, Unit, Option
  <2>3. \A n \in 1 .. 14 : RegOnce[n].rules = <<OnceRegion(n)>>
    BY <2>1, OnceRegions
  <2>4. QED
    BY <2>2, <2>3
<1>4. \A n \in 1 .. N : ClicUnit(n).rules = <<CLIC(n - 1)>> /\ ClicUnit(n).how = "pre"
  BY DEF ClicUnit, Unit
<1>5. \A n \in 1 .. N + 2 : BusErrUnit(n).rules = <<BUS_ERR(n - 1)>> /\ BusErrUnit(n).how = "pre"
  BY DEF BusErrUnit, Unit
<1> HIDE DEF N, U
<1>6. ASSUME NEW n \in 1 .. 16 + 2 * N
      PROVE  \E g :
               /\ U[n].rules = <<g>> /\ U[n].how = "pre"
               /\ \/ n \in 1 .. 14 /\ g = OnceRegion(n)
                  \/ n - 14 \in 1 .. N /\ g = CLIC(n - 15)
                  \/ n - 14 - N \in 1 .. N + 2 /\ g = BUS_ERR(n - 15 - N)
  <2>1. CASE n <= 14
    BY <1>2, <1>3, <2>1
  <2>2. CASE n > 14 /\ n <= 14 + N
    <3> DEFINE m == n - 14
    <3>1. m \in 1 .. N /\ n = 14 + m /\ m - 1 = n - 15
      BY <1>1, <2>2
    <3> HIDE DEF m
    <3>2. U[n] = ClicUnit(m)
      BY <1>2, <3>1
    <3>3. U[n].rules = <<CLIC(n - 15)>> /\ U[n].how = "pre"
      BY <1>4, <3>1, <3>2
    <3>4. QED
      BY <3>1, <3>3 DEF m
  <2>3. CASE n > 14 + N
    <3> DEFINE m == n - 14 - N
    <3>1. m \in 1 .. N + 2 /\ n = 14 + N + m /\ m - 1 = n - 15 - N
      BY <1>1, <2>3
    <3> HIDE DEF m
    <3>2. U[n] = BusErrUnit(m)
      BY <1>2, <3>1
    <3>3. U[n].rules = <<BUS_ERR(n - 15 - N)>> /\ U[n].how = "pre"
      BY <1>5, <3>1, <3>2
    <3>4. QED
      BY <3>1, <3>3 DEF m
  <2>4. QED
    BY <1>1, <2>1, <2>2, <2>3
<1>7. \A n \in 1 .. 16 + 2 * N :
        /\ U[n].rules = <<RegRegion(n)>> /\ U[n].how = "pre"
        /\ \/ n \in 1 .. 14 /\ RegRegion(n) = OnceRegion(n)
           \/ n - 14 \in 1 .. N /\ RegRegion(n) = CLIC(n - 15)
           \/ n - 14 - N \in 1 .. N + 2 /\ RegRegion(n) = BUS_ERR(n - 15 - N)
  <2>1. TAKE n \in 1 .. 16 + 2 * N
  <2>2. PICK g : /\ U[n].rules = <<g>> /\ U[n].how = "pre"
                 /\ \/ n \in 1 .. 14 /\ g = OnceRegion(n)
                    \/ n - 14 \in 1 .. N /\ g = CLIC(n - 15)
                    \/ n - 14 - N \in 1 .. N + 2 /\ g = BUS_ERR(n - 15 - N)
    BY <1>6
  <2>3. RegRegion(n) = g
    BY <2>2 DEF RegRegion, U
  <2>4. QED
    BY <2>2, <2>3
<1>8. QED
  BY <1>1, <1>2, <1>7 DEF N, U

\* No two of them share a word, and all are inside the demultiplexer's region.
LEMMA RegApart ==
  ASSUME cfg \in Configs, NEW a \in Int,
         NEW m \in DOMAIN Units("reg"), NEW n \in DOMAIN Units("reg"),
         Inside(a, RegRegion(m)), Inside(a, RegRegion(n))
  PROVE  m = n /\ 8388608 <= a /\ a < 50331648
<1> DEFINE N == cfg.NumCores
           Kind(k) == \/ k \in 1 .. 14 /\ Inside(a, OnceRegion(k))
                      \/ k - 14 \in 1 .. N /\ 33554432 + 65536 * (k - 15) <= a /\ a < 33619968 + 65536 * (k - 15)
                      \/ /\ k - 14 - N \in 1 .. N + 2
                         /\ 12592128 + 16 * (k - 15 - N) <= a /\ a < 12592144 + 16 * (k - 15 - N)
<1>1. N \in Nat /\ N <= 256 /\ m \in 1 .. 16 + 2 * N /\ n \in 1 .. 16 + 2 * N
  BY RegParts
<1>2. ASSUME NEW k \in 1 .. 16 + 2 * N, Inside(a, RegRegion(k)) PROVE Kind(k)
  <2>1. CASE k \in 1 .. 14 /\ RegRegion(k) = OnceRegion(k)
    BY <1>2, <2>1
  <2>2. CASE k - 14 \in 1 .. N /\ RegRegion(k) = CLIC(k - 15)
    <3>1. k - 15 \in Int
      BY <1>1
    <3>2. CLIC(k - 15).start <= a /\ a < CLIC(k - 15).pte
      BY <1>2, <2>2 DEF Inside
    <3>3. PICK j \in Int : j = k - 15
      BY <3>1
    <3>4. CLIC(j).start = 33554432 + 65536 * j /\ CLIC(j).pte = 33619968 + 65536 * j
      BY SMT DEF CLIC, Region, KiB, MiB
    <3>5. CLIC(j).start <= a /\ a < CLIC(j).pte
      BY <3>2, <3>3, SMT
    <3>6. 33554432 + 65536 * j <= a /\ a < 33619968 + 65536 * j
      BY <3>4, <3>5, SMT
    <3>7. QED
      BY <2>2, <3>3, <3>6, SMT
  <2>3. CASE k - 14 - N \in 1 .. N + 2 /\ RegRegion(k) = BUS_ERR(k - 15 - N)
    <3>1. k - 15 - N \in Int
      BY <1>1
    <3>2. BUS_ERR(k - 15 - N).start <= a /\ a < BUS_ERR(k - 15 - N).pte
      BY <1>2, <2>3 DEF Inside
    <3>3. PICK j \in Int : j = k - 15 - N
      BY <3>1
    <3>4. BUS_ERR(j).start = 12592128 + 16 * j /\ BUS_ERR(j).pte = 12592144 + 16 * j
      BY SMT DEF BUS_ERR, Region, KiB, MiB
    <3>5. BUS_ERR(j).start <= a /\ a < BUS_ERR(j).pte
      BY <3>2, <3>3, SMT
    <3>6. 12592128 + 16 * j <= a /\ a < 12592144 + 16 * j
      BY <3>4, <3>5, SMT
    <3>7. QED
      BY <2>3, <3>3, <3>6, SMT
  <2>4. \/ k \in 1 .. 14 /\ RegRegion(k) = OnceRegion(k)
        \/ k - 14 \in 1 .. N /\ RegRegion(k) = CLIC(k - 15)
        \/ k - 14 - N \in 1 .. N + 2 /\ RegRegion(k) = BUS_ERR(k - 15 - N)
    BY RegParts
  <2> HIDE DEF Kind
  <2>5. QED
    BY <2>1, <2>2, <2>3, <2>4
<1>3. Kind(m) /\ Kind(n)
  <2>1. RegRegion(m) = RegRegion(m) /\ Inside(a, RegRegion(m)) /\ Inside(a, RegRegion(n))
    OBVIOUS
  <2> HIDE DEF Kind
  <2>2. QED
    BY <1>1, <1>2, <2>1
<1> HIDE DEF N
<1>4. ASSUME NEW k \in 1 .. 14, Inside(a, OnceRegion(k))
      PROVE  /\ \A l \in 1 .. 14 : Inside(a, OnceRegion(l)) => l = k
             /\ 8388608 <= a /\ a < 33554432 /\ (a < 12592128 \/ a >= 16777216)
  BY <1>4, OnceApart, SMT
<1>5. QED
  BY <1>1, <1>3, <1>4, SMT

\* What must be on for each of the units that come once, as the memory map has it.
OnceNeeds ==
  <<{}, {}, {}, {"Bootrom"}, {"LlcOutConnect", "LlcNotBypass"}, {"Uart"}, {"I2c"}, {"SpiHost"}, {"Gpio"},
    {"SerialLink"}, {"Vga"}, {"Usb"}, {"IrqRouter"}, {"AxiRt"}>>

OnceEntry(n) == <<RegOnce[n].name, RegOnce[n].j, OnceNeeds[n], OnceRegion(n)>>

\* Their entries of the memory map, one by one.
LEMMA OnceEntries ==
  /\ OnceEntry(1) = <<"clint", 0, {}, CLINT>>
  /\ OnceEntry(2) = <<"plic", 0, {}, PLIC>>
  /\ OnceEntry(3) = <<"regs", 0, {}, REGS>>
  /\ OnceEntry(4) = <<"bootrom", 0, {"Bootrom"}, BOOTROM>>
  /\ OnceEntry(5) = <<"llc_cfg", 0, {"LlcOutConnect", "LlcNotBypass"}, PAGE(1)>>
  /\ OnceEntry(6) = <<"uart", 0, {"Uart"}, PAGE(2)>>
  /\ OnceEntry(7) = <<"i2c", 0, {"I2c"}, PAGE(3)>>
  /\ OnceEntry(8) = <<"spi_host", 0, {"SpiHost"}, PAGE(4)>>
  /\ OnceEntry(9) = <<"gpio", 0, {"Gpio"}, PAGE(5)>>
  /\ OnceEntry(10) = <<"slink_cfg", 0, {"SerialLink"}, PAGE(6)>>
  /\ OnceEntry(11) = <<"vga", 0, {"Vga"}, PAGE(7)>>
  /\ OnceEntry(12) = <<"usb", 0, {"Usb"}, PAGE(8)>>
  /\ OnceEntry(13) = <<"irq_router", 0, {"IrqRouter"}, IRQ_ROUTER>>
  /\ OnceEntry(14) = <<"axirt", 0, {"AxiRt"}, AXIRT>>
<1>1. /\ RegOnce[1].name = "clint" /\ RegOnce[2].name = "plic" /\ RegOnce[3].name = "regs"
      /\ RegOnce[4].name = "bootrom" /\ RegOnce[5].name = "llc_cfg" /\ RegOnce[6].name = "uart"
      /\ RegOnce[7].name = "i2c" /\ RegOnce[8].name = "spi_host" /\ RegOnce[9].name = "gpio"
      /\ RegOnce[10].name = "slink_cfg" /\ RegOnce[11].name = "vga" /\ RegOnce[12].name = "usb"
      /\ RegOnce[13].name = "irq_router" /\ RegOnce[14].name = "axirt"
  BY DEF RegOnce, Unit, Option
<1>2. \A n \in 1 .. 14 : RegOnce[n].j = 0
  BY DEF RegOnce, Unit, Option
<1>3. QED
  BY <1>1, <1>2, OnceRegions DEF OnceEntry, OnceNeeds

\* A unit that comes once is there if what it needs is on.
LEMMA OnceOn ==
  \A n \in 1 .. 14 : RegOnce[n].on /\ Present(RegOnce[n].name, RegOnce[n].j) <=> OnceNeeds[n] \subseteq cfg.on
<1>1. /\ RegOnce[1].on = TRUE /\ RegOnce[2].on = TRUE /\ RegOnce[3].on = TRUE
      /\ RegOnce[4].on = ("Bootrom" \in cfg.on)
      /\ RegOnce[5].on = ("LlcNotBypass" \in cfg.on)
      /\ RegOnce[6].on = ("Uart" \in cfg.on)
      /\ RegOnce[7].on = ("I2c" \in cfg.on)
      /\ RegOnce[8].on = ("SpiHost" \in cfg.on)
      /\ RegOnce[9].on = ("Gpio" \in cfg.on)
      /\ RegOnce[10].on = ("SerialLink" \in cfg.on)
      /\ RegOnce[11].on = ("Vga" \in cfg.on)
      /\ RegOnce[12].on = ("Usb" \in cfg.on)
      /\ RegOnce[13].on = ("IrqRouter" \in cfg.on)
      /\ RegOnce[14].on = ("AxiRt" \in cfg.on)
  BY DEF RegOnce, Unit, Option
<1>2. /\ \A n \in (1 .. 14) \ {5} : Present(RegOnce[n].name, RegOnce[n].j)
      /\ Present(RegOnce[5].name, RegOnce[5].j) <=> "LlcOutConnect" \in cfg.on
  BY DEF RegOnce, Unit, Option, Present, Feature
<1>3. /\ OnceNeeds[1] = {} /\ OnceNeeds[2] = {} /\ OnceNeeds[3] = {}
      /\ OnceNeeds[4] = {"Bootrom"}
      /\ OnceNeeds[5] = {"LlcOutConnect", "LlcNotBypass"}
      /\ OnceNeeds[6] = {"Uart"}
      /\ OnceNeeds[7] = {"I2c"}
      /\ OnceNeeds[8] = {"SpiHost"}
      /\ OnceNeeds[9] = {"Gpio"}
      /\ OnceNeeds[10] = {"SerialLink"}
      /\ OnceNeeds[11] = {"Vga"}
      /\ OnceNeeds[12] = {"Usb"}
      /\ OnceNeeds[13] = {"IrqRouter"}
      /\ OnceNeeds[14] = {"AxiRt"}
  BY DEF OnceNeeds
<1>5. \A n \in 1 .. 3 : RegOnce[n].on /\ OnceNeeds[n] \subseteq cfg.on
  BY <1>1, <1>3
<1>6. RegOnce[5].on /\ "LlcOutConnect" \in cfg.on <=> OnceNeeds[5] \subseteq cfg.on
  BY <1>1, <1>3
<1>7. \A n \in 4 .. 14 : n # 5 => (RegOnce[n].on <=> OnceNeeds[n] \subseteq cfg.on)
  <2>1. \A f : {f} \subseteq cfg.on <=> f \in cfg.on
    OBVIOUS
  <2>2. RegOnce[4].on <=> OnceNeeds[4] \subseteq cfg.on
    BY <1>1, <1>3, <2>1
  <2>3. RegOnce[6].on <=> OnceNeeds[6] \subseteq cfg.on
    BY <1>1, <1>3, <2>1
  <2>4. RegOnce[7].on <=> OnceNeeds[7] \subseteq cfg.on
    BY <1>1, <1>3, <2>1
  <2>5. RegOnce[8].on <=> OnceNeeds[8] \subseteq cfg.on
    BY <1>1, <1>3, <2>1
  <2>6. RegOnce[9].on <=> OnceNeeds[9] \subseteq cfg.on
    BY <1>1, <1>3, <2>1
  <2>7. RegOnce[10].on <=> OnceNeeds[10] \subseteq cfg.on
    BY <1>1, <1>3, <2>1
  <2>8. RegOnce[11].on <=> OnceNeeds[11] \subseteq cfg.on
    BY <1>1, <1>3, <2>1
  <2>9. RegOnce[12].on <=> OnceNeeds[12] \subseteq cfg.on
    BY <1>1, <1>3, <2>1
  <2>10. RegOnce[13].on <=> OnceNeeds[13] \subseteq cfg.on
    BY <1>1, <1>3, <2>1
  <2>11. RegOnce[14].on <=> OnceNeeds[14] \subseteq cfg.on
    BY <1>1, <1>3, <2>1
  <2>12. QED
    BY <2>2, <2>3, <2>4, <2>5, <2>6, <2>7, <2>8, <2>9, <2>10, <2>11
<1>8. \A n \in 1 .. 14 : (n \in 1 .. 3 \/ n = 5) \/ (n \in 4 .. 14 /\ n # 5)
  OBVIOUS
<1>9. QED
  BY <1>2, <1>5, <1>6, <1>7, <1>8

\* The units behind the demultiplexer that are there, and their regions.
There(n) ==
  /\ n \in DOMAIN Units("reg") /\ Units("reg")[n].on
  /\ Present(Units("reg")[n].name, Units("reg")[n].j)

RegUnit(n) == <<Units("reg")[n].name, Units("reg")[n].j>>

\* The memory map has their regions.
LEMMA RegOwned ==
  ASSUME cfg \in Configs, NEW n, There(n)
  PROVE  [unit |-> RegUnit(n), region |-> RegRegion(n)] \in Owned
<1> DEFINE N == cfg.NumCores
           u == Units("reg")[n]
<1>1. /\ N \in Nat /\ n \in 1 .. 16 + 2 * N
      /\ \/ n \in 1 .. 14 /\ RegRegion(n) = OnceRegion(n)
         \/ n - 14 \in 1 .. N /\ RegRegion(n) = CLIC(n - 15)
         \/ n - 14 - N \in 1 .. N + 2 /\ RegRegion(n) = BUS_ERR(n - 15 - N)
  BY RegParts DEF There
<1>2. /\ \A k \in 1 .. 14 : Units("reg")[k] = RegOnce[k]
      /\ \A k \in 1 .. N : Units("reg")[14 + k] = ClicUnit(k)
      /\ \A k \in 1 .. N + 2 : Units("reg")[14 + N + k] = BusErrUnit(k)
  BY UnitsReg
<1>3. u.on /\ Present(u.name, u.j)
  BY DEF There
<1> HIDE DEF N
<1>4. SUFFICES \E F : <<u.name, u.j, F, RegRegion(n)>> \in MemoryMap /\ F \subseteq cfg.on
  <2>1. PICK F : <<u.name, u.j, F, RegRegion(n)>> \in MemoryMap /\ F \subseteq cfg.on
    BY <1>4
  <2> DEFINE e == <<u.name, u.j, F, RegRegion(n)>>
  <2>2. e[1] = u.name /\ e[2] = u.j /\ e[3] = F /\ e[4] = RegRegion(n)
    OBVIOUS
  <2> HIDE DEF e
  <2>3. e \in {f \in MemoryMap : f[3] \subseteq cfg.on}
    BY <2>1, <2>2 DEF e
  <2>4. [unit |-> <<e[1], e[2]>>, region |-> e[4]] \in Owned
    BY <2>3 DEF Owned
  <2>5. QED
    BY <2>2, <2>4 DEF RegUnit
<1>5. CASE n \in 1 .. 14 /\ RegRegion(n) = OnceRegion(n)
  <2>1. u = RegOnce[n]
    BY <1>2, <1>5
  <2>2. OnceEntry(n) \in MemoryMap
    <3>1. /\ OnceEntry(1) \in MemoryMap /\ OnceEntry(2) \in MemoryMap /\ OnceEntry(3) \in MemoryMap
          /\ OnceEntry(4) \in MemoryMap /\ OnceEntry(5) \in MemoryMap
      BY OnceEntries, Zenon DEF MemoryMap
    <3>2. /\ OnceEntry(6) \in MemoryMap /\ OnceEntry(7) \in MemoryMap /\ OnceEntry(8) \in MemoryMap
          /\ OnceEntry(9) \in MemoryMap /\ OnceEntry(10) \in MemoryMap
      BY OnceEntries, Zenon DEF MemoryMap
    <3>3. /\ OnceEntry(11) \in MemoryMap /\ OnceEntry(12) \in MemoryMap
          /\ OnceEntry(13) \in MemoryMap /\ OnceEntry(14) \in MemoryMap
      BY OnceEntries, Zenon DEF MemoryMap
    <3>4. QED
      BY <1>5, <3>1, <3>2, <3>3
  <2>3. OnceEntry(n) = <<u.name, u.j, OnceNeeds[n], RegRegion(n)>>
    BY <1>5, <2>1 DEF OnceEntry
  <2>4. OnceNeeds[n] \subseteq cfg.on
    BY <1>3, <1>5, <2>1, OnceOn
  <2>5. QED
    BY <2>2, <2>3, <2>4
<1>6. CASE n - 14 \in 1 .. N /\ RegRegion(n) = CLIC(n - 15)
  <2> DEFINE j == n - 15
  <2>1. j \in 0 .. N - 1 /\ u = ClicUnit(j + 1) /\ j + 1 - 1 = j
    <3> DEFINE k == n - 14
    <3>1. k \in 1 .. N /\ n = 14 + k /\ j + 1 = k /\ j \in 0 .. N - 1 /\ j + 1 - 1 = j
      BY <1>1, <1>6
    <3> HIDE DEF k, j
    <3>2. u = ClicUnit(k)
      BY <1>2, <3>1
    <3>3. QED
      BY <3>1, <3>2
  <2> HIDE DEF j, u
  <2>2. u.name = "clic" /\ u.j = j /\ u.on = ("Clic" \in cfg.on)
    BY <2>1 DEF ClicUnit, Unit
  <2>3. <<"clic", j, {"Clic"}, CLIC(j)>> \in MemoryMap
    BY <2>1 DEF MemoryMap, N
  <2>4. {"Clic"} \subseteq cfg.on
    BY <1>3, <2>2
  <2>5. QED
    BY <1>6, <2>2, <2>3, <2>4 DEF j
<1>7. CASE n - 14 - N \in 1 .. N + 2 /\ RegRegion(n) = BUS_ERR(n - 15 - N)
  <2> DEFINE j == n - 15 - N
  <2>1. j \in 0 .. N + 1 /\ u = BusErrUnit(j + 1) /\ j + 1 - 1 = j
    <3> DEFINE k == n - 14 - N
    <3>1. k \in 1 .. N + 2 /\ n = 14 + N + k /\ j + 1 = k /\ j \in 0 .. N + 1 /\ j + 1 - 1 = j
      BY <1>1, <1>7
    <3> HIDE DEF k, j
    <3>2. u = BusErrUnit(k)
      BY <1>2, <3>1
    <3>3. QED
      BY <3>1, <3>2
  <2> HIDE DEF j, u
  <2>2. u.name = "bus_err" /\ u.j = j /\ u.on = ("BusErr" \in cfg.on)
    BY <2>1 DEF BusErrUnit, Unit
  <2>3. "BusErr" \in cfg.on /\ (j = 0 => "Vga" \in cfg.on) /\ (j = 1 => "Dma" \in cfg.on)
    BY <1>3, <2>2 DEF Present, Feature
  <2>4. CASE j = 0
    <3>1. <<"bus_err", 0, {"BusErr", "Vga"}, BUS_ERR(0)>> \in MemoryMap
      BY DEF MemoryMap
    <3>2. {"BusErr", "Vga"} \subseteq cfg.on
      BY <2>3, <2>4
    <3>3. QED
      BY <1>7, <2>2, <2>4, <3>1, <3>2 DEF j
  <2>5. CASE j = 1
    <3>1. <<"bus_err", 1, {"BusErr", "Dma"}, BUS_ERR(1)>> \in MemoryMap
      BY DEF MemoryMap
    <3>2. {"BusErr", "Dma"} \subseteq cfg.on
      BY <2>3, <2>5
    <3>3. QED
      BY <1>7, <2>2, <2>5, <3>1, <3>2 DEF j
  <2>6. CASE j \notin {0, 1}
    <3> DEFINE k == j - 2
    <3>1. k \in 0 .. N - 1 /\ j = 2 + k
      BY <1>1, <2>1, <2>6
    <3> HIDE DEF k
    <3>2. <<"bus_err", 2 + k, {"BusErr"}, BUS_ERR(2 + k)>> \in MemoryMap
      BY <3>1 DEF MemoryMap, N
    <3>3. {"BusErr"} \subseteq cfg.on
      BY <2>3
    <3>4. <<"bus_err", j, {"BusErr"}, BUS_ERR(j)>> \in MemoryMap
      BY <3>1, <3>2
    <3>5. QED
      BY <1>7, <2>2, <3>3, <3>4 DEF j
  <2>7. QED
    BY <2>4, <2>5, <2>6
<1>8. QED
  BY <1>1, <1>5, <1>6, <1>7

\* An entry of the memory map whose needs are on.
LEMMA OwnedEntry ==
  ASSUME NEW name, NEW j, NEW F, NEW g, <<name, j, F, g>> \in MemoryMap, F \subseteq cfg.on
  PROVE  [unit |-> <<name, j>>, region |-> g] \in Owned
<1> DEFINE e == <<name, j, F, g>>
<1>1. e[1] = name /\ e[2] = j /\ e[3] = F /\ e[4] = g /\ e \in MemoryMap
  OBVIOUS
<1> HIDE DEF e
<1>2. [unit |-> <<e[1], e[2]>>, region |-> e[4]] \in Owned
  BY <1>1 DEF Owned
<1>3. QED
  BY <1>1, <1>2

\* The memory map has the regions the crossbar sends elsewhere than to the demultiplexer.
LEMMA OutOwned ==
  /\ [unit |-> <<"dbg", 0>>, region |-> EXTROM] \in Owned
  /\ "Dma" \in cfg.on => [unit |-> <<"dma", 0>>, region |-> DMA] \in Owned
  /\ "LlcOutConnect" \in cfg.on => [unit |-> <<"llc", 0>>, region |-> cfg.LlcOut] \in Owned
  /\ "LlcOutConnect" \in cfg.on /\ "LlcNotBypass" \in cfg.on =>
       /\ [unit |-> <<"llc", 0>>, region |-> Spm(cfg)] \in Owned
       /\ [unit |-> <<"llc", 0>>, region |-> SpmUnc(cfg)] \in Owned
  /\ "SerialLink" \in cfg.on => [unit |-> <<"slink", 0>>, region |-> cfg.Slink] \in Owned
<1>1. /\ <<"dbg", 0, {}, EXTROM>> \in MemoryMap /\ <<"dma", 0, {"Dma"}, DMA>> \in MemoryMap
      /\ <<"llc", 0, {"LlcOutConnect"}, cfg.LlcOut>> \in MemoryMap
      /\ <<"llc", 0, {"LlcOutConnect", "LlcNotBypass"}, Spm(cfg)>> \in MemoryMap
      /\ <<"llc", 0, {"LlcOutConnect", "LlcNotBypass"}, SpmUnc(cfg)>> \in MemoryMap
      /\ <<"slink", 0, {"SerialLink"}, cfg.Slink>> \in MemoryMap
  BY Zenon DEF MemoryMap
<1>2. \A f \in {"Dma", "LlcOutConnect", "SerialLink"} : f \in cfg.on => {f} \subseteq cfg.on
  OBVIOUS
<1>3. "LlcOutConnect" \in cfg.on /\ "LlcNotBypass" \in cfg.on => {"LlcOutConnect", "LlcNotBypass"} \subseteq cfg.on
  OBVIOUS
<1>4. [unit |-> <<"dbg", 0>>, region |-> EXTROM] \in Owned
  BY <1>1, OwnedEntry
<1>5. "Dma" \in cfg.on => [unit |-> <<"dma", 0>>, region |-> DMA] \in Owned
  BY <1>1, <1>2, OwnedEntry
<1>6. "LlcOutConnect" \in cfg.on => [unit |-> <<"llc", 0>>, region |-> cfg.LlcOut] \in Owned
  BY <1>1, <1>2, OwnedEntry
<1>7. "LlcOutConnect" \in cfg.on /\ "LlcNotBypass" \in cfg.on =>
        /\ [unit |-> <<"llc", 0>>, region |-> Spm(cfg)] \in Owned
        /\ [unit |-> <<"llc", 0>>, region |-> SpmUnc(cfg)] \in Owned
  BY <1>1, <1>3, OwnedEntry
<1>8. "SerialLink" \in cfg.on => [unit |-> <<"slink", 0>>, region |-> cfg.Slink] \in Owned
  BY <1>1, <1>2, OwnedEntry
<1>9. QED
  BY <1>4, <1>5, <1>6, <1>7, <1>8

\* The same for external regions.
LEMMA ExtOwned ==
  /\ \A x \in DOMAIN cfg.AxiExt : [unit |-> <<"axi", cfg.AxiExt[x].idx>>, region |-> cfg.AxiExt[x]] \in Owned
  /\ \A x \in DOMAIN cfg.RegExt : [unit |-> <<"reg", cfg.RegExt[x].idx>>, region |-> cfg.RegExt[x]] \in Owned
<1>1. /\ \A x \in DOMAIN cfg.AxiExt : <<"axi", cfg.AxiExt[x].idx, {}, cfg.AxiExt[x]>> \in MemoryMap
      /\ \A x \in DOMAIN cfg.RegExt : <<"reg", cfg.RegExt[x].idx, {}, cfg.RegExt[x]>> \in MemoryMap
  BY DEF MemoryMap
<1>2. {} \subseteq cfg.on
  OBVIOUS
<1>3. \A x \in DOMAIN cfg.AxiExt : [unit |-> <<"axi", cfg.AxiExt[x].idx>>, region |-> cfg.AxiExt[x]] \in Owned
  <2>1. TAKE x \in DOMAIN cfg.AxiExt
  <2>2. PICK g : g = cfg.AxiExt[x]
    OBVIOUS
  <2>3. PICK d : d = cfg.AxiExt[x].idx
    OBVIOUS
  <2>4. <<"axi", d, {}, g>> \in MemoryMap
    BY <1>1, <2>2, <2>3
  <2>5. [unit |-> <<"axi", d>>, region |-> g] \in Owned
    BY <1>2, <2>4, OwnedEntry
  <2>6. QED
    BY <2>2, <2>3, <2>5
<1>4. \A x \in DOMAIN cfg.RegExt : [unit |-> <<"reg", cfg.RegExt[x].idx>>, region |-> cfg.RegExt[x]] \in Owned
  <2>1. TAKE x \in DOMAIN cfg.RegExt
  <2>2. PICK g : g = cfg.RegExt[x]
    OBVIOUS
  <2>3. PICK d : d = cfg.RegExt[x].idx
    OBVIOUS
  <2>4. <<"reg", d, {}, g>> \in MemoryMap
    BY <1>1, <2>2, <2>3
  <2>5. [unit |-> <<"reg", d>>, region |-> g] \in Owned
    BY <1>2, <2>4, OwnedEntry
  <2>6. QED
    BY <2>2, <2>3, <2>5
<1>5. QED
  BY <1>3, <1>4

\* What the memory map has on the crossbar.
OutKind(o) ==
  \/ o.unit = <<"dbg", 0>> /\ o.region = EXTROM
  \/ "Dma" \in cfg.on /\ o.unit = <<"dma", 0>> /\ o.region = DMA
  \/ "LlcOutConnect" \in cfg.on /\ o.unit = <<"llc", 0>> /\ o.region = cfg.LlcOut
  \/ /\ "LlcOutConnect" \in cfg.on /\ "LlcNotBypass" \in cfg.on
     /\ o.unit = <<"llc", 0>> /\ o.region \in {Spm(cfg), SpmUnc(cfg)}
  \/ "SerialLink" \in cfg.on /\ o.unit = <<"slink", 0>> /\ o.region = cfg.Slink

\* The memory map has nothing else.
LEMMA OwnedKinds ==
  ASSUME cfg \in Configs, NEW o \in Owned
  PROVE  \/ \E n : There(n) /\ o.unit = RegUnit(n) /\ o.region = RegRegion(n)
         \/ OutKind(o)
         \/ \E x \in DOMAIN cfg.AxiExt : o.unit = <<"axi", cfg.AxiExt[x].idx>> /\ o.region = cfg.AxiExt[x]
         \/ \E x \in DOMAIN cfg.RegExt : o.unit = <<"reg", cfg.RegExt[x].idx>> /\ o.region = cfg.RegExt[x]
<1> DEFINE N == cfg.NumCores
           five == {<<"clic", j, {"Clic"}, CLIC(j)>> : j \in 0 .. cfg.NumCores - 1}
           six == {<<"bus_err", 2 + j, {"BusErr"}, BUS_ERR(2 + j)>> : j \in 0 .. cfg.NumCores - 1}
           out == {<<"dbg", 0, {}, EXTROM>>, <<"dma", 0, {"Dma"}, DMA>>,
                   <<"llc", 0, {"LlcOutConnect", "LlcNotBypass"}, Spm(cfg)>>,
                   <<"llc", 0, {"LlcOutConnect", "LlcNotBypass"}, SpmUnc(cfg)>>,
                   <<"llc", 0, {"LlcOutConnect"}, cfg.LlcOut>>, <<"slink", 0, {"SerialLink"}, cfg.Slink>>}
           errs == {<<"bus_err", 0, {"BusErr", "Vga"}, BUS_ERR(0)>>, <<"bus_err", 1, {"BusErr", "Dma"}, BUS_ERR(1)>>}
           once == {OnceEntry(1), OnceEntry(2), OnceEntry(3), OnceEntry(4), OnceEntry(5), OnceEntry(6), OnceEntry(7),
                    OnceEntry(8), OnceEntry(9), OnceEntry(10), OnceEntry(11), OnceEntry(12), OnceEntry(13), OnceEntry(14)}
           Kind(e) == /\ e[3] \subseteq cfg.on
                      /\ o.unit = <<e[1], e[2]>> /\ o.region = e[4]
<1>1. PICK e \in MemoryMap : Kind(e)
  <2>1. o \in {[unit |-> <<f[1], f[2]>>, region |-> f[4]] : f \in {f \in MemoryMap : f[3] \subseteq cfg.on}}
    BY DEF Owned
  <2>2. PICK e \in MemoryMap : e[3] \subseteq cfg.on /\ o = [unit |-> <<e[1], e[2]>>, region |-> e[4]]
    BY <2>1, Zenon
  <2>3. QED
    BY <2>2
<1>2. \/ e \in once \cup out \cup errs \cup five \cup six
      \/ \E x \in DOMAIN cfg.AxiExt : e = <<"axi", cfg.AxiExt[x].idx, {}, cfg.AxiExt[x]>>
      \/ \E x \in DOMAIN cfg.RegExt : e = <<"reg", cfg.RegExt[x].idx, {}, cfg.RegExt[x]>>
  <2> DEFINE axi == {<<"axi", cfg.AxiExt[x].idx, {}, cfg.AxiExt[x]>> : x \in DOMAIN cfg.AxiExt}
             reg == {<<"reg", cfg.RegExt[x].idx, {}, cfg.RegExt[x]>> : x \in DOMAIN cfg.RegExt}
  <2>1. e \in once \cup out \cup errs \cup five \cup six \cup axi \cup reg
    <3> HIDE DEF five, six, axi, reg
    <3> DEFINE base ==
          {<<"dbg", 0, {}, EXTROM>>, <<"dma", 0, {"Dma"}, DMA>>, OnceEntry(4),
           OnceEntry(1), OnceEntry(13), OnceEntry(14),
           OnceEntry(3), OnceEntry(5), OnceEntry(6), OnceEntry(7), OnceEntry(8),
           OnceEntry(9), OnceEntry(10), OnceEntry(11), OnceEntry(12),
           <<"bus_err", 0, {"BusErr", "Vga"}, BUS_ERR(0)>>, <<"bus_err", 1, {"BusErr", "Dma"}, BUS_ERR(1)>>,
           OnceEntry(2), <<"llc", 0, {"LlcOutConnect", "LlcNotBypass"}, Spm(cfg)>>,
           <<"llc", 0, {"LlcOutConnect", "LlcNotBypass"}, SpmUnc(cfg)>>,
           <<"llc", 0, {"LlcOutConnect"}, cfg.LlcOut>>, <<"slink", 0, {"SerialLink"}, cfg.Slink>>}
    <3>1. base \subseteq once \cup out \cup errs
      BY Zenon
    <3>2. MemoryMap = base \cup five \cup six \cup axi \cup reg
      BY OnceEntries, Zenon DEF MemoryMap, five, six, axi, reg
    <3> HIDE DEF base, once, out, errs
    <3>3. QED
      BY <1>1, <3>1, <3>2
  <2> HIDE DEF once, out, errs, five, six
  <2>2. QED
    BY <2>1
<1>3. /\ N \in Nat \ {0} /\ DOMAIN Units("reg") = 1 .. 16 + 2 * N
      /\ \A n \in 1 .. 14 : Units("reg")[n] = RegOnce[n] /\ RegRegion(n) = OnceRegion(n)
      /\ \A n \in 1 .. N : Units("reg")[14 + n] = ClicUnit(n)
      /\ \A n \in 1 .. N + 2 : Units("reg")[14 + N + n] = BusErrUnit(n)
  BY ConfigsAssumption, UnitsReg DEF RegRegion, OnceRegion
<1> HIDE DEF N
<1>4. CASE e \in once
  <2>1. PICK n \in 1 .. 14 : e = OnceEntry(n)
    BY <1>4
  <2>2. e[1] = RegOnce[n].name /\ e[2] = RegOnce[n].j /\ e[3] = OnceNeeds[n] /\ e[4] = OnceRegion(n)
    BY <2>1 DEF OnceEntry
  <2>3. n \in DOMAIN Units("reg") /\ Units("reg")[n] = RegOnce[n] /\ RegRegion(n) = OnceRegion(n)
    <3>1. n \in 1 .. 16 + 2 * N
      BY <1>3
    <3>2. Units("reg")[n] = RegOnce[n] /\ RegRegion(n) = OnceRegion(n)
      BY <1>3, Zenon
    <3>3. QED
      BY <1>3, <3>1, <3>2, Zenon
  <2>4. RegOnce[n].on /\ Present(RegOnce[n].name, RegOnce[n].j)
    BY <1>1, <2>2, OnceOn
  <2>5. There(n) /\ o.unit = RegUnit(n) /\ o.region = RegRegion(n)
    BY <1>1, <2>2, <2>3, <2>4 DEF There, RegUnit
  <2>6. QED
    BY <2>5
<1>5. CASE e \in out
  BY <1>1, <1>5 DEF OutKind
<1>6. CASE e \in errs \cup six
  <2>1. PICK j \in 0 .. N + 1 :
          /\ e[1] = "bus_err" /\ e[2] = j /\ e[4] = BUS_ERR(j) /\ "BusErr" \in cfg.on
          /\ (j = 0 => "Vga" \in cfg.on) /\ (j = 1 => "Dma" \in cfg.on)
    <3>1. CASE e = <<"bus_err", 0, {"BusErr", "Vga"}, BUS_ERR(0)>>
      <4>1. 0 \in 0 .. N + 1 /\ e[1] = "bus_err" /\ e[2] = 0 /\ e[4] = BUS_ERR(0)
        BY <1>3, <3>1
      <4>2. "BusErr" \in cfg.on /\ "Vga" \in cfg.on
        BY <1>1, <3>1
      <4>3. QED
        BY <4>1, <4>2
    <3>2. CASE e = <<"bus_err", 1, {"BusErr", "Dma"}, BUS_ERR(1)>>
      <4>1. 1 \in 0 .. N + 1 /\ e[1] = "bus_err" /\ e[2] = 1 /\ e[4] = BUS_ERR(1)
        BY <1>3, <3>2
      <4>2. "BusErr" \in cfg.on /\ "Dma" \in cfg.on
        BY <1>1, <3>2
      <4>3. QED
        BY <4>1, <4>2
    <3>3. CASE e \in six
      <4>1. PICK k \in 0 .. N - 1 : e = <<"bus_err", 2 + k, {"BusErr"}, BUS_ERR(2 + k)>>
        BY <3>3 DEF N
      <4> DEFINE j == 2 + k
      <4>2. j \in 0 .. N + 1 /\ j # 0 /\ j # 1
        BY <1>3
      <4>3. e = <<"bus_err", j, {"BusErr"}, BUS_ERR(j)>>
        BY <4>1
      <4> HIDE DEF j
      <4>4. e[1] = "bus_err" /\ e[2] = j /\ e[4] = BUS_ERR(j) /\ "BusErr" \in cfg.on
        BY <1>1, <4>3
      <4>5. QED
        BY <4>2, <4>4
    <3>4. QED
      BY <1>6, <3>1, <3>2, <3>3
  <2> DEFINE n == 15 + N + j
             k == j + 1
  <2>2. k \in 1 .. N + 2 /\ n = 14 + N + k /\ n \in 1 .. 16 + 2 * N /\ k - 1 = j
    BY <1>3
  <2> HIDE DEF n, k
  <2>3. n \in DOMAIN Units("reg") /\ Units("reg")[n] = BusErrUnit(k)
    BY <1>3, <2>2
  <2>4. BusErrUnit(k) = Unit("bus_err", j, "BusErr" \in cfg.on, "pre", <<BUS_ERR(j)>>)
    BY <2>2 DEF BusErrUnit
  <2> DEFINE u == Units("reg")[n]
  <2>5. u.name = "bus_err" /\ u.j = j /\ u.on = ("BusErr" \in cfg.on) /\ u.rules = <<BUS_ERR(j)>>
    BY <2>3, <2>4 DEF Unit
  <2>6. RegRegion(n) = BUS_ERR(j)
    BY <2>5 DEF RegRegion
  <2>7. Present(u.name, u.j)
    BY <2>1, <2>5 DEF Present, Feature
  <2>8. There(n) /\ o.unit = RegUnit(n) /\ o.region = RegRegion(n)
    BY <1>1, <2>1, <2>3, <2>5, <2>6, <2>7 DEF There, RegUnit
  <2>9. QED
    BY <2>8
<1>7. CASE e \in five
  <2>1. PICK j \in 0 .. N - 1 : e = <<"clic", j, {"Clic"}, CLIC(j)>>
    BY <1>7 DEF N
  <2> DEFINE n == 15 + j
             k == j + 1
  <2>2. k \in 1 .. N /\ n = 14 + k /\ n \in 1 .. 16 + 2 * N /\ k - 1 = j
    BY <1>3
  <2> HIDE DEF n, k
  <2>3. n \in DOMAIN Units("reg") /\ Units("reg")[n] = ClicUnit(k)
    BY <1>3, <2>2
  <2>4. ClicUnit(k) = Unit("clic", j, "Clic" \in cfg.on, "pre", <<CLIC(j)>>)
    BY <2>2 DEF ClicUnit
  <2> DEFINE u == Units("reg")[n]
  <2>5. u.name = "clic" /\ u.j = j /\ u.on = ("Clic" \in cfg.on) /\ u.rules = <<CLIC(j)>>
    BY <2>3, <2>4 DEF Unit
  <2>6. RegRegion(n) = CLIC(j) /\ e[1] = "clic" /\ e[2] = j /\ e[4] = CLIC(j) /\ "Clic" \in cfg.on
    BY <1>1, <2>1, <2>5 DEF RegRegion
  <2>7. Present(u.name, u.j)
    BY <2>5 DEF Present, Feature
  <2>8. There(n) /\ o.unit = RegUnit(n) /\ o.region = RegRegion(n)
    BY <1>1, <2>3, <2>5, <2>6, <2>7 DEF There, RegUnit
  <2>9. QED
    BY <2>8
<1>8. ASSUME NEW x \in DOMAIN cfg.AxiExt, e = <<"axi", cfg.AxiExt[x].idx, {}, cfg.AxiExt[x]>>
      PROVE  o.unit = <<"axi", cfg.AxiExt[x].idx>> /\ o.region = cfg.AxiExt[x]
  BY <1>1, <1>8
<1>9. ASSUME NEW x \in DOMAIN cfg.RegExt, e = <<"reg", cfg.RegExt[x].idx, {}, cfg.RegExt[x]>>
      PROVE  o.unit = <<"reg", cfg.RegExt[x].idx>> /\ o.region = cfg.RegExt[x]
  BY <1>1, <1>9
<1> HIDE DEF once, out, errs, five, six
<1>10. QED
  BY <1>2, <1>4, <1>5, <1>6, <1>7, <1>8, <1>9

(***************************************************************************)
(* What claims an address.                                                 *)
(***************************************************************************)

\* A generator that has finished, with counters and rules that fit.
Fine(g) == Finished(g, made[g]) /\ Apart(g) /\ Fits(g) /\ RulesFit(g)

\* A rule that holds an address claims it for its port.
Claim(g, a, d) ==
  \/ \E x \in RulePairs(g, Len(Units(g))) :
       Inside(a, Units(g)[x[1]].rules[x[2]]) /\ d = Ports(g)[x[1]]
  \/ g = "out" /\ \E x \in DOMAIN cfg.AxiExt :
       Inside(a, cfg.AxiExt[x]) /\ d = made[g].ext_base + cfg.AxiExt[x].idx
  \/ g = "out" /\ \E x \in DOMAIN cfg.RegExt : Inside(a, cfg.RegExt[x]) /\ d = 1
  \/ g = "reg" /\ \E x \in DOMAIN cfg.RegExt :
       Inside(a, cfg.RegExt[x]) /\ d = made[g].ext_base + cfg.RegExt[x].idx

\* External rules are records of numbers, and name ports that exist.
LEMMA ExtTyped ==
  ASSUME cfg \in Configs
  PROVE  /\ \A x \in DOMAIN cfg.AxiExt :
              cfg.AxiExt[x] \in [idx : Nat, start : Nat, pte : Nat] /\ cfg.AxiExt[x].idx < cfg.AxiExtNumSlv
         /\ \A x \in DOMAIN cfg.RegExt :
              cfg.RegExt[x] \in [idx : Nat, start : Nat, pte : Nat] /\ cfg.RegExt[x].idx < cfg.RegExtNumSlv
         /\ cfg.AxiExtNumSlv \in Nat /\ cfg.RegExtNumSlv \in Nat
<1> DEFINE S == [idx : Nat, start : Nat, pte : Nat]
<1>1. cfg.AxiExt \in Seq(S) /\ cfg.RegExt \in Seq(S) /\ cfg.AxiExtNumSlv \in Nat /\ cfg.RegExtNumSlv \in Nat
  BY ConfigsAssumption
<1>2. /\ \A x \in DOMAIN cfg.AxiExt : cfg.AxiExt[x].idx < cfg.AxiExtNumSlv
      /\ \A x \in DOMAIN cfg.RegExt : cfg.RegExt[x].idx < cfg.RegExtNumSlv
  BY PlacedAssumption
<1> HIDE DEF S
<1>3. \A s \in Seq(S) : \A x \in DOMAIN s : s[x] \in S
  <2>1. TAKE s \in Seq(S)
  <2>2. DOMAIN s = 1 .. Len(s) /\ s \in [1 .. Len(s) -> S]
    BY <2>1
  <2>3. QED
    BY <2>2
<1>4. (\A x \in DOMAIN cfg.AxiExt : cfg.AxiExt[x] \in S) /\ (\A x \in DOMAIN cfg.RegExt : cfg.RegExt[x] \in S)
  BY <1>1, <1>3
<1>5. QED
  BY <1>1, <1>2, <1>4 DEF S

\* Indices of external ports fit.
LEMMA ExtFits ==
  ASSUME cfg \in Configs, NEW g \in {"out", "reg"}, Fine(g)
  PROVE  LET b == made[g].ext_base IN
         /\ b \in Nat /\ b = made[g].i + 1 /\ Idx(1) = 1
         /\ g = "out" => \A x \in DOMAIN cfg.AxiExt : Idx(b + cfg.AxiExt[x].idx) = b + cfg.AxiExt[x].idx
         /\ g = "reg" => \A x \in DOMAIN cfg.RegExt : Idx(b + cfg.RegExt[x].idx) = b + cfg.RegExt[x].idx
<1> DEFINE c == made[g].i
           b == made[g].ext_base
           e == ExtPorts(g)
<1>1. c \in Nat /\ b = Idx(c + 1) /\ c + 1 + e < IdxValues
  BY DEF Fine, Finished, Fits
<1>2. e \in Nat /\ (g = "out" => e = cfg.AxiExtNumSlv) /\ (g = "reg" => e = cfg.RegExtNumSlv)
  BY ExtTyped DEF ExtPorts
<1> HIDE DEF b, c, e
<1>3. IdxValues \in Nat /\ c + 1 \in Nat /\ c + 1 < IdxValues /\ 1 < IdxValues /\ 1 \in Nat
  BY <1>1, <1>2, IdxAssumption
<1>4. b = c + 1 /\ Idx(1) = 1
  BY <1>1, <1>3, IdxSame
<1>5. \A y \in Nat : y < e => Idx(b + y) = b + y
  <2>1. TAKE y \in Nat
  <2>2. HAVE y < e
  <2> DEFINE z == b + y
  <2>3. z \in Nat /\ z < IdxValues
    BY <1>1, <1>2, <1>3, <1>4, <2>2
  <2> HIDE DEF z
  <2>4. Idx(z) = z
    BY <2>3, IdxSame
  <2>5. QED
    BY <2>4 DEF z
<1>6. g = "out" => \A x \in DOMAIN cfg.AxiExt : Idx(b + cfg.AxiExt[x].idx) = b + cfg.AxiExt[x].idx
  <2> SUFFICES ASSUME g = "out", NEW x \in DOMAIN cfg.AxiExt
               PROVE  Idx(b + cfg.AxiExt[x].idx) = b + cfg.AxiExt[x].idx
    OBVIOUS
  <2>1. cfg.AxiExt[x].idx \in Nat /\ cfg.AxiExt[x].idx < e
    BY <1>2, ExtTyped
  <2>2. QED
    BY <1>5, <2>1
<1>7. g = "reg" => \A x \in DOMAIN cfg.RegExt : Idx(b + cfg.RegExt[x].idx) = b + cfg.RegExt[x].idx
  <2> SUFFICES ASSUME g = "reg", NEW x \in DOMAIN cfg.RegExt
               PROVE  Idx(b + cfg.RegExt[x].idx) = b + cfg.RegExt[x].idx
    OBVIOUS
  <2>1. cfg.RegExt[x].idx \in Nat /\ cfg.RegExt[x].idx < e
    BY <1>2, ExtTyped
  <2>2. QED
    BY <1>5, <2>1
<1>8. QED
  BY <1>3, <1>4, <1>6, <1>7 DEF b, c

\* A rule for a port.
LEMMA RuleInside ==
  ASSUME NEW a, NEW n, NEW g
  PROVE  RuleTo(n, g).idx = n /\ (Inside(a, RuleTo(n, g)) <=> Inside(a, g))
BY DEF RuleTo, Inside

\* The rules of a map are the claims.
LEMMA RulesClaim ==
  ASSUME cfg \in Configs, NEW g \in {"out", "reg"}, Fine(g), NEW a, NEW d
  PROVE  Claim(g, a, d) <=>
           \E h \in UnitRules(g, Ports(g)) \cup ExtRuleSet(g, made[g].ext_base) : Inside(a, h) /\ d = h.idx
<1> DEFINE b == made[g].ext_base
           P == Ports(g)
           n == Len(Units(g))
<1>1. Len(P) = n
  BY DEF Fine, Finished, Ports
<1>2. (\E h \in UnitRules(g, P) : Inside(a, h) /\ d = h.idx) <=>
        \E x \in RulePairs(g, n) : Inside(a, Units(g)[x[1]].rules[x[2]]) /\ d = P[x[1]]
  <2>1. UnitRules(g, P) = {RuleTo(P[x[1]], Units(g)[x[1]].rules[x[2]]) : x \in RulePairs(g, n)}
    BY <1>1 DEF UnitRules
  <2> DEFINE X == RulePairs(g, n)
  <2>2. \A x \in X : /\ RuleTo(P[x[1]], Units(g)[x[1]].rules[x[2]]).idx = P[x[1]]
                   /\ Inside(a, RuleTo(P[x[1]], Units(g)[x[1]].rules[x[2]]))
                        <=> Inside(a, Units(g)[x[1]].rules[x[2]])
    BY RuleInside, Zenon
  <2> HIDE DEF P, n
  <2>3. ASSUME NEW h \in UnitRules(g, P), Inside(a, h), d = h.idx
        PROVE  \E x \in X : Inside(a, Units(g)[x[1]].rules[x[2]]) /\ d = P[x[1]]
    <3>1. PICK x \in X : h = RuleTo(P[x[1]], Units(g)[x[1]].rules[x[2]])
      BY <2>1, <2>3
    <3> HIDE DEF X
    <3>2. PICK q : q = Units(g)[x[1]].rules[x[2]]
      OBVIOUS
    <3>3. PICK p : p = P[x[1]]
      OBVIOUS
    <3>4. h = RuleTo(p, q)
      BY <3>1, <3>2, <3>3
    <3>5. h.idx = p /\ Inside(a, q)
      BY <2>3, <3>4, RuleInside
    <3>6. QED
      BY <2>3, <3>2, <3>3, <3>5
  <2>4. ASSUME NEW x \in X, Inside(a, Units(g)[x[1]].rules[x[2]]), d = P[x[1]]
        PROVE  \E h \in UnitRules(g, P) : Inside(a, h) /\ d = h.idx
    <3>1. PICK h : h = RuleTo(P[x[1]], Units(g)[x[1]].rules[x[2]])
      OBVIOUS
    <3>2. h \in UnitRules(g, P)
      BY <2>1, <3>1
    <3> HIDE DEF X
    <3>3. QED
      BY <2>2, <2>4, <3>1, <3>2
  <2>5. QED
    BY <2>3, <2>4
<1>3. (\E h \in ExtRuleSet(g, b) : Inside(a, h) /\ d = h.idx) <=>
        \/ g = "out" /\ \E x \in DOMAIN cfg.AxiExt : Inside(a, cfg.AxiExt[x]) /\ d = b + cfg.AxiExt[x].idx
        \/ g = "out" /\ \E x \in DOMAIN cfg.RegExt : Inside(a, cfg.RegExt[x]) /\ d = 1
        \/ g = "reg" /\ \E x \in DOMAIN cfg.RegExt : Inside(a, cfg.RegExt[x]) /\ d = b + cfg.RegExt[x].idx
  <2>1. CASE g = "out"
    <3>1. ExtRuleSet(g, b) = {RuleTo(Idx(b + cfg.AxiExt[x].idx), cfg.AxiExt[x]) : x \in DOMAIN cfg.AxiExt}
                             \cup {RuleTo(Idx(1), cfg.RegExt[x]) : x \in DOMAIN cfg.RegExt}
      BY <2>1 DEF ExtRuleSet
    <3>2. Idx(1) = 1 /\ \A x \in DOMAIN cfg.AxiExt : Idx(b + cfg.AxiExt[x].idx) = b + cfg.AxiExt[x].idx
      BY <2>1, ExtFits
    <3> HIDE DEF b
    <3> DEFINE X == DOMAIN cfg.AxiExt
               Y == DOMAIN cfg.RegExt
    <3>3. \A x \in X : LET h == RuleTo(Idx(b + cfg.AxiExt[x].idx), cfg.AxiExt[x]) IN
            h.idx = b + cfg.AxiExt[x].idx /\ (Inside(a, h) <=> Inside(a, cfg.AxiExt[x]))
      BY <3>2, RuleInside, Zenon
    <3>4. \A x \in Y : LET h == RuleTo(Idx(1), cfg.RegExt[x]) IN
            h.idx = 1 /\ (Inside(a, h) <=> Inside(a, cfg.RegExt[x]))
      BY <3>2, RuleInside, Zenon
    <3> HIDE DEF X, Y
    <3>5. g # "reg"
      BY <2>1
    <3>6. QED
      BY <2>1, <3>1, <3>3, <3>4, <3>5, Zenon DEF X, Y
  <2>2. CASE g = "reg"
    <3>1. ExtRuleSet(g, b) = {RuleTo(Idx(b + cfg.RegExt[x].idx), cfg.RegExt[x]) : x \in DOMAIN cfg.RegExt}
      BY <2>2 DEF ExtRuleSet
    <3>2. \A x \in DOMAIN cfg.RegExt : Idx(b + cfg.RegExt[x].idx) = b + cfg.RegExt[x].idx
      BY <2>2, ExtFits
    <3> HIDE DEF b
    <3> DEFINE Y == DOMAIN cfg.RegExt
    <3>3. \A x \in Y : LET h == RuleTo(Idx(b + cfg.RegExt[x].idx), cfg.RegExt[x]) IN
            h.idx = b + cfg.RegExt[x].idx /\ (Inside(a, h) <=> Inside(a, cfg.RegExt[x]))
      BY <3>2, RuleInside, Zenon
    <3> HIDE DEF Y
    <3>4. g # "out"
      BY <2>2
    <3>5. QED
      BY <2>2, <3>1, <3>3, <3>4, Zenon DEF Y
  <2>3. QED
    BY <2>1, <2>2
<1> HIDE DEF b, P, n
<1>4. QED
  BY <1>2, <1>3 DEF Claim, b, P, n

\* So decoding follows a claim, if there is one.
LEMMA DecodeClaim ==
  ASSUME cfg \in Configs, NEW g \in {"out", "reg"}, Fine(g), NEW a, NEW d
  PROVE  LET D == Decode(made[g], a, d) IN
         /\ (\E c : Claim(g, a, c)) => Claim(g, a, D)
         /\ (\A c : ~Claim(g, a, c)) => D = d
<1> DEFINE m == made[g]
           H == UnitRules(g, m.port) \cup ExtRuleSet(g, m.ext_base)
           D == Decode(m, a, d)
<1>1. m.num_rules \in Nat /\ DOMAIN m.map = 0 .. m.num_rules - 1 /\ Entries(m.map, m.num_rules - 1) = H
  BY DEF Fine, Finished, Fits
<1>2. \A c : Claim(g, a, c) <=> \E h \in H : Inside(a, h) /\ c = h.idx
  BY RulesClaim DEF Ports
<1> HIDE DEF m, H
<1>3. /\ (\A h \in H : ~Inside(a, h)) => D = d
      /\ (\E h \in H : Inside(a, h)) => \E h \in H : Inside(a, h) /\ D = h.idx
  BY <1>1, DecodeRule
<1> HIDE DEF D
<1>4. (\E c : Claim(g, a, c)) => Claim(g, a, D)
  BY <1>2, <1>3
<1>5. (\A c : ~Claim(g, a, c)) => D = d
  BY <1>2, <1>3
<1>6. QED
  BY <1>4, <1>5 DEF D, m

(***************************************************************************)
(* Nothing is claimed twice.                                               *)
(***************************************************************************)

\* Regions that share no word.
LEMMA DisjointWords ==
  ASSUME NEW g, NEW h, Numbered(g), Numbered(h), Disjoint(g, h), NEW a \in Int, Inside(a, g)
  PROVE  ~Inside(a, h)
BY DEF Numbered, Disjoint, Inside

\* What a configuration places, as long as the unit is on.
LEMMA PlacedThere ==
  /\ "LlcOutConnect" \in cfg.on => <<"llc", 0, cfg.LlcOut>> \in Placed(cfg)
  /\ "SerialLink" \in cfg.on => <<"slink", 0, cfg.Slink>> \in Placed(cfg)
  /\ \A x \in DOMAIN cfg.AxiExt : <<"axi", x, cfg.AxiExt[x]>> \in Placed(cfg)
  /\ \A x \in DOMAIN cfg.RegExt : <<"reg", x, cfg.RegExt[x]>> \in Placed(cfg)
BY DEF Placed

\* Its ends are numbers.
LEMMA PlacedNumbered ==
  ASSUME cfg \in Configs, NEW e \in Placed(cfg)
  PROVE  Numbered(e[3])
<1>1. \A x \in DOMAIN cfg.AxiExt : Numbered(cfg.AxiExt[x])
  <2>1. TAKE x \in DOMAIN cfg.AxiExt
  <2>2. cfg.AxiExt[x] \in [idx : Nat, start : Nat, pte : Nat]
    BY ExtTyped
  <2>3. QED
    BY <2>2 DEF Numbered
<1>2. \A x \in DOMAIN cfg.RegExt : Numbered(cfg.RegExt[x])
  <2>1. TAKE x \in DOMAIN cfg.RegExt
  <2>2. cfg.RegExt[x] \in [idx : Nat, start : Nat, pte : Nat]
    BY ExtTyped
  <2>3. QED
    BY <2>2 DEF Numbered
<1>3. Numbered(cfg.LlcOut) /\ Numbered(cfg.Slink)
  BY RegionsAssumption DEF Numbered
<1>4. \/ e = <<"llc", 0, cfg.LlcOut>>
      \/ e = <<"slink", 0, cfg.Slink>>
      \/ \E x \in DOMAIN cfg.AxiExt : e = <<"axi", x, cfg.AxiExt[x]>>
      \/ \E x \in DOMAIN cfg.RegExt : e = <<"reg", x, cfg.RegExt[x]>>
  BY DEF Placed
<1>5. QED
  BY <1>1, <1>2, <1>3, <1>4

\* So are those of all other regions.
LEMMA FixedNumbered ==
  ASSUME cfg \in Configs
  PROVE  /\ \A g \in Fixed(cfg) : Numbered(g)
         /\ Numbered(REG_DEMUX)
         /\ \A n \in DOMAIN Units("reg") : Numbered(RegRegion(n))
<1>1. Numbered(EXTROM) /\ Numbered(DMA) /\ Numbered(REG_DEMUX)
  BY OutNumbers, SMT DEF Numbered
<1>2. Numbered(Spm(cfg)) /\ Numbered(SpmUnc(cfg))
  <2>1. cfg.LlcSize \in Nat
    BY RegionsAssumption
  <2>2. QED
    BY <2>1, OutNumbers, SMT DEF Spm, SpmUnc, Region, Numbered
<1>3. \A g \in Fixed(cfg) : g \in {EXTROM, DMA, Spm(cfg), SpmUnc(cfg)}
  BY DEF Fixed
<1>4. ASSUME NEW n \in DOMAIN Units("reg") PROVE Numbered(RegRegion(n))
  <2> DEFINE N == cfg.NumCores
  <2>1. N \in Nat /\ n \in 1 .. 16 + 2 * N
        /\ \/ n \in 1 .. 14 /\ RegRegion(n) = OnceRegion(n)
           \/ n - 14 \in 1 .. N /\ RegRegion(n) = CLIC(n - 15)
           \/ n - 14 - N \in 1 .. N + 2 /\ RegRegion(n) = BUS_ERR(n - 15 - N)
    BY RegParts
  <2> HIDE DEF N
  <2>2. \A j \in Int : Numbered(CLIC(j)) /\ Numbered(BUS_ERR(j))
    BY SMT DEF Numbered, CLIC, BUS_ERR, Region, KiB, MiB
  <2>3. \A k \in 1 .. 14 : Numbered(OnceRegion(k))
    <3>1. \A k \in 1 .. 14 : OnceStart[k] \in Int /\ OncePte[k] \in Int
      BY SMT DEF OnceStart, OncePte
    <3>2. QED
      BY <3>1, OnceNumbers, SMT DEF Numbered
  <2>4. n - 15 \in Int /\ n - 15 - N \in Int
    BY <2>1
  <2>5. QED
    BY <2>1, <2>2, <2>3, <2>4
<1>5. QED
  BY <1>1, <1>2, <1>3, <1>4

\* A placed region shares no word with another, nor with what the SoC has there.
LEMMA PlacedWords ==
  ASSUME cfg \in Configs, NEW a \in Int, NEW e \in Placed(cfg), Inside(a, e[3])
  PROVE  /\ \A f \in Placed(cfg) : Inside(a, f[3]) => e = f
         /\ ~Inside(a, EXTROM)
         /\ "Dma" \in cfg.on => ~Inside(a, DMA)
         /\ "LlcNotBypass" \in cfg.on => ~Inside(a, Spm(cfg)) /\ ~Inside(a, SpmUnc(cfg))
         /\ e[1] # "reg" => ~Inside(a, REG_DEMUX)
         /\ e[1] = "reg" => \A n \in DOMAIN Units("reg") : Units("reg")[n].on => ~Inside(a, RegRegion(n))
<1>1. /\ \A f \in Placed(cfg) : e # f => Disjoint(e[3], f[3])
      /\ \A g \in Fixed(cfg) : Disjoint(e[3], g)
      /\ e[1] # "reg" => Disjoint(e[3], REG_DEMUX)
      /\ e[1] = "reg" => \A n \in DOMAIN RegUnits(cfg) :
           RegUnits(cfg)[n].on => Disjoint(e[3], RegUnits(cfg)[n].rules[1])
  BY PlacedAssumption
<1>2. Numbered(e[3])
  BY PlacedNumbered
<1>3. ASSUME NEW f \in Placed(cfg), Inside(a, f[3]) PROVE e = f
  BY <1>1, <1>2, <1>3, PlacedNumbered, DisjointWords
<1>4. \A g \in Fixed(cfg) : ~Inside(a, g)
  BY <1>1, <1>2, FixedNumbered, DisjointWords
<1>5. /\ EXTROM \in Fixed(cfg) /\ ("Dma" \in cfg.on => DMA \in Fixed(cfg))
      /\ "LlcNotBypass" \in cfg.on => Spm(cfg) \in Fixed(cfg) /\ SpmUnc(cfg) \in Fixed(cfg)
  BY DEF Fixed
<1>6. e[1] # "reg" => ~Inside(a, REG_DEMUX)
  BY <1>1, <1>2, FixedNumbered, DisjointWords
<1>7. ASSUME e[1] = "reg", NEW n \in DOMAIN Units("reg"), Units("reg")[n].on PROVE ~Inside(a, RegRegion(n))
  <2>1. Units("reg") = RegUnits(cfg)
    BY DEF Units
  <2>2. Disjoint(e[3], RegRegion(n))
    BY <1>1, <1>7, <2>1 DEF RegRegion
  <2>3. QED
    BY <1>2, <2>2, FixedNumbered, DisjointWords
<1>8. QED
  BY <1>3, <1>4, <1>5, <1>6, <1>7

\* Nor do those the SoC has.
LEMMA FixedWords ==
  ASSUME cfg \in Configs, NEW a \in Int
  PROVE  /\ Inside(a, EXTROM) => ~Inside(a, REG_DEMUX) /\ ~Inside(a, DMA) /\ ~Inside(a, Spm(cfg)) /\ ~Inside(a, SpmUnc(cfg))
         /\ Inside(a, DMA) => ~Inside(a, REG_DEMUX) /\ ~Inside(a, Spm(cfg)) /\ ~Inside(a, SpmUnc(cfg))
         /\ Inside(a, REG_DEMUX) => ~Inside(a, Spm(cfg)) /\ ~Inside(a, SpmUnc(cfg))
         /\ \A n \in DOMAIN Units("reg") : Inside(a, RegRegion(n)) => Inside(a, REG_DEMUX)
<1>1. /\ Inside(a, EXTROM) <=> 0 <= a /\ a < 65536
      /\ Inside(a, DMA) <=> 4194304 <= a /\ a < 4195328
      /\ Inside(a, REG_DEMUX) <=> 8388608 <= a /\ a < 50331648
  BY OutNumbers, SMT DEF Inside
<1>2. Inside(a, Spm(cfg)) \/ Inside(a, SpmUnc(cfg)) => 67108864 <= a
  BY OutNumbers, SMT DEF Inside, Spm, SpmUnc, Region
<1>3. \A n \in DOMAIN Units("reg") : Inside(a, RegRegion(n)) => 8388608 <= a /\ a < 50331648
  BY RegApart, SMT
<1>4. QED
  BY <1>1, <1>2, <1>3, SMT

(***************************************************************************)
(* Where accesses go.                                                      *)
(***************************************************************************)

OutPort(n) == Ports("out")[n]
RegPort(n) == Ports("reg")[n]
OutBase == made["out"].ext_base
RegBase == made["reg"].ext_base

\* The ports of the crossbar: 0 and 1 are those of the debug module and the demultiplexer;
\* the others differ, and external ports are behind them.
OutPortsApart ==
  /\ OutPort(1) = 0 /\ OutBase \in Int /\ OutBase > 1
  /\ \A n \in {3, 5, 6} : Units("out")[n].on =>
       OutPort(n) \in Int /\ OutPort(n) > 1 /\ OutPort(n) < OutBase
  /\ \A m, n \in {3, 5, 6} : Units("out")[m].on /\ Units("out")[n].on /\ m # n => OutPort(m) # OutPort(n)
  /\ "LlcNotBypass" \in cfg.on =>
       OutPort(4) = IF "LlcOutConnect" \in cfg.on THEN OutPort(3) ELSE 1

\* Which of its units have a port of their own.
LEMMA OutSeparate ==
  /\ Separate(Units("out")[1]) /\ Separate(Units("out")[2])
  /\ \A n \in {3, 5, 6} : Separate(Units("out")[n]) <=> Units("out")[n].on
<1>1. /\ Units("out")[1].on /\ Units("out")[1].how = "pre"
      /\ Units("out")[2].on /\ Units("out")[2].how = "pre"
      /\ Units("out")[3].how = "pre" /\ Units("out")[5].how = "pre" /\ Units("out")[6].how = "pre"
  BY UnitsOut DEF Unit, Option
<1>2. QED
  BY <1>1 DEF Separate

\* They are, once gen_axi_out has finished with counters that fit.
LEMMA OutApart == ASSUME cfg \in Configs, Fine("out") PROVE OutPortsApart
<1>1. /\ OutPort(1) = 0 /\ OutPort(2) = 1
      /\ "LlcOutConnect" \in cfg.on => OutPort(3) = Idx(2)
      /\ "LlcNotBypass" \in cfg.on => OutPort(4) = Idx(IF "LlcOutConnect" \in cfg.on THEN 2 ELSE 1)
  <2>1. PortsOut(Ports("out")) /\ Len(Ports("out")) = 6
    BY UnitsOut DEF Fine, Finished, FirstPorts, Ports
  <2>2. QED
    BY <2>1 DEF PortsOut, OutPort
<1>2. OutBase \in Nat /\ Idx(1) = 1
  BY ExtFits DEF OutBase
<1>3. \A n \in 1 .. 6 : OutPort(n) \in Nat
  <2>1. Ports("out") \in Seq(Nat) /\ Len(Ports("out")) = 6
    BY UnitsOut DEF Fine, Finished, Ports
  <2>2. QED
    BY <2>1 DEF OutPort
<1>4. DOMAIN Units("out") = 1 .. 6
  BY UnitsOut
<1>5. \A m, n \in 1 .. 6 : Separate(Units("out")[m]) /\ Separate(Units("out")[n]) =>
        /\ m # n => OutPort(m) # OutPort(n)
        /\ OutPort(m) < OutBase
        /\ m < n => OutPort(m) < OutPort(n)
  <2>1. \A m, n \in 1 .. 6 : Separate(Units("out")[m]) /\ Separate(Units("out")[n]) =>
          (m # n => OutPort(m) # OutPort(n)) /\ OutPort(m) < OutBase
    BY <1>4 DEF Fine, Apart, OutPort, OutBase
  <2>2. \A m, n \in 1 .. 6 : m < n /\ Separate(Units("out")[m]) /\ Separate(Units("out")[n]) =>
          OutPort(m) < OutPort(n)
    BY <1>4 DEF Fine, Finished, Fits, Rising, OutPort, Ports
  <2>3. QED
    BY <2>1, <2>2
<1>6. OutBase > 1
  BY <1>1, <1>2, <1>5, OutSeparate
<1>7. ASSUME NEW n \in {3, 5, 6}, Units("out")[n].on
      PROVE  OutPort(n) \in Int /\ OutPort(n) > 1 /\ OutPort(n) < OutBase
  <2>1. n \in 1 .. 6 /\ 2 \in 1 .. 6 /\ 2 < n /\ Separate(Units("out")[n]) /\ Separate(Units("out")[2])
    BY <1>7, OutSeparate
  <2>2. OutPort(n) \in Nat /\ OutPort(2) < OutPort(n) /\ OutPort(n) < OutBase
    BY <1>3, <1>5, <2>1
  <2>3. QED
    BY <1>1, <2>2
<1>8. ASSUME NEW m \in {3, 5, 6}, NEW n \in {3, 5, 6}, Units("out")[m].on, Units("out")[n].on, m # n
      PROVE  OutPort(m) # OutPort(n)
  BY <1>5, <1>8, OutSeparate
<1>9. "LlcNotBypass" \in cfg.on => OutPort(4) = IF "LlcOutConnect" \in cfg.on THEN OutPort(3) ELSE 1
  BY <1>1, <1>2
<1>10. QED
  BY <1>1, <1>2, <1>6, <1>7, <1>8, <1>9 DEF OutPortsApart

\* The ports of the demultiplexer: 0 is free, and external ports are behind all others.
LEMMA RegPortsApart ==
  ASSUME cfg \in Configs, Fine("reg")
  PROVE  /\ RegBase \in Nat
         /\ \A n \in DOMAIN Units("reg") : Units("reg")[n].on =>
              RegPort(n) \in Nat /\ RegPort(n) > 0 /\ RegPort(n) < RegBase
         /\ \A m, n \in DOMAIN Units("reg") :
              Units("reg")[m].on /\ Units("reg")[n].on /\ RegPort(m) = RegPort(n) => m = n
<1> DEFINE N == cfg.NumCores
<1>1. /\ N \in Nat /\ DOMAIN Units("reg") = 1 .. 16 + 2 * N /\ Len(Units("reg")) = 16 + 2 * N
      /\ \A n \in 1 .. 16 + 2 * N : Units("reg")[n].how = "pre"
  BY RegParts, UnitsReg
<1> HIDE DEF N
<1>2. \A n \in DOMAIN Units("reg") : Separate(Units("reg")[n]) <=> Units("reg")[n].on
  BY <1>1 DEF Separate
<1>3. RegPort(1) = 1 /\ Ports("reg") \in Seq(Nat) /\ Len(Ports("reg")) = 16 + 2 * N
  BY <1>1 DEF Fine, Finished, FirstPorts, PortsReg, RegPort, Ports
<1>4. \A n \in DOMAIN Units("reg") : RegPort(n) \in Nat
  BY <1>1, <1>3 DEF RegPort
<1>5. RegBase \in Nat
  BY ExtFits DEF RegBase
<1>6. \A m, n \in DOMAIN Units("reg") : Units("reg")[m].on /\ Units("reg")[n].on =>
        (m # n => RegPort(m) # RegPort(n)) /\ RegPort(m) < RegBase
  BY <1>2 DEF Fine, Apart, RegPort, RegBase
<1>7. \A m, n \in DOMAIN Units("reg") : m < n /\ Units("reg")[m].on /\ Units("reg")[n].on =>
        RegPort(m) < RegPort(n)
  BY <1>2 DEF Fine, Finished, Fits, Rising, RegPort, Ports
<1>8. 1 \in DOMAIN Units("reg") /\ Units("reg")[1].on
  <2>1. 1 \in 1 .. 16 + 2 * N
    BY <1>1
  <2>2. Units("reg")[1] = RegOnce[1]
    BY UnitsReg
  <2>3. RegOnce[1].on
    BY DEF RegOnce, Unit
  <2>4. QED
    BY <1>1, <2>1, <2>2, <2>3
<1>9. ASSUME NEW n \in DOMAIN Units("reg"), Units("reg")[n].on PROVE RegPort(n) > 0
  <2>1. CASE n = 1
    BY <1>3, <2>1
  <2>2. CASE n # 1
    <3>1. 1 < n
      BY <1>1, <2>2
    <3>2. RegPort(1) < RegPort(n)
      BY <1>7, <1>8, <1>9, <3>1
    <3>3. QED
      BY <1>3, <1>4, <3>2
  <2>3. QED
    BY <2>1, <2>2
<1>10. QED
  BY <1>4, <1>5, <1>6, <1>9

\* What claims an address on the crossbar, unit by unit.
OutClaim(a, d) ==
  \/ Inside(a, EXTROM) /\ d = OutPort(1)
  \/ Inside(a, REG_DEMUX) /\ d = 1
  \/ "LlcOutConnect" \in cfg.on /\ Inside(a, cfg.LlcOut) /\ d = OutPort(3)
  \/ "LlcNotBypass" \in cfg.on /\ (Inside(a, Spm(cfg)) \/ Inside(a, SpmUnc(cfg))) /\ d = OutPort(4)
  \/ "Dma" \in cfg.on /\ Inside(a, DMA) /\ d = OutPort(5)
  \/ "SerialLink" \in cfg.on /\ Inside(a, cfg.Slink) /\ d = OutPort(6)
  \/ \E x \in DOMAIN cfg.AxiExt : Inside(a, cfg.AxiExt[x]) /\ d = OutBase + cfg.AxiExt[x].idx
  \/ \E x \in DOMAIN cfg.RegExt : Inside(a, cfg.RegExt[x]) /\ d = 1

\* Its rules, one by one.
LEMMA OutPairs ==
  LET U == Units("out") IN
  \A n, k : <<n, k>> \in RulePairs("out", 6) <=>
    \/ n = 1 /\ k = 1
    \/ n = 2 /\ k = 1
    \/ n = 3 /\ k = 1 /\ "LlcOutConnect" \in cfg.on
    \/ n = 4 /\ k \in {1, 2} /\ "LlcNotBypass" \in cfg.on
    \/ n = 5 /\ k = 1 /\ "Dma" \in cfg.on
    \/ n = 6 /\ k = 1 /\ "SerialLink" \in cfg.on
<1> DEFINE U == Units("out")
<1>1. /\ U[1].on = TRUE /\ U[2].on = TRUE /\ U[3].on = ("LlcOutConnect" \in cfg.on)
      /\ U[4].on = ("LlcNotBypass" \in cfg.on) /\ U[5].on = ("Dma" \in cfg.on)
      /\ U[6].on = ("SerialLink" \in cfg.on)
  BY UnitsOut DEF Unit, Option
<1>2. /\ DOMAIN U[1].rules = {1} /\ DOMAIN U[2].rules = {1} /\ DOMAIN U[3].rules = {1}
      /\ DOMAIN U[4].rules = {1, 2} /\ DOMAIN U[5].rules = {1} /\ DOMAIN U[6].rules = {1}
  BY UnitsOut DEF Unit, Option
<1> HIDE DEF U
<1>3. \A n, k : <<n, k>> \in RulePairs("out", 6) <=>
        n \in 1 .. 6 /\ k \in {1, 2} /\ U[n].on /\ k \in DOMAIN U[n].rules
  BY DEF RulePairs, U
<1>4. \A n, k : <<n, k>> \in RulePairs("out", 6) => n = 1 \/ n = 2 \/ n = 3 \/ n = 4 \/ n = 5 \/ n = 6
  BY <1>3
<1>5. 1 \in 1 .. 6 /\ 2 \in 1 .. 6 /\ 3 \in 1 .. 6 /\ 4 \in 1 .. 6 /\ 5 \in 1 .. 6 /\ 6 \in 1 .. 6
  OBVIOUS
<1>6. \A k : /\ k \in DOMAIN U[1].rules <=> k = 1
             /\ k \in DOMAIN U[2].rules <=> k = 1
             /\ k \in DOMAIN U[3].rules <=> k = 1
             /\ k \in DOMAIN U[4].rules <=> k \in {1, 2}
             /\ k \in DOMAIN U[5].rules <=> k = 1
             /\ k \in DOMAIN U[6].rules <=> k = 1
             /\ k = 1 => k \in {1, 2}
  BY <1>2
<1>7. \A k : /\ <<1, k>> \in RulePairs("out", 6) <=> k = 1
             /\ <<2, k>> \in RulePairs("out", 6) <=> k = 1
             /\ <<3, k>> \in RulePairs("out", 6) <=> k = 1 /\ "LlcOutConnect" \in cfg.on
             /\ <<4, k>> \in RulePairs("out", 6) <=> k \in {1, 2} /\ "LlcNotBypass" \in cfg.on
             /\ <<5, k>> \in RulePairs("out", 6) <=> k = 1 /\ "Dma" \in cfg.on
             /\ <<6, k>> \in RulePairs("out", 6) <=> k = 1 /\ "SerialLink" \in cfg.on
  BY <1>1, <1>3, <1>5, <1>6, Zenon
<1> DEFINE X == RulePairs("out", 6)
<1> HIDE DEF X
<1>8. \A n, k : <<n, k>> \in X => n = 1 \/ n = 2 \/ n = 3 \/ n = 4 \/ n = 5 \/ n = 6
  BY <1>4 DEF X
<1>9. QED
  BY <1>7, <1>8, Zenon DEF X

\* Their regions.
LEMMA OutRegions ==
  LET U == Units("out") IN
  /\ U[1].rules[1] = EXTROM /\ U[2].rules[1] = REG_DEMUX /\ U[3].rules[1] = cfg.LlcOut
  /\ U[4].rules[1] = Spm(cfg) /\ U[4].rules[2] = SpmUnc(cfg) /\ U[5].rules[1] = DMA /\ U[6].rules[1] = cfg.Slink
BY UnitsOut DEF Unit, Option

\* These are the claims on the crossbar.
LEMMA OutClaims ==
  ASSUME cfg \in Configs, Fine("out"), NEW a, NEW d
  PROVE  Claim("out", a, d) <=> OutClaim(a, d)
<1> DEFINE U == Units("out")
           X == RulePairs("out", 6)
<1>1. Claim("out", a, d) <=>
        \/ \E x \in X : Inside(a, U[x[1]].rules[x[2]]) /\ d = OutPort(x[1])
        \/ \E x \in DOMAIN cfg.AxiExt : Inside(a, cfg.AxiExt[x]) /\ d = OutBase + cfg.AxiExt[x].idx
        \/ \E x \in DOMAIN cfg.RegExt : Inside(a, cfg.RegExt[x]) /\ d = 1
  <2>1. Len(Units("out")) = 6
    BY UnitsOut
  <2>2. QED
    BY <2>1 DEF Claim, OutPort, OutBase
<1>2. OutPort(2) = 1
  BY UnitsOut DEF Fine, Finished, FirstPorts, PortsOut, OutPort, Ports
<1>3. (\E x \in X : Inside(a, U[x[1]].rules[x[2]]) /\ d = OutPort(x[1]))
        <=> \E n, k : <<n, k>> \in X /\ Inside(a, U[n].rules[k]) /\ d = OutPort(n)
  <2> HIDE DEF U
  <2>1. \A x \in X : x = <<x[1], x[2]>>
    BY DEF RulePairs
  <2>2. \A n, k : <<n, k>>[1] = n /\ <<n, k>>[2] = k
    OBVIOUS
  <2>3. ASSUME NEW x \in X, Inside(a, U[x[1]].rules[x[2]]), d = OutPort(x[1])
        PROVE  \E n, k : <<n, k>> \in X /\ Inside(a, U[n].rules[k]) /\ d = OutPort(n)
    <3>1. <<x[1], x[2]>> \in X
      BY <2>1
    <3> HIDE DEF X
    <3>2. QED
      BY <2>3, <3>1
  <2>4. ASSUME NEW n, NEW k, <<n, k>> \in X, Inside(a, U[n].rules[k]), d = OutPort(n)
        PROVE  \E x \in X : Inside(a, U[x[1]].rules[x[2]]) /\ d = OutPort(x[1])
    <3> HIDE DEF X
    <3>1. QED
      BY <2>2, <2>4, Zenon
  <2>5. QED
    BY <2>3, <2>4
<1> DEFINE L == "LlcOutConnect" \in cfg.on
           S == "LlcNotBypass" \in cfg.on
           D == "Dma" \in cfg.on
           K == "SerialLink" \in cfg.on
<1>4. \A n, k : <<n, k>> \in X <=>
        \/ n = 1 /\ k = 1
        \/ n = 2 /\ k = 1
        \/ n = 3 /\ k = 1 /\ L
        \/ n = 4 /\ k \in {1, 2} /\ S
        \/ n = 5 /\ k = 1 /\ D
        \/ n = 6 /\ k = 1 /\ K
  BY OutPairs, Zenon
<1>5. /\ U[1].rules[1] = EXTROM /\ U[2].rules[1] = REG_DEMUX /\ U[3].rules[1] = cfg.LlcOut
      /\ U[4].rules[1] = Spm(cfg) /\ U[4].rules[2] = SpmUnc(cfg) /\ U[5].rules[1] = DMA /\ U[6].rules[1] = cfg.Slink
  BY OutRegions
<1> HIDE DEF U, X
<1>6. (\E n, k : <<n, k>> \in X /\ Inside(a, U[n].rules[k]) /\ d = OutPort(n)) <=>
        \/ Inside(a, EXTROM) /\ d = OutPort(1)
        \/ Inside(a, REG_DEMUX) /\ d = OutPort(2)
        \/ L /\ Inside(a, cfg.LlcOut) /\ d = OutPort(3)
        \/ S /\ (Inside(a, Spm(cfg)) \/ Inside(a, SpmUnc(cfg))) /\ d = OutPort(4)
        \/ D /\ Inside(a, DMA) /\ d = OutPort(5)
        \/ K /\ Inside(a, cfg.Slink) /\ d = OutPort(6)
  <2> HIDE DEF L, S, D, K
  <2>1. ASSUME NEW n, NEW k, <<n, k>> \in X, Inside(a, U[n].rules[k]), d = OutPort(n)
        PROVE  \/ Inside(a, EXTROM) /\ d = OutPort(1)
               \/ Inside(a, REG_DEMUX) /\ d = OutPort(2)
               \/ L /\ Inside(a, cfg.LlcOut) /\ d = OutPort(3)
               \/ S /\ (Inside(a, Spm(cfg)) \/ Inside(a, SpmUnc(cfg))) /\ d = OutPort(4)
               \/ D /\ Inside(a, DMA) /\ d = OutPort(5)
               \/ K /\ Inside(a, cfg.Slink) /\ d = OutPort(6)
    BY <1>4, <1>5, <2>1
  <2>2. /\ <<1, 1>> \in X /\ <<2, 1>> \in X /\ (L => <<3, 1>> \in X) /\ (S => <<4, 1>> \in X /\ <<4, 2>> \in X)
        /\ (D => <<5, 1>> \in X) /\ (K => <<6, 1>> \in X)
    BY <1>4
  <2>3. QED
    BY <1>5, <2>1, <2>2, Zenon
<1>7. QED
  BY <1>1, <1>2, <1>3, <1>6 DEF OutClaim

\* The crossbar's claims agree.
LEMMA OutUnique ==
  ASSUME cfg \in Configs, NEW a \in Int, NEW d, NEW e, OutClaim(a, d), OutClaim(a, e)
  PROVE  d = e
<1> DEFINE E0 == Inside(a, EXTROM)
           R0 == Inside(a, REG_DEMUX)
           L0 == "LlcOutConnect" \in cfg.on /\ Inside(a, cfg.LlcOut)
           S0 == "LlcNotBypass" \in cfg.on /\ (Inside(a, Spm(cfg)) \/ Inside(a, SpmUnc(cfg)))
           D0 == "Dma" \in cfg.on /\ Inside(a, DMA)
           K0 == "SerialLink" \in cfg.on /\ Inside(a, cfg.Slink)
           X(x) == x \in DOMAIN cfg.AxiExt /\ Inside(a, cfg.AxiExt[x])
           Y(x) == x \in DOMAIN cfg.RegExt /\ Inside(a, cfg.RegExt[x])
           Away(p) == \A f \in Placed(cfg) : Inside(a, f[3]) => p = f
<1>1. /\ E0 => ~R0 /\ ~D0 /\ ~S0
      /\ D0 => ~R0 /\ ~S0
      /\ R0 => ~S0
  BY FixedWords
<1>2. \A p \in Placed(cfg) : Inside(a, p[3]) => ~E0 /\ ~D0 /\ ~S0 /\ (p[1] # "reg" => ~R0) /\ Away(p)
  BY PlacedWords
<1>3. L0 => ~E0 /\ ~R0 /\ ~S0 /\ ~D0 /\ ~K0 /\ (\A x : ~X(x)) /\ \A x : ~Y(x)
  <2> SUFFICES ASSUME L0 PROVE ~E0 /\ ~R0 /\ ~S0 /\ ~D0 /\ ~K0 /\ (\A x : ~X(x)) /\ \A x : ~Y(x)
    OBVIOUS
  <2> DEFINE p == <<"llc", 0, cfg.LlcOut>>
  <2>1. p \in Placed(cfg) /\ Inside(a, p[3]) /\ p[1] # "reg"
    BY PlacedThere
  <2>2. ~E0 /\ ~R0 /\ ~S0 /\ ~D0 /\ Away(p)
    BY <1>2, <2>1, Zenon
  <2>3. ~K0
    BY <2>2, PlacedThere
  <2>4. \A x : ~X(x)
    BY <2>2, PlacedThere
  <2>5. \A x : ~Y(x)
    BY <2>2, PlacedThere
  <2>6. QED
    BY <2>2, <2>3, <2>4, <2>5
<1>4. K0 => ~E0 /\ ~R0 /\ ~S0 /\ ~D0 /\ (\A x : ~X(x)) /\ \A x : ~Y(x)
  <2> SUFFICES ASSUME K0 PROVE ~E0 /\ ~R0 /\ ~S0 /\ ~D0 /\ (\A x : ~X(x)) /\ \A x : ~Y(x)
    OBVIOUS
  <2> DEFINE p == <<"slink", 0, cfg.Slink>>
  <2>1. p \in Placed(cfg) /\ Inside(a, p[3]) /\ p[1] # "reg"
    BY PlacedThere
  <2>2. ~E0 /\ ~R0 /\ ~S0 /\ ~D0 /\ Away(p)
    BY <1>2, <2>1, Zenon
  <2>3. \A x : ~X(x)
    BY <2>2, PlacedThere
  <2>4. \A x : ~Y(x)
    BY <2>2, PlacedThere
  <2>5. QED
    BY <2>2, <2>3, <2>4
<1>5. ASSUME NEW x, X(x)
      PROVE  ~E0 /\ ~R0 /\ ~S0 /\ ~D0 /\ (\A y : X(y) => x = y) /\ \A y : ~Y(y)
  <2> DEFINE p == <<"axi", x, cfg.AxiExt[x]>>
  <2>1. p \in Placed(cfg) /\ Inside(a, p[3]) /\ p[1] # "reg"
    BY <1>5, PlacedThere
  <2>2. ~E0 /\ ~R0 /\ ~S0 /\ ~D0 /\ Away(p)
    BY <1>2, <2>1, Zenon
  <2>3. \A y : X(y) => x = y
    BY <2>2, PlacedThere
  <2>4. \A y : ~Y(y)
    BY <2>2, PlacedThere
  <2>5. QED
    BY <2>2, <2>3, <2>4
<1>6. ASSUME NEW x, Y(x) PROVE ~E0 /\ ~S0 /\ ~D0
  <2> DEFINE p == <<"reg", x, cfg.RegExt[x]>>
  <2>1. p \in Placed(cfg) /\ Inside(a, p[3])
    BY <1>6, PlacedThere
  <2>2. QED
    BY <1>2, <2>1, Zenon
<1>7. \A c : OutClaim(a, c) =>
        \/ E0 /\ c = OutPort(1)
        \/ R0 /\ c = 1
        \/ L0 /\ c = OutPort(3)
        \/ S0 /\ c = OutPort(4)
        \/ D0 /\ c = OutPort(5)
        \/ K0 /\ c = OutPort(6)
        \/ \E x : X(x) /\ c = OutBase + cfg.AxiExt[x].idx
        \/ \E x : Y(x) /\ c = 1
  BY DEF OutClaim
<1> HIDE DEF E0, R0, L0, S0, D0, K0, X, Y
<1>8. CASE \E x : X(x)
  BY <1>3, <1>4, <1>5, <1>7, <1>8
<1>9. CASE ~(\E x : X(x)) /\ (\E x : Y(x))
  BY <1>3, <1>4, <1>6, <1>7, <1>9
<1>10. CASE ~(\E x : X(x)) /\ ~(\E x : Y(x))
  BY <1>1, <1>3, <1>4, <1>7, <1>10
<1>11. QED
  BY <1>8, <1>9, <1>10

\* What claims an address behind the demultiplexer.
RegClaim(a, d) ==
  \/ \E n \in DOMAIN Units("reg") : Units("reg")[n].on /\ Inside(a, RegRegion(n)) /\ d = RegPort(n)
  \/ \E x \in DOMAIN cfg.RegExt : Inside(a, cfg.RegExt[x]) /\ d = RegBase + cfg.RegExt[x].idx

\* These are the claims there.
LEMMA RegClaims ==
  ASSUME cfg \in Configs, NEW a, NEW d
  PROVE  Claim("reg", a, d) <=> RegClaim(a, d)
<1> DEFINE U == Units("reg")
           X == RulePairs("reg", Len(U))
<1>1. Claim("reg", a, d) <=>
        \/ \E x \in X : Inside(a, U[x[1]].rules[x[2]]) /\ d = RegPort(x[1])
        \/ \E x \in DOMAIN cfg.RegExt : Inside(a, cfg.RegExt[x]) /\ d = RegBase + cfg.RegExt[x].idx
  BY DEF Claim, RegPort, RegBase
<1>2. /\ 1 .. Len(U) = DOMAIN U
      /\ \A n \in DOMAIN U : U[n].rules = <<RegRegion(n)>>
  BY UnitsReg, RegParts
<1>3. \A n \in DOMAIN U : DOMAIN U[n].rules = {1} /\ U[n].rules[1] = RegRegion(n)
  BY <1>2
<1>4. X = {x \in (DOMAIN U) \X {1, 2} : U[x[1]].on /\ x[2] \in DOMAIN U[x[1]].rules}
  BY <1>2 DEF RulePairs
<1>5. ASSUME NEW x \in X, Inside(a, U[x[1]].rules[x[2]]), d = RegPort(x[1])
      PROVE  \E n \in DOMAIN U : U[n].on /\ Inside(a, RegRegion(n)) /\ d = RegPort(n)
  <2> DEFINE n == x[1]
             k == x[2]
  <2>1. n \in DOMAIN U /\ U[n].on /\ k \in DOMAIN U[n].rules
    BY <1>4
  <2> HIDE DEF U, X, n, k
  <2>2. k = 1 /\ U[n].rules[1] = RegRegion(n)
    BY <1>3, <2>1
  <2>3. QED
    BY <1>5, <2>1, <2>2 DEF n, k
<1>6. ASSUME NEW n \in DOMAIN U, U[n].on, Inside(a, RegRegion(n)), d = RegPort(n)
      PROVE  \E x \in X : Inside(a, U[x[1]].rules[x[2]]) /\ d = RegPort(x[1])
  <2> DEFINE x == <<n, 1>>
  <2>1. x[1] = n /\ x[2] = 1 /\ x \in (DOMAIN U) \X {1, 2}
    OBVIOUS
  <2> HIDE DEF U, X, x
  <2>2. x[2] \in DOMAIN U[x[1]].rules /\ U[x[1]].rules[x[2]] = RegRegion(n)
    BY <1>3, <2>1
  <2>3. x \in X
    BY <1>4, <1>6, <2>1, <2>2
  <2>4. QED
    BY <1>6, <2>1, <2>2, <2>3
<1>7. QED
  BY <1>1, <1>5, <1>6 DEF RegClaim

\* They agree, too.
LEMMA RegUnique ==
  ASSUME cfg \in Configs, NEW a \in Int, NEW d, NEW e, RegClaim(a, d), RegClaim(a, e)
  PROVE  d = e
<1> DEFINE Z(n) == n \in DOMAIN Units("reg") /\ Units("reg")[n].on /\ Inside(a, RegRegion(n))
           Y(x) == x \in DOMAIN cfg.RegExt /\ Inside(a, cfg.RegExt[x])
<1>1. \A m, n : Z(m) /\ Z(n) => m = n
  BY RegApart, SMT
<1>2. ASSUME NEW x, Y(x) PROVE (\A n : ~Z(n)) /\ \A y : Y(y) => x = y
  <2> DEFINE p == <<"reg", x, cfg.RegExt[x]>>
  <2>1. p \in Placed(cfg) /\ Inside(a, p[3]) /\ p[1] = "reg"
    BY <1>2, PlacedThere
  <2>2. /\ \A f \in Placed(cfg) : Inside(a, f[3]) => p = f
        /\ \A n \in DOMAIN Units("reg") : Units("reg")[n].on => ~Inside(a, RegRegion(n))
    <3> HIDE DEF p
    <3>1. QED
      BY <2>1, PlacedWords
  <2>3. \A y : Y(y) => x = y
    BY <2>2, PlacedThere
  <2>4. QED
    BY <2>2, <2>3
<1>3. \A c : RegClaim(a, c) => (\E n : Z(n) /\ c = RegPort(n)) \/ \E x : Y(x) /\ c = RegBase + cfg.RegExt[x].idx
  BY DEF RegClaim
<1> HIDE DEF Z, Y
<1>4. QED
  BY <1>1, <1>2, <1>3

\* The two levels of decoding.
OutAt(a) == Decode(made["out"], a, NoPort)
RegAt(a) == Decode(made["reg"], a, 0)

\* Each gives the port that claims the address, and only such a port or its default.
LEMMA OutDecodes ==
  ASSUME cfg \in Configs, Fine("out"), NEW a \in Int
  PROVE  /\ \A d : OutClaim(a, d) => OutAt(a) = d
         /\ OutAt(a) # NoPort => OutClaim(a, OutAt(a))
<1>1. \A d : Claim("out", a, d) <=> OutClaim(a, d)
  BY OutClaims
<1>2. /\ (\E c : Claim("out", a, c)) => Claim("out", a, OutAt(a))
      /\ (\A c : ~Claim("out", a, c)) => OutAt(a) = NoPort
  BY DecodeClaim DEF OutAt
<1>3. ASSUME NEW d, OutClaim(a, d) PROVE OutAt(a) = d
  <2>1. OutClaim(a, OutAt(a))
    BY <1>1, <1>2, <1>3
  <2>2. QED
    BY <1>3, <2>1, OutUnique
<1>4. OutAt(a) # NoPort => OutClaim(a, OutAt(a))
  BY <1>1, <1>2
<1>5. QED
  BY <1>3, <1>4

\* So behind the demultiplexer.
LEMMA RegDecodes ==
  ASSUME cfg \in Configs, Fine("reg"), NEW a \in Int
  PROVE  /\ \A d : RegClaim(a, d) => RegAt(a) = d
         /\ RegAt(a) # 0 => RegClaim(a, RegAt(a))
<1>1. \A d : Claim("reg", a, d) <=> RegClaim(a, d)
  BY RegClaims
<1>2. /\ (\E c : Claim("reg", a, c)) => Claim("reg", a, RegAt(a))
      /\ (\A c : ~Claim("reg", a, c)) => RegAt(a) = 0
  BY DecodeClaim DEF RegAt
<1>3. ASSUME NEW d, RegClaim(a, d) PROVE RegAt(a) = d
  <2>1. RegClaim(a, RegAt(a))
    BY <1>1, <1>2, <1>3
  <2>2. QED
    BY <1>3, <2>1, RegUnique
<1>4. RegAt(a) # 0 => RegClaim(a, RegAt(a))
  BY <1>1, <1>2
<1>5. QED
  BY <1>3, <1>4

\* The unit names behind the demultiplexer.
LEMMA RegNames ==
  ASSUME cfg \in Configs
  PROVE  \A n \in DOMAIN Units("reg") : Units("reg")[n].name \notin {"reg_demux", "spm"}
<1> DEFINE N == cfg.NumCores
           U == Units("reg")
<1>1. /\ N \in Nat /\ DOMAIN U = 1 .. 16 + 2 * N
      /\ \A n \in 1 .. 14 : U[n] = RegOnce[n]
      /\ \A n \in 1 .. N : U[14 + n] = ClicUnit(n)
      /\ \A n \in 1 .. N + 2 : U[14 + N + n] = BusErrUnit(n)
  BY ConfigsAssumption, UnitsReg
<1>2. \A n \in 1 .. 14 : RegOnce[n].name \notin {"reg_demux", "spm"}
  BY DEF RegOnce, Unit, Option
<1>3. \A n : ClicUnit(n).name = "clic" /\ BusErrUnit(n).name = "bus_err"
  BY DEF ClicUnit, BusErrUnit, Unit
<1> HIDE DEF N, U
<1>4. ASSUME NEW n \in DOMAIN U PROVE U[n].name \notin {"reg_demux", "spm"}
  <2>1. N \in Nat /\ n \in 1 .. 16 + 2 * N
    BY <1>1
  <2>2. CASE n <= 14
    <3>1. n \in 1 .. 14
      BY <2>1, <2>2
    <3>2. QED
      BY <1>1, <1>2, <3>1
  <2>3. CASE n > 14 /\ n <= 14 + N
    <3>1. PICK m \in 1 .. N : n = 14 + m
      <4>1. n - 14 \in 1 .. N /\ n = 14 + (n - 14)
        BY <2>1, <2>3
      <4>2. QED
        BY <4>1
    <3>2. U[n] = ClicUnit(m)
      BY <1>1, <3>1
    <3>3. QED
      BY <1>3, <3>2
  <2>4. CASE n > 14 + N
    <3>1. PICK m \in 1 .. N + 2 : n = 14 + N + m
      <4>1. n - 14 - N \in 1 .. N + 2 /\ n = 14 + N + (n - 14 - N)
        BY <2>1, <2>4
      <4>2. QED
        BY <4>1
    <3>2. U[n] = BusErrUnit(m)
      BY <1>1, <3>1
    <3>3. QED
      BY <1>3, <3>2
  <2>5. QED
    BY <2>1, <2>2, <2>3, <2>4
<1>5. QED
  BY <1>4 DEF U

\* What the SoC connects to the crossbar, apart from external ports.
OutPlace(u, at) ==
  \/ u = <<"dbg", 0>> /\ at = <<"axi", OutPort(1)>>
  \/ "LlcOutConnect" \in cfg.on /\ u = <<"llc", 0>> /\ at = <<"axi", OutPort(3)>>
  \/ "Dma" \in cfg.on /\ u = <<"dma", 0>> /\ at = <<"axi", OutPort(5)>>
  \/ "SerialLink" \in cfg.on /\ u = <<"slink", 0>> /\ at = <<"axi", OutPort(6)>>

\* All places.
PlaceOf(u, at) ==
  \/ OutPlace(u, at)
  \/ \E e \in 0 .. cfg.AxiExtNumSlv - 1 : u = <<"axi", e>> /\ at = <<"axi", OutBase + e>>
  \/ \E n : There(n) /\ u = RegUnit(n) /\ at = <<"reg", RegPort(n)>>
  \/ \E e \in 0 .. cfg.RegExtNumSlv - 1 : u = <<"reg", e>> /\ at = <<"reg", RegBase + e>>

\* The crossbar's units that are there.
LEMMA OutThere ==
  \A n : (/\ n \in DOMAIN Units("out") /\ Units("out")[n].on
          /\ Units("out")[n].name \notin {"reg_demux", "spm"}
          /\ Present(Units("out")[n].name, Units("out")[n].j))
         <=> \/ n = 1
             \/ n = 3 /\ "LlcOutConnect" \in cfg.on
             \/ n = 5 /\ "Dma" \in cfg.on
             \/ n = 6 /\ "SerialLink" \in cfg.on
<1> DEFINE U == Units("out")
<1>1. /\ U[1].on = TRUE /\ U[2].on = TRUE /\ U[3].on = ("LlcOutConnect" \in cfg.on)
      /\ U[4].on = ("LlcNotBypass" \in cfg.on) /\ U[5].on = ("Dma" \in cfg.on)
      /\ U[6].on = ("SerialLink" \in cfg.on)
  BY UnitsOut DEF Unit, Option
<1>2. /\ U[1].name = "dbg" /\ U[2].name = "reg_demux" /\ U[3].name = "llc" /\ U[4].name = "spm"
      /\ U[5].name = "dma" /\ U[6].name = "slink"
  BY UnitsOut DEF Unit, Option
<1>3. \A name \in {"dbg", "llc", "dma", "slink"} : \A j : Present(name, j) /\ name \notin {"reg_demux", "spm"}
  BY DEF Present
<1>4. \A n : n \in DOMAIN U <=> n = 1 \/ n = 2 \/ n = 3 \/ n = 4 \/ n = 5 \/ n = 6
  <2>1. DOMAIN U = 1 .. 6
    BY UnitsOut
  <2>2. QED
    BY <2>1
<1>5. Present(U[1].name, U[1].j) /\ Present(U[3].name, U[3].j) /\ Present(U[5].name, U[5].j) /\ Present(U[6].name, U[6].j)
  BY <1>2, <1>3
<1>6. /\ U[1].name \notin {"reg_demux", "spm"} /\ U[2].name \in {"reg_demux", "spm"}
      /\ U[3].name \notin {"reg_demux", "spm"} /\ U[4].name \in {"reg_demux", "spm"}
      /\ U[5].name \notin {"reg_demux", "spm"} /\ U[6].name \notin {"reg_demux", "spm"}
  BY <1>2
<1> HIDE DEF U
<1>7. QED
  BY <1>1, <1>4, <1>5, <1>6, Zenon DEF U

\* The places on the crossbar and behind the demultiplexer.
LEMMA OutPlaces ==
  /\ \A p \in Connected("axi", "out") :
       OutPlace(p.unit, p.at)
       \/ \E e \in 0 .. cfg.AxiExtNumSlv - 1 : p.unit = <<"axi", e>> /\ p.at = <<"axi", OutBase + e>>
  /\ \A u, at : OutPlace(u, at) => [unit |-> u, at |-> at] \in Connected("axi", "out")
  /\ \A e \in 0 .. cfg.AxiExtNumSlv - 1 :
       [unit |-> <<"axi", e>>, at |-> <<"axi", OutBase + e>>] \in Connected("axi", "out")
<1> DEFINE U == Units("out")
           there == {n \in DOMAIN U : /\ U[n].on /\ U[n].name \notin {"reg_demux", "spm"}
                                      /\ Present(U[n].name, U[n].j)}
           Own(n) == [unit |-> <<U[n].name, U[n].j>>, at |-> <<"axi", OutPort(n)>>]
           Ext(e) == [unit |-> <<"axi", e>>, at |-> <<"axi", OutBase + e>>]
           E == 0 .. cfg.AxiExtNumSlv - 1
<1>1. Connected("axi", "out") = {Own(n) : n \in there} \cup {Ext(e) : e \in E}
  BY DEF Connected, OutPort, OutBase, ExtPorts
<1>2. \A n : n \in there <=> \/ n = 1
                             \/ n = 3 /\ "LlcOutConnect" \in cfg.on
                             \/ n = 5 /\ "Dma" \in cfg.on
                             \/ n = 6 /\ "SerialLink" \in cfg.on
  <2>1. \A n : n \in there <=> /\ n \in DOMAIN U /\ U[n].on
                               /\ U[n].name \notin {"reg_demux", "spm"}
                               /\ Present(U[n].name, U[n].j)
    BY Zenon
  <2> HIDE DEF there
  <2>2. QED
    BY <2>1, OutThere, Zenon
<1>3. /\ Own(1) = [unit |-> <<"dbg", 0>>, at |-> <<"axi", OutPort(1)>>]
      /\ Own(3) = [unit |-> <<"llc", 0>>, at |-> <<"axi", OutPort(3)>>]
      /\ Own(5) = [unit |-> <<"dma", 0>>, at |-> <<"axi", OutPort(5)>>]
      /\ Own(6) = [unit |-> <<"slink", 0>>, at |-> <<"axi", OutPort(6)>>]
  <2>1. /\ U[1].name = "dbg" /\ U[1].j = 0 /\ U[3].name = "llc" /\ U[3].j = 0
        /\ U[5].name = "dma" /\ U[5].j = 0 /\ U[6].name = "slink" /\ U[6].j = 0
    BY UnitsOut DEF Unit, Option
  <2> HIDE DEF U
  <2>2. QED
    BY <2>1
<1> HIDE DEF U, there
<1>4. ASSUME NEW p \in Connected("axi", "out")
      PROVE  OutPlace(p.unit, p.at) \/ \E e \in E : p.unit = <<"axi", e>> /\ p.at = <<"axi", OutBase + e>>
  <2>1. (\E n \in there : p = Own(n)) \/ \E e \in E : p = Ext(e)
    <3> HIDE DEF Own, Ext, E
    <3>1. QED
      BY <1>1
  <2>2. CASE \E n \in there : p = Own(n)
    <3>1. PICK n \in there : p = Own(n)
      BY <2>2
    <3> HIDE DEF Own, Ext, E
    <3>2. \/ p = Own(1)
          \/ p = Own(3) /\ "LlcOutConnect" \in cfg.on
          \/ p = Own(5) /\ "Dma" \in cfg.on
          \/ p = Own(6) /\ "SerialLink" \in cfg.on
      BY <1>2, <3>1
    <3>3. /\ p = Own(1) => p.unit = <<"dbg", 0>> /\ p.at = <<"axi", OutPort(1)>>
          /\ p = Own(3) => p.unit = <<"llc", 0>> /\ p.at = <<"axi", OutPort(3)>>
          /\ p = Own(5) => p.unit = <<"dma", 0>> /\ p.at = <<"axi", OutPort(5)>>
          /\ p = Own(6) => p.unit = <<"slink", 0>> /\ p.at = <<"axi", OutPort(6)>>
      BY <1>3
    <3>4. OutPlace(p.unit, p.at)
      BY <3>2, <3>3, Zenon DEF OutPlace
    <3>5. QED
      BY <3>4
  <2>3. CASE \E e \in E : p = Ext(e)
    <3>1. PICK e \in E : p = Ext(e)
      BY <2>3
    <3>2. p.unit = <<"axi", e>> /\ p.at = <<"axi", OutBase + e>>
      BY <3>1
    <3>3. QED
      BY <3>2
  <2>4. QED
    BY <2>1, <2>2, <2>3
<1>5. ASSUME NEW u, NEW at, OutPlace(u, at) PROVE [unit |-> u, at |-> at] \in Connected("axi", "out")
  <2> HIDE DEF Own, Ext
  <2>1. \A n \in there : Own(n) \in Connected("axi", "out")
    BY <1>1
  <2>2. /\ Own(1) \in Connected("axi", "out")
        /\ "LlcOutConnect" \in cfg.on => Own(3) \in Connected("axi", "out")
        /\ "Dma" \in cfg.on => Own(5) \in Connected("axi", "out")
        /\ "SerialLink" \in cfg.on => Own(6) \in Connected("axi", "out")
    BY <1>2, <2>1
  <2>3. QED
    BY <1>3, <1>5, <2>2, Zenon DEF OutPlace
<1>6. \A e \in E : Ext(e) \in Connected("axi", "out")
  <2> HIDE DEF Own, Ext, E
  <2>1. QED
    BY <1>1
<1>7. QED
  BY <1>4, <1>5, <1>6

\* Likewise behind the demultiplexer.
LEMMA RegPlaces ==
  ASSUME cfg \in Configs
  PROVE  /\ \A p \in Connected("reg", "reg") :
              \/ \E n : There(n) /\ p.unit = RegUnit(n) /\ p.at = <<"reg", RegPort(n)>>
              \/ \E e \in 0 .. cfg.RegExtNumSlv - 1 : p.unit = <<"reg", e>> /\ p.at = <<"reg", RegBase + e>>
         /\ \A n : There(n) => [unit |-> RegUnit(n), at |-> <<"reg", RegPort(n)>>] \in Connected("reg", "reg")
         /\ \A e \in 0 .. cfg.RegExtNumSlv - 1 :
              [unit |-> <<"reg", e>>, at |-> <<"reg", RegBase + e>>] \in Connected("reg", "reg")
<1> DEFINE U == Units("reg")
           there == {n \in DOMAIN U : /\ U[n].on /\ U[n].name \notin {"reg_demux", "spm"}
                                      /\ Present(U[n].name, U[n].j)}
           Own(n) == [unit |-> RegUnit(n), at |-> <<"reg", RegPort(n)>>]
           Ext(e) == [unit |-> <<"reg", e>>, at |-> <<"reg", RegBase + e>>]
           E == 0 .. cfg.RegExtNumSlv - 1
<1>1. Connected("reg", "reg") = {Own(n) : n \in there} \cup {Ext(e) : e \in E}
  BY DEF Connected, RegPort, RegBase, RegUnit, ExtPorts
<1>2. \A n : n \in there <=> There(n)
  BY RegNames DEF There
<1> HIDE DEF U, there
<1>3. ASSUME NEW p \in Connected("reg", "reg")
      PROVE  \/ \E n : There(n) /\ p.unit = RegUnit(n) /\ p.at = <<"reg", RegPort(n)>>
             \/ \E e \in E : p.unit = <<"reg", e>> /\ p.at = <<"reg", RegBase + e>>
  <2>1. (\E n \in there : p = Own(n)) \/ \E e \in E : p = Ext(e)
    <3> HIDE DEF Own, Ext, E
    <3>1. QED
      BY <1>1
  <2>2. QED
    BY <1>2, <2>1
<1>4. \A n : There(n) => Own(n) \in Connected("reg", "reg")
  <2> HIDE DEF Own, Ext
  <2>1. QED
    BY <1>1, <1>2
<1>5. \A e \in E : Ext(e) \in Connected("reg", "reg")
  <2> HIDE DEF Own, Ext, E
  <2>1. QED
    BY <1>1
<1>6. QED
  BY <1>3, <1>4, <1>5

\* Both together are all there are.
LEMMA PlacesAre ==
  ASSUME cfg \in Configs
  PROVE  /\ \A p \in Places : PlaceOf(p.unit, p.at)
         /\ \A u, at : PlaceOf(u, at) => \E p \in Places : p.unit = u /\ p.at = at
<1>1. Places = Connected("axi", "out") \cup Connected("reg", "reg")
  BY DEF Places
<1>2. ASSUME NEW p \in Places PROVE PlaceOf(p.unit, p.at)
  BY <1>1, OutPlaces, RegPlaces DEF PlaceOf
<1>3. ASSUME NEW u, NEW at, PlaceOf(u, at) PROVE [unit |-> u, at |-> at] \in Places
  BY <1>1, <1>3, OutPlaces, RegPlaces, Zenon DEF PlaceOf
<1>4. ASSUME NEW u, NEW at, PlaceOf(u, at) PROVE \E p \in Places : p.unit = u /\ p.at = at
  <2>1. PICK p : p = [unit |-> u, at |-> at]
    OBVIOUS
  <2>2. p \in Places /\ p.unit = u /\ p.at = at
    BY <1>3, <1>4, <2>1
  <2>3. QED
    BY <2>2
<1>5. QED
  BY <1>2, <1>4

(***************************************************************************)
(* An access and the unit whose address it has.                            *)
(***************************************************************************)

\* Where an access goes, level by level.
LEMMA RouteAt == ASSUME NEW a PROVE Route(a) = IF OutAt(a) = 1 THEN <<"reg", RegAt(a)>> ELSE <<"axi", OutAt(a)>>
BY DEF Route, OutAt, RegAt

\* Which units of the crossbar are on.
LEMMA OutOn ==
  /\ Units("out")[3].on = ("LlcOutConnect" \in cfg.on)
  /\ Units("out")[5].on = ("Dma" \in cfg.on)
  /\ Units("out")[6].on = ("SerialLink" \in cfg.on)
BY UnitsOut DEF Unit, Option

\* The ports of those that are on, one by one.
LEMMA OutBounds ==
  ASSUME cfg \in Configs, Fine("out")
  PROVE  LET L == "LlcOutConnect" \in cfg.on
             D == "Dma" \in cfg.on
             K == "SerialLink" \in cfg.on
         IN /\ OutPort(1) = 0 /\ OutBase \in Int /\ OutBase > 1
            /\ L => OutPort(3) \in Int /\ OutPort(3) > 1 /\ OutPort(3) < OutBase
            /\ D => OutPort(5) \in Int /\ OutPort(5) > 1 /\ OutPort(5) < OutBase
            /\ K => OutPort(6) \in Int /\ OutPort(6) > 1 /\ OutPort(6) < OutBase
            /\ L /\ D => OutPort(3) # OutPort(5)
            /\ L /\ K => OutPort(3) # OutPort(6)
            /\ D /\ K => OutPort(5) # OutPort(6)
            /\ "LlcNotBypass" \in cfg.on => OutPort(4) = IF L THEN OutPort(3) ELSE 1
<1> DEFINE U == Units("out")
           T == {3, 5, 6}
<1>1. /\ OutPort(1) = 0 /\ OutBase \in Int /\ OutBase > 1
      /\ \A n \in T : U[n].on => OutPort(n) \in Int /\ OutPort(n) > 1 /\ OutPort(n) < OutBase
      /\ \A m, n \in T : U[m].on /\ U[n].on /\ m # n => OutPort(m) # OutPort(n)
      /\ "LlcNotBypass" \in cfg.on => OutPort(4) = IF "LlcOutConnect" \in cfg.on THEN OutPort(3) ELSE 1
  BY OutApart DEF OutPortsApart
<1>2. 3 \in T /\ 5 \in T /\ 6 \in T /\ 3 # 5 /\ 3 # 6 /\ 5 # 6
  OBVIOUS
<1> HIDE DEF U, T
<1>3. /\ U[3].on = ("LlcOutConnect" \in cfg.on)
      /\ U[5].on = ("Dma" \in cfg.on)
      /\ U[6].on = ("SerialLink" \in cfg.on)
  BY OutOn DEF U
<1>4. QED
  BY <1>1, <1>2, <1>3, Zenon

\* What the memory map has on the crossbar is reached.
LEMMA OutReached ==
  ASSUME cfg \in Configs, Fine("out"), NEW a \in Int, NEW o, OutKind(o), Inside(a, o.region)
  PROVE  OutPlace(o.unit, Route(a))
<1> DEFINE L == "LlcOutConnect" \in cfg.on
           D == "Dma" \in cfg.on
           K == "SerialLink" \in cfg.on
<1>1. \A d : OutClaim(a, d) => OutAt(a) = d
  BY OutDecodes
<1>2. OutPort(1) # 1 /\ (L => OutPort(3) # 1) /\ (D => OutPort(5) # 1) /\ (K => OutPort(6) # 1)
  BY OutBounds
<1>3. L /\ "LlcNotBypass" \in cfg.on => OutPort(4) = OutPort(3)
  BY OutApart DEF OutPortsApart
<1>4. \/ o.unit = <<"dbg", 0>> /\ OutClaim(a, OutPort(1))
      \/ D /\ o.unit = <<"dma", 0>> /\ OutClaim(a, OutPort(5))
      \/ L /\ o.unit = <<"llc", 0>> /\ OutClaim(a, OutPort(3))
      \/ K /\ o.unit = <<"slink", 0>> /\ OutClaim(a, OutPort(6))
  BY <1>3 DEF OutKind, OutClaim
<1>5. QED
  BY <1>1, <1>2, <1>4, RouteAt DEF OutPlace

\* So is everything else the memory map has.
LEMMA Reached ==
  ASSUME cfg \in Configs, Fine("out"), Fine("reg"), NEW a \in Int, NEW o \in Owned, Inside(a, o.region)
  PROVE  PlaceOf(o.unit, Route(a))
<1>1. CASE OutKind(o)
  BY <1>1, OutReached DEF PlaceOf
<1>2. CASE \E n : There(n) /\ o.unit = RegUnit(n) /\ o.region = RegRegion(n)
  <2>1. PICK n : There(n) /\ o.unit = RegUnit(n) /\ o.region = RegRegion(n)
    BY <1>2
  <2>2. n \in DOMAIN Units("reg") /\ Units("reg")[n].on /\ Inside(a, RegRegion(n))
    BY <2>1 DEF There
  <2>3. Inside(a, REG_DEMUX)
    BY <2>2, FixedWords
  <2>4. OutAt(a) = 1
    <3>1. OutClaim(a, 1)
      BY <2>3 DEF OutClaim
    <3>2. QED
      BY <3>1, OutDecodes
  <2>5. RegAt(a) = RegPort(n)
    <3>1. RegClaim(a, RegPort(n))
      BY <2>2 DEF RegClaim
    <3>2. QED
      BY <3>1, RegDecodes
  <2>6. Route(a) = <<"reg", RegPort(n)>>
    BY <2>4, <2>5, RouteAt
  <2>7. QED
    BY <2>1, <2>6 DEF PlaceOf
<1>3. CASE \E x \in DOMAIN cfg.AxiExt : o.unit = <<"axi", cfg.AxiExt[x].idx>> /\ o.region = cfg.AxiExt[x]
  <2>1. PICK x \in DOMAIN cfg.AxiExt : o.unit = <<"axi", cfg.AxiExt[x].idx>> /\ o.region = cfg.AxiExt[x]
    BY <1>3
  <2>2. PICK e : e = cfg.AxiExt[x].idx
    OBVIOUS
  <2>3. e \in 0 .. cfg.AxiExtNumSlv - 1
    <3>1. cfg.AxiExt[x].idx \in Nat /\ cfg.AxiExt[x].idx < cfg.AxiExtNumSlv /\ cfg.AxiExtNumSlv \in Nat
      BY ExtTyped
    <3>2. QED
      BY <2>2, <3>1
  <2>4. OutAt(a) = OutBase + e
    <3>1. OutClaim(a, OutBase + e)
      BY <2>1, <2>2 DEF OutClaim
    <3>2. QED
      BY <3>1, OutDecodes
  <2>5. OutBase + e # 1
    BY <2>3, OutApart DEF OutPortsApart
  <2>6. Route(a) = <<"axi", OutBase + e>>
    BY <2>4, <2>5, RouteAt
  <2>7. QED
    BY <2>1, <2>2, <2>3, <2>6 DEF PlaceOf
<1>4. CASE \E x \in DOMAIN cfg.RegExt : o.unit = <<"reg", cfg.RegExt[x].idx>> /\ o.region = cfg.RegExt[x]
  <2>1. PICK x \in DOMAIN cfg.RegExt : o.unit = <<"reg", cfg.RegExt[x].idx>> /\ o.region = cfg.RegExt[x]
    BY <1>4
  <2>2. PICK e : e = cfg.RegExt[x].idx
    OBVIOUS
  <2>3. e \in 0 .. cfg.RegExtNumSlv - 1
    <3>1. cfg.RegExt[x].idx \in Nat /\ cfg.RegExt[x].idx < cfg.RegExtNumSlv /\ cfg.RegExtNumSlv \in Nat
      BY ExtTyped
    <3>2. QED
      BY <2>2, <3>1
  <2>4. OutAt(a) = 1
    <3>1. OutClaim(a, 1)
      BY <2>1 DEF OutClaim
    <3>2. QED
      BY <3>1, OutDecodes
  <2>5. RegAt(a) = RegBase + e
    <3>1. RegClaim(a, RegBase + e)
      BY <2>1, <2>2 DEF RegClaim
    <3>2. QED
      BY <3>1, RegDecodes
  <2>6. Route(a) = <<"reg", RegBase + e>>
    BY <2>4, <2>5, RouteAt
  <2>7. QED
    BY <2>1, <2>2, <2>3, <2>6 DEF PlaceOf
<1>5. QED
  BY <1>1, <1>2, <1>3, <1>4, OwnedKinds

\* What an access reaches on the crossbar holds its address.
LEMMA OutReaches ==
  ASSUME cfg \in Configs, Fine("out"), NEW a \in Int, NEW u, OutPlace(u, <<"axi", OutAt(a)>>)
  PROVE  \E o \in Owned : o.unit = u /\ Inside(a, o.region)
<1> DEFINE L == "LlcOutConnect" \in cfg.on
           S == "LlcNotBypass" \in cfg.on
           D == "Dma" \in cfg.on
           K == "SerialLink" \in cfg.on
           d == OutAt(a)
<1>1. /\ OutPort(1) = 0 /\ OutBase \in Int /\ OutBase > 1
      /\ L => OutPort(3) \in Int /\ OutPort(3) > 1 /\ OutPort(3) < OutBase
      /\ D => OutPort(5) \in Int /\ OutPort(5) > 1 /\ OutPort(5) < OutBase
      /\ K => OutPort(6) \in Int /\ OutPort(6) > 1 /\ OutPort(6) < OutBase
      /\ L /\ D => OutPort(3) # OutPort(5)
      /\ L /\ K => OutPort(3) # OutPort(6)
      /\ D /\ K => OutPort(5) # OutPort(6)
      /\ S => OutPort(4) = IF L THEN OutPort(3) ELSE 1
  BY OutBounds
<1>2. \/ u = <<"dbg", 0>> /\ d = OutPort(1)
      \/ L /\ u = <<"llc", 0>> /\ d = OutPort(3)
      \/ D /\ u = <<"dma", 0>> /\ d = OutPort(5)
      \/ K /\ u = <<"slink", 0>> /\ d = OutPort(6)
  <2>1. \A e : <<"axi", d>> = <<"axi", e>> => d = e
    OBVIOUS
  <2>2. QED
    BY <2>1 DEF OutPlace
<1> HIDE DEF d
<1>3. OutClaim(a, d)
  <2>1. d # NoPort
    BY <1>1, <1>2 DEF NoPort
  <2>2. QED
    BY <2>1, OutDecodes DEF d
<1>4. \A x \in DOMAIN cfg.AxiExt : cfg.AxiExt[x].idx \in Nat
  BY ExtTyped
<1>5. \/ Inside(a, EXTROM) /\ d = OutPort(1)
      \/ d = 1
      \/ L /\ Inside(a, cfg.LlcOut) /\ d = OutPort(3)
      \/ S /\ (Inside(a, Spm(cfg)) \/ Inside(a, SpmUnc(cfg))) /\ d = OutPort(4)
      \/ D /\ Inside(a, DMA) /\ d = OutPort(5)
      \/ K /\ Inside(a, cfg.Slink) /\ d = OutPort(6)
      \/ \E e \in Nat : d = OutBase + e
  BY <1>3, <1>4 DEF OutClaim
<1> HIDE DEF L, S, D, K
<1>6. CASE u = <<"dbg", 0>> /\ d = OutPort(1)
  <2>1. Inside(a, EXTROM)
    BY <1>1, <1>5, <1>6
  <2>2. QED
    BY <1>6, <2>1, OutOwned
<1>7. CASE L /\ u = <<"llc", 0>> /\ d = OutPort(3)
  <2>1. Inside(a, cfg.LlcOut) \/ (S /\ (Inside(a, Spm(cfg)) \/ Inside(a, SpmUnc(cfg))))
    BY <1>1, <1>5, <1>7
  <2>2. QED
    BY <1>7, <2>1, OutOwned DEF L, S
<1>8. CASE D /\ u = <<"dma", 0>> /\ d = OutPort(5)
  <2>1. Inside(a, DMA)
    BY <1>1, <1>5, <1>8
  <2>2. QED
    BY <1>8, <2>1, OutOwned DEF D
<1>9. CASE K /\ u = <<"slink", 0>> /\ d = OutPort(6)
  <2>1. Inside(a, cfg.Slink)
    BY <1>1, <1>5, <1>9
  <2>2. QED
    BY <1>9, <2>1, OutOwned DEF K
<1>10. QED
  BY <1>2, <1>6, <1>7, <1>8, <1>9

\* An external port of the crossbar is reached from the region that leads there.
LEMMA AxiReaches ==
  ASSUME cfg \in Configs, Fine("out"), NEW a \in Int, NEW e \in Nat, OutAt(a) = OutBase + e
  PROVE  \E o \in Owned : o.unit = <<"axi", e>> /\ Inside(a, o.region)
<1> DEFINE L == "LlcOutConnect" \in cfg.on
           S == "LlcNotBypass" \in cfg.on
           D == "Dma" \in cfg.on
           K == "SerialLink" \in cfg.on
           d == OutAt(a)
<1>1. /\ OutPort(1) = 0 /\ OutBase \in Int /\ OutBase > 1
      /\ L => OutPort(3) \in Int /\ OutPort(3) > 1 /\ OutPort(3) < OutBase
      /\ D => OutPort(5) \in Int /\ OutPort(5) > 1 /\ OutPort(5) < OutBase
      /\ K => OutPort(6) \in Int /\ OutPort(6) > 1 /\ OutPort(6) < OutBase
      /\ S => OutPort(4) = IF L THEN OutPort(3) ELSE 1
  BY OutBounds
<1> HIDE DEF d
<1>2. d = OutBase + e
  BY DEF d
<1>3. OutClaim(a, d)
  <2>1. d # NoPort
    BY <1>1, <1>2 DEF NoPort
  <2>2. QED
    BY <2>1, OutDecodes DEF d
<1>4. \/ d = OutPort(1)
      \/ d = 1
      \/ L /\ d = OutPort(3)
      \/ S /\ d = OutPort(4)
      \/ D /\ d = OutPort(5)
      \/ K /\ d = OutPort(6)
      \/ \E x \in DOMAIN cfg.AxiExt : Inside(a, cfg.AxiExt[x]) /\ d = OutBase + cfg.AxiExt[x].idx
  BY <1>3 DEF OutClaim
<1> HIDE DEF L, S, D, K
<1>5. \E x \in DOMAIN cfg.AxiExt : Inside(a, cfg.AxiExt[x]) /\ d = OutBase + cfg.AxiExt[x].idx
  BY <1>1, <1>2, <1>4
<1>6. PICK x \in DOMAIN cfg.AxiExt : Inside(a, cfg.AxiExt[x]) /\ d = OutBase + cfg.AxiExt[x].idx
  BY <1>5
<1>7. cfg.AxiExt[x].idx = e
  <2>1. cfg.AxiExt[x].idx \in Nat
    BY ExtTyped
  <2>2. QED
    BY <1>1, <1>2, <1>6, <2>1
<1>8. QED
  BY <1>6, <1>7, ExtOwned

\* What an access reaches behind the demultiplexer holds its address.
LEMMA RegReaches ==
  ASSUME cfg \in Configs, Fine("reg"), NEW a \in Int
  PROVE  /\ \A n : There(n) /\ RegAt(a) = RegPort(n) => Inside(a, RegRegion(n))
         /\ \A e \in Nat : RegAt(a) = RegBase + e =>
              \E o \in Owned : o.unit = <<"reg", e>> /\ Inside(a, o.region)
<1> DEFINE U == Units("reg")
           d == RegAt(a)
<1>1. /\ RegBase \in Nat
      /\ \A n \in DOMAIN U : U[n].on => RegPort(n) \in Nat /\ RegPort(n) > 0 /\ RegPort(n) < RegBase
      /\ \A m, n \in DOMAIN U : U[m].on /\ U[n].on /\ RegPort(m) = RegPort(n) => m = n
  BY RegPortsApart
<1>2. RegBase > 0
  <2>1. 1 \in DOMAIN U /\ U[1].on
    <3>1. 1 \in 1 .. 16 + 2 * cfg.NumCores /\ U[1] = RegOnce[1] /\ DOMAIN U = 1 .. 16 + 2 * cfg.NumCores
      BY RegParts, UnitsReg
    <3>2. RegOnce[1].on
      BY DEF RegOnce, Unit
    <3>3. QED
      BY <3>1, <3>2
  <2> HIDE DEF U
  <2>2. QED
    BY <1>1, <2>1
<1>3. d # 0 => RegClaim(a, d)
  BY RegDecodes
<1>4. \A x \in DOMAIN cfg.RegExt : cfg.RegExt[x].idx \in Nat
  BY ExtTyped
<1>5. RegClaim(a, d) => \/ \E m \in DOMAIN U : U[m].on /\ Inside(a, RegRegion(m)) /\ d = RegPort(m)
                        \/ \E x \in DOMAIN cfg.RegExt : Inside(a, cfg.RegExt[x]) /\ d = RegBase + cfg.RegExt[x].idx
  BY DEF RegClaim
<1>6. ASSUME NEW n, There(n), d = RegPort(n) PROVE Inside(a, RegRegion(n))
  <2>1. n \in DOMAIN U /\ U[n].on
    BY <1>6 DEF There
  <2> HIDE DEF U, d
  <2>2. d \in Nat /\ d > 0 /\ d < RegBase
    BY <1>1, <1>6, <2>1
  <2>3. PICK m \in DOMAIN U : U[m].on /\ Inside(a, RegRegion(m)) /\ d = RegPort(m)
    BY <1>1, <1>3, <1>4, <1>5, <2>2
  <2>4. m = n
    BY <1>1, <1>6, <2>1, <2>3
  <2>5. QED
    BY <2>3, <2>4
<1>7. ASSUME NEW e \in Nat, d = RegBase + e PROVE \E o \in Owned : o.unit = <<"reg", e>> /\ Inside(a, o.region)
  <2> HIDE DEF U, d
  <2>1. d # 0 /\ d \in Nat /\ d >= RegBase
    BY <1>1, <1>2, <1>7
  <2>2. PICK x \in DOMAIN cfg.RegExt : Inside(a, cfg.RegExt[x]) /\ d = RegBase + cfg.RegExt[x].idx
    BY <1>1, <1>3, <1>5, <2>1
  <2>3. cfg.RegExt[x].idx = e
    BY <1>1, <1>4, <1>7, <2>2
  <2>4. QED
    BY <2>2, <2>3, ExtOwned
<1>8. QED
  BY <1>6, <1>7

\* So the unit at the end of a route owns the address.
LEMMA Reaches ==
  ASSUME cfg \in Configs, Fine("out"), Fine("reg"), NEW a \in Int, NEW u, PlaceOf(u, Route(a))
  PROVE  \E o \in Owned : o.unit = u /\ Inside(a, o.region)
<1>1. \A d, e : /\ <<"axi", d>> = <<"axi", e>> => d = e
               /\ <<"reg", d>> = <<"reg", e>> => d = e
  OBVIOUS
<1>2. \A d, e : <<"axi", d>> # <<"reg", e>> /\ <<"reg", d>> # <<"axi", e>>
  OBVIOUS
<1>3. cfg.AxiExtNumSlv \in Nat /\ cfg.RegExtNumSlv \in Nat
  BY ExtTyped
<1>4. CASE OutAt(a) = 1
  <2>1. Route(a) = <<"reg", RegAt(a)>>
    BY <1>4, RouteAt
  <2>2. \/ \E n : There(n) /\ u = RegUnit(n) /\ RegAt(a) = RegPort(n)
        \/ \E e \in 0 .. cfg.RegExtNumSlv - 1 : u = <<"reg", e>> /\ RegAt(a) = RegBase + e
    BY <1>1, <1>2, <2>1, Zenon DEF PlaceOf, OutPlace
  <2>3. CASE \E n : There(n) /\ u = RegUnit(n) /\ RegAt(a) = RegPort(n)
    <3>1. PICK n : There(n) /\ u = RegUnit(n) /\ RegAt(a) = RegPort(n)
      BY <2>3
    <3>2. Inside(a, RegRegion(n))
      BY <3>1, RegReaches
    <3>3. PICK o \in Owned : o = [unit |-> RegUnit(n), region |-> RegRegion(n)]
      BY <3>1, RegOwned
    <3>4. o.unit = u /\ o.region = RegRegion(n)
      BY <3>1, <3>3
    <3>5. QED
      BY <3>2, <3>4
  <2>4. CASE \E e \in 0 .. cfg.RegExtNumSlv - 1 : u = <<"reg", e>> /\ RegAt(a) = RegBase + e
    <3>1. PICK e \in 0 .. cfg.RegExtNumSlv - 1 : u = <<"reg", e>> /\ RegAt(a) = RegBase + e
      BY <2>4
    <3>2. e \in Nat
      BY <1>3
    <3>3. QED
      BY <3>1, <3>2, RegReaches
  <2>5. QED
    BY <2>2, <2>3, <2>4
<1>5. CASE OutAt(a) # 1
  <2>1. Route(a) = <<"axi", OutAt(a)>>
    BY <1>5, RouteAt
  <2>2. \/ OutPlace(u, <<"axi", OutAt(a)>>)
        \/ \E e \in 0 .. cfg.AxiExtNumSlv - 1 : u = <<"axi", e>> /\ OutAt(a) = OutBase + e
    BY <1>1, <1>2, <2>1, Zenon DEF PlaceOf
  <2>3. CASE OutPlace(u, <<"axi", OutAt(a)>>)
    BY <2>3, OutReaches
  <2>4. CASE \E e \in 0 .. cfg.AxiExtNumSlv - 1 : u = <<"axi", e>> /\ OutAt(a) = OutBase + e
    <3>1. PICK e \in 0 .. cfg.AxiExtNumSlv - 1 : u = <<"axi", e>> /\ OutAt(a) = OutBase + e
      BY <2>4
    <3>2. e \in Nat
      BY <1>3
    <3>3. QED
      BY <3>1, <3>2, AxiReaches
  <2>5. QED
    BY <2>2, <2>3, <2>4
<1>6. QED
  BY <1>4, <1>5

\* At the end, generators whose counters and rules fit have done their work.
LEMMA AtEnd ==
  ASSUME IInv, DInv, gen = "done", NEW g \in {"out", "reg"}, Fits(g), RulesFit(g)
  PROVE  Fine(g)
<1>1. Past(g)
  <2>1. CASE g = "out"
    BY <2>1 DEF Past
  <2>2. CASE g = "reg"
    BY <2>2 DEF Past
  <2>3. QED
    BY <2>1, <2>2
<1>2. Finished(g, made[g])
  BY <1>1 DEF DInv, AllFinished
<1>3. Apart(g)
  BY <1>1 DEF IInv, PortsApart, Generators
<1>4. QED
  BY <1>2, <1>3 DEF Fine

\* The maps decode as they should, whatever the address.
LEMMA DecodesNow == ASSUME IInv, DInv PROVE Decodes
<1> SUFFICES ASSUME gen = "done", \A g \in {"out", "reg"} : Fits(g) /\ RulesFit(g), NEW a \in Probes
             PROVE  {p.unit : p \in {q \in Places : q.at = Route(a)}}
                      = {o.unit : o \in {w \in Owned : Inside(a, w.region)}}
  BY DEF Decodes
<1>1. cfg \in Configs
  BY DEF IInv, TypeOK
<1>2. a \in Int
  BY <1>1, ProbesInt
<1>3. Fine("out") /\ Fine("reg")
  BY AtEnd
<1>4. \A p \in Places : p.at = Route(a) => \E o \in Owned : o.unit = p.unit /\ Inside(a, o.region)
  BY <1>1, <1>2, <1>3, PlacesAre, Reaches
<1>5. \A o \in Owned : Inside(a, o.region) => \E p \in Places : p.unit = o.unit /\ p.at = Route(a)
  BY <1>1, <1>2, <1>3, PlacesAre, Reached
<1>6. QED
  BY <1>4, <1>5

(***************************************************************************)
(* The theorems.                                                           *)
(***************************************************************************)

\* For every configuration, with any number of cores and any choice of units, the
\* ports gen_axi_in, gen_axi_out and gen_reg_out number are apart (PortsApart).
THEOREM PortsAlwaysApart == Spec => []PortsApart
<1>1. Init => IInv
  BY InitInv
<1>2. IInv /\ [Next]_vars => IInv'
  <2> SUFFICES ASSUME IInv, [Next]_vars PROVE IInv'
    OBVIOUS
  <2>1. CASE Next
    BY <2>1, AddUnitInv, SkipUnitInv, FinishInv DEF Next
  <2>2. CASE UNCHANGED vars
    BY <2>2, StutterInv
  <2>3. QED
    BY <2>1, <2>2
<1>3. IInv => PortsApart
  BY DEF IInv
<1>4. QED
  BY <1>1, <1>2, <1>3, PTL DEF Spec

\* For every configuration within the layout of docs/um/arch.md, the cores cache,
\* repeat and execute what the memory map allows for the unit an address belongs to,
\* and the external on-chip region is split as Cva6ExtCieOnTop says (CoreView); by
\* FlagsOfUnit and FlagsExt this is so not only at the probes but at every word.
THEOREM CoresFollowMap == Spec => []CoreView
<1>1. Init => cfg \in Configs
  BY DEF Init
<1>2. cfg \in Configs /\ [Next]_vars => (cfg \in Configs)'
  BY DEF Next, AddUnit, SkipUnit, Finish, vars
<1>3. cfg \in Configs => CoreView
  <2> SUFFICES ASSUME cfg \in Configs, NEW a \in Probes
               PROVE  /\ \A o \in Owned : Inside(a, o.region) /\ o.unit[1] \notin {"slink", "axi", "reg"} =>
                           CoreFlags(a) = UnitFlags(o.unit[1], a)
                      /\ ExtStart <= a /\ a < ExtEnd =>
                           CoreFlags(a) = IF Inside(a, Cie) THEN {"C", "I", "E"} ELSE {}
    BY DEF CoreView
  <2>1. a \in Int
    BY ProbesInt
  <2>2. QED
    BY <2>1, FlagsOfUnit, FlagsExt
<1>4. QED
  BY <1>1, <1>2, <1>3, PTL DEF Spec

\* An access reaches exactly the unit whose region holds its address, through both levels
\* of decoding: the generators of hw/cheshire_pkg.sv number ports, rules and external
\* entries so that cheshire_soc.sv connects each to the unit the memory map names.
THEOREM RoutesFollowMap == Spec => []Decodes
<1>1. Init => IInv /\ DInv
  BY InitInv, InitRules
<1>2. IInv /\ DInv /\ [Next]_vars => (IInv /\ DInv)'
  <2> SUFFICES ASSUME IInv, DInv, [Next]_vars PROVE IInv' /\ DInv'
    OBVIOUS
  <2>1. CASE AddUnit
    BY <2>1, AddUnitInv, AddUnitRules
  <2>2. CASE SkipUnit
    BY <2>2, SkipUnitInv, SkipUnitRules
  <2>3. CASE Finish
    BY <2>3, FinishInv, FinishRules
  <2>4. CASE UNCHANGED vars
    BY <2>4, StutterInv, StutterRules
  <2>5. QED
    BY <2>1, <2>2, <2>3, <2>4 DEF Next
<1>3. IInv /\ DInv => Decodes
  BY DecodesNow
<1>4. QED
  BY <1>1, <1>2, <1>3, PTL DEF Spec
=============================================================================
