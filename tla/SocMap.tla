------------------------------- MODULE SocMap -------------------------------
(***************************************************************************)
(* The SoC's ports and address maps (hw/cheshire_pkg.sv): gen_axi_in,      *)
(* gen_axi_out and gen_reg_out number the ports of the crossbar and of the *)
(* register demultiplexer with running counters over optional units, and   *)
(* write an address rule for each; cheshire_soc.sv connects units to those *)
(* ports and decodes addresses with those rules, in two levels;            *)
(* gen_cva6_cfg tells the cores what they may cache, repeat and execute.   *)
(*                                                                         *)
(* A step is one unit of a generator.  Addresses are those of 32-bit       *)
(* words; indices are stored in aw_bt, the counters are wider.             *)
(***************************************************************************)
EXTENDS Integers, Sequences, FiniteSets

CONSTANTS Configs,   \* the configurations
          IdxValues, \* values of aw_bt, and entries of a map: 2^6
          MaxCores   \* entries of the arrays indexed by core: 2^MaxCoresWidth

\* A configuration: features that are on, cores, sizes and regions; for the AXI
\* crossbar and the demultiplexer the external ports and rules [idx, start, pte].
ASSUME ConfigsAssumption ==
  \A c \in Configs :
    /\ c.NumCores \in Nat \ {0}
    /\ c.AxiExtNumMst \in Nat /\ c.AxiExtNumSlv \in Nat /\ c.RegExtNumSlv \in Nat
    /\ c.AxiExt \in Seq([idx : Nat, start : Nat, pte : Nat])
    /\ c.RegExt \in Seq([idx : Nat, start : Nat, pte : Nat])
ASSUME IdxAssumption == IdxValues \in Nat \ {0} /\ MaxCores \in Nat \ {0}

VARIABLES cfg,  \* the configuration
          gen,  \* the generator at work: "in", "out" or "reg"; or "done"
          i, r, \* its counters of ports and rules
          port, \* the indices of its units so far
          map,  \* its rules so far
          made  \* made[g]: what generator g returned

vars == <<cfg, gen, i, r, port, map, made>>

-----------------------------------------------------------------------------
(* The address map package, in 32-bit words. *)

KiB == 256
MiB == 1024 * KiB

Region(start, size) == [start |-> start, pte |-> start + size]
Inside(a, g) == g.start <= a /\ a < g.pte

EXTROM     == Region(0, 256 * KiB)
DMA        == Region(16 * MiB, 4 * KiB)
BOOTROM    == Region(32 * MiB, 256 * KiB)
CLINT      == Region(32 * MiB + 256 * KiB, 256 * KiB)
IRQ_ROUTER == Region(32 * MiB + 512 * KiB, 256 * KiB)
AXIRT      == Region(32 * MiB + 768 * KiB, 256 * KiB)
REGS       == Region(48 * MiB, 23)
PAGE(n)    == Region(48 * MiB + n * 4 * KiB, 4 * KiB)
BUS_ERR(j) == Region(48 * MiB + 36 * KiB + j * 16, 16)
PLIC       == Region(64 * MiB, 64 * MiB)
CLIC(j)    == Region(128 * MiB + j * 256 * KiB, 256 * KiB)
SPM_BASE_ADDR == 256 * MiB
SPM_UNC_BASE_ADDR == 320 * MiB

\* What the crossbar sends to the register demultiplexer.
REG_DEMUX == [start |-> BOOTROM.start, pte |-> 192 * MiB]

Spm(c) == Region(SPM_BASE_ADDR, c.LlcSize)
SpmUnc(c) == Region(SPM_UNC_BASE_ADDR, c.LlcSize)

\* The regions a configuration sets are numbers and stay within what docs/um/arch.md
\* lays out: 64 MiB for the CLICs and for each SPM, the external on-chip region from
\* 0x2000_0000 to 0x8000_0000, and the LLC's output behind it.
ExtStart == 512 * MiB
ExtEnd == 2048 * MiB

ASSUME RegionsAssumption ==
  \A c \in Configs :
    /\ c.LlcOut \in [start : Nat, pte : Nat] /\ c.Slink \in [start : Nat, pte : Nat]
    /\ c.LlcSize \in Nat /\ Spm(c).pte <= SPM_UNC_BASE_ADDR
    /\ c.CieLength \in Nat /\ c.CieLength <= ExtEnd - ExtStart
    /\ c.LlcOut.start >= ExtEnd
    /\ CLIC(c.NumCores).start <= REG_DEMUX.pte

-----------------------------------------------------------------------------
(* The units of each generator, in order.  A unit takes the counter as it  *)
(* is and counts ("post"), shares what the counter says ("same"), or       *)
(* counts first ("pre").  Entry j of an array exists if j < MaxCores.      *)

Unit(name, j, on, how, rules) ==
  [name |-> name, j |-> j, on |-> on, how |-> how, rules |-> rules]

Option(c, name, feature, g) == Unit(name, 0, feature \in c.on, "pre", <<g>>)

Master(c, name, feature) == Unit(name, 0, feature \in c.on, "pre", <<>>)

InUnits(c) ==
  [n \in 1 .. c.NumCores |-> Unit("core", n - 1, TRUE, "post", <<>>)]
  \o <<Unit("dbg", 0, TRUE, "same", <<>>), Master(c, "dma", "Dma"),
       Master(c, "slink", "SerialLink"), Master(c, "vga", "Vga"), Master(c, "usb", "Usb")>>

\* The first two are set beforehand.
OutUnits(c) ==
  <<Unit("dbg", 0, TRUE, "pre", <<EXTROM>>), Unit("reg_demux", 0, TRUE, "pre", <<REG_DEMUX>>),
    Option(c, "llc", "LlcOutConnect", c.LlcOut),
    Unit("spm", 0, "LlcNotBypass" \in c.on, "same", <<Spm(c), SpmUnc(c)>>),
    Option(c, "dma", "Dma", DMA), Option(c, "slink", "SerialLink", c.Slink)>>

\* Mutant: as many bus error units as cores.
BusErrUnitsFew(c) == c.NumCores
BusErrUnits(c) == 2 + c.NumCores

\* The first three are set beforehand; index 0 is the error slave.
RegUnits(c) ==
  <<Unit("clint", 0, TRUE, "pre", <<CLINT>>), Unit("plic", 0, TRUE, "pre", <<PLIC>>),
    Unit("regs", 0, TRUE, "pre", <<REGS>>), Option(c, "bootrom", "Bootrom", BOOTROM),
    Option(c, "llc_cfg", "LlcNotBypass", PAGE(1)), Option(c, "uart", "Uart", PAGE(2)),
    Option(c, "i2c", "I2c", PAGE(3)), Option(c, "spi_host", "SpiHost", PAGE(4)),
    Option(c, "gpio", "Gpio", PAGE(5)), Option(c, "slink_cfg", "SerialLink", PAGE(6)),
    Option(c, "vga", "Vga", PAGE(7)), Option(c, "usb", "Usb", PAGE(8)),
    Option(c, "irq_router", "IrqRouter", IRQ_ROUTER), Option(c, "axirt", "AxiRt", AXIRT)>>
  \o [n \in 1 .. c.NumCores |-> Unit("clic", n - 1, "Clic" \in c.on, "pre", <<CLIC(n - 1)>>)]
  \o [n \in 1 .. BusErrUnits(c) |-> Unit("bus_err", n - 1, "BusErr" \in c.on, "pre", <<BUS_ERR(n - 1)>>)]

\* Regions no two of which share a word.
Disjoint(g, h) == g.pte <= h.start \/ h.pte <= g.start

\* The regions a configuration places, as <<kind, number, region>>.
Placed(c) ==
  {<<"llc", 0, c.LlcOut>> : f \in c.on \cap {"LlcOutConnect"}}
  \cup {<<"slink", 0, c.Slink>> : f \in c.on \cap {"SerialLink"}}
  \cup {<<"axi", x, c.AxiExt[x]>> : x \in DOMAIN c.AxiExt}
  \cup {<<"reg", x, c.RegExt[x]>> : x \in DOMAIN c.RegExt}

\* What the crossbar maps besides; the SPM's range is free where there is no LLC.
Fixed(c) ==
  {EXTROM} \cup {DMA : f \in c.on \cap {"Dma"}}
  \cup UNION {{Spm(c), SpmUnc(c)} : f \in c.on \cap {"LlcNotBypass"}}

\* The memory map of docs/um/arch.md gives an address to one unit at most: these regions
\* collide neither with each other nor with what the SoC has there.  External rules name
\* external ports that exist.
ASSUME PlacedAssumption ==
  \A c \in Configs :
    /\ \A x \in DOMAIN c.AxiExt : c.AxiExt[x].idx < c.AxiExtNumSlv
    /\ \A x \in DOMAIN c.RegExt : c.RegExt[x].idx < c.RegExtNumSlv
    /\ \A e \in Placed(c) :
         /\ \A f \in Placed(c) : e # f => Disjoint(e[3], f[3])
         /\ \A g \in Fixed(c) : Disjoint(e[3], g)
         /\ e[1] # "reg" => Disjoint(e[3], REG_DEMUX)
         /\ e[1] = "reg" => \A n \in DOMAIN RegUnits(c) :
              RegUnits(c)[n].on => Disjoint(e[3], RegUnits(c)[n].rules[1])

Units(g) == CASE g = "in" -> InUnits(cfg) [] g = "out" -> OutUnits(cfg) [] g = "reg" -> RegUnits(cfg)

\* What is set beforehand: indices, rules and counters.
Preset(g) ==
  CASE g = "in"  -> [port |-> <<>>, i |-> 0]
    [] g = "out" -> [port |-> <<0, 1>>, i |-> 1]
    [] g = "reg" -> [port |-> <<1, 2, 3>>, i |-> 3]

Idx(n) == n % IdxValues

\* ret.map[p] = '{n, start, pte}, which has no effect beyond the map's end.
Put(m, p, n, g) ==
  IF p >= IdxValues THEN m
  ELSE [x \in DOMAIN m \cup {p} |->
         IF x = p THEN [idx |-> Idx(n), start |-> g.start, pte |-> g.pte] ELSE m[x]]

\* The rules set beforehand are those of the first units.
FirstRules(g) ==
  LET n == Len(Preset(g).port) IN
  [x \in 0 .. (IF g = "in" THEN -1 ELSE n - 1) |->
    [idx |-> Preset(g).port[x + 1], start |-> Units(g)[x + 1].rules[1].start,
     pte |-> Units(g)[x + 1].rules[1].pte]]

Begin(g) ==
  /\ gen' = g
  /\ i' = Preset(g).i /\ port' = Preset(g).port
  /\ r' = Len(Preset(g).port) - 1 /\ map' = FirstRules(g)

Init ==
  /\ cfg \in Configs
  /\ gen = "in"
  /\ i = 0 /\ r = -1 /\ port = <<>> /\ map = <<>>
  /\ made = [g \in {"in", "out", "reg"} |->
              [port |-> <<>>, i |-> 0, ext_base |-> 0, num |-> 0, num_rules |-> 0, map |-> <<>>]]

-----------------------------------------------------------------------------

Current == Units(gen)[Len(port) + 1]

\* Mutant: a unit after the debug module takes the index of the one before.
AssignedLate(u) == i
Assigned(u) == IF u.how = "pre" THEN i + 1 ELSE i

Counted(u) == IF u.how = "same" THEN i ELSE i + 1

WithRules(m, p, n, rules) ==
  LET one == IF rules = <<>> THEN m ELSE Put(m, p + 1, n, rules[1]) IN
  IF Len(rules) < 2 THEN one ELSE Put(one, p + 2, n, rules[2])

\* The next unit, if it is there.
AddUnit ==
  /\ gen # "done" /\ Len(port) < Len(Units(gen)) /\ Current.on
  /\ port' = Append(port, IF Current.j < MaxCores THEN Idx(Assigned(Current)) ELSE 0)
  /\ i' = Counted(Current)
  /\ map' = WithRules(map, r, Assigned(Current), Current.rules)
  /\ r' = r + Len(Current.rules)
  /\ UNCHANGED <<cfg, gen, made>>

SkipUnit ==
  /\ gen # "done" /\ Len(port) < Len(Units(gen)) /\ ~Current.on
  /\ port' = Append(port, 0)
  /\ UNCHANGED <<cfg, gen, i, r, map, made>>

ExtPorts(g) ==
  CASE g = "in" -> cfg.AxiExtNumMst [] g = "out" -> cfg.AxiExtNumSlv [] g = "reg" -> cfg.RegExtNumSlv

\* External rules [idx, start, pte]: those of the register demultiplexer also
\* lead the crossbar there.
ExtRules(g, base) ==
  LET shifted(rules) == [x \in DOMAIN rules |-> [rules[x] EXCEPT !.idx = Idx(base) + @]]
      demux == [x \in DOMAIN cfg.RegExt |-> [cfg.RegExt[x] EXCEPT !.idx = 1]]
  IN  CASE g = "in"  -> <<>>
        [] g = "out" -> shifted(cfg.AxiExt) \o demux
        [] g = "reg" -> shifted(cfg.RegExt)

\* External rules go where the counter is.
WithExt(m, p, rules) ==
  [x \in DOMAIN m \cup {y \in p .. p + Len(rules) - 1 : y < IdxValues} |->
    IF x \in p .. p + Len(rules) - 1 THEN [rules[x - p + 1] EXCEPT !.idx = Idx(@)] ELSE m[x]]

Following(g) == CASE g = "in" -> "out" [] g = "out" -> "reg" [] OTHER -> "done"

\* External ports and rules end a generator.
Finish ==
  /\ gen # "done" /\ Len(port) = Len(Units(gen))
  /\ LET rules == ExtRules(gen, i + 1) IN
     made' = [made EXCEPT ![gen] =
               [port |-> port, i |-> i, ext_base |-> Idx(i + 1), num |-> Idx(i + 1 + ExtPorts(gen)),
                num_rules |-> Idx(r + 1 + Len(rules)), map |-> WithExt(map, r + 1, rules)]]
  /\ IF Following(gen) = "done"
     THEN gen' = "done" /\ UNCHANGED <<i, r, port, map>>
     ELSE Begin(Following(gen))
  /\ UNCHANGED cfg

Next == AddUnit \/ SkipUnit \/ Finish

Spec == Init /\ [][Next]_vars

-----------------------------------------------------------------------------
(* The SoC around the maps. *)

Feature(f) == f \in cfg.on

\* Units of an enabled feature that the SoC lacks nevertheless.
Present(name, j) ==
  CASE name = "llc_cfg" -> Feature("LlcOutConnect")
    [] name = "bus_err" -> (j = 0 => Feature("Vga")) /\ (j = 1 => Feature("Dma"))
    [] OTHER            -> TRUE

Ports(g) == made[g].port

\* Where the SoC connects what: the units of a generator, and external ones.
Connected(bus, g) ==
  LET units == Units(g)
      there == {n \in DOMAIN units : /\ units[n].on /\ units[n].name \notin {"reg_demux", "spm"}
                                     /\ Present(units[n].name, units[n].j)}
  IN  {[unit |-> <<units[n].name, units[n].j>>, at |-> <<bus, Ports(g)[n]>>] : n \in there}
  \cup {[unit |-> <<bus, e>>, at |-> <<bus, made[g].ext_base + e>>] : e \in 0 .. ExtPorts(g) - 1}

Places == Connected("axi", "out") \cup Connected("reg", "reg")

\* addr_decode: the last rule that matches; Default if there is none.
Decode(m, a, default) ==
  LET hits == {x \in DOMAIN m.map : x < m.num_rules /\ Inside(a, m.map[x])}
  IN  IF hits = {} THEN default ELSE m.map[CHOOSE x \in hits : \A y \in hits : y <= x].idx

\* The crossbar answers addresses outside all rules itself.
NoPort == -1

Route(a) ==
  LET out == Decode(made["out"], a, NoPort) IN
  IF out = 1 THEN <<"reg", Decode(made["reg"], a, 0)>> ELSE <<"axi", out>>

\* The regions of gen_cva6_cfg.  The external on-chip region is split in two.
\* Mutant: the split does not follow Cva6ExtCieOnTop.
CieBaseBottom == ExtStart
CieBase == IF Feature("CieOnTop") THEN ExtEnd - cfg.CieLength ELSE ExtStart
NoCieBase == IF Feature("CieOnTop") THEN ExtStart ELSE ExtStart + cfg.CieLength

Cie == Region(CieBase, cfg.CieLength)
NonIdempotent == {Region(EXTROM.start, SPM_BASE_ADDR), Region(NoCieBase, ExtEnd - ExtStart - cfg.CieLength)}
Cached == {Spm(cfg), cfg.LlcOut, Cie}
Executable == Cached \cup {EXTROM, BOOTROM, SpmUnc(cfg)}

In(a, regions) == \E g \in regions : Inside(a, g)

-----------------------------------------------------------------------------
(* The same, unit by unit, as the memory map of docs/um/arch.md has it. *)

\* Units, what must be on for them, and their regions.
MemoryMap ==
  {<<"dbg", 0, {}, EXTROM>>, <<"dma", 0, {"Dma"}, DMA>>, <<"bootrom", 0, {"Bootrom"}, BOOTROM>>,
   <<"clint", 0, {}, CLINT>>, <<"irq_router", 0, {"IrqRouter"}, IRQ_ROUTER>>, <<"axirt", 0, {"AxiRt"}, AXIRT>>,
   <<"regs", 0, {}, REGS>>, <<"llc_cfg", 0, {"LlcOutConnect", "LlcNotBypass"}, PAGE(1)>>,
   <<"uart", 0, {"Uart"}, PAGE(2)>>, <<"i2c", 0, {"I2c"}, PAGE(3)>>, <<"spi_host", 0, {"SpiHost"}, PAGE(4)>>,
   <<"gpio", 0, {"Gpio"}, PAGE(5)>>, <<"slink_cfg", 0, {"SerialLink"}, PAGE(6)>>,
   <<"vga", 0, {"Vga"}, PAGE(7)>>, <<"usb", 0, {"Usb"}, PAGE(8)>>,
   <<"bus_err", 0, {"BusErr", "Vga"}, BUS_ERR(0)>>, <<"bus_err", 1, {"BusErr", "Dma"}, BUS_ERR(1)>>,
   <<"plic", 0, {}, PLIC>>, <<"llc", 0, {"LlcOutConnect", "LlcNotBypass"}, Spm(cfg)>>,
   <<"llc", 0, {"LlcOutConnect", "LlcNotBypass"}, SpmUnc(cfg)>>,
   <<"llc", 0, {"LlcOutConnect"}, cfg.LlcOut>>, <<"slink", 0, {"SerialLink"}, cfg.Slink>>}
  \cup {<<"clic", j, {"Clic"}, CLIC(j)>> : j \in 0 .. cfg.NumCores - 1}
  \cup {<<"bus_err", 2 + j, {"BusErr"}, BUS_ERR(2 + j)>> : j \in 0 .. cfg.NumCores - 1}
  \cup {<<"axi", cfg.AxiExt[x].idx, {}, cfg.AxiExt[x]>> : x \in DOMAIN cfg.AxiExt}
  \cup {<<"reg", cfg.RegExt[x].idx, {}, cfg.RegExt[x]>> : x \in DOMAIN cfg.RegExt}

Owned == {[unit |-> <<e[1], e[2]>>, region |-> e[4]] : e \in {f \in MemoryMap : f[3] \subseteq cfg.on}}

\* First and last words of all regions, and their neighbours.
Probes ==
  LET regions == {o.region : o \in Owned} \cup NonIdempotent \cup Executable
                 \cup {PAGE(n) : n \in 0 .. 9} \cup {DMA, IRQ_ROUTER, AXIRT, CLIC(cfg.NumCores)}
  IN  UNION {{g.start - 1, g.start, g.pte - 1, g.pte} : g \in regions} \ {-1}

\* The counters of a generator fit an index, and its units their arrays.
ArraysFit(g) == \A n \in DOMAIN Units(g) : Units(g)[n].on => Units(g)[n].j < MaxCores
Fits(g) == made[g].i + 1 + ExtPorts(g) < IdxValues /\ ArraysFit(g)

RulesFit(g) ==
  Cardinality({x \in (DOMAIN Units(g)) \X {1, 2} : Units(g)[x[1]].on /\ x[2] \in DOMAIN Units(g)[x[1]].rules})
    + Len(ExtRules(g, 0)) < IdxValues

Generators == {"in", "out", "reg"}

TypeOK ==
  /\ cfg \in Configs
  /\ gen \in Generators \cup {"done"}
  /\ i \in Nat
  /\ port \in Seq(Nat)
  /\ gen # "done" => Len(port) <= Len(Units(gen))
  /\ DOMAIN made = Generators

\* Generators that have finished.
Past(g) == CASE g = "in" -> gen # "in" [] g = "out" -> gen \in {"reg", "done"} [] g = "reg" -> gen = "done"

\* A unit with a port of its own.
Separate(u) == u.on /\ (u.how # "same" \/ u.name = "dbg")

Apart(g) ==
  /\ made[g].num = made[g].ext_base + ExtPorts(g)
  /\ \A m, n \in DOMAIN Units(g) :
       Separate(Units(g)[m]) /\ Separate(Units(g)[n]) =>
         /\ m # n => Ports(g)[m] # Ports(g)[n]
         /\ Ports(g)[m] < made[g].ext_base

\* Whatever units there are, no two share a port of the crossbar or of the
\* demultiplexer, external ports come behind all of them, and the number of
\* ports covers both.
PortsApart == \A g \in Generators : Past(g) /\ Fits(g) => Apart(g)

\* An access reaches exactly the unit whose region holds its address, through
\* both levels of decoding; addresses of absent units reach none.
Decodes ==
  gen = "done" /\ (\A g \in {"out", "reg"} : Fits(g) /\ RulesFit(g)) =>
    LET places == Places
        owned == Owned
    IN  \A a \in Probes :
          LET at == Route(a) IN
          {p.unit : p \in {q \in places : q.at = at}} = {o.unit : o \in {w \in owned : Inside(a, w.region)}}

\* What the cores may do with an address: cache it, repeat accesses, execute it.
CoreFlags(a) ==
  {f \in {"C", "I", "E"} : CASE f = "C" -> In(a, Cached)
                             [] f = "I" -> ~In(a, NonIdempotent)
                             [] f = "E" -> In(a, Executable)}

\* The flags the memory map gives a unit's address.
UnitFlags(name, a) ==
  CASE name = "llc" -> IF Inside(a, SpmUnc(cfg)) THEN {"I", "E"} ELSE {"C", "I", "E"}
    [] name \in {"dbg", "bootrom"} -> {"E"}
    [] OTHER -> {}

\* The cores cache, repeat and execute what the memory map allows for the unit an
\* access reaches.  External units have no flags of their own: the on-chip region
\* has a part with all of them and a part with none, whatever is there.
CoreView ==
  gen = "done" =>
    LET owned == Owned IN
    \A a \in Probes :
      /\ \A o \in owned : Inside(a, o.region) /\ o.unit[1] \notin {"slink", "axi", "reg"} =>
           CoreFlags(a) = UnitFlags(o.unit[1], a)
      /\ ExtStart <= a /\ a < ExtEnd =>
           CoreFlags(a) = IF Inside(a, Cie) THEN {"C", "I", "E"} ELSE {}
=============================================================================
