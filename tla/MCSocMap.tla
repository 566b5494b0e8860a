------------------------------ MODULE MCSocMap ------------------------------
(* Model-checking instance of SocMap: all choices of features with at most   *)
(* two on or at most two off, for one and three cores, with and without      *)
(* external ports and rules; and many cores, where indices run out.          *)
EXTENDS SocMap

Features ==
  {"Bootrom", "LlcNotBypass", "LlcOutConnect", "Uart", "I2c", "SpiHost", "Gpio", "SerialLink",
   "Vga", "Usb", "IrqRouter", "AxiRt", "Clic", "BusErr", "Dma", "CieOnTop"}

Few == {{f, g} : f, g \in Features} \cup {{}}
Choices == Few \cup {Features \ s : s \in Few}

Rule(e, g) == [idx |-> e, start |-> g.start, pte |-> g.pte]

Config(on, cores, ext) ==
  [on |-> on, NumCores |-> cores, LlcSize |-> 128 * KiB,
   LlcOut |-> Region(2048 * MiB, 1024 * MiB), Slink |-> Region(4096 * MiB, 2047 * MiB),
   CieLength |-> 512 * MiB,
   AxiExtNumMst |-> ext, AxiExtNumSlv |-> ext, RegExtNumSlv |-> ext,
   AxiExt |-> IF ext = 0 THEN <<>>
              ELSE <<Rule(1, Region(1024 * MiB, 4 * KiB)), Rule(0, Region(600 * MiB, MiB)),
                     Rule(1, Region(3072 * MiB, MiB))>>,
   RegExt |-> IF ext = 0 THEN <<>> ELSE <<Rule(1, Region(1025 * MiB, 64)), Rule(0, Region(192 * MiB, 64))>>]

\* The largest numbers of cores with which all indices fit, and one more than do.
MCConfigs ==
  {Config(on, n, ext) : on \in Choices, n \in {1, 3}, ext \in {0, 2}}
  \cup {Config(Features, 22, 2), Config(Features \ {"Clic"}, 30, 2), Config(Features \ {"BusErr"}, 31, 2),
        Config(Features \ {"Clic"}, 31, 2)}
=============================================================================
