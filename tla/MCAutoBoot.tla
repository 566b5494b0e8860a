----------------------------- MODULE MCAutoBoot -----------------------------
(* Model-checking instance of AutoBoot: all disks with up to three partition *)
(* entries of eight kinds.                                                   *)
EXTENDS AutoBoot, SequencesExt

E(b, e, t) == [begin |-> b, end |-> e, type |-> t]

MCEntries ==
  { E(2, 3, "zsl"),    \* just fits
    E(4, 6, "zsl"),    \* one block too large
    E(5, 5, "dtb"),
    E(6, 8, "fw"),
    E(9, 8, "other"),  \* out of order
    E(1, 1, "other"),
    E(10, 14, "fw"),   \* too large
    E(15, 15, "other") } \* at the top of the address space

MCDisks == [sig : BOOLEAN, parts : SeqOf(MCEntries, 3)]
MCMaxLbas == [rom |-> 2, dtb |-> 1, fw |-> 3]
=============================================================================
