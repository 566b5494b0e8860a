---------------------------- MODULE MCI2cEeprom -----------------------------
(* Model-checking instance of BootEeprom with a FIFO of eight entries: reads  *)
(* at every alignment, and up to the block boundary; writes.                 *)
EXTENDS BootEeprom

Access(a, n) == [addr |-> a, len |-> n]

MCReads ==
  {Access(512 + o, n) : o \in 0 .. 7, n \in {1, 4, 8, 9, 19}}
  \cup {Access(65536 - 8, 8), Access(65536 - 5, 5)}
MCWrites == {Access(512, n) : n \in {1, 4, 5, 8, 20}}
=============================================================================
