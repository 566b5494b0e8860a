----------------------------- MODULE BootEeprom -----------------------------
(***************************************************************************)
(* The EEPROM among the boot disks: I2cEeprom under names that leave those *)
(* of AutoBoot alone, and what the boot flow takes for granted of its      *)
(* reads.                                                                  *)
(***************************************************************************)
EXTENDS Integers

CONSTANTS Depth, Reads, Writes, BufBytes

VARIABLES at, op, offs, chunk, buf, fmt, rx, enabled, dev, prog

Eeprom == INSTANCE I2cEeprom WITH pc <- at

ASSUME DepthAssumption == Eeprom!DepthFits
ASSUME AccessAssumption == Eeprom!AccessesFit

EepromSpec == Eeprom!FairSpec

\* i2c_24fc1025_read returns the bytes asked for, across chunk boundaries.
EepromReadExact == Eeprom!ReadExact

\* i2c_24fc1025_read writes behind the buffer only up to the next boundary.
EepromOverrunBounded == Eeprom!OverrunBounded

\* __i2c_24fc1025_access_chunk overflows no FIFO of the host.
EepromFifosFit == Eeprom!FifosFit

\* Every access ends.
EepromEnds == Eeprom!Ends
=============================================================================
