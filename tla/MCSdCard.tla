------------------------------ MODULE MCSdCard ------------------------------
(* Model-checking instance of SdCard: three blocks of three bytes, reads of  *)
(* up to seven bytes at every alignment, writes of up to two blocks; answers *)
(* may come in time, with the last poll, or too late.                        *)
EXTENDS SdCard

MCBusy == {1, 3}
=============================================================================
