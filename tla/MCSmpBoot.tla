----------------------------- MODULE MCSmpBoot ------------------------------
(* Model-checking instance of SmpBoot. *)
EXTENDS SmpBoot

MCWord == {0, 1}
=============================================================================
