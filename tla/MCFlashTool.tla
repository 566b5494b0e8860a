---------------------------- MODULE MCFlashTool -----------------------------
(* Model-checking instance of FlashTool: three sectors of four pages, so     *)
(* that the first, the last and a middle one are flashed; small sectors of   *)
(* one page at either end; a 64 KiB erase is half a sector.                  *)
EXTENDS FlashTool

MCHandles ==
  {[freq |-> 40, csid |-> 1, core |-> 200], [freq |-> 100, csid |-> 1, core |-> 400],
   [freq |-> 0, csid |-> 1, core |-> 3]}

MCSegments == {[first |-> 0, len |-> 2], [first |-> 2, len |-> 1]}
MCReads == {[first |-> 3, len |-> 5]}
=============================================================================
