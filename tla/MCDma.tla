------------------------------- MODULE MCDma --------------------------------
(* Model-checking instance of Dma: two harts; a copy in one row, and one in  *)
(* two rows that overlap in the source and leave a gap in the destination;   *)
(* addresses above the value of one register, so that both halves count;     *)
(* and a size, a stride and repetitions of which the engine takes one half.  *)
EXTENDS Dma

CONSTANTS h1, h2

Args(s, d, n, ss, ds, reps) ==
  [src |-> s, dst |-> d, size |-> n, src_stride |-> ss, dst_stride |-> ds, num_reps |-> reps]

Plain(s, d, n, w) == [twoD |-> FALSE, wait |-> w, args |-> Args(s, d, n, 0, 0, 1)]
Rows(s, d, n, ss, ds, reps, w) ==
  [twoD |-> TRUE, wait |-> w, args |-> Args(s, d, n, ss, ds, reps)]

MCRequests ==
  [h \in Harts |-> IF h = h1
     THEN {Plain(16, 1, 2, FALSE), Rows(20, 2, 10, 9, 3, 10, TRUE)}
     ELSE {Plain(25, 8, 1, w) : w \in BOOLEAN}]
=============================================================================
