--------------------------- MODULE MCPassiveBoot ----------------------------
(* Model-checking instance of PassiveBoot: two sections, the first a multiple *)
(* of the burst length, the second not.                                       *)
EXTENDS PassiveBoot

MCSections == <<[base |-> 0, len |-> 2], [base |-> 4, len |-> 3]>>
MCImage == [a \in {0, 1, 4, 5, 6} |-> a + 1]
MCEntry == <<1, 2>>
MCResults == {0, 1, 4, 5}
=============================================================================
