------------------------------ MODULE MCClint -------------------------------
(* Model-checking instance of Clint: calls that start before the low half of *)
(* mtime rolls over at tick 4, and after.                                    *)
EXTENDS Clint

Call(f, a) == [fun |-> f, arg |-> a]

MCStarts == {c \in 1 .. 72 : c % 5 = 1}
MCSpins == {Call("spin_until", 3), Call("spin_until", 4), Call("spin_until", 6),
            Call("spin_ticks", 1), Call("spin_ticks", 2)}
MCMeasures == {Call("get_core_freq", n) : n \in 1 .. 2}
MCSleeps == {Call("sleep_until", 2), Call("sleep_until", 5)}
MCCalls == MCSpins \cup MCMeasures \cup MCSleeps
=============================================================================
