------------------------------- MODULE Clint --------------------------------
(***************************************************************************)
(* The CLINT timer functions (sw/lib/dif/clint.c) of a hart against the    *)
(* running timer: reading mtime in two halves, spinning, measuring the     *)
(* core frequency and sleeping with the timer interrupt.                   *)
(*                                                                         *)
(* Time is counted in core cycles; mtime advances every CyclesPerTick.  A  *)
(* step of the hart takes 1 to MaxStep cycles, and each access to a timer  *)
(* register is a step.  C leaves open which half clint_get_mtime reads     *)
(* first; FirstHalf is what the compiler chose.                            *)
(***************************************************************************)
EXTENDS Integers

CONSTANTS CyclesPerTick, \* core cycles of one tick of mtime
          MaxStep,       \* most cycles of one step
          HalfTicks,     \* values of the low half of mtime: 2^32
          FirstHalf,     \* "high" or "low"
          Starts,        \* cycles at which a call may start
          Calls,         \* the calls considered: [fun, arg]
          MaxCycle       \* bound on time

Functions == {"spin_until", "spin_ticks", "get_core_freq", "sleep_until"}

ASSUME TimingAssumption ==
  /\ {CyclesPerTick, MaxStep, HalfTicks, MaxCycle} \subseteq Nat \ {0}
  /\ FirstHalf \in {"high", "low"}
  /\ Starts \subseteq 0 .. MaxCycle
ASSUME CallsAssumption == Calls \subseteq [fun : Functions, arg : Nat]

VARIABLES cycle,   \* the time
          call,    \* the function that was called, and its argument
          t0,      \* mtime at the call
          pc,      \* where the hart is
          first,   \* the half of mtime read first
          val,     \* what clint_get_mtime returned last
          tgt,     \* tgt_mtime, or NoTarget
          start,   \* start_mcycle and start_mtime
          end,     \* end_mcycle and end_mtime
          cmp,     \* mtimecmp: high half, low half
          mtie,    \* the timer interrupt is enabled, mie.MTIE and mstatus.MIE
          torn     \* history: the low half rolled over between the two reads
                   \* that clint_spin_ticks counts its target from

vars == <<cycle, call, t0, pc, first, val, tgt, start, end, cmp, mtie, torn>>
measured == <<start, end>>

Mtime == cycle \div CyclesPerTick
Low(t) == t % HalfTicks
High(t) == t \div HalfTicks
Join(h, l) == h * HalfTicks + l
Mtip == Mtime >= Join(cmp.high, cmp.low)

Sample == [cycle |-> 0, time |-> 0]

\* clint_spin_ticks counts its target from its first read.
NoTarget == -1
TargetOpen == call.fun = "spin_ticks" /\ tgt = NoTarget

Init ==
  /\ cycle \in Starts
  /\ call \in Calls
  /\ t0 = Mtime
  /\ pc = "first"
  /\ first = 0 /\ val = 0
  /\ tgt = IF call.fun = "spin_ticks" THEN NoTarget ELSE call.arg
  /\ start = Sample /\ end = Sample
  /\ cmp = [high |-> 0, low |-> 0]
  /\ mtie = FALSE
  /\ torn = FALSE

\* One step of the hart, during which time passes.
Elapse == \E d \in 1 .. MaxStep : cycle + d <= MaxCycle /\ cycle' = cycle + d

Hart(from, to) == pc = from /\ pc' = to

\* clint_get_mtime: the two reads.  Every function reads mtime before anything
\* else; what happens with the value is decided at "use".
FirstRead ==
  /\ Hart("first", "second")
  /\ first' = IF FirstHalf = "high" THEN High(Mtime) ELSE Low(Mtime)
  /\ Elapse
  /\ UNCHANGED <<call, t0, val, tgt, measured, cmp, mtie, torn>>

SecondRead ==
  /\ Hart("second", "use")
  /\ val' = IF FirstHalf = "high" THEN Join(first, Low(Mtime)) ELSE Join(High(Mtime), first)
  /\ torn' = (torn \/ (TargetOpen /\ High(t0) # High(Mtime)))
  /\ Elapse
  /\ UNCHANGED <<call, t0, first, tgt, measured, cmp, mtie>>

\* Mutants: the loop ends a tick early; it waits for the exact tick.
ReachedEarly(t) == val + 1 >= t
ReachedExactly(t) == val = t
Reached(t) == val >= t

\* clint_spin_until: read again until the target is reached.
SpinUntil ==
  /\ pc = "use"
  /\ call.fun \in {"spin_until", "spin_ticks"} /\ ~TargetOpen
  /\ pc' = IF Reached(tgt) THEN "done" ELSE "first"
  /\ Elapse
  /\ UNCHANGED <<call, t0, first, val, tgt, measured, cmp, mtie, torn>>

SpinTicks ==
  /\ pc = "use" /\ TargetOpen
  /\ tgt' = val + call.arg
  /\ pc' = "first"
  /\ Elapse
  /\ UNCHANGED <<call, t0, first, val, measured, cmp, mtie, torn>>

-----------------------------------------------------------------------------
(* clint_get_core_freq: three uses of mtime, told apart by what was sampled. *)

Freq(at) == pc = "use" /\ call.fun = "get_core_freq" /\ at

NoStart == start = Sample
NoEnd == end.cycle = 0

\* The read before the first loop goes to end_mtime.
FreqFirst ==
  /\ Freq(NoStart /\ end = Sample)
  /\ end' = [cycle |-> 0, time |-> val]
  /\ pc' = "start"
  /\ Elapse
  /\ UNCHANGED <<call, t0, first, val, tgt, start, cmp, mtie, torn>>

\* start_mcycle and end_mcycle are sampled before mtime is read.
SampleStart ==
  /\ Hart("start", "first")
  /\ start' = [start EXCEPT !.cycle = cycle]
  /\ Elapse
  /\ UNCHANGED <<call, t0, first, val, tgt, end, cmp, mtie, torn>>

\* Mutant: the loop repeats the read of mtime only, not that of mcycle.
AgainStartTime == "first"
AgainStart == "start"

FreqStart ==
  /\ Freq(start.cycle # 0 /\ NoEnd)
  /\ IF val = end.time
     THEN pc' = AgainStart /\ UNCHANGED start
     ELSE pc' = "end" /\ start' = [start EXCEPT !.time = val]
  /\ Elapse
  /\ UNCHANGED <<call, t0, first, val, tgt, end, cmp, mtie, torn>>

SampleEnd ==
  /\ Hart("end", "first")
  /\ end' = [end EXCEPT !.cycle = cycle]
  /\ Elapse
  /\ UNCHANGED <<call, t0, first, val, tgt, start, cmp, mtie, torn>>

FreqEnd ==
  /\ Freq(~NoEnd)
  /\ end' = [end EXCEPT !.time = val]
  /\ pc' = IF Reached(start.time + call.arg) THEN "done" ELSE "end"
  /\ Elapse
  /\ UNCHANGED <<call, t0, first, val, tgt, start, cmp, mtie, torn>>

-----------------------------------------------------------------------------
(* clint_sleep_until. *)

\* The test as the code has it: it returns when the target lies ahead.
SleepTest ==
  /\ pc = "use" /\ call.fun = "sleep_until"
  /\ pc' = IF val < tgt THEN "done" ELSE "cmp_high"
  /\ Elapse
  /\ UNCHANGED <<call, t0, first, val, tgt, measured, cmp, mtie, torn>>

\* clint_set_mtimecmpx: the high half, then the low half.
SetCmpHigh ==
  /\ Hart("cmp_high", "cmp_low")
  /\ cmp' = [cmp EXCEPT !.high = High(tgt)]
  /\ Elapse
  /\ UNCHANGED <<call, t0, first, val, tgt, measured, mtie, torn>>

SetCmpLow ==
  /\ Hart("cmp_low", "enable")
  /\ cmp' = [cmp EXCEPT !.low = Low(tgt)]
  /\ Elapse
  /\ UNCHANGED <<call, t0, first, val, tgt, measured, mtie, torn>>

EnableTimer ==
  /\ Hart("enable", "wfi")
  /\ mtie' = TRUE
  /\ Elapse
  /\ UNCHANGED <<call, t0, first, val, tgt, measured, cmp, torn>>

\* The timer interrupt is taken as soon as it is pending and enabled; the
\* handler the caller must provide turns it off.
TimerTrap ==
  /\ pc = "wfi" /\ mtie /\ Mtip
  /\ mtie' = FALSE
  /\ Elapse
  /\ UNCHANGED <<call, t0, pc, first, val, tgt, measured, cmp, torn>>

\* wfi may also return for no reason.
WfiReturns ==
  /\ Hart("wfi", "done")
  /\ Elapse
  /\ UNCHANGED <<call, t0, first, val, tgt, measured, cmp, mtie, torn>>

HartStep ==
  \/ FirstRead \/ SecondRead \/ SpinUntil \/ SpinTicks
  \/ FreqFirst \/ SampleStart \/ FreqStart \/ SampleEnd \/ FreqEnd
  \/ SleepTest \/ SetCmpHigh \/ SetCmpLow \/ EnableTimer \/ TimerTrap

Next == HartStep \/ WfiReturns
Spec == Init /\ [][Next]_vars

\* The hart keeps executing.
FairSpec == Spec /\ WF_vars(HartStep)

-----------------------------------------------------------------------------

Done(fun) == pc = "done" /\ call.fun = fun

\* No carry into the high half since the call.
NoCarry == High(t0) = High(Mtime)

TypeOK ==
  /\ cycle \in 0 .. MaxCycle
  /\ pc \in {"first", "second", "use", "start", "end", "cmp_high", "cmp_low", "enable",
             "wfi", "done"}
  /\ val \in 0 .. Mtime
  /\ call.fun \in Functions

\* clint_spin_until does not return before its time, wherever the low half rolls
\* over: with the high half first, a torn read is never ahead of the time.  Nor
\* does clint_spin_ticks return before its ticks have passed, through any rollover
\* but one: between the two reads it counts its target from, which makes the target,
\* and so the spin, up to a turn of the low half too short (clint.c:24-26).
SpinNeverEarly ==
  /\ Done("spin_until") => Mtime >= call.arg
  /\ Done("spin_ticks") => IF torn THEN Mtime + HalfTicks > t0 + call.arg
                                  ELSE Mtime >= t0 + call.arg

\* If the high half does not change meanwhile, the measurement spans at least the
\* ticks asked for, and the cycles counted differ from the cycles of those ticks by
\* no more than one round of the loop: mcycle is sampled next to the tick that ends
\* each loop.
Round == 4 * MaxStep
FreqAccurate ==
  Done("get_core_freq") /\ NoCarry =>
    LET ticks == end.time - start.time
        error == (end.cycle - start.cycle) - ticks * CyclesPerTick
    IN /\ ticks >= call.arg
       /\ error \in -Round .. Round

\* Spinning and measuring end.
Ends == call.fun # "sleep_until" => <>(pc = "done")

\* Comments in clint.c and clint.h: a sleep ends at the timer interrupt for its
\* target.
SleepLasts == Done("sleep_until") => Mtime >= call.arg
=============================================================================
