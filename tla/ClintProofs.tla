---------------------------- MODULE ClintProofs -----------------------------
(***************************************************************************)
(* Proofs about Clint for any core frequency, speed of the hart, width of  *)
(* the timer halves and calls, with the high half of mtime read first.     *)
(*                                                                         *)
(* clint_get_mtime then never returns a time that lies ahead (InvRead), so *)
(* that no spin ends before its target; the target clint_spin_ticks counts *)
(* from its first read is right unless that read is torn, and then less    *)
(* than a turn of the low half too early (InvSpin).  Without a carry the   *)
(* time returned is that of the second read: a loop of clint_get_core_freq *)
(* ends at the first read of a new tick, which began between the last two  *)
(* reads, and mcycle was sampled there too, so that cycle and tick differ  *)
(* by at most the two steps to the next read or from the last one          *)
(* (InvFreq).                                                              *)
(***************************************************************************)
EXTENDS Clint, TLAPS

\* The cycle at which tick v begins.
Edge(v) == CyclesPerTick * v

Locations == {"first", "second", "use", "start", "end", "cmp_high", "cmp_low", "enable",
              "wfi", "done"}

InvType ==
  /\ cycle \in 0 .. MaxCycle
  /\ call \in [fun : Functions, arg : Nat]
  /\ pc \in Locations
  /\ t0 \in Nat /\ first \in Nat /\ val \in Nat
  /\ tgt \in Nat \cup {NoTarget} /\ torn \in BOOLEAN
  /\ start \in [cycle : Nat, time : Nat]
  /\ end \in [cycle : Nat, time : Nat]
  /\ pc \in {"start", "end"} => call.fun = "get_core_freq"
  /\ pc \in {"cmp_high", "cmp_low", "enable", "wfi"} => call.fun = "sleep_until"

\* What clint_get_mtime reads.
InvRead ==
  /\ t0 <= Mtime /\ val <= Mtime
  /\ pc = "second" => first <= High(Mtime) /\ (NoCarry => first = High(t0))
  /\ pc = "use" /\ NoCarry =>
       t0 <= val /\ Edge(val) <= cycle /\ cycle < Edge(val) + CyclesPerTick + MaxStep

Spinning == call.fun \in {"spin_until", "spin_ticks"}

\* The first read of clint_spin_ticks begins at the call.
InvOpen ==
  /\ pc \in {"first", "second", "use"}
  /\ pc = "first" => Mtime = t0 /\ ~torn
  /\ pc = "second" => first = High(t0) /\ ~torn
  /\ pc = "use" => t0 < val + HalfTicks /\ (~torn => t0 <= val)

InvSpin ==
  /\ call.fun = "spin_until" => tgt = call.arg
  /\ TargetOpen => InvOpen
  /\ call.fun = "spin_ticks" /\ ~TargetOpen =>
       t0 + call.arg < tgt + HalfTicks /\ (~torn => t0 + call.arg <= tgt)
  /\ pc = "done" /\ Spinning => ~TargetOpen /\ tgt <= val

\* The samples of clint_get_core_freq tell how far it is.
InvSamples ==
  /\ start.cycle = 0 => start = Sample
  /\ end.cycle # 0 => start.cycle # 0
  /\ pc = "start" => end.cycle = 0 /\ cycle > 0
  /\ pc = "end" => start.cycle # 0 /\ cycle > 0
  /\ pc = "done" => end.cycle # 0
  /\ start.cycle = 0 /\ pc \in {"first", "second", "use"} => end = Sample

\* A tick and a sample of mcycle belong together.
Near(sample, tick) ==
  sample < Edge(tick) + 2 * MaxStep /\ Edge(tick) <= sample + 2 * MaxStep

\* The loop that waits for the first tick.
InvFirstLoop ==
  /\ pc = "start" =>
       end.time <= Mtime /\ cycle < Edge(end.time) + CyclesPerTick + 2 * MaxStep
  /\ pc \in {"first", "second", "use"} /\ start.cycle # 0 /\ end.cycle = 0 =>
       /\ end.time <= Mtime /\ start.cycle < Edge(end.time) + CyclesPerTick + 2 * MaxStep
       /\ pc = "first" => cycle <= start.cycle + MaxStep
       /\ pc = "second" => cycle <= start.cycle + 2 * MaxStep
       /\ pc = "use" => /\ end.time <= val /\ Edge(val) <= start.cycle + 2 * MaxStep
                        /\ cycle <= start.cycle + 3 * MaxStep

\* The target was not reached at the last read, or there was no tick to wait for.
Before(at) ==
  /\ start.time <= val /\ at < Edge(val) + CyclesPerTick + 2 * MaxStep
  /\ \/ val < start.time + call.arg
     \/ val = start.time /\ at <= start.cycle + 4 * MaxStep

\* The sample of mcycle fits the tick at which the second loop ends.
Fits(tick) ==
  \/ end.cycle < Edge(tick) + 2 * MaxStep
  \/ tick = start.time /\ end.cycle <= start.cycle + 4 * MaxStep

\* The loop that waits for the last tick.
InvSecondLoop ==
  /\ pc = "end" \/ end.cycle # 0 => Near(start.cycle, start.time)
  /\ pc = "end" => Before(cycle)
  /\ pc = "first" /\ end.cycle # 0 => Before(end.cycle) /\ cycle <= end.cycle + MaxStep
  /\ pc = "second" /\ end.cycle # 0 => Before(end.cycle) /\ cycle <= end.cycle + 2 * MaxStep
  /\ pc = "use" /\ end.cycle # 0 =>
       /\ start.time <= val /\ Edge(val) <= end.cycle + 2 * MaxStep
       /\ start.time + call.arg <= val => Fits(val)
  /\ pc = "done" => /\ start.time + call.arg <= end.time
                    /\ Edge(end.time) <= end.cycle + 2 * MaxStep /\ Fits(end.time)

InvFreq ==
  call.fun = "get_core_freq" =>
    InvSamples /\ (NoCarry => InvFirstLoop /\ InvSecondLoop)

Inv == InvType /\ InvRead /\ InvSpin /\ InvFreq

(***************************************************************************)
(* Numbers.                                                                *)
(***************************************************************************)

\* The constants are positive numbers.
LEMMA ConstantFacts ==
  /\ CyclesPerTick \in Int /\ CyclesPerTick > 0 /\ MaxStep \in Int /\ MaxStep > 0
  /\ HalfTicks \in Int /\ HalfTicks > 0 /\ MaxCycle \in Nat
BY TimingAssumption

\* Multiplication by a positive number keeps the order.
LEMMA ProductOrder ==
  ASSUME NEW B \in Int, B > 0, NEW m \in Int, NEW n \in Int
  PROVE  /\ B * m \in Int /\ B * n \in Int
         /\ m <= n => B * m <= B * n
         /\ m < n => B * m + B <= B * n
<1>1. m <= n => B * m <= B * n
  OBVIOUS
<1>2. m + 1 <= n => B * (m + 1) <= B * n
  OBVIOUS
<1>3. B * (m + 1) = B * m + B
  OBVIOUS
<1> QED
  BY <1>1, <1>2, <1>3

\* Quotient and remainder.
LEMMA DivMod ==
  ASSUME NEW B \in Int, B > 0, NEW a \in Int
  PROVE  /\ a \div B \in Int /\ a % B \in Int
         /\ a = B * (a \div B) + (a % B)
         /\ 0 <= a % B /\ a % B < B
OBVIOUS

\* They are naturals if the number is, and grow with it.
LEMMA DivOrder ==
  ASSUME NEW B \in Int, B > 0, NEW a \in Nat, NEW b \in Nat, a <= b
  PROVE  a \div B \in Nat /\ b \div B \in Nat /\ a \div B <= b \div B
<1> DEFINE p == a \div B
<1> DEFINE q == b \div B
<1> DEFINE r == a % B
<1> DEFINE s == b % B
<1>1. /\ p \in Int /\ r \in Int /\ a = B * p + r /\ 0 <= r /\ r < B
      /\ q \in Int /\ s \in Int /\ b = B * q + s /\ 0 <= s /\ s < B
  BY DivMod
<1> HIDE DEF p, q, r, s
<1>2. B * 0 = 0
  OBVIOUS
<1>3. ~(p < 0) /\ ~(q < 0)
  BY <1>1, <1>2, ProductOrder
<1>4. ~(q < p)
  BY <1>1, ProductOrder
<1> QED
  BY <1>1, <1>3, <1>4 DEF p, q

\* Ticks begin one after the other.
LEMMA EdgeFacts ==
  ASSUME NEW v \in Nat, NEW w \in Nat
  PROVE  /\ Edge(v) \in Nat /\ Edge(w) \in Nat
         /\ v < w => Edge(v) + CyclesPerTick <= Edge(w)
         /\ v <= w => Edge(v) <= Edge(w)
<1>1. CyclesPerTick \in Int /\ CyclesPerTick > 0
  BY ConstantFacts
<1>2. CyclesPerTick * 0 = 0
  BY <1>1
<1>3. CyclesPerTick * 0 <= CyclesPerTick * v /\ CyclesPerTick * 0 <= CyclesPerTick * w
      /\ CyclesPerTick * v \in Int /\ CyclesPerTick * w \in Int
      /\ (v < w => CyclesPerTick * v + CyclesPerTick <= CyclesPerTick * w)
      /\ (v <= w => CyclesPerTick * v <= CyclesPerTick * w)
  BY <1>1, ProductOrder
<1> QED
  BY <1>2, <1>3 DEF Edge

\* The current tick.
LEMMA MtimeFacts ==
  ASSUME cycle \in Nat
  PROVE  Mtime \in Nat /\ Edge(Mtime) <= cycle /\ cycle < Edge(Mtime) + CyclesPerTick
<1>1. CyclesPerTick \in Int /\ CyclesPerTick > 0
  BY ConstantFacts
<1> DEFINE q == cycle \div CyclesPerTick
<1> DEFINE r == cycle % CyclesPerTick
<1>2. q \in Int /\ r \in Int /\ cycle = CyclesPerTick * q + r /\ 0 <= r /\ r < CyclesPerTick
  BY <1>1, DivMod
<1>3. q \in Nat
  BY <1>1, DivOrder
<1> HIDE DEF q, r
<1>4. CyclesPerTick * q \in Int
  BY <1>1, <1>2, ProductOrder
<1>5. CyclesPerTick * q <= cycle /\ cycle < CyclesPerTick * q + CyclesPerTick
  BY <1>1, <1>2, <1>4
<1> QED
  BY <1>3, <1>5 DEF Mtime, Edge, q

\* The halves of a time, and a time put together of an earlier high half and the
\* low half.
LEMMA HalfFacts ==
  ASSUME NEW t \in Nat
  PROVE  /\ High(t) \in Nat /\ Low(t) \in Nat /\ Low(t) < HalfTicks
         /\ Join(High(t), Low(t)) = t
         /\ \A h \in Nat : h <= High(t) => Join(h, Low(t)) \in Nat /\ Join(h, Low(t)) <= t
<1>1. HalfTicks \in Int /\ HalfTicks > 0
  BY ConstantFacts
<1> DEFINE q == t \div HalfTicks
<1> DEFINE r == t % HalfTicks
<1>2. q \in Int /\ r \in Int /\ t = HalfTicks * q + r /\ 0 <= r /\ r < HalfTicks
  BY <1>1, DivMod
<1>3. q \in Nat
  BY <1>1, DivOrder
<1> HIDE DEF q, r
<1>4. \A h \in Int : h * HalfTicks = HalfTicks * h /\ HalfTicks * h \in Int
  BY <1>1
<1>5. q * HalfTicks + r = t
  BY <1>2, <1>4
<1>6. ASSUME NEW h \in Nat, h <= q
      PROVE  h * HalfTicks + r \in Nat /\ h * HalfTicks + r <= t
  <2>1. HalfTicks * h <= HalfTicks * q /\ HalfTicks * 0 <= HalfTicks * h /\ HalfTicks * 0 = 0
    BY <1>1, <1>2, <1>6, ProductOrder
  <2> QED
    BY <1>2, <1>4, <2>1
<1>7. High(t) = q /\ Low(t) = r
  BY DEF High, Low, q, r
<1> QED
  BY <1>2, <1>3, <1>5, <1>6, <1>7 DEF Join

\* The high half only grows.
LEMMA HighOrder ==
  ASSUME NEW t \in Nat, NEW u \in Nat, t <= u
  PROVE  High(t) \in Nat /\ High(u) \in Nat /\ High(t) <= High(u)
BY ConstantFacts, DivOrder DEF High

(***************************************************************************)
(* The steps keep the invariant.                                           *)
(***************************************************************************)

\* Time passes, by no more than a step.
LEMMA ElapseFacts ==
  ASSUME Inv, Elapse, t0' = t0
  PROVE  /\ cycle \in Nat /\ cycle' \in Nat /\ cycle' \in 0 .. MaxCycle
         /\ cycle < cycle' /\ cycle' <= cycle + MaxStep
         /\ Mtime \in Nat /\ Mtime' \in Nat /\ Mtime <= Mtime'
         /\ NoCarry' => NoCarry
         /\ High(Mtime) \in Nat /\ High(Mtime') \in Nat /\ High(Mtime) <= High(Mtime')
<1>1. cycle \in Nat /\ cycle' \in Nat /\ cycle' \in 0 .. MaxCycle
      /\ cycle < cycle' /\ cycle' <= cycle + MaxStep
  BY ConstantFacts DEF Inv, InvType, Elapse
<1>2. Mtime \in Nat /\ Mtime' \in Nat /\ Mtime <= Mtime'
  <2> DEFINE Tick(c) == c \div CyclesPerTick
  <2>1. \A a, b \in Nat : a <= b => Tick(a) \in Nat /\ Tick(b) \in Nat /\ Tick(a) <= Tick(b)
    BY ConstantFacts, DivOrder
  <2>2. Mtime = Tick(cycle) /\ Mtime' = Tick(cycle')
    BY DEF Mtime
  <2> HIDE DEF Tick
  <2>3. cycle <= cycle'
    BY <1>1
  <2> QED
    BY <1>1, <2>1, <2>2, <2>3
<1>3. t0 \in Nat /\ t0 <= Mtime
  BY DEF Inv, InvType, InvRead
<1>4. /\ High(Mtime) \in Nat /\ High(Mtime') \in Nat /\ High(t0) \in Nat
      /\ High(t0) <= High(Mtime) /\ High(Mtime) <= High(Mtime')
  BY <1>2, <1>3, HighOrder
<1>5. NoCarry' => NoCarry
  <2>1. NoCarry' <=> High(t0) = High(Mtime')
    BY DEF NoCarry, High
  <2> QED
    BY <1>4, <2>1 DEF NoCarry
<1> QED
  BY <1>1, <1>2, <1>4, <1>5

\* The second read never returns a time that lies ahead, and the time itself if
\* no carry went into the high half.
LEMMA SecondReadFacts ==
  ASSUME FirstHalf = "high", Inv, SecondRead
  PROVE  /\ val' \in Nat /\ val' <= Mtime
         /\ NoCarry => val' = Mtime
<1>1. /\ pc = "second" /\ val' = Join(first, Low(Mtime)) /\ first \in Nat
      /\ first <= High(Mtime) /\ (NoCarry => first = High(t0))
  BY DEF SecondRead, Hart, Inv, InvType, InvRead
<1>2. Mtime \in Nat
  BY ElapseFacts DEF SecondRead
<1>3. val' \in Nat /\ val' <= Mtime
  BY <1>1, <1>2, HalfFacts
<1>4. NoCarry => val' = Mtime
  BY <1>1, <1>2, HalfFacts DEF NoCarry
<1> QED
  BY <1>3, <1>4

\* Every step keeps the types.
LEMMA TypeStep ==
  ASSUME FirstHalf = "high"
  PROVE  Inv /\ [Next]_vars => InvType'
<1> SUFFICES ASSUME Inv, [Next]_vars PROVE InvType'
  OBVIOUS
<1>1. CASE FirstRead
  <2>1. first' \in Nat
    BY <1>1, ElapseFacts, HalfFacts DEF FirstRead
  <2> QED
    BY <1>1, <2>1, ElapseFacts DEF FirstRead, Hart, measured, Inv, InvType, Locations
<1>2. CASE SecondRead
  <2>1. val' \in Nat
    BY <1>2, SecondReadFacts
  <2> QED
    BY <1>2, <2>1, ElapseFacts DEF SecondRead, Hart, measured, Inv, InvType, Locations
<1>3. CASE SpinUntil
  <2>1. cycle' \in 0 .. MaxCycle
    BY <1>3, ElapseFacts DEF SpinUntil
  <2> QED
    BY <1>3, <2>1 DEF SpinUntil, Hart, measured, Freq, AgainStart, Inv, InvType, Locations
<1>4. CASE SpinTicks
  <2>1. cycle' \in 0 .. MaxCycle
    BY <1>4, ElapseFacts DEF SpinTicks
  <2> QED
    BY <1>4, <2>1 DEF SpinTicks, TargetOpen, measured, Inv, InvType, Locations
<1>5. CASE FreqFirst
  <2>1. cycle' \in 0 .. MaxCycle
    BY <1>5, ElapseFacts DEF FreqFirst
  <2> QED
    BY <1>5, <2>1 DEF FreqFirst, Hart, measured, Freq, AgainStart, Inv, InvType, Locations
<1>6. CASE SampleStart
  <2>1. cycle' \in 0 .. MaxCycle
    BY <1>6, ElapseFacts DEF SampleStart
  <2> QED
    BY <1>6, <2>1 DEF SampleStart, Hart, measured, Freq, AgainStart, Inv, InvType, Locations
<1>7. CASE FreqStart
  <2>1. cycle' \in 0 .. MaxCycle
    BY <1>7, ElapseFacts DEF FreqStart
  <2> QED
    BY <1>7, <2>1 DEF FreqStart, Hart, measured, Freq, AgainStart, Inv, InvType, Locations
<1>8. CASE SampleEnd
  <2>1. cycle' \in 0 .. MaxCycle
    BY <1>8, ElapseFacts DEF SampleEnd
  <2> QED
    BY <1>8, <2>1 DEF SampleEnd, Hart, measured, Freq, AgainStart, Inv, InvType, Locations
<1>9. CASE FreqEnd
  <2>1. cycle' \in 0 .. MaxCycle
    BY <1>9, ElapseFacts DEF FreqEnd
  <2> QED
    BY <1>9, <2>1 DEF FreqEnd, Hart, measured, Freq, AgainStart, Inv, InvType, Locations
<1>10. CASE SleepTest
  <2>1. cycle' \in 0 .. MaxCycle
    BY <1>10, ElapseFacts DEF SleepTest
  <2> QED
    BY <1>10, <2>1 DEF SleepTest, Hart, measured, Freq, AgainStart, Inv, InvType, Locations
<1>11. CASE SetCmpHigh
  <2>1. cycle' \in 0 .. MaxCycle
    BY <1>11, ElapseFacts DEF SetCmpHigh
  <2> QED
    BY <1>11, <2>1 DEF SetCmpHigh, Hart, measured, Freq, AgainStart, Inv, InvType, Locations
<1>12. CASE SetCmpLow
  <2>1. cycle' \in 0 .. MaxCycle
    BY <1>12, ElapseFacts DEF SetCmpLow
  <2> QED
    BY <1>12, <2>1 DEF SetCmpLow, Hart, measured, Freq, AgainStart, Inv, InvType, Locations
<1>13. CASE EnableTimer
  <2>1. cycle' \in 0 .. MaxCycle
    BY <1>13, ElapseFacts DEF EnableTimer
  <2> QED
    BY <1>13, <2>1 DEF EnableTimer, Hart, measured, Freq, AgainStart, Inv, InvType, Locations
<1>14. CASE TimerTrap
  <2>1. cycle' \in 0 .. MaxCycle
    BY <1>14, ElapseFacts DEF TimerTrap
  <2> QED
    BY <1>14, <2>1 DEF TimerTrap, Hart, measured, Freq, AgainStart, Inv, InvType, Locations
<1>15. CASE WfiReturns
  <2>1. cycle' \in 0 .. MaxCycle
    BY <1>15, ElapseFacts DEF WfiReturns
  <2> QED
    BY <1>15, <2>1 DEF WfiReturns, Hart, measured, Freq, AgainStart, Inv, InvType, Locations
<1>16. CASE UNCHANGED vars
  BY <1>16 DEF vars, measured, Inv, InvType
<1> QED
  BY <1>1, <1>2, <1>3, <1>4, <1>5, <1>6, <1>7, <1>8, <1>9, <1>10, <1>11, <1>12, <1>13,
     <1>14, <1>15, <1>16 DEF Next, HartStep

\* Reading mtime in two halves never yields a time ahead.
LEMMA ReadStep ==
  ASSUME FirstHalf = "high"
  PROVE  Inv /\ [Next]_vars => InvRead'
<1> SUFFICES ASSUME Inv, [Next]_vars PROVE InvRead'
  OBVIOUS
<1>1. CASE FirstRead
  <2>1. /\ Mtime <= Mtime' /\ Mtime \in Nat /\ Mtime' \in Nat /\ (NoCarry' => NoCarry)
        /\ High(Mtime) <= High(Mtime')
    BY <1>1, ElapseFacts DEF FirstRead
  <2>2. pc' = "second" /\ first' = High(Mtime) /\ t0' = t0 /\ val' = val
    BY <1>1 DEF FirstRead, Hart
  <2>3. t0 <= Mtime /\ val <= Mtime /\ t0 \in Nat /\ val \in Nat
    BY DEF Inv, InvType, InvRead
  <2>4. first' <= High(Mtime') /\ (NoCarry' => first' = High(t0))
    BY <2>1, <2>2 DEF NoCarry
  <2>5. High(t0)' = High(t0) /\ High(Mtime)' = High(Mtime')
    BY <2>2 DEF High
  <2> QED
    BY <2>1, <2>2, <2>3, <2>4, <2>5 DEF InvRead
<1>2. CASE SecondRead
  <2>1. /\ Mtime <= Mtime' /\ Mtime \in Nat /\ Mtime' \in Nat /\ (NoCarry' => NoCarry)
        /\ cycle \in Nat /\ cycle' \in Nat /\ cycle < cycle' /\ cycle' <= cycle + MaxStep
    BY <1>2, ElapseFacts DEF SecondRead
  <2>2. pc' = "use" /\ t0' = t0
    BY <1>2 DEF SecondRead, Hart
  <2>3. t0 <= Mtime /\ t0 \in Nat
    BY DEF Inv, InvType, InvRead
  <2>4. val' \in Nat /\ val' <= Mtime /\ (NoCarry => val' = Mtime)
    BY <1>2, SecondReadFacts
  <2>5. Edge(Mtime) <= cycle /\ cycle < Edge(Mtime) + CyclesPerTick /\ Edge(Mtime) \in Nat
    BY <2>1, MtimeFacts, EdgeFacts
  <2>6. Edge(val)' = Edge(val')
    BY DEF Edge
  <2>7. NoCarry' => t0' <= val' /\ Edge(val)' <= cycle' /\ cycle' < Edge(val)' + CyclesPerTick + MaxStep
    BY <2>1, <2>2, <2>3, <2>4, <2>5, <2>6, ConstantFacts
  <2> QED
    BY <2>1, <2>2, <2>3, <2>4, <2>7 DEF InvRead
<1>3. CASE SpinUntil
  <2>1. Mtime <= Mtime' /\ Mtime \in Nat /\ Mtime' \in Nat /\ pc' \notin {"second", "use"}
    BY <1>3, ElapseFacts DEF SpinUntil, Hart, AgainStart
  <2>2. t0 <= Mtime /\ val <= Mtime /\ t0 \in Nat /\ val \in Nat /\ t0' = t0 /\ val' = val
    BY <1>3 DEF SpinUntil, Inv, InvType, InvRead
  <2> QED
    BY <2>1, <2>2 DEF InvRead
<1>4. CASE SpinTicks
  <2>1. Mtime <= Mtime' /\ Mtime \in Nat /\ Mtime' \in Nat /\ pc' \notin {"second", "use"}
    BY <1>4, ElapseFacts DEF SpinTicks, Hart, AgainStart
  <2>2. t0 <= Mtime /\ val <= Mtime /\ t0 \in Nat /\ val \in Nat /\ t0' = t0 /\ val' = val
    BY <1>4 DEF SpinTicks, Inv, InvType, InvRead
  <2> QED
    BY <2>1, <2>2 DEF InvRead
<1>5. CASE FreqFirst
  <2>1. Mtime <= Mtime' /\ Mtime \in Nat /\ Mtime' \in Nat /\ pc' \notin {"second", "use"}
    BY <1>5, ElapseFacts DEF FreqFirst, Hart, AgainStart
  <2>2. t0 <= Mtime /\ val <= Mtime /\ t0 \in Nat /\ val \in Nat /\ t0' = t0 /\ val' = val
    BY <1>5 DEF FreqFirst, Inv, InvType, InvRead
  <2> QED
    BY <2>1, <2>2 DEF InvRead
<1>6. CASE SampleStart
  <2>1. Mtime <= Mtime' /\ Mtime \in Nat /\ Mtime' \in Nat /\ pc' \notin {"second", "use"}
    BY <1>6, ElapseFacts DEF SampleStart, Hart, AgainStart
  <2>2. t0 <= Mtime /\ val <= Mtime /\ t0 \in Nat /\ val \in Nat /\ t0' = t0 /\ val' = val
    BY <1>6 DEF SampleStart, Inv, InvType, InvRead
  <2> QED
    BY <2>1, <2>2 DEF InvRead
<1>7. CASE FreqStart
  <2>1. Mtime <= Mtime' /\ Mtime \in Nat /\ Mtime' \in Nat /\ pc' \notin {"second", "use"}
    BY <1>7, ElapseFacts DEF FreqStart, Hart, AgainStart
  <2>2. t0 <= Mtime /\ val <= Mtime /\ t0 \in Nat /\ val \in Nat /\ t0' = t0 /\ val' = val
    BY <1>7 DEF FreqStart, Inv, InvType, InvRead
  <2> QED
    BY <2>1, <2>2 DEF InvRead
<1>8. CASE SampleEnd
  <2>1. Mtime <= Mtime' /\ Mtime \in Nat /\ Mtime' \in Nat /\ pc' \notin {"second", "use"}
    BY <1>8, ElapseFacts DEF SampleEnd, Hart, AgainStart
  <2>2. t0 <= Mtime /\ val <= Mtime /\ t0 \in Nat /\ val \in Nat /\ t0' = t0 /\ val' = val
    BY <1>8 DEF SampleEnd, Inv, InvType, InvRead
  <2> QED
    BY <2>1, <2>2 DEF InvRead
<1>9. CASE FreqEnd
  <2>1. Mtime <= Mtime' /\ Mtime \in Nat /\ Mtime' \in Nat /\ pc' \notin {"second", "use"}
    BY <1>9, ElapseFacts DEF FreqEnd, Hart, AgainStart
  <2>2. t0 <= Mtime /\ val <= Mtime /\ t0 \in Nat /\ val \in Nat /\ t0' = t0 /\ val' = val
    BY <1>9 DEF FreqEnd, Inv, InvType, InvRead
  <2> QED
    BY <2>1, <2>2 DEF InvRead
<1>10. CASE SleepTest
  <2>1. Mtime <= Mtime' /\ Mtime \in Nat /\ Mtime' \in Nat /\ pc' \notin {"second", "use"}
    BY <1>10, ElapseFacts DEF SleepTest, Hart, AgainStart
  <2>2. t0 <= Mtime /\ val <= Mtime /\ t0 \in Nat /\ val \in Nat /\ t0' = t0 /\ val' = val
    BY <1>10 DEF SleepTest, Inv, InvType, InvRead
  <2> QED
    BY <2>1, <2>2 DEF InvRead
<1>11. CASE SetCmpHigh
  <2>1. Mtime <= Mtime' /\ Mtime \in Nat /\ Mtime' \in Nat /\ pc' \notin {"second", "use"}
    BY <1>11, ElapseFacts DEF SetCmpHigh, Hart, AgainStart
  <2>2. t0 <= Mtime /\ val <= Mtime /\ t0 \in Nat /\ val \in Nat /\ t0' = t0 /\ val' = val
    BY <1>11 DEF SetCmpHigh, Inv, InvType, InvRead
  <2> QED
    BY <2>1, <2>2 DEF InvRead
<1>12. CASE SetCmpLow
  <2>1. Mtime <= Mtime' /\ Mtime \in Nat /\ Mtime' \in Nat /\ pc' \notin {"second", "use"}
    BY <1>12, ElapseFacts DEF SetCmpLow, Hart, AgainStart
  <2>2. t0 <= Mtime /\ val <= Mtime /\ t0 \in Nat /\ val \in Nat /\ t0' = t0 /\ val' = val
    BY <1>12 DEF SetCmpLow, Inv, InvType, InvRead
  <2> QED
    BY <2>1, <2>2 DEF InvRead
<1>13. CASE EnableTimer
  <2>1. Mtime <= Mtime' /\ Mtime \in Nat /\ Mtime' \in Nat /\ pc' \notin {"second", "use"}
    BY <1>13, ElapseFacts DEF EnableTimer, Hart, AgainStart
  <2>2. t0 <= Mtime /\ val <= Mtime /\ t0 \in Nat /\ val \in Nat /\ t0' = t0 /\ val' = val
    BY <1>13 DEF EnableTimer, Inv, InvType, InvRead
  <2> QED
    BY <2>1, <2>2 DEF InvRead
<1>14. CASE TimerTrap
  <2>1. Mtime <= Mtime' /\ Mtime \in Nat /\ Mtime' \in Nat /\ pc' \notin {"second", "use"}
    BY <1>14, ElapseFacts DEF TimerTrap, Hart, AgainStart
  <2>2. t0 <= Mtime /\ val <= Mtime /\ t0 \in Nat /\ val \in Nat /\ t0' = t0 /\ val' = val
    BY <1>14 DEF TimerTrap, Inv, InvType, InvRead
  <2> QED
    BY <2>1, <2>2 DEF InvRead
<1>15. CASE WfiReturns
  <2>1. Mtime <= Mtime' /\ Mtime \in Nat /\ Mtime' \in Nat /\ pc' \notin {"second", "use"}
    BY <1>15, ElapseFacts DEF WfiReturns, Hart, AgainStart
  <2>2. t0 <= Mtime /\ val <= Mtime /\ t0 \in Nat /\ val \in Nat /\ t0' = t0 /\ val' = val
    BY <1>15 DEF WfiReturns, Inv, InvType, InvRead
  <2> QED
    BY <2>1, <2>2 DEF InvRead
<1>16. CASE UNCHANGED vars
  BY <1>16 DEF vars, measured, Inv, InvRead, Mtime, NoCarry
<1> QED
  BY <1>1, <1>2, <1>3, <1>4, <1>5, <1>6, <1>7, <1>8, <1>9, <1>10, <1>11, <1>12, <1>13,
     <1>14, <1>15, <1>16 DEF Next, HartStep

\* The read clint_spin_ticks counts from is right if it is not torn, and otherwise
\* less than a turn of the low half behind the call.
LEMMA OpenReadFacts ==
  ASSUME FirstHalf = "high", Inv, SecondRead, TargetOpen
  PROVE  t0 < val' + HalfTicks /\ (~torn' => t0 <= val')
<1>1. /\ val' = Join(High(t0), Low(Mtime)) /\ t0 \in Nat /\ t0 <= Mtime
      /\ torn' = (torn \/ High(t0) # High(Mtime))
  BY DEF SecondRead, Hart, Inv, InvType, InvRead, InvSpin, InvOpen
<1>2. Mtime \in Nat
  BY ElapseFacts DEF SecondRead
<1>3. t0 < val' + HalfTicks
  <2>1. /\ High(t0) \in Nat /\ Low(t0) \in Nat /\ Low(t0) < HalfTicks
        /\ Join(High(t0), Low(t0)) = t0 /\ Low(Mtime) \in Nat
    BY <1>1, <1>2, HalfFacts
  <2> DEFINE h == High(t0) * HalfTicks
  <2>2. h \in Int /\ t0 = h + Low(t0) /\ val' = h + Low(Mtime)
    BY <1>1, <2>1, ConstantFacts DEF Join
  <2> HIDE DEF h
  <2> QED
    BY <2>1, <2>2, ConstantFacts
<1>4. ASSUME ~torn' PROVE t0 <= val'
  <2>1. High(t0) = High(Mtime)
    BY <1>1, <1>4
  <2>2. val' = Mtime
    BY <1>1, <1>2, <2>1, HalfFacts
  <2> QED
    BY <1>1, <2>2
<1> QED
  BY <1>3, <1>4

\* Spins end only when the time read is not before the target.
LEMMA SpinStep ==
  ASSUME FirstHalf = "high"
  PROVE  Inv /\ [Next]_vars => InvSpin'
<1> SUFFICES ASSUME Inv, [Next]_vars PROVE InvSpin'
  OBVIOUS
<1>1. CASE FirstRead
  <2>1. /\ pc' = "second" /\ first' = High(Mtime) /\ UNCHANGED <<call, t0, tgt, torn>>
    BY <1>1 DEF FirstRead, Hart
  <2>2. TargetOpen' = TargetOpen /\ High(t0)' = High(t0)
    BY <2>1 DEF TargetOpen, High
  <2>3. TargetOpen => first' = High(t0) /\ ~torn
    BY <1>1, <2>1 DEF FirstRead, Hart, Inv, InvSpin, InvOpen
  <2> QED
    BY <2>1, <2>2, <2>3 DEF Inv, InvSpin, InvOpen
<1>2. CASE SecondRead
  <2>1. pc' = "use" /\ UNCHANGED <<call, t0, tgt>> /\ (~TargetOpen => torn' = torn)
    BY <1>2 DEF SecondRead, Hart, Inv, InvType
  <2>2. TargetOpen' = TargetOpen
    BY <2>1 DEF TargetOpen
  <2>3. TargetOpen => t0 < val' + HalfTicks /\ (~torn' => t0 <= val')
    BY <1>2, OpenReadFacts
  <2> QED
    BY <2>1, <2>2, <2>3 DEF Inv, InvSpin, InvOpen
<1>3. CASE SpinUntil
  <2>1. /\ call.fun \in {"spin_until", "spin_ticks"} /\ ~TargetOpen
        /\ pc' = IF val >= tgt THEN "done" ELSE "first"
        /\ UNCHANGED <<call, t0, val, tgt, torn>>
    BY <1>3 DEF SpinUntil, Reached
  <2>2. TargetOpen' = TargetOpen
    BY <2>1 DEF TargetOpen
  <2>3. val \in Nat /\ tgt \in Nat
    BY <2>1 DEF Inv, InvType, InvSpin, TargetOpen
  <2> QED
    BY <2>1, <2>2, <2>3 DEF Inv, InvSpin, Spinning
<1>4. CASE SpinTicks
  <2>1. /\ pc = "use" /\ TargetOpen /\ call.fun = "spin_ticks" /\ tgt' = val + call.arg
        /\ pc' = "first" /\ UNCHANGED <<call, t0, val, torn>>
    BY <1>4 DEF SpinTicks, TargetOpen
  <2>2. t0 < val + HalfTicks /\ (~torn => t0 <= val)
    BY <2>1 DEF Inv, InvSpin, InvOpen
  <2>3. t0 \in Nat /\ val \in Nat /\ call.arg \in Nat
    BY DEF Inv, InvType
  <2>4. tgt' \in Nat
    BY <2>1, <2>3
  <2>5. ~TargetOpen'
    BY <2>4 DEF TargetOpen, NoTarget
  <2>6. t0' + call'.arg < tgt' + HalfTicks /\ (~torn' => t0' + call'.arg <= tgt')
    BY <2>1, <2>2, <2>3, ConstantFacts
  <2> QED
    BY <2>1, <2>5, <2>6 DEF InvSpin
<1>5. ASSUME call.fun \in {"get_core_freq", "sleep_until"}, call' = call PROVE InvSpin'
  BY <1>5 DEF InvSpin, Spinning, TargetOpen
<1>6. CASE FreqFirst
  BY <1>5, <1>6 DEF FreqFirst, Freq, Inv, InvType
<1>7. CASE SampleStart
  BY <1>5, <1>7 DEF SampleStart, Hart, Inv, InvType
<1>8. CASE FreqStart
  BY <1>5, <1>8 DEF FreqStart, Freq, Inv, InvType
<1>9. CASE SampleEnd
  BY <1>5, <1>9 DEF SampleEnd, Hart, Inv, InvType
<1>10. CASE FreqEnd
  BY <1>5, <1>10 DEF FreqEnd, Freq, Inv, InvType
<1>11. CASE SleepTest
  BY <1>5, <1>11 DEF SleepTest, Inv, InvType
<1>12. CASE SetCmpHigh
  BY <1>5, <1>12 DEF SetCmpHigh, Hart, Inv, InvType
<1>13. CASE SetCmpLow
  BY <1>5, <1>13 DEF SetCmpLow, Hart, Inv, InvType
<1>14. CASE EnableTimer
  BY <1>5, <1>14 DEF EnableTimer, Hart, Inv, InvType
<1>15. CASE TimerTrap
  BY <1>5, <1>15 DEF TimerTrap, Inv, InvType
<1>16. CASE WfiReturns
  BY <1>5, <1>16 DEF WfiReturns, Hart, Inv, InvType
<1>17. CASE UNCHANGED vars
  BY <1>17 DEF vars, Inv, InvSpin, InvOpen, Spinning, TargetOpen, Mtime, High
<1> QED
  BY <1>1, <1>2, <1>3, <1>4, <1>6, <1>7, <1>8, <1>9, <1>10, <1>11, <1>12, <1>13, <1>14,
     <1>15, <1>16, <1>17 DEF Next, HartStep

\* The samples tell how far the measurement is.
LEMMA SamplesStep ==
  ASSUME FirstHalf = "high"
  PROVE  Inv /\ [Next]_vars /\ call.fun = "get_core_freq" => InvSamples'
<1> SUFFICES ASSUME Inv, [Next]_vars, call.fun = "get_core_freq" PROVE InvSamples'
  OBVIOUS
<1>1. CASE FirstRead
  <2>1. cycle \in Nat /\ cycle' \in Nat /\ cycle < cycle'
    BY <1>1, ElapseFacts DEF FirstRead
  <2> QED
    BY <1>1, <2>1 DEF FirstRead, Hart, measured, Freq, NoStart, NoEnd, AgainStart, Sample, Inv, InvType,
       InvFreq, InvSamples
<1>2. CASE SecondRead
  <2>1. cycle \in Nat /\ cycle' \in Nat /\ cycle < cycle'
    BY <1>2, ElapseFacts DEF SecondRead
  <2> QED
    BY <1>2, <2>1 DEF SecondRead, Hart, measured, Freq, NoStart, NoEnd, AgainStart, Sample, Inv, InvType,
       InvFreq, InvSamples
<1>3. CASE SpinUntil
  BY <1>3 DEF SpinUntil, Hart, Inv, InvType
<1>4. CASE SpinTicks
  BY <1>4 DEF SpinTicks, TargetOpen, Inv, InvType
<1>5. CASE FreqFirst
  <2>1. cycle \in Nat /\ cycle' \in Nat /\ cycle < cycle'
    BY <1>5, ElapseFacts DEF FreqFirst
  <2> QED
    BY <1>5, <2>1 DEF FreqFirst, Hart, measured, Freq, NoStart, NoEnd, AgainStart, Sample, Inv, InvType,
       InvFreq, InvSamples
<1>6. CASE SampleStart
  <2>1. cycle \in Nat /\ cycle' \in Nat /\ cycle < cycle'
    BY <1>6, ElapseFacts DEF SampleStart
  <2> QED
    BY <1>6, <2>1 DEF SampleStart, Hart, measured, Freq, NoStart, NoEnd, AgainStart, Sample, Inv, InvType,
       InvFreq, InvSamples
<1>7. CASE FreqStart
  <2>1. cycle \in Nat /\ cycle' \in Nat /\ cycle < cycle'
    BY <1>7, ElapseFacts DEF FreqStart
  <2> QED
    BY <1>7, <2>1 DEF FreqStart, Hart, measured, Freq, NoStart, NoEnd, AgainStart, Sample, Inv, InvType,
       InvFreq, InvSamples
<1>8. CASE SampleEnd
  <2>1. cycle \in Nat /\ cycle' \in Nat /\ cycle < cycle'
    BY <1>8, ElapseFacts DEF SampleEnd
  <2> QED
    BY <1>8, <2>1 DEF SampleEnd, Hart, measured, Freq, NoStart, NoEnd, AgainStart, Sample, Inv, InvType,
       InvFreq, InvSamples
<1>9. CASE FreqEnd
  <2>1. cycle \in Nat /\ cycle' \in Nat /\ cycle < cycle'
    BY <1>9, ElapseFacts DEF FreqEnd
  <2> QED
    BY <1>9, <2>1 DEF FreqEnd, Hart, measured, Freq, NoStart, NoEnd, AgainStart, Sample, Inv, InvType,
       InvFreq, InvSamples
<1>10. CASE SleepTest
  BY <1>10 DEF SleepTest, Hart, Inv, InvType
<1>11. CASE SetCmpHigh
  BY <1>11 DEF SetCmpHigh, Hart, Inv, InvType
<1>12. CASE SetCmpLow
  BY <1>12 DEF SetCmpLow, Hart, Inv, InvType
<1>13. CASE EnableTimer
  BY <1>13 DEF EnableTimer, Hart, Inv, InvType
<1>14. CASE TimerTrap
  BY <1>14 DEF TimerTrap, Hart, Inv, InvType
<1>15. CASE WfiReturns
  BY <1>15 DEF WfiReturns, Hart, Inv, InvType
<1>16. CASE UNCHANGED vars
  BY <1>16 DEF vars, measured, Inv, InvFreq, InvSamples
<1> QED
  BY <1>1, <1>2, <1>3, <1>4, <1>5, <1>6, <1>7, <1>8, <1>9, <1>10, <1>11, <1>12, <1>13,
     <1>14, <1>15, <1>16 DEF Next, HartStep

\* The first loop ends at the first read of a new tick.
LEMMA FirstLoopStep ==
  ASSUME FirstHalf = "high"
  PROVE  Inv /\ [Next]_vars /\ call.fun = "get_core_freq" /\ NoCarry' => InvFirstLoop'
<1> SUFFICES ASSUME Inv, [Next]_vars, call.fun = "get_core_freq", NoCarry' PROVE InvFirstLoop'
  OBVIOUS
<1>1. CASE FirstRead
  <2>1. /\ cycle \in Nat /\ cycle' \in Nat /\ cycle < cycle' /\ cycle' <= cycle + MaxStep
        /\ Mtime \in Nat /\ Mtime' \in Nat /\ Mtime <= Mtime' /\ NoCarry
    BY <1>1, ElapseFacts DEF FirstRead
  <2>2. InvSamples /\ InvFirstLoop /\ InvSecondLoop /\ InvRead
    BY <2>1 DEF Inv, InvFreq
  <2>3. /\ start.cycle \in Nat /\ start.time \in Nat /\ end.cycle \in Nat /\ end.time \in Nat
        /\ val \in Nat /\ call.arg \in Nat
    BY DEF Inv, InvType
  <2>4. pc = "first" /\ pc' = "second" /\ UNCHANGED <<start, end>>
    BY <1>1 DEF FirstRead, Hart, measured
  <2>5. Edge(end.time)' = Edge(end.time)
    BY <2>4 DEF Edge
  <2> QED
    BY <2>1, <2>2, <2>3, <2>4, <2>5, ConstantFacts DEF InvFirstLoop
<1>2. CASE SecondRead
  <2>1. /\ cycle \in Nat /\ cycle' \in Nat /\ cycle < cycle' /\ cycle' <= cycle + MaxStep
        /\ Mtime \in Nat /\ Mtime' \in Nat /\ Mtime <= Mtime' /\ NoCarry
    BY <1>2, ElapseFacts DEF SecondRead
  <2>2. InvSamples /\ InvFirstLoop /\ InvSecondLoop /\ InvRead
    BY <2>1 DEF Inv, InvFreq
  <2>3. /\ start.cycle \in Nat /\ start.time \in Nat /\ end.cycle \in Nat /\ end.time \in Nat
        /\ val \in Nat /\ call.arg \in Nat
    BY DEF Inv, InvType
  <2>4. pc = "second" /\ pc' = "use" /\ UNCHANGED <<start, end>>
    BY <1>2 DEF SecondRead, Hart, measured
  <2>5. Edge(end.time)' = Edge(end.time) /\ Edge(val)' = Edge(val')
    BY <2>4 DEF Edge
  <2>6. val' = Mtime /\ val' \in Nat
    BY <1>2, <2>1, SecondReadFacts
  <2>7. Edge(Mtime) <= cycle /\ Edge(Mtime) \in Nat
    BY <2>1, MtimeFacts, EdgeFacts
  <2> QED
    BY <2>1, <2>2, <2>3, <2>4, <2>5, <2>6, <2>7, ConstantFacts DEF InvFirstLoop
<1>3. CASE SpinUntil
  BY <1>3 DEF SpinUntil, Hart, Inv, InvType
<1>4. CASE SpinTicks
  BY <1>4 DEF SpinTicks, TargetOpen, Inv, InvType
<1>5. CASE FreqFirst
  <2>1. /\ cycle \in Nat /\ cycle' \in Nat /\ cycle < cycle' /\ cycle' <= cycle + MaxStep
        /\ Mtime \in Nat /\ Mtime' \in Nat /\ Mtime <= Mtime' /\ NoCarry
    BY <1>5, ElapseFacts DEF FreqFirst
  <2>2. InvSamples /\ InvFirstLoop /\ InvSecondLoop /\ InvRead
    BY <2>1 DEF Inv, InvFreq
  <2>3. /\ start.cycle \in Nat /\ start.time \in Nat /\ end.cycle \in Nat /\ end.time \in Nat
        /\ val \in Nat /\ call.arg \in Nat
    BY DEF Inv, InvType
  <2>4. pc = "use" /\ pc' = "start" /\ end' = [cycle |-> 0, time |-> val]
    BY <1>5 DEF FreqFirst, Freq
  <2>5. end'.time = val /\ Edge(end.time)' = Edge(val)
    BY <2>4 DEF Edge
  <2>6. val <= Mtime /\ cycle < Edge(val) + CyclesPerTick + MaxStep /\ Edge(val) \in Nat
    BY <2>1, <2>2, <2>3, <2>4, EdgeFacts DEF InvRead
  <2> QED
    BY <2>1, <2>3, <2>4, <2>5, <2>6, ConstantFacts DEF InvFirstLoop
<1>6. CASE SampleStart
  <2>1. /\ cycle \in Nat /\ cycle' \in Nat /\ cycle < cycle' /\ cycle' <= cycle + MaxStep
        /\ Mtime \in Nat /\ Mtime' \in Nat /\ Mtime <= Mtime' /\ NoCarry
    BY <1>6, ElapseFacts DEF SampleStart
  <2>2. InvSamples /\ InvFirstLoop /\ InvSecondLoop /\ InvRead
    BY <2>1 DEF Inv, InvFreq
  <2>3. /\ start.cycle \in Nat /\ start.time \in Nat /\ end.cycle \in Nat /\ end.time \in Nat
        /\ val \in Nat /\ call.arg \in Nat
    BY DEF Inv, InvType
  <2>4. pc = "start" /\ pc' = "first" /\ start' = [start EXCEPT !.cycle = cycle] /\ end' = end
    BY <1>6 DEF SampleStart, Hart
  <2>5. Edge(end.time)' = Edge(end.time) /\ start'.cycle = cycle
    BY <2>4 DEF Edge, Inv, InvType
  <2> QED
    BY <2>1, <2>2, <2>3, <2>4, <2>5, ConstantFacts DEF InvFirstLoop
<1>7. CASE FreqStart
  <2>1. /\ cycle \in Nat /\ cycle' \in Nat /\ cycle < cycle' /\ cycle' <= cycle + MaxStep
        /\ Mtime \in Nat /\ Mtime' \in Nat /\ Mtime <= Mtime' /\ NoCarry
    BY <1>7, ElapseFacts DEF FreqStart
  <2>2. InvSamples /\ InvFirstLoop /\ InvSecondLoop /\ InvRead
    BY <2>1 DEF Inv, InvFreq
  <2>3. /\ start.cycle \in Nat /\ start.time \in Nat /\ end.cycle \in Nat /\ end.time \in Nat
        /\ val \in Nat /\ call.arg \in Nat
    BY DEF Inv, InvType
  <2>4. /\ pc = "use" /\ start.cycle # 0 /\ end.cycle = 0 /\ end' = end
        /\ pc' = IF val = end.time THEN "start" ELSE "end"
    BY <1>7 DEF FreqStart, Freq, NoEnd, AgainStart
  <2>5. Edge(end.time)' = Edge(end.time)
    BY <2>4 DEF Edge
  <2>6. val = end.time => cycle < Edge(end.time) + CyclesPerTick + MaxStep
    BY <2>1, <2>2, <2>4 DEF InvRead
  <2>7. Edge(end.time) \in Nat
    BY <2>3, EdgeFacts
  <2> QED
    BY <2>1, <2>2, <2>3, <2>4, <2>5, <2>6, <2>7, ConstantFacts DEF InvFirstLoop
<1>8. CASE SampleEnd
  <2>1. /\ cycle \in Nat /\ cycle' \in Nat /\ cycle < cycle' /\ cycle' <= cycle + MaxStep
        /\ Mtime \in Nat /\ Mtime' \in Nat /\ Mtime <= Mtime' /\ NoCarry
    BY <1>8, ElapseFacts DEF SampleEnd
  <2>2. InvSamples /\ InvFirstLoop /\ InvSecondLoop /\ InvRead
    BY <2>1 DEF Inv, InvFreq
  <2>3. /\ start.cycle \in Nat /\ start.time \in Nat /\ end.cycle \in Nat /\ end.time \in Nat
        /\ val \in Nat /\ call.arg \in Nat
    BY DEF Inv, InvType
  <2>4. pc' = "first" /\ end' = [end EXCEPT !.cycle = cycle] /\ pc = "end"
    BY <1>8 DEF SampleEnd, Hart
  <2>5. end'.cycle = cycle /\ cycle # 0
    BY <2>1, <2>2, <2>4 DEF Inv, InvType, InvSamples
  <2> QED
    BY <2>4, <2>5 DEF InvFirstLoop
<1>9. CASE FreqEnd
  <2>4. pc' \in {"done", "end"}
    BY <1>9 DEF FreqEnd
  <2> QED
    BY <2>4 DEF InvFirstLoop
<1>10. CASE SleepTest
  BY <1>10 DEF SleepTest, Hart, Inv, InvType
<1>11. CASE SetCmpHigh
  BY <1>11 DEF SetCmpHigh, Hart, Inv, InvType
<1>12. CASE SetCmpLow
  BY <1>12 DEF SetCmpLow, Hart, Inv, InvType
<1>13. CASE EnableTimer
  BY <1>13 DEF EnableTimer, Hart, Inv, InvType
<1>14. CASE TimerTrap
  BY <1>14 DEF TimerTrap, Hart, Inv, InvType
<1>15. CASE WfiReturns
  BY <1>15 DEF WfiReturns, Hart, Inv, InvType
<1>16. CASE UNCHANGED vars
  BY <1>16 DEF vars, measured, Inv, InvFreq, InvFirstLoop, NoCarry, Mtime, Edge
<1> QED
  BY <1>1, <1>2, <1>3, <1>4, <1>5, <1>6, <1>7, <1>8, <1>9, <1>10, <1>11, <1>12, <1>13,
     <1>14, <1>15, <1>16 DEF Next, HartStep

\* The second loop ends at the first read of the target or of a later tick.
LEMMA SecondLoopStep ==
  ASSUME FirstHalf = "high"
  PROVE  Inv /\ [Next]_vars /\ call.fun = "get_core_freq" /\ NoCarry' => InvSecondLoop'
<1> SUFFICES ASSUME Inv, [Next]_vars, call.fun = "get_core_freq", NoCarry' PROVE InvSecondLoop'
  OBVIOUS
<1>1. CASE FirstRead
  <2>1. /\ cycle \in Nat /\ cycle' \in Nat /\ cycle < cycle' /\ cycle' <= cycle + MaxStep
        /\ Mtime \in Nat /\ Mtime' \in Nat /\ Mtime <= Mtime' /\ NoCarry
    BY <1>1, ElapseFacts DEF FirstRead
  <2>2. InvSamples /\ InvFirstLoop /\ InvSecondLoop /\ InvRead
    BY <2>1 DEF Inv, InvFreq
  <2>3. /\ start.cycle \in Nat /\ start.time \in Nat /\ end.cycle \in Nat /\ end.time \in Nat
        /\ val \in Nat /\ call.arg \in Nat
    BY DEF Inv, InvType
  <2>4. pc = "first" /\ pc' = "second" /\ UNCHANGED <<start, end, val, call>>
    BY <1>1 DEF FirstRead, Hart, measured
  <2>5. Near(start.cycle, start.time)' = Near(start.cycle, start.time)
        /\ Before(end.cycle)' = Before(end.cycle)
    BY <2>4 DEF Edge, Near, Before
  <2> QED
    BY <2>1, <2>2, <2>3, <2>4, <2>5, ConstantFacts DEF InvSecondLoop
<1>2. CASE SecondRead
  <2>1. /\ cycle \in Nat /\ cycle' \in Nat /\ cycle < cycle' /\ cycle' <= cycle + MaxStep
        /\ Mtime \in Nat /\ Mtime' \in Nat /\ Mtime <= Mtime' /\ NoCarry
    BY <1>2, ElapseFacts DEF SecondRead
  <2>2. InvSamples /\ InvFirstLoop /\ InvSecondLoop /\ InvRead
    BY <2>1 DEF Inv, InvFreq
  <2>3. /\ start.cycle \in Nat /\ start.time \in Nat /\ end.cycle \in Nat /\ end.time \in Nat
        /\ val \in Nat /\ call.arg \in Nat
    BY DEF Inv, InvType
  <2>4. pc = "second" /\ pc' = "use" /\ UNCHANGED <<start, end, call>>
    BY <1>2 DEF SecondRead, Hart, measured
  <2>5. Near(start.cycle, start.time)' = Near(start.cycle, start.time) /\ Edge(val)' = Edge(val')
    BY <2>4 DEF Edge, Near
  <2>6. val' = Mtime /\ val' \in Nat /\ val <= val'
    BY <1>2, <2>1, <2>2, SecondReadFacts DEF InvRead
  <2>7. Edge(val') <= cycle /\ Edge(val') \in Nat /\ Edge(val) \in Nat
        /\ (val < val' => Edge(val) + CyclesPerTick <= Edge(val'))
    BY <2>1, <2>3, <2>6, MtimeFacts, EdgeFacts
  <2>8. CASE end.cycle # 0
    <3>1. Before(end.cycle) /\ cycle <= end.cycle + 2 * MaxStep
      BY <2>2, <2>4, <2>8 DEF InvSecondLoop
    <3>2. start.time <= val' /\ Edge(val') <= end.cycle + 2 * MaxStep
      BY <2>1, <2>3, <2>6, <2>7, <3>1, ConstantFacts DEF Before
    <3>3. ASSUME start.time + call.arg <= val'
          PROVE  end.cycle < Edge(val') + 2 * MaxStep
                 \/ (val' = start.time /\ end.cycle <= start.cycle + 4 * MaxStep)
      <4>1. CASE val < val'
        BY <2>3, <2>7, <3>1, <4>1, ConstantFacts DEF Before
      <4>2. CASE val = val'
        BY <2>3, <3>1, <3>3, <4>2 DEF Before
      <4> QED
        BY <2>3, <2>6, <4>1, <4>2
    <3>4. Fits(val)' <=> (end.cycle < Edge(val') + 2 * MaxStep
                          \/ (val' = start.time /\ end.cycle <= start.cycle + 4 * MaxStep))
      BY <2>4, <2>5 DEF Fits, Edge
    <3> QED
      BY <2>2, <2>4, <2>5, <3>2, <3>3, <3>4 DEF InvSecondLoop
  <2>9. CASE end.cycle = 0
    BY <2>4, <2>9 DEF InvSecondLoop
  <2> QED
    BY <2>8, <2>9
<1>3. CASE SpinUntil
  BY <1>3 DEF SpinUntil, Hart, Inv, InvType
<1>4. CASE SpinTicks
  BY <1>4 DEF SpinTicks, TargetOpen, Inv, InvType
<1>5. CASE FreqFirst
  <2>4. pc' = "start" /\ end'.cycle = 0
    BY <1>5 DEF FreqFirst, Freq
  <2> QED
    BY <2>4 DEF InvSecondLoop
<1>6. CASE SampleStart
  <2>1. /\ cycle \in Nat /\ cycle' \in Nat /\ cycle < cycle' /\ cycle' <= cycle + MaxStep
        /\ Mtime \in Nat /\ Mtime' \in Nat /\ Mtime <= Mtime' /\ NoCarry
    BY <1>6, ElapseFacts DEF SampleStart
  <2>2. InvSamples /\ InvFirstLoop /\ InvSecondLoop /\ InvRead
    BY <2>1 DEF Inv, InvFreq
  <2>3. /\ start.cycle \in Nat /\ start.time \in Nat /\ end.cycle \in Nat /\ end.time \in Nat
        /\ val \in Nat /\ call.arg \in Nat
    BY DEF Inv, InvType
  <2>4. pc' = "first" /\ end'.cycle = 0
    BY <1>6, <2>2 DEF SampleStart, Hart, InvSamples
  <2> QED
    BY <2>4 DEF InvSecondLoop
<1>7. CASE FreqStart
  <2>1. /\ cycle \in Nat /\ cycle' \in Nat /\ cycle < cycle' /\ cycle' <= cycle + MaxStep
        /\ Mtime \in Nat /\ Mtime' \in Nat /\ Mtime <= Mtime' /\ NoCarry
    BY <1>7, ElapseFacts DEF FreqStart
  <2>2. InvSamples /\ InvFirstLoop /\ InvSecondLoop /\ InvRead
    BY <2>1 DEF Inv, InvFreq
  <2>3. /\ start.cycle \in Nat /\ start.time \in Nat /\ end.cycle \in Nat /\ end.time \in Nat
        /\ val \in Nat /\ call.arg \in Nat
    BY DEF Inv, InvType
  <2>4. pc = "use" /\ start.cycle # 0 /\ end.cycle = 0 /\ end' = end /\ UNCHANGED <<val, call>>
    BY <1>7 DEF FreqStart, Freq, NoEnd
  <2>5. CASE val = end.time
    <3>1. pc' = "start"
      BY <1>7, <2>5 DEF FreqStart, AgainStart
    <3> QED
      BY <2>4, <3>1 DEF InvSecondLoop
  <2>6. CASE val # end.time
    <3>1. pc' = "end" /\ start' = [start EXCEPT !.time = val]
      BY <1>7, <2>6 DEF FreqStart
    <3>2. start'.cycle = start.cycle /\ start'.time = val
      BY <3>1 DEF Inv, InvType
    <3>3. /\ end.time < val /\ Edge(val) <= start.cycle + 2 * MaxStep
          /\ start.cycle < Edge(end.time) + CyclesPerTick + 2 * MaxStep
          /\ cycle <= start.cycle + 3 * MaxStep
      BY <2>2, <2>3, <2>4, <2>6 DEF InvFirstLoop
    <3>4. Edge(val) \in Nat /\ Edge(end.time) \in Nat
          /\ Edge(end.time) + CyclesPerTick <= Edge(val)
      BY <2>3, <3>3, EdgeFacts
    <3>5. cycle < Edge(val) + CyclesPerTick + MaxStep
      BY <2>1, <2>2, <2>4 DEF InvRead
    <3>6. Near(start.cycle, val)
      BY <2>3, <3>3, <3>4, ConstantFacts DEF Near
    <3>7. Near(start.cycle, start.time)' <=> Near(start.cycle, val)
      BY <3>2 DEF Near, Edge
    <3>8. Before(cycle)'
      <4>1. cycle' < Edge(val) + CyclesPerTick + 2 * MaxStep /\ cycle' <= start.cycle + 4 * MaxStep
        BY <2>1, <2>3, <3>3, <3>4, <3>5, ConstantFacts
      <4> QED
        BY <2>3, <2>4, <3>2, <4>1 DEF Before, Edge
    <3> QED
      BY <2>4, <3>1, <3>6, <3>7, <3>8 DEF InvSecondLoop
  <2> QED
    BY <2>5, <2>6
<1>8. CASE SampleEnd
  <2>1. /\ cycle \in Nat /\ cycle' \in Nat /\ cycle < cycle' /\ cycle' <= cycle + MaxStep
        /\ Mtime \in Nat /\ Mtime' \in Nat /\ Mtime <= Mtime' /\ NoCarry
    BY <1>8, ElapseFacts DEF SampleEnd
  <2>2. InvSamples /\ InvFirstLoop /\ InvSecondLoop /\ InvRead
    BY <2>1 DEF Inv, InvFreq
  <2>3. /\ start.cycle \in Nat /\ start.time \in Nat /\ end.cycle \in Nat /\ end.time \in Nat
        /\ val \in Nat /\ call.arg \in Nat
    BY DEF Inv, InvType
  <2>4. /\ pc = "end" /\ pc' = "first" /\ end' = [end EXCEPT !.cycle = cycle]
        /\ UNCHANGED <<start, val, call>>
    BY <1>8 DEF SampleEnd, Hart
  <2>5. end'.cycle = cycle
    BY <2>4 DEF Inv, InvType
  <2>6. Near(start.cycle, start.time) /\ Before(cycle)
    BY <2>2, <2>4 DEF InvSecondLoop
  <2>7. Near(start.cycle, start.time)' /\ Before(end.cycle)'
    BY <2>4, <2>5, <2>6 DEF Near, Before, Edge
  <2> QED
    BY <2>1, <2>4, <2>5, <2>7 DEF InvSecondLoop
<1>9. CASE FreqEnd
  <2>1. /\ cycle \in Nat /\ cycle' \in Nat /\ cycle < cycle' /\ cycle' <= cycle + MaxStep
        /\ Mtime \in Nat /\ Mtime' \in Nat /\ Mtime <= Mtime' /\ NoCarry
    BY <1>9, ElapseFacts DEF FreqEnd
  <2>2. InvSamples /\ InvFirstLoop /\ InvSecondLoop /\ InvRead
    BY <2>1 DEF Inv, InvFreq
  <2>3. /\ start.cycle \in Nat /\ start.time \in Nat /\ end.cycle \in Nat /\ end.time \in Nat
        /\ val \in Nat /\ call.arg \in Nat
    BY DEF Inv, InvType
  <2>4. /\ pc = "use" /\ end.cycle # 0 /\ end' = [end EXCEPT !.time = val]
        /\ pc' = IF val >= start.time + call.arg THEN "done" ELSE "end"
        /\ UNCHANGED <<start, val, call>>
    BY <1>9 DEF FreqEnd, Freq, NoEnd, Reached
  <2>5. end'.cycle = end.cycle /\ end'.time = val
    BY <2>4 DEF Inv, InvType
  <2>6. /\ Near(start.cycle, start.time) /\ start.time <= val
        /\ Edge(val) <= end.cycle + 2 * MaxStep
        /\ start.time + call.arg <= val => Fits(val)
    BY <2>2, <2>4 DEF InvSecondLoop
  <2>7. Near(start.cycle, start.time)'
    BY <2>4, <2>6 DEF Near, Edge
  <2>8. CASE val >= start.time + call.arg
    <3>1. pc' = "done" /\ Fits(val)
      BY <2>3, <2>4, <2>6, <2>8
    <3>2. Fits(end.time)' /\ Edge(end.time)' = Edge(val)
      BY <2>4, <2>5, <3>1 DEF Fits, Edge
    <3> QED
      BY <2>3, <2>4, <2>5, <2>6, <2>7, <2>8, <3>1, <3>2 DEF InvSecondLoop
  <2>9. CASE ~(val >= start.time + call.arg)
    <3>1. pc' = "end" /\ val < start.time + call.arg
      BY <2>3, <2>4, <2>9
    <3>2. cycle < Edge(val) + CyclesPerTick + MaxStep /\ Edge(val) \in Nat
      BY <2>1, <2>2, <2>3, <2>4, EdgeFacts DEF InvRead
    <3>3. cycle' < Edge(val) + CyclesPerTick + 2 * MaxStep
      BY <2>1, <3>2, ConstantFacts
    <3>4. Before(cycle)'
      BY <2>4, <2>6, <3>1, <3>3 DEF Before, Edge
    <3> QED
      BY <2>7, <3>1, <3>4 DEF InvSecondLoop
  <2> QED
    BY <2>8, <2>9
<1>10. CASE SleepTest
  BY <1>10 DEF SleepTest, Hart, Inv, InvType
<1>11. CASE SetCmpHigh
  BY <1>11 DEF SetCmpHigh, Hart, Inv, InvType
<1>12. CASE SetCmpLow
  BY <1>12 DEF SetCmpLow, Hart, Inv, InvType
<1>13. CASE EnableTimer
  BY <1>13 DEF EnableTimer, Hart, Inv, InvType
<1>14. CASE TimerTrap
  BY <1>14 DEF TimerTrap, Hart, Inv, InvType
<1>15. CASE WfiReturns
  BY <1>15 DEF WfiReturns, Hart, Inv, InvType
<1>16. CASE UNCHANGED vars
  BY <1>16 DEF vars, measured, Inv, InvFreq, InvSecondLoop, Before, Fits, Near, NoCarry, Mtime, Edge
<1> QED
  BY <1>1, <1>2, <1>3, <1>4, <1>5, <1>6, <1>7, <1>8, <1>9, <1>10, <1>11, <1>12, <1>13,
     <1>14, <1>15, <1>16 DEF Next, HartStep

\* The measurement keeps its invariant.
LEMMA FreqStep ==
  ASSUME FirstHalf = "high"
  PROVE  Inv /\ [Next]_vars => InvFreq'
<1> SUFFICES ASSUME Inv, [Next]_vars, call'.fun = "get_core_freq"
             PROVE  InvSamples' /\ (NoCarry' => InvFirstLoop' /\ InvSecondLoop')
  BY DEF InvFreq
<1>1. call' = call
  BY DEF Next, HartStep, vars, FirstRead, SecondRead, SpinUntil, SpinTicks, FreqFirst, SampleStart,
     FreqStart, SampleEnd, FreqEnd, SleepTest, SetCmpHigh, SetCmpLow, EnableTimer, TimerTrap,
     WfiReturns
<1>2. call.fun = "get_core_freq"
  BY <1>1
<1> QED
  BY <1>2, SamplesStep, FirstLoopStep, SecondLoopStep

\* The invariant holds when a function is called.
LEMMA InvInit == Init => Inv
<1> SUFFICES ASSUME Init PROVE Inv
  OBVIOUS
<1>1. cycle \in Nat /\ cycle \in 0 .. MaxCycle /\ call \in [fun : Functions, arg : Nat]
  BY TimingAssumption, CallsAssumption DEF Init
<1>2. Mtime \in Nat
  BY <1>1, MtimeFacts
<1>3. InvType
  BY <1>1, <1>2 DEF Init, InvType, Sample, Locations, NoTarget
<1>4. InvRead
  BY <1>2 DEF Init, InvRead
<1>5. InvSpin
  <2>1. TargetOpen => InvOpen
    BY DEF Init, InvOpen
  <2>2. call.fun = "spin_until" => tgt = call.arg
    BY DEF Init
  <2>3. call.fun = "spin_ticks" => TargetOpen
    BY DEF Init, TargetOpen
  <2>4. pc # "done"
    BY DEF Init
  <2> QED
    BY <2>1, <2>2, <2>3, <2>4 DEF InvSpin
<1>6. InvFreq
  BY DEF Init, InvFreq, InvSamples, InvFirstLoop, InvSecondLoop, Sample
<1> QED
  BY <1>3, <1>4, <1>5, <1>6 DEF Inv

\* Every step keeps the invariant.
LEMMA InvNext ==
  ASSUME FirstHalf = "high"
  PROVE  Inv /\ [Next]_vars => Inv'
BY TypeStep, ReadStep, SpinStep, FreqStep DEF Inv

\* The invariant holds in every state of every behaviour.
THEOREM Invariance == ASSUME FirstHalf = "high" PROVE Spec => []Inv
<1>1. Inv /\ [Next]_vars => Inv'
  BY InvNext
<1> QED
  BY <1>1, InvInit, PTL DEF Spec

\* The variables keep their types, and clint_get_mtime never returns a time that
\* lies ahead.
THEOREM TypeCorrect == ASSUME FirstHalf = "high" PROVE Spec => []TypeOK
<1>1. Inv => TypeOK
  <2> SUFFICES ASSUME Inv PROVE TypeOK
    OBVIOUS
  <2>1. Mtime \in Nat
    BY MtimeFacts DEF Inv, InvType
  <2> QED
    BY <2>1 DEF Inv, InvType, InvRead, TypeOK, Locations
<1> QED
  BY <1>1, Invariance, PTL

\* clint_spin_until does not return before its time, wherever the low half rolls
\* over.  clint_spin_ticks does not return before its ticks have passed unless the
\* low half rolls over between the two reads it counts them from, and then less
\* than a turn of the low half too early.
THEOREM SpinsLongEnough == ASSUME FirstHalf = "high" PROVE Spec => []SpinNeverEarly
<1>1. Inv => SpinNeverEarly
  <2> SUFFICES ASSUME Inv PROVE SpinNeverEarly
    OBVIOUS
  <2>1. Mtime \in Nat /\ val \in Nat /\ val <= Mtime /\ t0 \in Nat /\ call.arg \in Nat
    BY MtimeFacts DEF Inv, InvType, InvRead
  <2>2. Done("spin_until") => call.arg <= val
    BY DEF Inv, InvSpin, Spinning, Done
  <2>3. ASSUME Done("spin_ticks")
        PROVE  IF torn THEN Mtime + HalfTicks > t0 + call.arg ELSE Mtime >= t0 + call.arg
    <3>1. /\ tgt <= val /\ t0 + call.arg < tgt + HalfTicks
          /\ (~torn => t0 + call.arg <= tgt) /\ tgt \in Nat
      BY <2>3 DEF Inv, InvType, InvSpin, Spinning, TargetOpen, Done
    <3> QED
      BY <2>1, <3>1, ConstantFacts
  <2> QED
    BY <2>1, <2>2, <2>3 DEF SpinNeverEarly
<1> QED
  BY <1>1, Invariance, PTL

\* clint_get_core_freq waits for the ticks asked for and counts their cycles up
\* to one round of its loop, if the high half does not change meanwhile.
THEOREM MeasuresAccurately == ASSUME FirstHalf = "high" PROVE Spec => []FreqAccurate
<1>1. Inv => FreqAccurate
  <2> DEFINE ticks == end.time - start.time
  <2> DEFINE error == (end.cycle - start.cycle) - ticks * CyclesPerTick
  <2> SUFFICES ASSUME Inv, Done("get_core_freq"), NoCarry
               PROVE  ticks >= call.arg /\ error \in -Round .. Round
    BY DEF FreqAccurate
  <2>1. /\ start.cycle \in Nat /\ start.time \in Nat /\ end.cycle \in Nat /\ end.time \in Nat
        /\ call.arg \in Nat
    BY DEF Inv, InvType
  <2>2. /\ Near(start.cycle, start.time) /\ start.time + call.arg <= end.time
        /\ Edge(end.time) <= end.cycle + 2 * MaxStep /\ Fits(end.time)
    BY DEF Inv, InvFreq, InvSamples, InvSecondLoop, Done
  <2>3. ticks * CyclesPerTick = Edge(end.time) - Edge(start.time)
    BY <2>1, ConstantFacts DEF Edge
  <2>4. Edge(end.time) \in Nat /\ Edge(start.time) \in Nat
    BY <2>1, EdgeFacts
  <2>5. ticks >= call.arg
    BY <2>1, <2>2
  <2> HIDE DEF ticks
  <2>6. error = (end.cycle - start.cycle) - (Edge(end.time) - Edge(start.time))
    BY <2>3
  <2>7. error \in Int /\ error <= 4 * MaxStep /\ -(4 * MaxStep) <= error
    <3> HIDE DEF error
    <3>1. CASE end.cycle < Edge(end.time) + 2 * MaxStep
      BY <2>1, <2>2, <2>4, <2>6, <3>1, ConstantFacts DEF Near
    <3>2. CASE end.time = start.time /\ end.cycle <= start.cycle + 4 * MaxStep
      BY <2>1, <2>2, <2>4, <2>6, <3>2, ConstantFacts DEF Near
    <3> QED
      BY <2>2, <3>1, <3>2 DEF Fits
  <2> QED
    BY <2>5, <2>7, ConstantFacts DEF Round
<1> QED
  BY <1>1, Invariance, PTL
=============================================================================
