----------------------------- MODULE DmaProofs ------------------------------
(***************************************************************************)
(* Proofs about Dma for any harts, calls, register width, FIFO depth and   *)
(* number of ids: the register front end with its FIFO and its ids         *)
(* implements the abstract service of CopyService.                         *)
(*                                                                         *)
(* The inductive invariant says why.  A hart that writes its arguments has *)
(* the turn (InvTurn), so the registers hold what it has stored so far     *)
(* (InvRegs), although they keep older values elsewhere; the job under way *)
(* has rows left or none (InvRows); and the id of a job is its place in    *)
(* line, counted from done_id modulo the ids (InvIds), which cannot be     *)
(* done_id itself before the job is retired.  Sizes, strides and           *)
(* repetitions are those the engine takes, 32 bits of each (Carried).      *)
(***************************************************************************)
EXTENDS Dma, SequenceTheorems, TLAPS

(***************************************************************************)
(* The inductive invariant.                                                *)
(***************************************************************************)

Storing(h) == pc[h] \in {"store", "launch"}

InvTurn == \A h \in Harts : Storing(h) => holder = h

\* The registers r hold the value of store s.
Held(r, s) ==
  IF s[1] = CONF THEN r[CONF] = s[2] ELSE r[s[1]] + Word * r[s[1] + 4] = s[2]

InvRegs ==
  \A h \in Harts : Storing(h) =>
    /\ pc[h] = "store" => stored[h] < Len(Stores(want[h]))
    /\ pc[h] = "launch" => stored[h] = Len(Stores(want[h]))
    /\ \A i \in 1 .. stored[h] : Held(regs, Stores(want[h])[i])

InvRows ==
  /\ job # None => job.args.size > 0 /\ row <= job.args.num_reps
  /\ \A i \in 1 .. Len(fifo) : fifo[i].args.size > 0

\* The id that comes k after done.
Id(k) == IF done + k < Ids THEN done + k ELSE done + k - Ids

\* The k-th accepted job j: if it was a blocking call, its owner waits for its id.
Awaited(j, k) == j.wait => pc[j.owner] = "wait" /\ tf_id[j.owner] = Id(k)

InvIds ==
  /\ next = Id(Ahead + Len(fifo) + 1)
  /\ job # None => Awaited(job, 1)
  /\ \A i \in 1 .. Len(fifo) : Awaited(fifo[i], Ahead + i)

Inv == TypeOK /\ InvTurn /\ InvRegs /\ InvRows /\ InvIds

(***************************************************************************)
(* Numbers.                                                                *)
(***************************************************************************)

\* The constants are numbers; there are more ids than jobs can be under way.
LEMMA ConstantFacts ==
  /\ FifoDepth \in Int /\ FifoDepth > 0
  /\ Word \in Int /\ Word > 1
  /\ Ids \in Int /\ Ids > FifoDepth + 2
BY SizesAssumption, IdsAssumption

\* Multiplication by a positive number keeps the order.
LEMMA ProductOrder ==
  ASSUME NEW B \in Int, B > 0, NEW m \in Int, NEW n \in Int
  PROVE  /\ B * m \in Int /\ B * n \in Int
         /\ m <= n => B * m <= B * n
         /\ m < n => B * m + B <= B * n
<1>1. m <= n => B * m <= B * n
  OBVIOUS
<1>2. m + 1 <= n => B * (m + 1) <= B * n
  OBVIOUS
<1>3. B * (m + 1) = B * m + B
  OBVIOUS
<1> QED
  BY <1>1, <1>2, <1>3

\* Quotient and remainder.
LEMMA DivMod ==
  ASSUME NEW B \in Int, B > 0, NEW a \in Int
  PROVE  /\ a \div B \in Int /\ a % B \in Int
         /\ a = B * (a \div B) + (a % B)
         /\ 0 <= a % B /\ a % B < B
OBVIOUS

\* The two halves of a value fit a register each, and make up the value.
LEMMA Halves ==
  ASSUME NEW v \in DoubleWord
  PROVE  /\ v % Word \in 0 .. Word - 1 /\ v \div Word \in 0 .. Word - 1
         /\ (v % Word) + Word * (v \div Word) = v
<1> DEFINE q == v \div Word
<1> DEFINE r == v % Word
<1>1. Word \in Int /\ Word > 1
  BY ConstantFacts
<1>2. v \in Int /\ 0 <= v /\ v < Word * Word /\ Word * Word \in Int
  BY <1>1 DEF DoubleWord
<1>3. q \in Int /\ r \in Int /\ v = Word * q + r /\ 0 <= r /\ r < Word /\ Word * q \in Int
  BY <1>1, <1>2, DivMod
<1> HIDE DEF q, r
<1>4. q < Word
  BY <1>1, <1>2, <1>3, ProductOrder
<1>5. 0 <= q
  <2> SUFFICES ASSUME q < 0 PROVE FALSE
    BY <1>3
  <2>1. Word * q + Word <= Word * 0
    BY <1>1, <1>3, ProductOrder
  <2>2. Word * 0 = 0
    BY <1>1
  <2> QED
    BY <1>1, <1>2, <1>3, <2>1, <2>2
<1>6. q \in 0 .. Word - 1 /\ r \in 0 .. Word - 1 /\ r + Word * q = v
  BY <1>1, <1>3, <1>4, <1>5
<1> QED
  BY <1>6 DEF q, r

\* Two registers hold a value of 64 bits.
LEMMA JoinRange ==
  ASSUME NEW l \in 0 .. Word - 1, NEW u \in 0 .. Word - 1
  PROVE  l + Word * u \in DoubleWord
<1>1. Word \in Int /\ Word > 1
  BY ConstantFacts
<1>2. u \in Int /\ 0 <= u /\ u < Word /\ l \in Int /\ 0 <= l /\ l < Word
  BY <1>1
<1>3. Word * u + Word <= Word * Word /\ Word * 0 <= Word * u /\ Word * u \in Int
      /\ Word * Word \in Int
  BY <1>1, <1>2, ProductOrder
<1>4. Word * 0 = 0
  BY <1>1
<1> QED
  BY <1>1, <1>2, <1>3, <1>4 DEF DoubleWord

\* Ids are counted modulo Ids.
LEMMA IdFacts ==
  ASSUME done \in 0 .. Ids - 1, NEW k \in 1 .. FifoDepth + 2
  PROVE  /\ Id(k) \in 0 .. Ids - 1
         /\ Id(k) # done
         /\ Bump(Id(k)) = Id(k + 1)
<1>1. \A x \in 0 .. Ids - 1 : (x + 1) % Ids = IF x + 1 < Ids THEN x + 1 ELSE 0
  BY ConstantFacts
<1> QED
  BY <1>1, ConstantFacts DEF Id, Bump

\* The counters keep their range.
LEMMA BumpFacts ==
  ASSUME NEW x \in 0 .. Ids - 1
  PROVE  Bump(x) \in 0 .. Ids - 1
BY ConstantFacts DEF Bump

\* Retiring a job moves every other one a place forward.
LEMMA IdShift ==
  ASSUME done \in 0 .. Ids - 1, done' = Bump(done), NEW k \in 1 .. FifoDepth + 2
  PROVE  Id(k)' = Id(k + 1) /\ done' = Id(1) /\ done' \in 0 .. Ids - 1
<1>1. \A x \in 0 .. Ids - 1 : (x + 1) % Ids = IF x + 1 < Ids THEN x + 1 ELSE 0
  BY ConstantFacts
<1> QED
  BY <1>1, ConstantFacts DEF Id, Bump

(***************************************************************************)
(* Registers.                                                              *)
(***************************************************************************)

\* The registers written by the stores of a call, other than CONF.
Wide == {DST_ADDR, SRC_ADDR, LENGTH, DST_STRIDE, SRC_STRIDE, REPS}

\* A store of one of the calls.
IsStore(s) ==
  \/ s[1] \in Wide /\ s[2] \in DoubleWord
  \/ s[1] = CONF /\ s[2] \in {0, 1}

\* No two registers of the front end overlap.
LEMMA OffsetFacts ==
  /\ CONF \in Offsets /\ CONF \notin Wide /\ CONF + 4 \notin Offsets
  /\ \A o \in Wide : o \in Offsets /\ o + 4 \in Offsets /\ o # CONF /\ o + 4 # CONF
  /\ \A o, p \in Wide : o # p => o # p + 4 /\ o + 4 # p + 4
  /\ \A o \in Wide : o # o + 4
  /\ \A o \in Wide : o # CONF + 4 /\ o + 4 # CONF + 4
BY DEF Offsets, Wide, CONF, DST_ADDR, SRC_ADDR, LENGTH, DST_STRIDE, SRC_STRIDE, REPS

\* A pair of registers holds 64 bits.
LEMMA ValueFacts ==
  ASSUME regs \in [Offsets -> 0 .. Word - 1], NEW o \in Wide
  PROVE  Value(o) \in DoubleWord
BY JoinRange, OffsetFacts DEF Value

\* What the stores of a call are.
LEMMA StoresFacts ==
  ASSUME NEW h \in Harts, NEW r \in Requests[h]
  PROVE  /\ r \in Request /\ Len(Stores(r)) \in Nat /\ Len(Stores(r)) > 0
         /\ \A i \in 1 .. Len(Stores(r)) : IsStore(Stores(r)[i])
         /\ \A i, j \in 1 .. Len(Stores(r)) : i # j => Stores(r)[i][1] # Stores(r)[j][1]
<1>1. r \in Request
  BY RequestsAssumption
<1>2. CASE r.twoD
  <2>1. Stores(r) = Stores2D(r.args) /\ r.args \in Arguments
    BY <1>1, <1>2 DEF Stores, Request
  <2>2. Len(Stores2D(r.args)) = 7
    BY DEF Stores2D
  <2> QED
    BY <1>1, <2>1, <2>2 DEF Stores2D, Arguments, IsStore, Wide, EnableNd, CONF, DST_ADDR, SRC_ADDR,
       LENGTH, DST_STRIDE, SRC_STRIDE, REPS
<1>3. CASE ~r.twoD
  <2>1. Stores(r) = Stores1D(r.args) /\ r.args \in Arguments
    BY <1>1, <1>3 DEF Stores, Request
  <2>2. Len(Stores1D(r.args)) = 4
    BY DEF Stores1D
  <2> QED
    BY <1>1, <2>1, <2>2 DEF Stores1D, Arguments, IsStore, Wide, CONF, DST_ADDR, SRC_ADDR,
       LENGTH, DST_STRIDE, SRC_STRIDE, REPS
<1> QED
  BY <1>2, <1>3

\* A store sets its register and leaves the others alone.
LEMMA WriteFacts ==
  ASSUME NEW r \in [Offsets -> 0 .. Word - 1], NEW s, IsStore(s)
  PROVE  /\ Write(r, s[1], s[2]) \in [Offsets -> 0 .. Word - 1]
         /\ Held(Write(r, s[1], s[2]), s)
         /\ \A t : (t[1] = CONF \/ t[1] \in Wide) /\ t[1] # s[1] /\ Held(r, t) =>
              Held(Write(r, s[1], s[2]), t)
<1> DEFINE w == Write(r, s[1], s[2])
<1>1. CASE s[1] \in Wide /\ s[2] \in DoubleWord
  <2> DEFINE l == s[2] % Word
  <2> DEFINE u == s[2] \div Word
  <2>1. l \in 0 .. Word - 1 /\ u \in 0 .. Word - 1 /\ l + Word * u = s[2]
    BY <1>1, Halves
  <2>2. w = [o \in Offsets |-> CASE o = s[1] -> l [] o = s[1] + 4 -> u [] OTHER -> r[o]]
    BY DEF Write
  <2> HIDE DEF l, u, w
  <2>3. w[s[1]] = l /\ w[s[1] + 4] = u
    BY <1>1, <2>2, OffsetFacts
  <2>4. \A o \in Offsets : o # s[1] /\ o # s[1] + 4 => w[o] = r[o]
    BY <2>2
  <2>5. w \in [Offsets -> 0 .. Word - 1]
    BY <2>1, <2>2
  <2>6. Held(w, s)
    BY <1>1, <2>1, <2>3, OffsetFacts DEF Held
  <2>7. ASSUME NEW t, t[1] = CONF \/ t[1] \in Wide, t[1] # s[1], Held(r, t)
        PROVE  Held(w, t)
    BY <1>1, <2>4, <2>7, OffsetFacts DEF Held
  <2> QED
    BY <2>5, <2>6, <2>7 DEF w
<1>2. CASE s[1] = CONF /\ s[2] \in {0, 1}
  <2>1. s[2] % Word = s[2] /\ s[2] \in 0 .. Word - 1
    BY <1>2, ConstantFacts
  <2>2. w = [o \in Offsets |-> CASE o = CONF -> s[2] [] OTHER -> r[o]]
    BY <1>2, <2>1, OffsetFacts DEF Write
  <2> HIDE DEF w
  <2>3. w[CONF] = s[2] /\ \A o \in Offsets : o # CONF => w[o] = r[o]
    BY <2>2, OffsetFacts
  <2>4. w \in [Offsets -> 0 .. Word - 1]
    BY <2>1, <2>2
  <2>5. Held(w, s)
    BY <1>2, <2>3 DEF Held
  <2>6. ASSUME NEW t, t[1] = CONF \/ t[1] \in Wide, t[1] # s[1], Held(r, t)
        PROVE  Held(w, t)
    BY <1>2, <2>3, <2>6, OffsetFacts DEF Held
  <2> QED
    BY <2>4, <2>5, <2>6 DEF w
<1> QED
  BY <1>1, <1>2 DEF IsStore

\* What is carried of the arguments of a call: addresses as they are, the rest in
\* 32 bits.
LEMMA CarriedFacts ==
  ASSUME NEW a \in Arguments
  PROVE  /\ Carried(a) \in Arguments
         /\ Carried(a).src = a.src /\ Carried(a).dst = a.dst
         /\ Carried(a).size = a.size % Word /\ Carried(a).num_reps = a.num_reps % Word
<1> DEFINE Cut(v) == v % Word
<1>1. \A v \in DoubleWord : Cut(v) \in DoubleWord
  <2>1. Word <= Word * Word /\ Word \in Int /\ Word > 1 /\ Word * Word \in Int
    <3>1. Word * 1 <= Word * Word /\ Word * 1 = Word /\ Word * Word \in Int
      BY ConstantFacts, ProductOrder
    <3> QED
      BY <3>1, ConstantFacts
  <2> DEFINE square == Word * Word
  <2>2. \A v \in DoubleWord : Cut(v) \in Int /\ 0 <= Cut(v) /\ Cut(v) < Word
    BY Halves, ConstantFacts
  <2> HIDE DEF square, Cut
  <2>3. DoubleWord = 0 .. square - 1 /\ Word <= square /\ square \in Int
    BY <2>1 DEF DoubleWord, square
  <2> QED
    BY <2>1, <2>2, <2>3
<1>2. Carried(a) = [a EXCEPT !.size = Cut(@), !.src_stride = Cut(@), !.dst_stride = Cut(@),
                             !.num_reps = Cut(@)]
  BY DEF Carried
<1>3. a.size % Word = Cut(a.size) /\ a.num_reps % Word = Cut(a.num_reps)
  OBVIOUS
<1> HIDE DEF Cut
<1> QED
  BY <1>1, <1>2, <1>3 DEF Arguments

\* What the front end makes of its registers is of the right type.
LEMMA LatchedType ==
  ASSUME regs \in [Offsets -> 0 .. Word - 1]
  PROVE  Latched \in Arguments
<1>1. \A o \in Wide : Value(o) \in DoubleWord
  BY ValueFacts
<1>2. {DST_ADDR, SRC_ADDR, LENGTH, DST_STRIDE, SRC_STRIDE, REPS} \subseteq Wide
  BY DEF Wide
<1>3. 1 \in DoubleWord
  <2>1. Word * 1 <= Word * Word /\ Word * 1 = Word /\ Word * Word \in Int
    BY ConstantFacts, ProductOrder
  <2> QED
    BY <2>1, ConstantFacts DEF DoubleWord
<1> DEFINE a == [src |-> Value(SRC_ADDR), dst |-> Value(DST_ADDR), size |-> Value(LENGTH),
                 src_stride |-> Value(SRC_STRIDE), dst_stride |-> Value(DST_STRIDE),
                 num_reps |-> IF regs[CONF] = EnableNd THEN Value(REPS) ELSE 1]
<1>4. a \in Arguments
  BY <1>1, <1>2, <1>3 DEF Arguments
<1>5. Latched = Carried(a)
  BY DEF Latched
<1> HIDE DEF a
<1> QED
  BY <1>4, <1>5, CarriedFacts

\* The arguments of a job are natural numbers.
LEMMA JobFacts ==
  ASSUME NEW j \in Job
  PROVE  /\ j.args \in Arguments /\ j.owner \in Harts /\ j.wait \in BOOLEAN
         /\ \A f \in {"src", "dst", "size", "src_stride", "dst_stride", "num_reps"} :
              j.args[f] \in Nat
<1>1. j.args \in Arguments /\ j.owner \in Harts /\ j.wait \in BOOLEAN
  BY DEF Job
<1>2. DoubleWord \subseteq Nat
  BY DEF DoubleWord
<1>3. /\ j.args.src \in Nat /\ j.args.dst \in Nat /\ j.args.size \in Nat
      /\ j.args.src_stride \in Nat /\ j.args.dst_stride \in Nat /\ j.args.num_reps \in Nat
  BY <1>1, <1>2 DEF Arguments
<1> QED
  BY <1>1, <1>3

\* Rows depend on few of the arguments of a copy without strides.
LEMMA OneRow ==
  ASSUME NEW a \in Arguments, NEW b \in Arguments, a.src = b.src, a.dst = b.dst,
         a.size = b.size, a.num_reps = 1, b.num_reps = 1
  PROVE  RowsFrom(a, 0) = RowsFrom(b, 0)
<1>1. RowsFrom(a, 0) = Row(a, 0) /\ RowsFrom(b, 0) = Row(b, 0)
  BY DEF RowsFrom
<1>2. 0 * a.dst_stride = 0 /\ 0 * b.dst_stride = 0 /\ 0 * a.src_stride = 0 /\ 0 * b.src_stride = 0
  BY DEF Arguments, DoubleWord
<1>3. Row(a, 0) = Row(b, 0)
  BY <1>2 DEF Row
<1> QED
  BY <1>1, <1>3

\* The job that is launched is what the hart was called for, whatever the calls
\* before it left in the registers that a 1D call does not write.
LEMMA LatchedFacts ==
  ASSUME TypeOK, InvRegs, NEW h \in Harts, pc[h] = "launch"
  PROVE  /\ Latched \in Arguments
         /\ Latched.size > 0
         /\ RowsFrom(Latched, 0) = RowsFrom(Carried(want[h].args), 0)
<1> DEFINE r == want[h]
<1>1. /\ r \in Requests[h] /\ r \in Request /\ r.args \in Arguments
      /\ Carried(r.args).size > 0 /\ (~r.twoD => r.args.num_reps = 1)
  BY RequestsAssumption DEF TypeOK, Request
<1>2. Latched \in Arguments
  BY LatchedType DEF TypeOK
<1>3. \A i \in 1 .. Len(Stores(r)) : Held(regs, Stores(r)[i])
  BY DEF InvRegs, Storing
<1>4. CASE r.twoD
  <2>1. Stores(r) = Stores2D(r.args) /\ Len(Stores2D(r.args)) = 7
    BY <1>4 DEF Stores, Stores2D
  <2>2. /\ Held(regs, <<SRC_ADDR, r.args.src>>) /\ Held(regs, <<DST_ADDR, r.args.dst>>)
        /\ Held(regs, <<LENGTH, r.args.size>>) /\ Held(regs, <<CONF, EnableNd>>)
        /\ Held(regs, <<SRC_STRIDE, r.args.src_stride>>) /\ Held(regs, <<DST_STRIDE, r.args.dst_stride>>)
        /\ Held(regs, <<REPS, r.args.num_reps>>)
    BY <1>3, <2>1 DEF Stores2D
  <2>3. /\ Value(SRC_ADDR) = r.args.src /\ Value(DST_ADDR) = r.args.dst
        /\ Value(LENGTH) = r.args.size /\ regs[CONF] = EnableNd
        /\ Value(SRC_STRIDE) = r.args.src_stride /\ Value(DST_STRIDE) = r.args.dst_stride
        /\ Value(REPS) = r.args.num_reps
    BY <2>2 DEF Held, Value, CONF, DST_ADDR, SRC_ADDR, LENGTH, DST_STRIDE, SRC_STRIDE, REPS
  <2>4. r.args = [src |-> Value(SRC_ADDR), dst |-> Value(DST_ADDR), size |-> Value(LENGTH),
                  src_stride |-> Value(SRC_STRIDE), dst_stride |-> Value(DST_STRIDE),
                  num_reps |-> IF regs[CONF] = EnableNd THEN Value(REPS) ELSE 1]
    BY <1>1, <2>3 DEF Arguments
  <2>5. Latched = Carried(r.args)
    BY <2>4 DEF Latched
  <2> QED
    BY <1>1, <1>2, <2>5
<1>5. CASE ~r.twoD
  <2>1. Stores(r) = Stores1D(r.args) /\ Len(Stores1D(r.args)) = 4
    BY <1>5 DEF Stores, Stores1D
  <2>2. /\ Held(regs, <<SRC_ADDR, r.args.src>>) /\ Held(regs, <<DST_ADDR, r.args.dst>>)
        /\ Held(regs, <<LENGTH, r.args.size>>) /\ Held(regs, <<CONF, 0>>)
    BY <1>3, <2>1 DEF Stores1D
  <2>3. /\ Value(SRC_ADDR) = r.args.src /\ Value(DST_ADDR) = r.args.dst
        /\ Value(LENGTH) = r.args.size /\ regs[CONF] = 0
    BY <2>2 DEF Held, Value, CONF, DST_ADDR, SRC_ADDR, LENGTH
  <2>4. 1 % Word = 1
    BY ConstantFacts
  <2>5. /\ Latched.src = r.args.src /\ Latched.dst = r.args.dst
        /\ Latched.size = r.args.size % Word /\ Latched.num_reps = 1
    BY <2>3, <2>4 DEF Latched, Carried, EnableNd
  <2>6. /\ Carried(r.args) \in Arguments /\ Carried(r.args).num_reps = 1
        /\ Carried(r.args).src = r.args.src /\ Carried(r.args).dst = r.args.dst
        /\ Carried(r.args).size = r.args.size % Word
    BY <1>1, <1>5, <2>4, CarriedFacts
  <2>7. RowsFrom(Latched, 0) = RowsFrom(Carried(r.args), 0)
    BY <1>2, <2>5, <2>6, OneRow
  <2> QED
    BY <1>1, <1>2, <2>5, <2>6, <2>7
<1> QED
  BY <1>4, <1>5

(***************************************************************************)
(* The steps keep the invariant.                                           *)
(***************************************************************************)

\* The job a hart launches.
NewJob(h) == [args |-> Latched, owner |-> h, wait |-> want[h].wait]

\* The FIFO after a launch.
LEMMA LaunchFacts ==
  ASSUME Inv, NEW h \in Harts, Launch(h)
  PROVE  /\ NewJob(h) \in Job
         /\ fifo' = Append(fifo, NewJob(h)) /\ fifo' \in Seq(Job) /\ Len(fifo') = Len(fifo) + 1
         /\ Len(fifo) < FifoDepth
         /\ \A i \in 1 .. Len(fifo) : fifo'[i] = fifo[i]
         /\ fifo'[Len(fifo) + 1] = NewJob(h)
<1>1. pc[h] = "launch" /\ TypeOK /\ InvRegs
  BY DEF Launch, Transition, Inv
<1>2. NewJob(h) \in Job
  BY <1>1, LatchedFacts DEF NewJob, Job, TypeOK, Request
<1>3. fifo \in Seq(Job) /\ fifo' = Append(fifo, NewJob(h)) /\ Len(fifo) < FifoDepth
  BY <1>1 DEF Launch, NewJob, TypeOK
<1> QED
  BY <1>2, <1>3, AppendProperties

\* The FIFO after the engine has taken a job out of it.
LEMMA TakeJobFacts ==
  ASSUME Inv, TakeJob
  PROVE  /\ job = None /\ job' = fifo[1] /\ job' \in Job /\ job' # None
         /\ fifo # <<>> /\ fifo' \in Seq(Job) /\ Len(fifo) \in Nat /\ Len(fifo) >= 1
         /\ Len(fifo') = Len(fifo) - 1
         /\ \A i \in 1 .. Len(fifo') : fifo'[i] = fifo[i + 1]
<1>1. fifo \in Seq(Job) /\ fifo # <<>> /\ job = None /\ job' = Head(fifo) /\ fifo' = Tail(fifo)
  BY DEF TakeJob, Inv, TypeOK
<1>2. Len(fifo) \in Nat /\ Len(fifo) >= 1
  BY <1>1, EmptySeq
<1> QED
  BY <1>1, <1>2, HeadTailProperties, NoneAssumption

\* A store of the hart that has the turn.
LEMMA StoreFacts ==
  ASSUME Inv, NEW h \in Harts, Store(h)
  PROVE  /\ stored[h] \in Nat /\ stored[h] + 1 \in 1 .. Len(Stores(want[h]))
         /\ want[h] \in Requests[h] /\ want' = want
         /\ stored' = [stored EXCEPT ![h] = stored[h] + 1]
         /\ IsStore(Stores(want[h])[stored[h] + 1])
         /\ regs' = Write(regs, Stores(want[h])[stored[h] + 1][1],
                          Stores(want[h])[stored[h] + 1][2])
         /\ regs' \in [Offsets -> 0 .. Word - 1]
<1>1. want[h] \in Requests[h] /\ stored[h] \in Nat /\ pc[h] = "store" /\ want' = want
      /\ regs \in [Offsets -> 0 .. Word - 1]
  BY DEF Store, Transition, Inv, TypeOK
<1>2. stored[h] < Len(Stores(want[h])) /\ Len(Stores(want[h])) \in Nat
  BY <1>1, StoresFacts DEF Inv, InvRegs, Storing
<1>3. stored[h] + 1 \in 1 .. Len(Stores(want[h]))
  BY <1>1, <1>2
<1>4. IsStore(Stores(want[h])[stored[h] + 1])
  BY <1>1, <1>3, StoresFacts
<1>5. regs' = Write(regs, Stores(want[h])[stored[h] + 1][1], Stores(want[h])[stored[h] + 1][2])
      /\ stored' = [stored EXCEPT ![h] = stored[h] + 1]
  BY DEF Store
<1>6. regs' \in [Offsets -> 0 .. Word - 1]
  BY <1>1, <1>4, <1>5, WriteFacts
<1> QED
  BY <1>1, <1>3, <1>4, <1>5, <1>6

\* Every step keeps the types, and the FIFO within its depth.
LEMMA TypeStep == Inv /\ [Next]_vars => TypeOK'
<1> SUFFICES ASSUME Inv, [Next]_vars PROVE TypeOK'
  OBVIOUS
<1> USE DEF Transition
<1>1. ASSUME NEW h \in Harts, Call(h) PROVE TypeOK'
  <2>1. PICK r \in Requests[h] : want' = [want EXCEPT ![h] = r]
    BY <1>1 DEF Call
  <2>2. r \in Request
    BY <2>1, RequestsAssumption
  <2>3. \A k \in Harts : want'[k] \in Requests[k] /\ stored'[k] <= Len(Stores(want'[k]))
    <3>1. want'[h] = r /\ stored'[h] = 0
      BY <1>1, <2>1 DEF Call, Inv, TypeOK
    <3>2. 0 <= Len(Stores(r))
      BY <2>1, StoresFacts
    <3> QED
      BY <1>1, <2>1, <3>1, <3>2 DEF Call, Inv, TypeOK
  <2>4. want' \in [Harts -> Request]
    BY <2>1, <2>2 DEF Inv, TypeOK
  <2>5. pc' \in [Harts -> {"idle", "store", "launch", "wait"}]
    BY <1>1 DEF Call, Inv, TypeOK
  <2>6. stored' \in [Harts -> Nat]
    BY <1>1 DEF Call, Inv, TypeOK
  <2> QED
    BY <1>1, <2>3, <2>4, <2>5, <2>6 DEF Call, Inv, TypeOK
<1>2. ASSUME NEW h \in Harts, Store(h) PROVE TypeOK'
  <2>0. /\ want' = want /\ stored' = [stored EXCEPT ![h] = stored[h] + 1]
        /\ stored[h] \in Nat /\ stored[h] + 1 \in 1 .. Len(Stores(want[h]))
        /\ want[h] \in Requests[h] /\ Len(Stores(want[h])) \in Nat
    BY <1>2, StoreFacts, StoresFacts
  <2>1. \A k \in Harts : want'[k] \in Requests[k] /\ stored'[k] <= Len(Stores(want'[k]))
    BY <2>0 DEF Inv, TypeOK
  <2>2. pc' \in [Harts -> {"idle", "store", "launch", "wait"}]
    BY <1>2 DEF Store, Inv, TypeOK
  <2>3. stored' \in [Harts -> Nat]
    BY <2>0 DEF Inv, TypeOK
  <2>4. regs' \in [Offsets -> 0 .. Word - 1]
    BY <1>2, StoreFacts
  <2> QED
    BY <1>2, <2>1, <2>2, <2>3, <2>4 DEF Store, engineVars, Inv, TypeOK
<1>3. ASSUME NEW h \in Harts, Launch(h) PROVE TypeOK'
  <2>1. fifo' \in Seq(Job) /\ Len(fifo') <= FifoDepth
    BY <1>3, LaunchFacts, ConstantFacts DEF Inv, TypeOK
  <2>2. Bump(next) \in 0 .. Ids - 1
    BY BumpFacts DEF Inv, TypeOK
  <2>3. pc' \in [Harts -> {"idle", "store", "launch", "wait"}]
    BY <1>3 DEF Launch, Inv, TypeOK
  <2> QED
    BY <1>3, <2>1, <2>2, <2>3 DEF Launch, NextId, Inv, TypeOK
<1>4. ASSUME NEW h \in Harts, Return(h) PROVE TypeOK'
  BY <1>4 DEF Return, engineVars, Inv, TypeOK
<1>5. CASE TakeJob
  <2>1. fifo' \in Seq(Job) /\ Len(fifo') <= FifoDepth /\ job' \in Job
    BY <1>5, TakeJobFacts, ConstantFacts DEF Inv, TypeOK
  <2> QED
    BY <1>5, <2>1 DEF TakeJob, hartVars, Inv, TypeOK
<1>6. CASE CopyRow
  BY <1>6 DEF CopyRow, hartVars, Inv, TypeOK
<1>7. CASE Retire
  <2>1. Bump(done) \in 0 .. Ids - 1
    BY BumpFacts DEF Inv, TypeOK
  <2> QED
    BY <1>7, <2>1 DEF Retire, hartVars, Inv, TypeOK
<1>8. CASE UNCHANGED vars
  BY <1>8 DEF vars, hartVars, engineVars, Inv, TypeOK
<1> QED
  BY <1>1, <1>2, <1>3, <1>4, <1>5, <1>6, <1>7, <1>8 DEF Next, Hart, Engine

\* A hart takes the turn when nobody has it, and gives it up when it has launched.
LEMMA TurnStep == Inv /\ [Next]_vars => InvTurn'
<1> SUFFICES ASSUME Inv, [Next]_vars PROVE InvTurn'
  OBVIOUS
<1> USE DEF Transition, Inv, InvTurn, Storing, TypeOK
<1>1. ASSUME NEW h \in Harts, Call(h) PROVE InvTurn'
  BY <1>1, NoneAssumption DEF Call
<1>2. ASSUME NEW h \in Harts, Store(h) PROVE InvTurn'
  BY <1>2 DEF Store
<1>3. ASSUME NEW h \in Harts, Launch(h) PROVE InvTurn'
  <2>1. \A k \in Harts \ {h} : ~Storing(k)
    BY <1>3 DEF Launch
  <2>2. \A k \in Harts : ~Storing(k)'
    BY <1>3, <2>1 DEF Launch
  <2> QED
    BY <2>2
<1>4. ASSUME NEW h \in Harts, Return(h) PROVE InvTurn'
  BY <1>4 DEF Return
<1>5. CASE TakeJob
  BY <1>5 DEF TakeJob, hartVars
<1>6. CASE CopyRow
  BY <1>6 DEF CopyRow, hartVars
<1>7. CASE Retire
  BY <1>7 DEF Retire, hartVars
<1>8. CASE UNCHANGED vars
  BY <1>8 DEF vars, hartVars
<1> QED
  BY <1>1, <1>2, <1>3, <1>4, <1>5, <1>6, <1>7, <1>8 DEF Next, Hart, Engine

\* A step that leaves a hart's own variables and the registers alone.
LEMMA RegsFrame ==
  ASSUME InvRegs, UNCHANGED <<pc, want, stored, regs>>
  PROVE  InvRegs'
BY DEF InvRegs, Storing

\* The registers hold the stores of the call under way.
LEMMA RegsStep == Inv /\ [Next]_vars => InvRegs'
<1> SUFFICES ASSUME Inv, [Next]_vars PROVE InvRegs'
  OBVIOUS
<1> USE DEF Transition, Inv
<1>1. ASSUME NEW h \in Harts, Call(h) PROVE InvRegs'
  <2>1. PICK r \in Requests[h] : want' = [want EXCEPT ![h] = r]
    BY <1>1 DEF Call
  <2>2. \A k \in Harts \ {h} : ~Storing(k)'
    BY <1>1, NoneAssumption DEF Call, InvTurn, Storing, TypeOK
  <2>3. pc'[h] = "store" /\ stored'[h] = 0 /\ want'[h] = r /\ Len(Stores(r)) > 0
    BY <1>1, <2>1, StoresFacts DEF Call, TypeOK
  <2>4. \A i \in 1 .. stored'[h] : Held(regs', Stores(want'[h])[i])
    BY <2>3
  <2> QED
    BY <2>2, <2>3, <2>4 DEF InvRegs, Storing
<1>2. ASSUME NEW h \in Harts, Store(h) PROVE InvRegs'
  <2> DEFINE s == Stores(want[h])
  <2> DEFINE n == stored[h] + 1
  <2>1. n \in 1 .. Len(s) /\ want[h] \in Requests[h] /\ want' = want /\ stored[h] \in Nat
        /\ stored' = [stored EXCEPT ![h] = n] /\ IsStore(s[n])
        /\ regs' = Write(regs, s[n][1], s[n][2])
    BY <1>2, StoreFacts
  <2>2. /\ \A i \in 1 .. Len(s) : IsStore(s[i])
        /\ \A i, j \in 1 .. Len(s) : i # j => s[i][1] # s[j][1]
        /\ Len(s) \in Nat
    BY <2>1, StoresFacts
  <2>3. \A i \in 1 .. stored[h] : Held(regs, s[i])
    BY <1>2 DEF Store, InvRegs, Storing
  <2>4. pc[h] = "store" /\ pc' = [pc EXCEPT ![h] = IF n = Len(s) THEN "launch" ELSE "store"]
    BY <1>2 DEF Store
  <2>5. regs \in [Offsets -> 0 .. Word - 1] /\ pc'[h] = (IF n = Len(s) THEN "launch" ELSE "store")
        /\ stored'[h] = n
    BY <2>1, <2>4 DEF TypeOK
  <2>6. \A k \in Harts \ {h} : ~Storing(k)'
    BY <2>4 DEF InvTurn, Storing, TypeOK
  <2> HIDE DEF s
  <2>7. /\ Held(regs', s[n])
        /\ \A t : (t[1] = CONF \/ t[1] \in Wide) /\ t[1] # s[n][1] /\ Held(regs, t) => Held(regs', t)
    BY <2>1, <2>5, WriteFacts
  <2>8. ASSUME NEW i \in 1 .. stored[h] PROVE Held(regs', s[i])
    <3>1. i \in 1 .. Len(s) /\ i # n
      BY <2>1, <2>2
    <3>2. s[i][1] # s[n][1] /\ (s[i][1] = CONF \/ s[i][1] \in Wide)
      BY <2>1, <2>2, <3>1 DEF IsStore
    <3> QED
      BY <2>3, <2>7, <3>2
  <2>9. \A i \in 1 .. n : Held(regs', s[i])
    BY <2>1, <2>7, <2>8
  <2>10. s = Stores(want'[h])
    BY <2>1 DEF s
  <2> QED
    BY <2>1, <2>2, <2>5, <2>6, <2>9, <2>10 DEF InvRegs, Storing
<1>3. ASSUME NEW h \in Harts, Launch(h) PROVE InvRegs'
  <2>1. \A k \in Harts : ~Storing(k)'
    BY <1>3 DEF Launch, InvTurn, Storing, TypeOK
  <2> QED
    BY <2>1 DEF InvRegs
<1>4. ASSUME NEW h \in Harts, Return(h) PROVE InvRegs'
  <2>1. \A k \in Harts : Storing(k)' => Storing(k) /\ pc'[k] = pc[k]
    BY <1>4 DEF Return, Storing, TypeOK
  <2> QED
    BY <1>4, <2>1 DEF Return, InvRegs, Storing, engineVars
<1>5. CASE TakeJob
  BY <1>5, RegsFrame DEF TakeJob, hartVars
<1>6. CASE CopyRow
  BY <1>6, RegsFrame DEF CopyRow, hartVars
<1>7. CASE Retire
  BY <1>7, RegsFrame DEF Retire, hartVars
<1>8. CASE UNCHANGED vars
  BY <1>8, RegsFrame DEF vars, hartVars
<1> QED
  BY <1>1, <1>2, <1>3, <1>4, <1>5, <1>6, <1>7, <1>8 DEF Next, Hart, Engine

\* Jobs are never empty, and no row is copied beyond the last.
LEMMA RowsStep == Inv /\ [Next]_vars => InvRows'
<1> SUFFICES ASSUME Inv, [Next]_vars PROVE InvRows'
  OBVIOUS
<1> USE DEF Inv, InvRows
<1>1. ASSUME NEW h \in Harts, Call(h) PROVE InvRows'
  BY <1>1 DEF Call
<1>2. ASSUME NEW h \in Harts, Store(h) PROVE InvRows'
  BY <1>2 DEF Store, engineVars
<1>3. ASSUME NEW h \in Harts, Launch(h) PROVE InvRows'
  <2>1. pc[h] = "launch" /\ Len(fifo) \in Nat
    BY <1>3 DEF Launch, Transition, TypeOK
  <2>2. NewJob(h).args.size > 0
    BY <2>1, LatchedFacts DEF NewJob
  <2>3. Len(fifo') = Len(fifo) + 1 /\ (\A i \in 1 .. Len(fifo) : fifo'[i] = fifo[i])
        /\ fifo'[Len(fifo) + 1] = NewJob(h)
    BY <1>3, LaunchFacts
  <2>4. \A i \in 1 .. Len(fifo') : fifo'[i].args.size > 0
    BY <2>1, <2>2, <2>3
  <2> QED
    BY <1>3, <2>4 DEF Launch
<1>4. ASSUME NEW h \in Harts, Return(h) PROVE InvRows'
  BY <1>4 DEF Return, engineVars
<1>5. CASE TakeJob
  <2>1. job'.args.num_reps \in Nat /\ row' = 0
    <3>1. job' \in Job
      BY <1>5, TakeJobFacts
    <3> QED
      BY <1>5, <3>1, JobFacts DEF TakeJob
  <2>2. job'.args.size > 0
    BY <1>5, TakeJobFacts
  <2>3. \A i \in 1 .. Len(fifo') : fifo'[i].args.size > 0
    BY <1>5, TakeJobFacts
  <2> QED
    BY <2>1, <2>2, <2>3
<1>6. CASE CopyRow
  <2>1. job.args.num_reps \in Nat /\ row \in Nat
    BY <1>6, JobFacts DEF CopyRow, TypeOK
  <2> QED
    BY <1>6, <2>1 DEF CopyRow
<1>7. CASE Retire
  BY <1>7 DEF Retire
<1>8. CASE UNCHANGED vars
  BY <1>8 DEF vars, engineVars
<1> QED
  BY <1>1, <1>2, <1>3, <1>4, <1>5, <1>6, <1>7, <1>8 DEF Next, Hart, Engine

\* A hart that does not wait moves: whoever waits goes on waiting.
LEMMA AwaitedFrame ==
  ASSUME TypeOK, NEW h \in Harts, pc[h] # "wait", done' = done,
         NEW s, pc' = [pc EXCEPT ![h] = s], NEW v, tf_id' = [tf_id EXCEPT ![h] = v]
  PROVE  \A j \in Job : \A k : Awaited(j, k) => Awaited(j, k)'
BY DEF Awaited, Id, Job, TypeOK

\* A step that leaves engine, ids and program counters alone.
LEMMA IdsFrame ==
  ASSUME InvIds, UNCHANGED <<pc, tf_id, fifo, job, next, done>>
  PROVE  InvIds'
BY DEF InvIds, Awaited, Id, Ahead

\* Ids count the accepted jobs: a job is the k-th in line if its id is k ahead of
\* done_id.
LEMMA IdsStep == Inv /\ [Next]_vars => InvIds'
<1> SUFFICES ASSUME Inv, [Next]_vars PROVE InvIds'
  OBVIOUS
<1> USE DEF Inv
<1>0. /\ Len(fifo) \in Nat /\ Len(fifo) <= FifoDepth /\ Ahead \in {0, 1}
      /\ job # None => job \in Job /\ Ahead = 1
      /\ \A i \in 1 .. Len(fifo) : fifo[i] \in Job
      /\ done \in 0 .. Ids - 1
  BY DEF TypeOK, Ahead
<1>1. ASSUME NEW h \in Harts, Call(h) PROVE InvIds'
  <2>1. pc[h] # "wait" /\ done' = done /\ pc' = [pc EXCEPT ![h] = "store"] /\ tf_id' = tf_id
    BY <1>1 DEF Call, Transition
  <2>2. tf_id' = [tf_id EXCEPT ![h] = tf_id[h]]
    BY <2>1 DEF TypeOK
  <2>3. \A j \in Job : \A k : Awaited(j, k) => Awaited(j, k)'
    BY <2>1, <2>2, AwaitedFrame
  <2>4. UNCHANGED <<fifo, job, next, done, Ahead>> /\ \A k : Id(k)' = Id(k)
    BY <1>1 DEF Call, Ahead, Id
  <2> QED
    BY <1>0, <2>3, <2>4 DEF InvIds
<1>2. ASSUME NEW h \in Harts, Store(h) PROVE InvIds'
  <2> DEFINE to == IF stored[h] + 1 = Len(Stores(want[h])) THEN "launch" ELSE "store"
  <2>1. pc[h] # "wait" /\ done' = done /\ pc' = [pc EXCEPT ![h] = to] /\ tf_id' = tf_id
    BY <1>2 DEF Store, Transition, engineVars
  <2>2. tf_id' = [tf_id EXCEPT ![h] = tf_id[h]]
    BY <2>1 DEF TypeOK
  <2> HIDE DEF to
  <2>3. \A j \in Job : \A k : Awaited(j, k) => Awaited(j, k)'
    BY <2>1, <2>2, AwaitedFrame
  <2>4. UNCHANGED <<fifo, job, next, done, Ahead>> /\ \A k : Id(k)' = Id(k)
    BY <1>2 DEF Store, Ahead, Id, engineVars
  <2> QED
    BY <1>0, <2>3, <2>4 DEF InvIds
<1>3. ASSUME NEW h \in Harts, Launch(h) PROVE InvIds'
  <2> DEFINE to == IF want[h].wait THEN "wait" ELSE "idle"
  <2> DEFINE n == Len(fifo)
  <2>1. pc[h] # "wait" /\ done' = done /\ pc' = [pc EXCEPT ![h] = to]
        /\ tf_id' = [tf_id EXCEPT ![h] = next]
    BY <1>3 DEF Launch, Transition, NextId
  <2>2. pc'[h] = to /\ tf_id'[h] = next
    BY <2>1 DEF TypeOK
  <2>3. \A j \in Job, k \in Nat : j = NewJob(h) /\ k = Ahead + n + 1 => Awaited(j, k)'
    <3>1. next = Id(Ahead + n + 1) /\ \A k : Id(k)' = Id(k)
      BY <1>3 DEF Launch, Id, InvIds
    <3>2. NewJob(h).owner = h /\ NewJob(h).wait = want[h].wait
      BY DEF NewJob
    <3>3. want[h].wait => pc'[h] = "wait" /\ tf_id'[h] = Id(Ahead + n + 1)
      BY <2>2, <3>1
    <3> QED
      BY <3>1, <3>2, <3>3 DEF Awaited
  <2> HIDE DEF to
  <2>4. \A j \in Job : \A k : Awaited(j, k) => Awaited(j, k)'
    BY <2>1, AwaitedFrame
  <2>5. UNCHANGED <<job, done, Ahead>> /\ next' = Bump(next) /\ \A k : Id(k)' = Id(k)
    BY <1>3 DEF Launch, Ahead, Id
  <2>6. Len(fifo') = n + 1 /\ n < FifoDepth /\ (\A i \in 1 .. n : fifo'[i] = fifo[i])
        /\ fifo'[n + 1] = NewJob(h)
    BY <1>3, LaunchFacts
  <2>7. next' = Id(Ahead + n + 2)
    <3>1. Ahead + n + 1 \in 1 .. FifoDepth + 2 /\ next = Id(Ahead + n + 1)
          /\ (Ahead + n + 1) + 1 = Ahead + n + 2
      BY <1>0, <2>6, ConstantFacts DEF InvIds
    <3> QED
      BY <1>0, <2>5, <3>1, IdFacts
  <2>8. next' = Id(Ahead + Len(fifo) + 1)'
    <3>1. Ahead' + Len(fifo') + 1 = Ahead + n + 2
      BY <1>0, <2>5, <2>6
    <3> QED
      BY <2>5, <2>7, <3>1 DEF Id
  <2>9. ASSUME NEW i \in 1 .. Len(fifo') PROVE Awaited(fifo[i], Ahead + i)'
    <3>1. CASE i \in 1 .. n
      BY <1>0, <2>4, <2>5, <2>6, <3>1 DEF InvIds
    <3>2. CASE i = n + 1
      <4>1. fifo'[i] \in Job /\ fifo'[i] = NewJob(h) /\ Ahead' + i = Ahead + n + 1
            /\ Ahead' + i \in Nat
        BY <1>0, <1>3, <2>5, <2>6, <3>2, LaunchFacts
      <4> QED
        BY <2>3, <4>1 DEF Awaited
    <3> QED
      BY <1>0, <2>6, <3>1, <3>2
  <2> QED
    BY <1>0, <2>4, <2>5, <2>8, <2>9 DEF InvIds
<1>4. ASSUME NEW h \in Harts, Return(h) PROVE InvIds'
  <2>1. pc[h] = "wait" /\ pc' = [pc EXCEPT ![h] = "idle"] /\ done = tf_id[h]
        /\ UNCHANGED <<tf_id, fifo, job, next, done>>
    BY <1>4 DEF Return, Transition, Finished, engineVars
  <2>2. \A k \in 1 .. FifoDepth + 2 : Id(k) # tf_id[h]
    BY <1>0, <2>1, IdFacts
  <2>3. ASSUME NEW j \in Job, NEW k \in 1 .. FifoDepth + 2, Awaited(j, k) PROVE Awaited(j, k)'
    BY <2>1, <2>2, <2>3 DEF Awaited, Id, Job, TypeOK
  <2>4. Ahead' = Ahead /\ \A k : Id(k)' = Id(k)
    BY <2>1 DEF Ahead, Id
  <2>5. job # None => 1 \in 1 .. FifoDepth + 2
    BY ConstantFacts
  <2>6. \A i \in 1 .. Len(fifo) : Ahead + i \in 1 .. FifoDepth + 2
    BY <1>0, ConstantFacts
  <2> QED
    BY <1>0, <2>1, <2>3, <2>4, <2>5, <2>6 DEF InvIds
<1>5. CASE TakeJob
  <2>1. /\ job = None /\ job' = fifo[1] /\ job' \in Job /\ job' # None
        /\ Len(fifo) >= 1 /\ Len(fifo') = Len(fifo) - 1
        /\ \A i \in 1 .. Len(fifo') : fifo'[i] = fifo[i + 1]
    BY <1>5, TakeJobFacts
  <2>2. Ahead = 0 /\ Ahead' = 1
    BY <2>1 DEF Ahead
  <2>3. UNCHANGED <<pc, tf_id, next, done>>
    BY <1>5 DEF TakeJob, hartVars
  <2>4. \A j, k : Awaited(j, k)' <=> Awaited(j, k)
    BY <2>3 DEF Awaited, Id
  <2>5. next = Id(Len(fifo) + 1) /\ Ahead' + Len(fifo') + 1 = Len(fifo) + 1
    BY <1>0, <2>1, <2>2 DEF InvIds
  <2>6. next' = Id(Ahead + Len(fifo) + 1)'
    BY <2>3, <2>5 DEF Id
  <2>7. Awaited(job, 1)'
    BY <1>0, <2>1, <2>2, <2>4 DEF InvIds
  <2>8. ASSUME NEW i \in 1 .. Len(fifo') PROVE Awaited(fifo[i], Ahead + i)'
    <3>1. i + 1 \in 1 .. Len(fifo) /\ Awaited(fifo[i + 1], i + 1) /\ 1 + i = i + 1
      BY <1>0, <2>1, <2>2 DEF InvIds
    <3> QED
      BY <2>1, <2>2, <2>4, <3>1
  <2> QED
    BY <2>6, <2>7, <2>8 DEF InvIds
<1>6. CASE CopyRow
  BY <1>6, IdsFrame DEF CopyRow, hartVars
<1>7. CASE Retire
  <2>1. job # None /\ job' = None /\ done' = Bump(done)
        /\ UNCHANGED <<pc, tf_id, next, fifo>>
    BY <1>7 DEF Retire, hartVars
  <2>2. Ahead = 1 /\ Ahead' = 0
    BY <2>1 DEF Ahead
  <2>3. \A k \in 1 .. FifoDepth + 2 : Id(k)' = Id(k + 1)
    BY <1>0, <2>1, IdShift
  <2>4. next' = Id(Ahead + Len(fifo) + 1)'
    <3>1. Len(fifo) + 1 \in 1 .. FifoDepth + 2 /\ next = Id(1 + Len(fifo) + 1)
          /\ 1 + Len(fifo) + 1 = (Len(fifo) + 1) + 1
      BY <1>0, <2>2, ConstantFacts DEF InvIds
    <3>2. next' = Id(Len(fifo) + 1)'
      BY <2>1, <2>3, <3>1
    <3> QED
      BY <1>0, <2>1, <2>2, <3>2
  <2>5. ASSUME NEW i \in 1 .. Len(fifo) PROVE Awaited(fifo[i], Ahead + i)'
    <3>1. i \in 1 .. FifoDepth + 2 /\ Awaited(fifo[i], i + 1) /\ 0 + i = i
      BY <1>0, <2>2, ConstantFacts DEF InvIds
    <3> QED
      BY <2>1, <2>2, <2>3, <3>1 DEF Awaited
  <2> QED
    BY <2>1, <2>4, <2>5 DEF InvIds
<1>8. CASE UNCHANGED vars
  BY <1>8, IdsFrame DEF vars, hartVars, engineVars
<1> QED
  BY <1>1, <1>2, <1>3, <1>4, <1>5, <1>6, <1>7, <1>8 DEF Next, Hart, Engine

\* The invariant holds at first.
LEMMA InvInit == Init => Inv
<1> SUFFICES ASSUME Init PROVE Inv
  OBVIOUS
<1>1. \A h \in Harts : want[h] \in Requests[h] /\ want[h] \in Request
  BY RequestsAssumption DEF Init
<1>2. \A h \in Harts : pc[h] = "idle" /\ stored[h] = 0 /\ stored[h] <= Len(Stores(want[h]))
  <2> SUFFICES ASSUME NEW h \in Harts
               PROVE  pc[h] = "idle" /\ stored[h] = 0 /\ stored[h] <= Len(Stores(want[h]))
    OBVIOUS
  <2>1. Len(Stores(want[h])) \in Nat
    BY <1>1, StoresFacts
  <2> QED
    BY <2>1 DEF Init
<1>3. fifo = <<>> /\ Len(fifo) = 0 /\ fifo \in Seq(Job) /\ job = None
  BY EmptySeq DEF Init
<1>4. TypeOK
  <2>1. want \in [Harts -> Request]
    BY <1>1 DEF Init
  <2>2. regs \in [Offsets -> 0 .. Word - 1]
    BY ConstantFacts DEF Init
  <2>3. pc \in [Harts -> {"idle", "store", "launch", "wait"}] /\ stored \in [Harts -> Nat]
        /\ tf_id \in [Harts -> 0 .. Ids - 1]
    BY ConstantFacts DEF Init
  <2> QED
    BY <1>1, <1>2, <1>3, <2>1, <2>2, <2>3, ConstantFacts DEF Init, TypeOK
<1>5. InvTurn /\ InvRegs
  BY <1>2 DEF InvTurn, InvRegs, Storing
<1>6. InvRows
  BY <1>3 DEF InvRows
<1>7. InvIds
  <2>1. Ahead = 0 /\ next = 1 /\ done = 0
    BY DEF Init, Ahead
  <2> QED
    BY <1>3, <2>1, ConstantFacts DEF InvIds, Id
<1> QED
  BY <1>4, <1>5, <1>6, <1>7 DEF Inv

\* Every step keeps the invariant.
LEMMA InvNext == Inv /\ [Next]_vars => Inv'
BY TypeStep, TurnStep, RegsStep, RowsStep, IdsStep DEF Inv

\* The invariant holds in every state of every behaviour.
THEOREM Invariance == Spec => []Inv
BY InvInit, InvNext, PTL DEF Spec

\* The variables of harts and engine keep their types; the FIFO never holds more
\* jobs than it has room for.
THEOREM TypeCorrect == Spec => []TypeOK
<1>1. Inv => TypeOK
  BY DEF Inv
<1> QED
  BY <1>1, Invariance, PTL

(***************************************************************************)
(* The refinement.                                                         *)
(***************************************************************************)

\* What the accepted jobs of the service can be.
Pendings ==
  [owner : Harts, wait : BOOLEAN,
   left : SUBSET UNION {RowsFrom(a, i) : a \in Arguments, i \in Nat}]

\* What is left of a job is one of the possible rests.
LEMMA PendingType ==
  ASSUME NEW j \in Job, NEW i \in Nat
  PROVE  Pending(j, i) \in Pendings
<1>1. j.args \in Arguments /\ j.owner \in Harts /\ j.wait \in BOOLEAN
  BY JobFacts
<1> DEFINE all == {RowsFrom(a, n) : a \in Arguments, n \in Nat}
<1>2. RowsFrom(j.args, i) \in all
  BY <1>1
<1> HIDE DEF all
<1>3. RowsFrom(j.args, i) \in SUBSET UNION all
  BY <1>2
<1> QED
  BY <1>1, <1>3 DEF Pending, Pendings, all

\* The accepted jobs, one by one.
BacklogOK ==
  /\ Ahead \in {0, 1} /\ Len(fifo) \in Nat
  /\ Backlog \in Seq(Pendings) /\ Len(Backlog) = Ahead + Len(fifo)
  /\ \A i \in 1 .. Ahead + Len(fifo) :
       Backlog[i] = IF i = Ahead THEN Pending(job, row) ELSE Pending(fifo[i - Ahead], 0)

\* They are a sequence: the job in the engine, then those in the FIFO.
LEMMA BacklogFacts ==
  TypeOK => BacklogOK
<1> SUFFICES ASSUME TypeOK PROVE BacklogOK
  OBVIOUS
<1> DEFINE n == Ahead + Len(fifo)
<1>1. Ahead \in {0, 1} /\ Len(fifo) \in Nat /\ n \in Nat /\ (Ahead = 1 => job \in Job)
      /\ row \in Nat
  BY DEF Ahead, TypeOK
<1>2. ASSUME NEW i \in 1 .. n
      PROVE  (IF i = Ahead THEN Pending(job, row) ELSE Pending(fifo[i - Ahead], 0)) \in Pendings
  <2>1. CASE i = Ahead
    BY <1>1, <2>1, PendingType
  <2>2. CASE i # Ahead
    <3>1. i - Ahead \in 1 .. Len(fifo)
      BY <1>1, <2>2
    <3>2. fifo[i - Ahead] \in Job
      BY <3>1, ElementOfSeq DEF TypeOK
    <3> QED
      BY <2>2, <3>2, PendingType
  <2> QED
    BY <2>1, <2>2
<1>3. Backlog = [i \in 1 .. n |->
                   IF i = Ahead THEN Pending(job, row) ELSE Pending(fifo[i - Ahead], 0)]
  BY DEF Backlog
<1>4. Backlog \in [1 .. n -> Pendings]
  BY <1>2, <1>3
<1> HIDE DEF n
<1>5. Backlog \in Seq(Pendings)
  BY <1>1, <1>4, SeqDef
<1>6. Len(Backlog) \in Nat /\ DOMAIN Backlog = 1 .. Len(Backlog) /\ DOMAIN Backlog = 1 .. n
  BY <1>4, <1>5, LenProperties
<1>7. Len(Backlog) = n
  <2> DEFINE l == Len(Backlog)
  <2>1. l \in Nat /\ 1 .. l = 1 .. n
    BY <1>6
  <2> HIDE DEF l
  <2>2. l \in 1 .. l \/ l = 0
    BY <2>1
  <2>3. n \in 1 .. n \/ n = 0
    BY <1>1
  <2>4. l <= n /\ n <= l
    BY <1>1, <2>1, <2>2, <2>3
  <2> QED
    BY <1>1, <2>1, <2>4 DEF l
<1>8. \A i \in 1 .. n :
        Backlog[i] = IF i = Ahead THEN Pending(job, row) ELSE Pending(fifo[i - Ahead], 0)
  BY <1>3
<1> QED
  BY <1>1, <1>5, <1>7, <1>8 DEF n, BacklogOK

\* So they are after a step.
LEMMA BacklogNext == TypeOK' => BacklogOK'
BY BacklogFacts, PTL

\* What a move of one hart is to the service.
LEMMA CallStateStep ==
  ASSUME TypeOK, NEW h \in Harts, NEW to, pc' = [pc EXCEPT ![h] = to]
  PROVE  CallState' = [CallState EXCEPT ![h] =
           CASE to \in {"store", "launch"} -> "called" [] to = "wait" -> "waiting"
             [] OTHER -> "idle"]
BY DEF CallState, TypeOK

\* A row and the rows behind it.
LEMMA RowsSplit ==
  ASSUME NEW j \in Job, NEW i \in Nat, i < j.args.num_reps
  PROVE  RowsFrom(j.args, i) = Row(j.args, i) \cup RowsFrom(j.args, i + 1)
<1>1. j.args.num_reps \in Nat
  BY JobFacts
<1>2. i .. j.args.num_reps - 1 = {i} \cup (i + 1 .. j.args.num_reps - 1)
  BY <1>1
<1> QED
  BY <1>2 DEF RowsFrom

\* Behind the last row nothing is left.
LEMMA RowsEnd ==
  ASSUME NEW j \in Job
  PROVE  RowsFrom(j.args, j.args.num_reps) = {}
<1>1. j.args.num_reps .. j.args.num_reps - 1 = {}
  BY JobFacts
<1> QED
  BY <1>1 DEF RowsFrom

\* A call is a call of the service.
LEMMA CallRefines ==
  ASSUME Inv, NEW h \in Harts, Call(h)
  PROVE  Service!Call(h)
<1>1. TypeOK /\ pc[h] = "idle" /\ pc' = [pc EXCEPT ![h] = "store"]
  BY DEF Inv, Call, Transition
<1>2. CallState[h] = "idle"
  BY <1>1 DEF CallState
<1>3. CallState' = [CallState EXCEPT ![h] = "called"]
  BY <1>1, CallStateStep
<1>4. PICK r \in Requests[h] :
        /\ want' = [want EXCEPT ![h] = r]
        /\ mem' = [c \in Cells |-> IF \E p \in RowsFrom(Carried(r.args), 0) : p[1] = c
                                   THEN Blank ELSE mem[c]]
  BY DEF Call
<1>5. Wanted' = [Wanted EXCEPT ![h] = Called(r)]
  BY <1>1, <1>4 DEF Wanted, TypeOK
<1>6. Called(r).pairs = RowsFrom(Carried(r.args), 0)
  BY DEF Called
<1>7. Called(r) \in [k \in Harts |-> {Called(q) : q \in Requests[k]}][h]
  BY <1>4
<1>8. Backlog' = Backlog
  BY DEF Call, Backlog, Ahead
<1>9. mem' = [a \in Cells |-> IF \E p \in Called(r).pairs : p[1] = a THEN Blank ELSE mem[a]]
  BY <1>4, <1>6
<1> QED
  BY <1>2, <1>3, <1>5, <1>7, <1>8, <1>9 DEF Service!Call

\* The read of next_id is the moment the service accepts the job.
LEMMA LaunchRefines ==
  ASSUME Inv, Inv', NEW h \in Harts, Launch(h)
  PROVE  Service!Accept(h)
<1> DEFINE to == IF want[h].wait THEN "wait" ELSE "idle"
<1> DEFINE accepted == [owner |-> h, wait |-> Wanted[h].wait, left |-> Wanted[h].pairs]
<1>1. TypeOK /\ InvRegs /\ TypeOK' /\ pc[h] = "launch" /\ pc' = [pc EXCEPT ![h] = to]
      /\ UNCHANGED <<want, job, row, mem>>
  BY DEF Inv, Launch, Transition
<1>2. CallState[h] = "called"
  BY <1>1 DEF CallState
<1>3. Wanted[h].wait = want[h].wait /\ Wanted[h].pairs = RowsFrom(Carried(want[h].args), 0)
  BY DEF Wanted, Called
<1>4. CallState' = [CallState EXCEPT ![h] = IF Wanted[h].wait THEN "waiting" ELSE "idle"]
  <2>1. CASE want[h].wait
    BY <1>1, <1>3, <2>1, CallStateStep
  <2>2. CASE ~want[h].wait
    BY <1>1, <1>3, <2>2, CallStateStep
  <2> QED
    BY <2>1, <2>2
<1>5. /\ fifo' = Append(fifo, NewJob(h)) /\ Len(fifo') = Len(fifo) + 1 /\ NewJob(h) \in Job
      /\ \A i \in 1 .. Len(fifo) : fifo'[i] = fifo[i]
      /\ fifo'[Len(fifo) + 1] = NewJob(h)
  BY LaunchFacts
<1>6. Pending(NewJob(h), 0) = accepted
  BY <1>1, <1>3, LatchedFacts DEF Pending, NewJob
<1>7. accepted \in Pendings
  BY <1>5, <1>6, PendingType
<1> HIDE DEF accepted
<1>8. Ahead' = Ahead
  BY <1>1 DEF Ahead
<1> DEFINE n == Ahead + Len(fifo)
<1>9. /\ Ahead \in {0, 1} /\ Len(fifo) \in Nat
      /\ Backlog \in Seq(Pendings) /\ Len(Backlog) = n
      /\ \A i \in 1 .. n :
           Backlog[i] = IF i = Ahead THEN Pending(job, row) ELSE Pending(fifo[i - Ahead], 0)
  BY <1>1, BacklogFacts DEF BacklogOK
<1>10. /\ Backlog' \in Seq(Pendings) /\ Len(Backlog') = Ahead + Len(fifo')
       /\ \A i \in 1 .. Ahead + Len(fifo') :
            Backlog'[i] = IF i = Ahead THEN Pending(job, row) ELSE Pending(fifo'[i - Ahead], 0)
  BY <1>1, <1>8, BacklogNext DEF BacklogOK
<1>11. Backlog' = Append(Backlog, accepted)
  <2>1. /\ Append(Backlog, accepted) \in Seq(Pendings)
        /\ Len(Append(Backlog, accepted)) = n + 1
        /\ \A i \in 1 .. n : Append(Backlog, accepted)[i] = Backlog[i]
        /\ Append(Backlog, accepted)[n + 1] = accepted
    BY <1>7, <1>9, AppendProperties
  <2>2. Len(Backlog') = n + 1
    BY <1>5, <1>9, <1>10
  <2>3. ASSUME NEW i \in 1 .. n + 1 PROVE Backlog'[i] = Append(Backlog, accepted)[i]
    <3>1. CASE i \in 1 .. n
      <4>1. i # Ahead => i - Ahead \in 1 .. Len(fifo)
        BY <1>9, <3>1
      <4> QED
        BY <1>5, <1>9, <1>10, <2>1, <3>1, <4>1
    <3>2. CASE i = n + 1
      <4>1. i # Ahead /\ i - Ahead = Len(fifo) + 1
        BY <1>9, <3>2
      <4> QED
        BY <1>5, <1>6, <1>9, <1>10, <2>1, <3>2, <4>1
    <3> QED
      BY <1>9, <3>1, <3>2
  <2> QED
    BY <1>10, <2>1, <2>2, <2>3, SeqEqual
<1>12. Wanted' = Wanted
  BY <1>1 DEF Wanted
<1> QED
  BY <1>1, <1>2, <1>4, <1>11, <1>12 DEF Service!Accept, accepted

\* A blocking call returns with no job of its own under way: the id it waits for
\* would be ahead of done_id.
LEMMA ReturnRefines ==
  ASSUME Inv, NEW h \in Harts, Return(h)
  PROVE  Service!Return(h)
<1>1. TypeOK /\ InvIds /\ pc[h] = "wait" /\ pc' = [pc EXCEPT ![h] = "idle"] /\ done = tf_id[h]
      /\ UNCHANGED <<want, fifo, job, row, mem>>
  BY DEF Inv, Return, Transition, Finished, engineVars
<1>2. CallState[h] = "waiting" /\ CallState' = [CallState EXCEPT ![h] = "idle"]
  BY <1>1, CallStateStep DEF CallState
<1>3. BacklogOK /\ Len(fifo) <= FifoDepth /\ done \in 0 .. Ids - 1
  BY <1>1, BacklogFacts DEF TypeOK
<1>4. \A k \in 1 .. FifoDepth + 2 : Id(k) # tf_id[h]
  BY <1>1, <1>3, IdFacts
<1>5. ASSUME NEW i \in DOMAIN Backlog, Backlog[i].owner = h, Backlog[i].wait
      PROVE  FALSE
  <2>1. i \in 1 .. Ahead + Len(fifo)
    BY <1>3, <1>5, LenProperties DEF BacklogOK
  <2>2. i \in 1 .. FifoDepth + 2
    BY <1>3, <2>1, ConstantFacts DEF BacklogOK
  <2>3. CASE i = Ahead
    <3>1. Backlog[i] = Pending(job, row) /\ Ahead = 1 /\ job # None
      BY <1>3, <2>1, <2>3 DEF BacklogOK, Ahead
    <3>2. job.owner = h /\ job.wait
      BY <1>5, <3>1 DEF Pending
    <3>3. tf_id[h] = Id(i)
      BY <1>1, <2>3, <3>1, <3>2 DEF InvIds, Awaited
    <3> QED
      BY <1>4, <2>2, <3>3
  <2>4. CASE i # Ahead
    <3> DEFINE k == i - Ahead
    <3>1. Backlog[i] = Pending(fifo[k], 0) /\ k \in 1 .. Len(fifo) /\ Ahead + k = i
      BY <1>3, <2>1, <2>4 DEF BacklogOK
    <3>2. fifo[k].owner = h /\ fifo[k].wait
      BY <1>5, <3>1 DEF Pending
    <3> HIDE DEF k
    <3>3. tf_id[h] = Id(i)
      BY <1>1, <3>1, <3>2 DEF InvIds, Awaited
    <3> QED
      BY <1>4, <2>2, <3>3
  <2> QED
    BY <2>3, <2>4
<1>6. Wanted' = Wanted /\ Backlog' = Backlog
  BY <1>1 DEF Wanted, Backlog, Ahead
<1> QED
  BY <1>1, <1>2, <1>5, <1>6 DEF Service!Return

\* Taking a job out of the FIFO changes nothing for the callers.
LEMMA TakeJobRefines ==
  ASSUME Inv, Inv', TakeJob
  PROVE  Backlog' = Backlog
<1>1. TypeOK /\ TypeOK'
  BY DEF Inv
<1>2. BacklogOK /\ BacklogOK'
  BY <1>1, BacklogFacts, BacklogNext
<1>3. /\ job = None /\ job' = fifo[1] /\ job' # None /\ row' = 0
      /\ Len(fifo) >= 1 /\ Len(fifo) \in Nat /\ Len(fifo') = Len(fifo) - 1
      /\ \A i \in 1 .. Len(fifo') : fifo'[i] = fifo[i + 1]
  BY TakeJobFacts DEF TakeJob
<1>4. Ahead = 0 /\ Ahead' = 1
  BY <1>3 DEF Ahead
<1> DEFINE n == Len(fifo)
<1>5. /\ Backlog \in Seq(Pendings) /\ Len(Backlog) = n
      /\ \A i \in 1 .. n : Backlog[i] = Pending(fifo[i], 0)
  BY <1>2, <1>3, <1>4 DEF BacklogOK
<1>6. /\ Backlog' \in Seq(Pendings) /\ Len(Backlog') = n
      /\ \A i \in 1 .. n :
           Backlog'[i] = IF i = 1 THEN Pending(job', 0) ELSE Pending(fifo'[i - 1], 0)
  BY <1>2, <1>3, <1>4 DEF BacklogOK
<1>7. ASSUME NEW i \in 1 .. n PROVE Backlog'[i] = Backlog[i]
  <2>1. CASE i = 1
    BY <1>3, <1>5, <1>6, <2>1
  <2>2. CASE i # 1
    <3>1. i - 1 \in 1 .. Len(fifo') /\ (i - 1) + 1 = i
      BY <1>3, <2>2
    <3>2. fifo'[i - 1] = fifo[i]
      BY <1>3, <3>1
    <3> QED
      BY <1>5, <1>6, <2>2, <3>2
  <2> QED
    BY <2>1, <2>2
<1> QED
  BY <1>5, <1>6, <1>7, SeqEqual

\* The job under way is the oldest one.
LEMMA BacklogHead ==
  ASSUME TypeOK, job # None
  PROVE  /\ Backlog # <<>> /\ Len(Backlog) \in Nat /\ Len(Backlog) >= 1
         /\ Head(Backlog) = Pending(job, row) /\ Backlog[1] = Pending(job, row)
         /\ Head(Backlog).left = RowsFrom(job.args, row)
<1>1. BacklogOK /\ Ahead = 1
  BY BacklogFacts DEF Ahead
<1>2. Len(Backlog) \in Nat /\ Len(Backlog) >= 1 /\ Backlog[1] = Pending(job, row)
  BY <1>1 DEF BacklogOK
<1>3. Backlog # <<>>
  BY <1>2
<1> QED
  BY <1>1, <1>2, <1>3 DEF Pending, BacklogOK

\* Copying a row is copying a part of the oldest job.
LEMMA CopyRowRefines ==
  ASSUME Inv, Inv', CopyRow
  PROVE  Service!Copy
<1> DEFINE part == Row(job.args, row)
<1> DEFINE rest == RowsFrom(job.args, row + 1)
<1>1. TypeOK /\ TypeOK' /\ job # None /\ job \in Job /\ row \in Nat /\ row < job.args.num_reps
      /\ job.args.size > 0 /\ row' = row + 1 /\ mem' = Copied(mem, part)
      /\ UNCHANGED <<pc, want, fifo, job>>
  BY DEF Inv, TypeOK, InvRows, CopyRow, hartVars
<1>2. BacklogOK /\ BacklogOK' /\ Ahead = 1 /\ Ahead' = 1
  BY <1>1, BacklogFacts, BacklogNext DEF Ahead
<1>3. Backlog # <<>> /\ Head(Backlog).left = RowsFrom(job.args, row)
      /\ Backlog[1] = Pending(job, row)
  BY <1>1, BacklogHead
<1>4. RowsFrom(job.args, row) = part \cup rest
  BY <1>1, RowsSplit
<1>5. part # {}
  <2>1. 0 \in 0 .. job.args.size - 1
    BY <1>1, JobFacts
  <2> QED
    BY <2>1 DEF Row
<1>6. Backlog'[1] = Pending(job, row + 1)
  BY <1>1, <1>2 DEF BacklogOK
<1>7. Pending(job, row + 1) = [Pending(job, row) EXCEPT !.left = rest]
  BY DEF Pending
<1>8. mem' = [a \in Cells |-> IF \E p \in part : p[1] = a
                               THEN (CHOOSE p \in part : p[1] = a)[2] ELSE mem[a]]
  BY <1>1 DEF Copied
<1> HIDE DEF part, rest
<1>9. Backlog' = [Backlog EXCEPT ![1].left = rest]
  <2> DEFINE n == 1 + Len(fifo)
  <2>1. Backlog = [i \in 1 .. n |->
                     IF i = 1 THEN Pending(job, row) ELSE Pending(fifo[i - 1], 0)]
    BY <1>2 DEF Backlog
  <2>2. Backlog' = [i \in 1 .. n |->
                      IF i = 1 THEN Pending(job, row + 1) ELSE Pending(fifo[i - 1], 0)]
    BY <1>1, <1>2 DEF Backlog
  <2>3. 1 \in 1 .. n
    BY <1>2 DEF BacklogOK
  <2> HIDE DEF n
  <2> QED
    BY <1>7, <2>1, <2>2, <2>3
<1>10. CallState' = CallState /\ Wanted' = Wanted
  BY <1>1 DEF CallState, Wanted
<1>11. part \in (SUBSET Head(Backlog).left) \ {{}} /\ rest \in SUBSET Head(Backlog).left
       /\ Head(Backlog).left \ part \subseteq rest
  <2> DEFINE left == Head(Backlog).left
  <2>1. left = part \cup rest
    BY <1>3, <1>4
  <2> HIDE DEF left
  <2>2. part \in SUBSET left /\ part \notin {{}} /\ rest \in SUBSET left /\ left \ part \subseteq rest
    BY <1>5, <2>1
  <2> QED
    BY <2>2 DEF left
<1> QED
  BY <1>3, <1>8, <1>9, <1>10, <1>11 DEF Service!Copy

\* Retiring a job finishes the oldest one, of which nothing is left.
LEMMA RetireRefines ==
  ASSUME Inv, Inv', Retire
  PROVE  Service!Finish
<1>1. TypeOK /\ TypeOK' /\ job # None /\ job \in Job /\ row = job.args.num_reps /\ job' = None
      /\ UNCHANGED <<pc, want, fifo, row, mem>>
  BY DEF Inv, TypeOK, Retire, hartVars
<1>2. BacklogOK /\ BacklogOK' /\ Ahead = 1 /\ Ahead' = 0
  BY <1>1, BacklogFacts, BacklogNext DEF Ahead
<1>3. Backlog # <<>> /\ Head(Backlog).left = {}
  BY <1>1, BacklogHead, RowsEnd
<1> DEFINE n == Len(fifo)
<1>4. /\ Backlog \in Seq(Pendings) /\ Len(Backlog) = 1 + n /\ n \in Nat
      /\ \A i \in 1 .. 1 + n :
           Backlog[i] = IF i = 1 THEN Pending(job, row) ELSE Pending(fifo[i - 1], 0)
  BY <1>2 DEF BacklogOK
<1>5. /\ Backlog' \in Seq(Pendings) /\ Len(Backlog') = n
      /\ \A i \in 1 .. n : Backlog'[i] = Pending(fifo[i], 0)
  BY <1>1, <1>2 DEF BacklogOK
<1>6. /\ Tail(Backlog) \in Seq(Pendings) /\ Len(Tail(Backlog)) = Len(Backlog) - 1
      /\ \A i \in 1 .. Len(Tail(Backlog)) : Tail(Backlog)[i] = Backlog[i + 1]
  BY <1>3, <1>4, HeadTailProperties
<1>7. Len(Tail(Backlog)) = n
  BY <1>4, <1>6
<1>8. ASSUME NEW i \in 1 .. n PROVE Backlog'[i] = Tail(Backlog)[i]
  <2>1. i + 1 \in 1 .. 1 + n /\ i + 1 # 1 /\ (i + 1) - 1 = i
    BY <1>4
  <2>2. Tail(Backlog)[i] = Pending(fifo[i], 0)
    BY <1>4, <1>6, <1>7, <2>1
  <2> QED
    BY <1>5, <2>2
<1>9. Backlog' = Tail(Backlog)
  BY <1>5, <1>6, <1>7, <1>8, SeqEqual
<1>10. CallState' = CallState /\ Wanted' = Wanted
  BY <1>1 DEF CallState, Wanted
<1> QED
  BY <1>1, <1>3, <1>9, <1>10 DEF Service!Finish

\* Every step of harts and engine is a step of the service or a stutter.
LEMMA RefinementStep == Inv /\ Inv' /\ [Next]_vars => [Service!Next]_(Service!vars)
<1> SUFFICES ASSUME Inv, Inv', [Next]_vars PROVE [Service!Next]_(Service!vars)
  OBVIOUS
<1>1. ASSUME NEW h \in Harts, Call(h) PROVE [Service!Next]_(Service!vars)
  BY <1>1, CallRefines DEF Service!Next
<1>2. ASSUME NEW h \in Harts, Store(h) PROVE [Service!Next]_(Service!vars)
  <2>1. TypeOK /\ pc[h] = "store" /\ UNCHANGED <<want, fifo, job, row, mem>>
    BY <1>2 DEF Inv, Store, Transition, engineVars
  <2>2. PICK to \in {"store", "launch"} : pc' = [pc EXCEPT ![h] = to]
    BY <1>2 DEF Store, Transition
  <2>3. CallState' = CallState
    BY <2>1, <2>2 DEF CallState, TypeOK
  <2>4. Wanted' = Wanted /\ Backlog' = Backlog
    BY <2>1 DEF Wanted, Backlog, Ahead
  <2> QED
    BY <2>1, <2>3, <2>4 DEF Service!vars
<1>3. ASSUME NEW h \in Harts, Launch(h) PROVE [Service!Next]_(Service!vars)
  BY <1>3, LaunchRefines DEF Service!Next
<1>4. ASSUME NEW h \in Harts, Return(h) PROVE [Service!Next]_(Service!vars)
  BY <1>4, ReturnRefines DEF Service!Next
<1>5. CASE TakeJob
  <2>1. UNCHANGED <<pc, want, mem>>
    BY <1>5 DEF TakeJob, hartVars
  <2>2. CallState' = CallState /\ Wanted' = Wanted
    BY <2>1 DEF CallState, Wanted
  <2> QED
    BY <1>5, <2>1, <2>2, TakeJobRefines DEF Service!vars
<1>6. CASE CopyRow
  BY <1>6, CopyRowRefines DEF Service!Next
<1>7. CASE Retire
  BY <1>7, RetireRefines DEF Service!Next
<1>8. CASE UNCHANGED vars
  BY <1>8 DEF vars, hartVars, engineVars, Service!vars, CallState, Wanted, Backlog, Ahead
<1> QED
  BY <1>1, <1>2, <1>3, <1>4, <1>5, <1>6, <1>7, <1>8 DEF Next, Hart, Engine

\* The DMA starts as the service does.
LEMMA RefinementInit == Init => Service!Init
<1> SUFFICES ASSUME Init PROVE Service!Init
  OBVIOUS
<1>1. CallState = [h \in Harts |-> "idle"]
  BY DEF Init, CallState
<1>2. \A h \in Harts : want[h] \in Requests[h]
  BY RequestsAssumption DEF Init
<1> DEFINE jobs == [h \in Harts |-> {Called(r) : r \in Requests[h]}]
<1>3. \A h \in Harts : Wanted[h] \in jobs[h]
  BY <1>2 DEF Wanted
<1> HIDE DEF jobs
<1>4. Wanted \in [Harts -> UNION {jobs[h] : h \in Harts}]
  BY <1>3 DEF Wanted
<1>5. Backlog = <<>>
  <2>1. Len(Backlog) = 0 /\ Backlog \in Seq(Pendings)
    <3>1. TypeOK
      BY InvInit DEF Inv
    <3> QED
      BY <3>1, BacklogFacts DEF BacklogOK, Init, Ahead
  <2> QED
    BY <2>1, EmptySeq
<1>6. mem = [a \in Cells |-> Blank]
  BY DEF Init
<1> QED
  BY <1>1, <1>3, <1>4, <1>5, <1>6 DEF Service!Init, jobs

\* The register front end, its FIFO and its ids implement the copy service: what
\* is copied is what each call asked for, with sizes, strides and repetitions modulo
\* 2^32, jobs keep their order, and a blocking call returns only after its own job
\* (dma_memcpy, dma_2d_memcpy and their blocking variants over cheshire_idma_wrap).
THEOREM Refinement == Spec => ImplementsService
BY RefinementInit, RefinementStep, Invariance, PTL
   DEF Spec, ImplementsService, Service!Spec
=============================================================================
