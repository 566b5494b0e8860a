-------------------------------- MODULE Dma ---------------------------------
(***************************************************************************)
(* The DMA interface: the copy functions of sw/include/dif/dma.h on harts  *)
(* that share one front end, and the engine behind it as it is put         *)
(* together in hw/cheshire_idma_wrap.sv (register front end, job FIFO, id  *)
(* generator, two-dimensional mid end, back end).                          *)
(*                                                                         *)
(* A 64-bit store covers two 32-bit registers; reading next_id launches    *)
(* whatever the registers hold, and waits while the job FIFO is full; a    *)
(* blocking call polls done_id until it equals the id it was given.  The   *)
(* engine takes only 32 of the 64 bits of lengths, strides and             *)
(* repetitions (Carried).  The functions take no lock: their callers take  *)
(* turns (holder), either for the whole call or only until the job is      *)
(* launched (turns).                                                       *)
(***************************************************************************)
EXTENDS Integers, Sequences

CONSTANTS Harts,     \* the harts that use the DMA
          None,      \* nobody, or no job
          Requests,  \* Requests[h]: the calls h may make, with their arguments
          Turns,     \* how long a turn may be: a subset of {"call", "launch"}
          Word,      \* values of a 32-bit register: 2^32
          FifoDepth, \* JobFifoDepth
          Ids,       \* values of an id: 2^IdCounterWidth
          Cells,     \* destination memory
          Blank      \* what a caller leaves there before it calls

\* The arguments of a call, 64 bits each; 1D calls have only the first three.
DoubleWord == 0 .. Word * Word - 1
Arguments ==
  [src : DoubleWord, dst : DoubleWord, size : DoubleWord,
   src_stride : DoubleWord, dst_stride : DoubleWord, num_reps : DoubleWord]

\* wait: the blocking variant.
Request == [twoD : BOOLEAN, wait : BOOLEAN, args : Arguments]

\* What travels through the engine.
Job == [args : Arguments, owner : Harts, wait : BOOLEAN]

ASSUME NoneAssumption == None \notin Harts /\ None \notin Job
ASSUME TurnsAssumption == Turns \subseteq {"call", "launch"}
ASSUME SizesAssumption == FifoDepth \in Nat \ {0} /\ Word \in Nat \ {0, 1} /\ Ids \in Nat
\* As many ids as jobs that can be under way, and one more.
ASSUME IdsAssumption == Ids > FifoDepth + 2
\* What of the arguments of a call the engine takes: the types tf_len_t and reps_t
\* of a request have 32 bits.
Carried(a) == [a EXCEPT !.size = @ % Word, !.src_stride = @ % Word,
                        !.dst_stride = @ % Word, !.num_reps = @ % Word]

\* Something is left to copy.
ASSUME RequestsAssumption ==
  \A h \in Harts :
    /\ Requests[h] # {} /\ Requests[h] \subseteq Request
    /\ \A r \in Requests[h] :
         /\ Carried(r.args).size > 0 /\ Carried(r.args).num_reps > 0
         /\ ~r.twoD => r.args.num_reps = 1

VARIABLES turns,   \* how long a turn is
          holder,  \* whose turn it is
          pc,      \* pc[h]: "idle", "store", "launch" or "wait"
          want,    \* want[h]: the call h makes
          stored,  \* stored[h]: the stores done
          tf_id,   \* tf_id[h]: the id next_id returned
          regs,    \* the front end's registers, by offset
          fifo,    \* the job FIFO
          job,     \* the job in mid end and back end, or None
          row,     \* the rows of it that are copied
          next, done, \* the id generator's counters
          mem      \* destination memory

hartVars == <<holder, pc, want, stored, tf_id>>
engineVars == <<fifo, job, row, next, done, mem>>
vars == <<turns, hartVars, regs, engineVars>>

-----------------------------------------------------------------------------
(* The front end's registers. *)

CONF == 0
DST_ADDR == 208
SRC_ADDR == 216
LENGTH == 224
DST_STRIDE == 232
SRC_STRIDE == 240
REPS == 248

\* Registers are 32 bits wide; CONF is followed by a read-only one.
Offsets == {CONF} \cup UNION {{o, o + 4} : o \in {DST_ADDR, SRC_ADDR, LENGTH, DST_STRIDE,
                                                  SRC_STRIDE, REPS}}

\* A store through one of the 64-bit pointers.
Write(r, offset, value) ==
  [o \in Offsets |-> CASE o = offset -> value % Word
                       [] o = offset + 4 -> value \div Word
                       [] OTHER -> r[o]]

Value(offset) == regs[offset] + Word * regs[offset + 4]

\* CONF with ENABLE_ND set: bit 10, named 1 here.  The other fields only steer
\* how the bus is used.
EnableNd == 1

\* Mutant: a 1D call relies on what CONF was.
Stores1DNoConf(a) == <<<<SRC_ADDR, a.src>>, <<DST_ADDR, a.dst>>, <<LENGTH, a.size>>>>
\* The stores of dma_memcpy, ...
Stores1D(a) ==
  <<<<SRC_ADDR, a.src>>, <<DST_ADDR, a.dst>>, <<LENGTH, a.size>>, <<CONF, 0>>>>

\* ... and of dma_2d_memcpy.
Stores2D(a) ==
  <<<<SRC_ADDR, a.src>>, <<DST_ADDR, a.dst>>, <<LENGTH, a.size>>, <<CONF, EnableNd>>,
    <<SRC_STRIDE, a.src_stride>>, <<DST_STRIDE, a.dst_stride>>, <<REPS, a.num_reps>>>>

Stores(r) == IF r.twoD THEN Stores2D(r.args) ELSE Stores1D(r.args)

-----------------------------------------------------------------------------
(* Rows of a copy, as pairs <<destination cell, source cell>>. *)

Row(a, i) ==
  {<<a.dst + i * a.dst_stride + k, a.src + i * a.src_stride + k>> : k \in 0 .. a.size - 1}

RowsFrom(a, i) == UNION {Row(a, k) : k \in i .. a.num_reps - 1}

Copied(m, pairs) ==
  [c \in Cells |-> IF \E p \in pairs : p[1] = c
                   THEN (CHOOSE p \in pairs : p[1] = c)[2] ELSE m[c]]

Init ==
  /\ turns \in Turns
  /\ holder = None
  /\ pc = [h \in Harts |-> "idle"]
  /\ want = [h \in Harts |-> CHOOSE r \in Requests[h] : TRUE]
  /\ stored = [h \in Harts |-> 0]
  /\ tf_id = [h \in Harts |-> 0]
  /\ regs = [o \in Offsets |-> 0]
  /\ fifo = <<>> /\ job = None /\ row = 0
  /\ next = 1 /\ done = 0
  /\ mem = [c \in Cells |-> Blank]

-----------------------------------------------------------------------------
(* The harts. *)

Transition(h, from, to) == pc[h] = from /\ pc' = [pc EXCEPT ![h] = to]

\* A hart whose turn it is calls one of the functions.
Call(h) ==
  /\ holder = None /\ holder' = h
  /\ Transition(h, "idle", "store")
  /\ \E r \in Requests[h] :
       /\ want' = [want EXCEPT ![h] = r]
       /\ mem' = [c \in Cells |-> IF \E p \in RowsFrom(Carried(r.args), 0) : p[1] = c
                                  THEN Blank ELSE mem[c]]
  /\ stored' = [stored EXCEPT ![h] = 0]
  /\ UNCHANGED <<turns, tf_id, regs, fifo, job, row, next, done>>

\* The next store of dma_memcpy or dma_2d_memcpy.
Store(h) ==
  LET s == Stores(want[h]) IN
  /\ Transition(h, "store", IF stored[h] + 1 = Len(s) THEN "launch" ELSE "store")
  /\ stored' = [stored EXCEPT ![h] = @ + 1]
  /\ regs' = Write(regs, s[stored[h] + 1][1], s[stored[h] + 1][2])
  /\ UNCHANGED <<turns, holder, want, tf_id, engineVars>>

\* The request the front end makes of its registers.
Latched ==
  Carried([src |-> Value(SRC_ADDR), dst |-> Value(DST_ADDR), size |-> Value(LENGTH),
           src_stride |-> Value(SRC_STRIDE), dst_stride |-> Value(DST_STRIDE),
           num_reps |-> IF regs[CONF] = EnableNd THEN Value(REPS) ELSE 1])

Bump(id) == (id + 1) % Ids

\* Mutant: the id handed out is the one after the job's.
NextIdLate == Bump(next)
NextId == next

Keeps(h) == turns = "call" /\ want[h].wait

\* The read of next_id launches the job, once the FIFO has room for it.
Launch(h) ==
  /\ Transition(h, "launch", IF want[h].wait THEN "wait" ELSE "idle")
  /\ Len(fifo) < FifoDepth
  /\ fifo' = Append(fifo, [args |-> Latched, owner |-> h, wait |-> want[h].wait])
  /\ tf_id' = [tf_id EXCEPT ![h] = NextId]
  /\ next' = Bump(next)
  /\ holder' = IF Keeps(h) THEN h ELSE None
  /\ UNCHANGED <<turns, want, stored, regs, job, row, done, mem>>

Finished(h) == done = tf_id[h]

\* The read of done_id that ends the loop of dma_blk_memcpy.
Return(h) ==
  /\ Transition(h, "wait", "idle")
  /\ Finished(h)
  /\ holder' = IF holder = h THEN None ELSE holder
  /\ UNCHANGED <<turns, want, stored, tf_id, regs, engineVars>>

-----------------------------------------------------------------------------
(* The engine. *)

TakeJob ==
  /\ job = None /\ fifo # <<>>
  /\ job' = Head(fifo) /\ fifo' = Tail(fifo)
  /\ row' = 0
  /\ UNCHANGED <<turns, hartVars, regs, next, done, mem>>

CopyRow ==
  /\ job # None /\ row < job.args.num_reps
  /\ mem' = Copied(mem, Row(job.args, row))
  /\ row' = row + 1
  /\ UNCHANGED <<turns, hartVars, regs, fifo, job, next, done>>

Retire ==
  /\ job # None /\ row = job.args.num_reps
  /\ job' = None
  /\ done' = Bump(done)
  /\ UNCHANGED <<turns, hartVars, regs, fifo, row, next, mem>>

Engine == TakeJob \/ CopyRow \/ Retire
Hart(h) == Store(h) \/ Launch(h) \/ Return(h)

Next == (\E h \in Harts : Call(h) \/ Hart(h)) \/ Engine

Spec == Init /\ [][Next]_vars

\* Harts run, and the engine makes progress; nobody has to call.
FairSpec == Spec /\ WF_vars(Engine) /\ \A h \in Harts : WF_vars(Hart(h))

-----------------------------------------------------------------------------

TypeOK ==
  /\ turns \in Turns
  /\ holder \in Harts \cup {None}
  /\ pc \in [Harts -> {"idle", "store", "launch", "wait"}]
  /\ want \in [Harts -> Request]
  /\ \A h \in Harts : want[h] \in Requests[h] /\ stored[h] <= Len(Stores(want[h]))
  /\ stored \in [Harts -> Nat]
  /\ tf_id \in [Harts -> 0 .. Ids - 1]
  /\ regs \in [Offsets -> 0 .. Word - 1]
  /\ fifo \in Seq(Job) /\ Len(fifo) <= FifoDepth
  /\ job \in Job \cup {None}
  /\ row \in Nat
  /\ next \in 0 .. Ids - 1 /\ done \in 0 .. Ids - 1

-----------------------------------------------------------------------------
(* The service the DMA provides. *)

Pending(j, i) == [owner |-> j.owner, wait |-> j.wait, left |-> RowsFrom(j.args, i)]
Called(r) == [pairs |-> RowsFrom(Carried(r.args), 0), wait |-> r.wait]

\* The accepted jobs: the one in the engine, and those in the FIFO behind it.
Ahead == IF job = None THEN 0 ELSE 1
Backlog ==
  [i \in 1 .. Ahead + Len(fifo) |->
     IF i = Ahead THEN Pending(job, row) ELSE Pending(fifo[i - Ahead], 0)]

CallState ==
  [h \in Harts |-> CASE pc[h] \in {"store", "launch"} -> "called"
                     [] pc[h] = "wait" -> "waiting"
                     [] OTHER -> "idle"]

Wanted == [h \in Harts |-> Called(want[h])]

Service == INSTANCE CopyService WITH
  Callers <- Harts,
  Jobs <- [h \in Harts |-> {Called(r) : r \in Requests[h]}],
  state <- CallState,
  want <- Wanted,
  queue <- Backlog

\* The register front end, its FIFO and its ids provide the copy service: every
\* job is what one call asked for, with sizes, strides and repetitions modulo 2^32
\* (a longer copy loses the rest without a sign of it), whatever calls were made
\* before it; jobs do not overtake each other; a blocking call returns after its
\* job, although ids wrap around; nothing but the destination is written.
ImplementsService == Service!Spec

\* A blocking call returns, if its turn lasts until then.  (If others launch
\* jobs meanwhile, done_id may pass tf_id between two polls.)
Returns ==
  \A h \in Harts : [](turns = "call" /\ pc[h] = "wait" => <>(pc[h] = "idle"))
=============================================================================
