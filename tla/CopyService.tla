---------------------------- MODULE CopyService -----------------------------
(***************************************************************************)
(* What the functions of sw/include/dif/dma.h promise their callers: jobs  *)
(* are carried out completely, one after the other in the order in which   *)
(* they were accepted, exactly as their arguments say, and a blocking call *)
(* does not return before its job is done.                                 *)
(*                                                                         *)
(* A job is a set of pairs <<destination cell, source cell>>; what is      *)
(* copied is named by the source cell.  A caller writes over its           *)
(* destination before it calls, as the tests do.                           *)
(***************************************************************************)
EXTENDS Naturals, Sequences

CONSTANTS Callers,  \* who calls
          Jobs,     \* Jobs[c]: what c may ask for, [pairs, wait]
          Cells,    \* the destination memory
          Blank     \* what a caller writes before it calls

VARIABLES state,  \* state[c]: "idle", "called" or "waiting"
          want,   \* want[c]: the job c called for
          queue,  \* the accepted jobs: [owner, wait, left]
          mem     \* the destination memory

vars == <<state, want, queue, mem>>

Init ==
  /\ state = [c \in Callers |-> "idle"]
  /\ want \in [Callers -> UNION {Jobs[c] : c \in Callers}]
  /\ \A c \in Callers : want[c] \in Jobs[c]
  /\ queue = <<>>
  /\ mem = [a \in Cells |-> Blank]

Call(c) ==
  /\ state[c] = "idle"
  /\ \E j \in Jobs[c] :
       /\ want' = [want EXCEPT ![c] = j]
       /\ mem' = [a \in Cells |-> IF \E p \in j.pairs : p[1] = a THEN Blank ELSE mem[a]]
  /\ state' = [state EXCEPT ![c] = "called"]
  /\ UNCHANGED queue

Accept(c) ==
  /\ state[c] = "called"
  /\ state' = [state EXCEPT ![c] = IF want[c].wait THEN "waiting" ELSE "idle"]
  /\ queue' = Append(queue, [owner |-> c, wait |-> want[c].wait, left |-> want[c].pairs])
  /\ UNCHANGED <<want, mem>>

\* Any part of the oldest job.  Rows of a job may overlap, so that some of the
\* pairs just copied can be left to be copied once more.
Copy ==
  /\ queue # <<>>
  /\ \E part \in (SUBSET Head(queue).left) \ {{}}, rest \in SUBSET Head(queue).left :
       /\ Head(queue).left \ part \subseteq rest
       /\ mem' = [a \in Cells |-> IF \E p \in part : p[1] = a
                                  THEN (CHOOSE p \in part : p[1] = a)[2] ELSE mem[a]]
       /\ queue' = [queue EXCEPT ![1].left = rest]
  /\ UNCHANGED <<state, want>>

Finish ==
  /\ queue # <<>> /\ Head(queue).left = {}
  /\ queue' = Tail(queue)
  /\ UNCHANGED <<state, want, mem>>

Return(c) ==
  /\ state[c] = "waiting"
  /\ \A i \in DOMAIN queue : ~(queue[i].owner = c /\ queue[i].wait)
  /\ state' = [state EXCEPT ![c] = "idle"]
  /\ UNCHANGED <<want, queue, mem>>

Next == (\E c \in Callers : Call(c) \/ Accept(c) \/ Return(c)) \/ Copy \/ Finish

Spec == Init /\ [][Next]_vars
=============================================================================
