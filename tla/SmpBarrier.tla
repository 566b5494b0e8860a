----------------------------- MODULE SmpBarrier -----------------------------
(***************************************************************************)
(* What boot_next_stage promises to the next boot stage: one boot address  *)
(* is published, every hart then leaves the park loop, and no hart enters  *)
(* the next stage before the last one has left it.  All harts enter at the *)
(* published address.                                                      *)
(***************************************************************************)

CONSTANTS Hart,     \* the harts of the system
          Address,  \* the boot addresses that may be published
          None      \* no address

VARIABLES phase,    \* phase[h]: parked, awake or booted
          address,  \* the published boot address, None before
          entered   \* entered[h]: where hart h entered the next stage

vars == <<phase, address, entered>>

Init ==
  /\ phase = [h \in Hart |-> "parked"]
  /\ address = None
  /\ entered = [h \in Hart |-> None]

Publish(a) ==
  /\ address = None
  /\ address' = a
  /\ UNCHANGED <<phase, entered>>

Wake(h) ==
  /\ address # None
  /\ phase[h] = "parked"
  /\ phase' = [phase EXCEPT ![h] = "awake"]
  /\ UNCHANGED <<address, entered>>

Enter(h) ==
  /\ phase[h] = "awake"
  /\ \A k \in Hart : phase[k] # "parked"
  /\ phase' = [phase EXCEPT ![h] = "booted"]
  /\ entered' = [entered EXCEPT ![h] = address]
  /\ UNCHANGED address

Next ==
  \/ \E a \in Address : Publish(a)
  \/ \E h \in Hart : Wake(h) \/ Enter(h)

Spec == Init /\ [][Next]_vars
=============================================================================
