---------------------------- MODULE NoisyStream ----------------------------
(***************************************************************************)
(* What the rpi_3b_v1_2 gpio driver can promise a reader: a lossy stream   *)
(* that stays clean for one lap of the smaller ring.  Interrupts are       *)
(* numbered from 0; what is delivered of them was raised and comes in      *)
(* their order, each once.  Once Lap of them were raised, the reader may   *)
(* also be given records that are no event: memory beyond a ring, or a     *)
(* variable of do_work() that was never assigned.  Such a record holds     *)
(* anything, an event delivered before included, and nothing in it says    *)
(* so; only the model marks it.                                            *)
(***************************************************************************)
EXTENDS Integers, Sequences

CONSTANTS Lap,     \* interrupts the smaller ring takes before it wraps
          Noise    \* the records that are no event

VARIABLES raised,  \* number of interrupts so far
          out      \* the records delivered, in order

vars == <<raised, out>>

Init == raised = 0 /\ out = <<>>

Raise == raised' = raised + 1 /\ UNCHANGED out

\* A later event than every event delivered before.
Deliver ==
  \E event \in 0..(raised - 1) :
    /\ \A i \in 1..Len(out) : out[i] \notin Noise => out[i] < event
    /\ out' = Append(out, event)
    /\ UNCHANGED raised

Garble ==
  /\ raised >= Lap
  /\ \E record \in Noise : out' = Append(out, record)
  /\ UNCHANGED raised

Next == Raise \/ Deliver \/ Garble

Spec == Init /\ [][Next]_vars
=============================================================================
