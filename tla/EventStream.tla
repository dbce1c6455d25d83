---------------------------- MODULE EventStream ----------------------------
(***************************************************************************)
(* What the OLED driver's button path promises its readers: a lossy        *)
(* stream.                                                                 *)
(* Interrupts are numbered per handler; an event may be lost on the way,   *)
(* but what is delivered was raised, and for each handler the numbers      *)
(* delivered only increase, so that nothing is invented, delivered twice   *)
(* or delivered after a later event of the same handler.                   *)
(***************************************************************************)
EXTENDS Integers, Sequences

CONSTANTS Lines,      \* the gpio lines that interrupt
          Handlers,   \* the interrupt handler functions
          HandlerOf   \* the handler serving each line

VARIABLES raised,     \* number of events each handler has numbered
          out         \* the events delivered, in order

vars == <<raised, out>>

Before(a, b) ==
  HandlerOf[a.button_num] = HandlerOf[b.button_num] => a.event < b.event

Init == raised = [h \in Handlers |-> 0] /\ out = <<>>

Raise(h) == raised' = [raised EXCEPT ![h] = @ + 1] /\ UNCHANGED out

Deliver(line) ==
  \E n \in 1..raised[HandlerOf[line]] :
    LET event == [button_num |-> line, event |-> n] IN
      /\ \A i \in 1..Len(out) : Before(out[i], event)
      /\ out' = Append(out, event)
      /\ UNCHANGED raised

Next == (\E h \in Handlers : Raise(h)) \/ (\E line \in Lines : Deliver(line))

Spec == Init /\ [][Next]_vars
=============================================================================
