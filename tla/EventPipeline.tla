--------------------------- MODULE EventPipeline ---------------------------
(***************************************************************************)
(* What the OLED button driver promises about the way an event takes: two  *)
(* bounded first-in first-out stages with one mover between them.  Every   *)
(* event enters the first stage or is lost because that stage is full,     *)
(* moves to the second or is lost because that one is full, and leaves it  *)
(* for the reader.  Nothing else loses, copies or reorders one.  There are *)
(* no rings, no work item, no mutex and no threads here.                   *)
(***************************************************************************)
EXTENDS Integers, Sequences

CONSTANTS Lines,        \* the gpio lines that interrupt
          Handlers,     \* the interrupt handler functions
          HandlerOf,    \* the handler serving each line
          CaptureRoom,  \* events the first stage holds
          BulkRoom      \* events the second stage holds

VARIABLES raised,       \* number of events each handler has numbered
          entering,     \* the event on its way into the first stage, if any
          captured,     \* the first stage, oldest event first
          moving,       \* the event on its way to the second stage, if any
          ready,        \* the second stage, oldest event first
          out           \* the events delivered, in order

vars == <<raised, entering, captured, moving, ready, out>>

Init ==
  /\ raised = [h \in Handlers |-> 0]
  /\ entering = <<>> /\ captured = <<>> /\ moving = <<>> /\ ready = <<>>
  /\ out = <<>>

Raise(line) ==
  LET h == HandlerOf[line] IN
    /\ entering = <<>>
    /\ raised' = [raised EXCEPT ![h] = @ + 1]
    /\ entering' = <<[button_num |-> line, event |-> raised[h] + 1]>>
    /\ UNCHANGED <<captured, moving, ready, out>>

\* The event enters the first stage, or is lost because that is full.
Enter ==
  /\ entering # <<>> /\ entering' = <<>>
  /\ \/ Len(captured) < CaptureRoom /\ captured' = Append(captured, Head(entering))
     \/ Len(captured) = CaptureRoom /\ captured' = captured
  /\ UNCHANGED <<raised, moving, ready, out>>

Take ==
  /\ moving = <<>> /\ captured # <<>>
  /\ moving' = <<Head(captured)>> /\ captured' = Tail(captured)
  /\ UNCHANGED <<raised, entering, ready, out>>

\* The event moves to the second stage, or is lost because that is full.
Put ==
  /\ moving # <<>> /\ moving' = <<>>
  /\ \/ Len(ready) < BulkRoom /\ ready' = Append(ready, Head(moving))
     \/ Len(ready) = BulkRoom /\ ready' = ready
  /\ UNCHANGED <<raised, entering, captured, out>>

Deliver ==
  /\ ready # <<>>
  /\ out' = Append(out, Head(ready)) /\ ready' = Tail(ready)
  /\ UNCHANGED <<raised, entering, captured, moving>>

Next == (\E line \in Lines : Raise(line)) \/ Enter \/ Take \/ Put \/ Deliver

Spec == Init /\ [][Next]_vars
=============================================================================
