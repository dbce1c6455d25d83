---------------------------- MODULE BoundedQueue ----------------------------
(***************************************************************************)
(* What a client of a circular buffer counts on: a first-in first-out      *)
(* queue of at most Limit elements that says of every call whether it      *)
(* could be done.  Both rings of the repository are compared with it.      *)
(***************************************************************************)
EXTENDS Integers, Sequences

CONSTANTS Value, Limit, Null

VARIABLES
  queue,   \* the elements, oldest first
  reply    \* the last push(): 0 or -1; the last front()/pop(): the element or
           \* Null; Null after clear(), which returns nothing

Init == queue = <<>> /\ reply = Null

Push(v) ==
  \/ /\ Len(queue) < Limit
     /\ queue' = Append(queue, v) /\ reply' = 0
  \/ /\ Len(queue) = Limit
     /\ reply' = -1 /\ UNCHANGED queue

Take ==
  \/ /\ queue # <<>>
     /\ queue' = Tail(queue) /\ reply' = Head(queue)
  \/ /\ queue = <<>>
     /\ reply' = Null /\ UNCHANGED queue

Clear == queue' = <<>> /\ reply' = Null

Next == (\E v \in Value : Push(v)) \/ Take \/ Clear

Spec == Init /\ [][Next]_<<queue, reply>>
=============================================================================
