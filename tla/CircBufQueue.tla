---------------------------- MODULE CircBufQueue ----------------------------
(***************************************************************************)
(* One client of one power-of-two ring: every sequence of push(), front()  *)
(* with pop(), and clear() calls, for any number of laps round the ring.   *)
(* A client that takes an element calls front(), copies it and calls       *)
(* pop(), as do_work() and gpio_oled_irq_read() do.                        *)
(***************************************************************************)
EXTENDS CircBufPow2, Sequences

CONSTANTS Value, Capacity, Null

ASSUME QueueAssumption == Capacity \in Nat /\ InitAccepts(Capacity)

VARIABLES buf, reply

vars == <<buf, reply>>

Init ==
  /\ \E contents \in [Index(Capacity) -> Value] : buf = InitBuf(Capacity, contents)
  /\ reply = Null

Push(v) ==
  /\ buf' = push(buf, v)
  /\ reply' = IF PushOk(buf) THEN 0 ELSE -1

Take ==
  /\ buf' = pop(buf)
  /\ reply' = IF FrontIsNull(buf) THEN Null ELSE FrontSlot(buf)

Clear == buf' = clear(buf) /\ reply' = Null

Next == (\E v \in Value : Push(v)) \/ Take \/ Clear

Spec == Init /\ [][Next]_vars

-----------------------------------------------------------------------------
TypeOK == buf \in Buf(Capacity, Value) /\ reply \in Value \union {Null, 0, -1}

\* The ring is a first-in first-out queue of capacity - 1 elements: push()
\* refuses exactly at that size, front() gives the oldest element and NULL only
\* when there is none, on every lap and whatever the block held before.
contents == Contents(buf)
Queue == INSTANCE BoundedQueue WITH queue <- contents, Limit <- Capacity - 1
QueueSpec == Queue!Spec
=============================================================================
