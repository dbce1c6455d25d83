---------------------------- MODULE CircBufPow2 ----------------------------
(***************************************************************************)
(* The ring of fixed-size elements of                                      *)
(* modules/rpi_4b/1_i2c/OLED/module/circ_buffer_pow2_elements.c, as        *)
(* operators on a record.                                                  *)
(*                                                                         *)
(* A buffer is [capacity, head, tail, slots].  `slots' is the kmalloc'ed   *)
(* block, one element per index; an element is whatever the client stores. *)
(* Every mask `x & (capacity - 1)' of the code is x % capacity: init()     *)
(* refuses a capacity for which the two differ (CircBufMask checks that    *)
(* against the bit operation).  `size' and `peak' are set to 0 by init()   *)
(* and never change; the one reader, events_pending_to_end(), is not       *)
(* called by anyone.                                                       *)
(***************************************************************************)
EXTENDS Integers

\* linux/circ_buf.h: elements between tail and head, and free slots.
CIRC_CNT(head, tail, capacity) == (head - tail) % capacity
CIRC_SPACE(head, tail, capacity) == CIRC_CNT(tail, head + 1, capacity)

PowerOfTwo(n) == \E k \in 0..n : n = 2^k

\* The capacities init() accepts.
InitAccepts(num_elements) == num_elements # 0 /\ PowerOfTwo(num_elements)

\* The buffer init() leaves; `contents' is what kmalloc() found in the block.
InitBuf(num_elements, contents) ==
  [capacity |-> num_elements, head |-> 0, tail |-> 0, slots |-> contents]

Index(capacity) == 0..(capacity - 1)

Buf(capacity, Element) ==
  [capacity : {capacity}, head : Index(capacity), tail : Index(capacity),
   slots : [Index(capacity) -> Element]]

empty(buf) == buf.head = buf.tail
clear(buf) == [buf EXCEPT !.head = 0, !.tail = 0]
size(buf)  == CIRC_CNT(buf.head, buf.tail, buf.capacity)
space(buf) == CIRC_CNT(buf.tail, buf.head + 1, buf.capacity)

\* Seeded fault: a full test that is off by one.
PushOkOverfull(buf) == CIRC_SPACE(buf.head, buf.tail, buf.capacity) >= 0

\* push() returns 0 exactly when there is a slot to write ...
PushOk(buf) == CIRC_SPACE(buf.head, buf.tail, buf.capacity) >= 1

\* ... and then does two things an observer on another CPU can tell apart:
\* it copies the element into the slot under head, and publishes the new head.
Fill(buf, element) == [buf EXCEPT !.slots[buf.head] = element]
Publish(buf) == [buf EXCEPT !.head = (buf.head + 1) % buf.capacity]
push(buf, element) == IF PushOk(buf) THEN Publish(Fill(buf, element)) ELSE buf

\* front() returns NULL on an empty buffer, else the slot under tail.
FrontIsNull(buf) == CIRC_CNT(buf.head, buf.tail, buf.capacity) = 0
FrontSlot(buf) == buf.slots[buf.tail]
pop(buf) ==
  IF FrontIsNull(buf) THEN buf
  ELSE [buf EXCEPT !.tail = (buf.tail + 1) % buf.capacity]

-----------------------------------------------------------------------------
\* The elements a buffer holds, oldest first: Elem(buf, 0), Elem(buf, 1), ...
Elem(buf, k) == buf.slots[(buf.tail + k) % buf.capacity]
Held(buf) == {Elem(buf, k) : k \in 0..(size(buf) - 1)}
Contents(buf) == [i \in 1..size(buf) |-> Elem(buf, i - 1)]
=============================================================================
