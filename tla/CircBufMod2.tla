----------------------------- MODULE CircBufMod2 -----------------------------
(***************************************************************************)
(* The ring of modules/rpi_3b_v1_2/1_gpio/circ_buffer_mod2_elements.c, as  *)
(* operators on a record [capacity, head, tail, slots].                    *)
(*                                                                         *)
(* The counts are masked with `size - 1', and init() sets the field `size' *)
(* to 0 for good: the mask is -1, which keeps every bit.  So size() and    *)
(* space() are plain differences, negative ones too, and nobody looks at   *)
(* more of them than whether they are 0.                                   *)
(***************************************************************************)
EXTENDS Integers

\* What lies in memory after the kmalloc'ed block, read as an element.
CONSTANT BeyondBlock

InitAccepts(num_elements) == num_elements % 2 = 0

InitBuf(num_elements, contents) ==
  [capacity |-> num_elements, head |-> 0, tail |-> 0, slots |-> contents]

Index(capacity) == 0..(capacity - 1)

\* head stays inside the block; tail can stand one element past its end.
Buf(capacity, Element) ==
  [capacity : {capacity}, head : Index(capacity), tail : 0..capacity,
   slots : [Index(capacity) -> Element]]

empty(buf) == buf.head = buf.tail
\* Seeded fault: only the head is reset.
clearHead(buf) == [buf EXCEPT !.head = 0]
clear(buf) == [buf EXCEPT !.head = 0, !.tail = 0]

size(buf)  == buf.head - buf.tail
space(buf) == buf.tail - (buf.head + 1)

\* Seeded fault: a head that wraps one late.
AdvanceHeadLate(buf) == IF buf.head = buf.capacity THEN 0 ELSE buf.head + 1

PushOk(buf) == space(buf) # 0

\* `++head == capacity' wraps in time ...
AdvanceHead(buf) == IF buf.head + 1 = buf.capacity THEN 0 ELSE buf.head + 1

push(buf, element) ==
  IF PushOk(buf)
  THEN [buf EXCEPT !.slots[buf.head] = element, !.head = AdvanceHead(buf)]
  ELSE buf

FrontIsNull(buf) == size(buf) = 0
FrontSlot(buf) ==
  IF buf.tail = buf.capacity THEN BeyondBlock ELSE buf.slots[buf.tail]

\* ... `tail++ == capacity' one element late.
AdvanceTail(buf) == IF buf.tail = buf.capacity THEN 0 ELSE buf.tail + 1

pop(buf) ==
  IF FrontIsNull(buf) THEN buf ELSE [buf EXCEPT !.tail = AdvanceTail(buf)]
=============================================================================
