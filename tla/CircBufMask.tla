---------------------------- MODULE CircBufMask ----------------------------
(***************************************************************************)
(* The bit operations of circ_buffer_pow2_elements.c, which CircBufPow2    *)
(* states as remainders: head, tail and their differences are 32-bit ints  *)
(* (W bits here), masked with capacity - 1.  The block itself is left out. *)
(***************************************************************************)
EXTENDS Integers, Bitwise

Ring == INSTANCE CircBufPow2

CONSTANTS W, MaxElements    \* bound: num_elements tried by init()

\* An int of W bits holds every capacity tried.
MaskAssumption == W \in Nat /\ MaxElements \in 0..(2^(W - 1) - 1)

VARIABLES capacity, head, tail

vars == <<capacity, head, tail>>

\* x & mask for a two's complement x and a mask that is not negative.
Masked(x, mask) == (x % 2^W) & mask

\* Seeded fault: a power of two or twice one, as "mod 2" would have it.
InitEvenAccepts(n) == n # 0 /\ n % 2 = 0

InitMaskAccepts(n) == n # 0 /\ (n & (n - 1)) = 0

Cnt(h, t)   == Masked(h - t, capacity - 1)
Space(h, t) == Cnt(t, h + 1)

Init ==
  /\ capacity \in {n \in 0..MaxElements : InitMaskAccepts(n)}
  /\ head = 0 /\ tail = 0

Push ==
  /\ Space(head, tail) >= 1
  /\ head' = Masked(head + 1, capacity - 1)
  /\ UNCHANGED <<capacity, tail>>

Pop ==
  /\ Cnt(head, tail) # 0
  /\ tail' = Masked(tail + 1, capacity - 1)
  /\ UNCHANGED <<capacity, head>>

Clear == head' = 0 /\ tail' = 0 /\ UNCHANGED capacity

Next == Push \/ Pop \/ Clear

Spec == Init /\ [][Next]_vars

-----------------------------------------------------------------------------
\* Every mask agrees with the remainder CircBufPow2 writes for it, whatever
\* the sign of head - tail, for each capacity init() accepts; and these are
\* the capacities CircBufPow2 says it accepts.
MaskIsRemainder ==
  /\ \A n \in 0..MaxElements : InitMaskAccepts(n) <=> Ring!InitAccepts(n)
  /\ Cnt(head, tail) = Ring!CIRC_CNT(head, tail, capacity)
  /\ Space(head, tail) = Ring!CIRC_SPACE(head, tail, capacity)
  /\ Masked(head + 1, capacity - 1) = (head + 1) % capacity
  /\ Masked(tail + 1, capacity - 1) = (tail + 1) % capacity
=============================================================================
