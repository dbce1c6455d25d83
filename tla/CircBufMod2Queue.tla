-------------------------- MODULE CircBufMod2Queue --------------------------
(***************************************************************************)
(* One client of one mod-2 ring: every sequence of push(), front() with    *)
(* pop(), and clear() calls.  Elements are numbered as they are accepted,  *)
(* so what a queue would still hold is the range oldest..pushed.           *)
(***************************************************************************)
EXTENDS CircBufMod2

CONSTANTS
  Capacity,
  MaxPushes   \* bound: elements accepted

Mod2Assumption ==
  /\ Capacity \in Nat \ {0} /\ InitAccepts(Capacity)
  /\ MaxPushes \in Nat
  /\ BeyondBlock \notin Nat     \* told apart from the elements

VARIABLES
  buf,
  pushed,   \* history: elements accepted
  oldest,   \* history: the number after the last one taken or cleared
  taken     \* history: what the last front() showed, 0 at the start

vars == <<buf, pushed, oldest, taken>>

Init ==
  /\ buf = InitBuf(Capacity, [i \in Index(Capacity) |-> 0])
  /\ pushed = 0 /\ oldest = 1 /\ taken = 0

Push ==
  /\ pushed < MaxPushes
  /\ buf' = push(buf, pushed + 1)
  /\ pushed' = IF PushOk(buf) THEN pushed + 1 ELSE pushed
  /\ UNCHANGED <<oldest, taken>>

Take ==
  /\ ~FrontIsNull(buf)
  /\ buf' = pop(buf)
  /\ taken' = FrontSlot(buf)
  /\ oldest' = IF taken' = BeyondBlock THEN oldest ELSE taken' + 1
  /\ UNCHANGED pushed

Clear ==
  /\ buf' = clear(buf)
  /\ oldest' = pushed + 1
  /\ UNCHANGED <<pushed, taken>>

Next == Push \/ Take \/ Clear

Spec == Init /\ [][Next]_vars

-----------------------------------------------------------------------------
TypeOK ==
  /\ buf \in Buf(Capacity, 0..MaxPushes)
  /\ pushed \in 0..MaxPushes /\ oldest \in 1..(MaxPushes + 1)
  /\ taken \in 0..MaxPushes \union {BeyondBlock}

\* What is read from inside the block comes in the order it was pushed and
\* never twice, and what is skipped is whole laps of the ring: capacity
\* elements vanish when head catches up with tail, or none.
LossIsWholeLaps ==
  [][Take /\ taken' # BeyondBlock =>
       taken' >= oldest /\ (taken' - oldest) % Capacity = 0]_vars

\* Until head wraps for the first time the ring is an exact queue.
FirstLapExact == pushed < Capacity => size(buf) = pushed - oldest + 1
=============================================================================
