------------------------- MODULE CircBufQueueProofs -------------------------
(* The ring of CircBufQueue implements BoundedQueue, for every capacity    *)
(* init() accepts and every set of values.                                 *)
EXTENDS CircBufQueue, CircBufPow2Lemmas

\* An accepted capacity is a positive number.
LEMMA CapacityPositive == Capacity \in Nat \ {0}
  BY QueueAssumption DEF InitAccepts

\* clear() keeps the type and leaves no element.
LEMMA ClearFacts ==
  ASSUME NEW b \in Buf(Capacity, Value)
  PROVE  clear(b) \in Buf(Capacity, Value) /\ size(clear(b)) = 0
  <1>1. 0 \in Index(Capacity)
    BY CapacityPositive DEF Index
  <1>2. clear(b) \in Buf(Capacity, Value) /\ empty(clear(b))
    BY <1>1 DEF clear, Buf, empty
  <1> QED
    BY <1>2, CapacityPositive, SizeFacts

LEMMA InitType == Init => TypeOK /\ size(buf) = 0
  <1> SUFFICES ASSUME Init PROVE TypeOK /\ size(buf) = 0
    OBVIOUS
  <1>1. PICK s \in [Index(Capacity) -> Value] : buf = InitBuf(Capacity, s)
    BY DEF Init
  <1> QED
    BY <1>1, CapacityPositive, InitFacts DEF Init, TypeOK

LEMMA NextType == TypeOK /\ [Next]_vars => TypeOK'
  <1> SUFFICES ASSUME TypeOK, [Next]_vars PROVE TypeOK'
    OBVIOUS
  <1>1. CASE UNCHANGED vars
    BY <1>1 DEF vars, TypeOK
  <1>2. ASSUME NEW v \in Value, Push(v) PROVE TypeOK'
    BY <1>2, CapacityPositive, PushFacts DEF Push, TypeOK
  <1>3. CASE Take
    BY <1>3, CapacityPositive, PopType, FrontFacts DEF Take, TypeOK
  <1>4. CASE Clear
    BY <1>4, ClearFacts DEF Clear, TypeOK
  <1> QED
    BY <1>1, <1>2, <1>3, <1>4 DEF Next

\* The type invariant: head and tail stay inside the block.
THEOREM RingType == Spec => []TypeOK
  BY InitType, NextType, PTL DEF Spec

\* A push() with room appends at the end, one without changes nothing.
LEMMA PushAppends == ASSUME TypeOK, NEW v \in Value, Push(v) PROVE Queue!Push(v)
  <1>1. /\ PushOk(buf) <=> Len(contents) < Capacity - 1
        /\ ~PushOk(buf) <=> Len(contents) = Capacity - 1
    BY CapacityPositive, ContentsLimits DEF TypeOK, contents
  <1>2. CASE ~PushOk(buf)
    <2>1. contents' = contents
      BY <1>2, CapacityPositive, PushFacts DEF TypeOK, Push, contents
    <2> QED
      BY <1>1, <1>2, <2>1 DEF Push, Queue!Push
  <1>3. CASE PushOk(buf)
    <2>1. contents' = Append(contents, v)
      BY <1>3, CapacityPositive, ContentsPush DEF TypeOK, Push, contents
    <2> QED
      BY <1>1, <1>3, <2>1 DEF Push, Queue!Push
  <1> QED
    BY <1>2, <1>3

\* front() with pop() returns and removes the oldest element.
LEMMA TakeTakes == ASSUME TypeOK, Take PROVE Queue!Take
  <1>1. FrontIsNull(buf) <=> contents = <<>>
    BY CapacityPositive, ContentsLimits DEF TypeOK, contents
  <1>2. CASE FrontIsNull(buf)
    <2>1. contents' = contents
      BY <1>2 DEF Take, pop, contents
    <2> QED
      BY <1>1, <1>2, <2>1 DEF Take, Queue!Take
  <1>3. CASE ~FrontIsNull(buf)
    <2>1. contents' = Tail(contents) /\ FrontSlot(buf) = Head(contents)
      BY <1>3, CapacityPositive, ContentsPop DEF TypeOK, Take, contents
    <2> QED
      BY <1>1, <1>3, <2>1 DEF Take, Queue!Take
  <1> QED
    BY <1>2, <1>3

LEMMA ClearClears == ASSUME TypeOK, Clear PROVE Queue!Clear
  <1>1. buf' \in Buf(Capacity, Value) /\ size(buf') = 0
    BY ClearFacts DEF Clear, TypeOK
  <1>2. contents' = <<>>
    BY <1>1, CapacityPositive, SizeFacts, ContentsLimits DEF contents
  <1> QED
    BY <1>2 DEF Clear, Queue!Clear

\* The ring is a queue of capacity - 1 elements: push() refuses exactly at
\* that size, front() and pop() give the oldest element, on every lap.
THEOREM RingIsQueue == Spec => QueueSpec
  <1>1. Init => Queue!Init
    <2> SUFFICES ASSUME Init PROVE Queue!Init
      OBVIOUS
    <2>1. TypeOK /\ size(buf) = 0
      BY InitType
    <2>2. contents = <<>>
      BY <2>1, CapacityPositive, SizeFacts, ContentsLimits DEF TypeOK, contents
    <2> QED
      BY <2>2 DEF Init, Queue!Init
  <1>2. TypeOK /\ [Next]_vars => [Queue!Next]_<<contents, reply>>
    <2> SUFFICES ASSUME TypeOK, [Next]_vars
                 PROVE  [Queue!Next]_<<contents, reply>>
      OBVIOUS
    <2>1. CASE UNCHANGED vars
      BY <2>1 DEF vars, contents
    <2>2. ASSUME NEW v \in Value, Push(v) PROVE Queue!Next
      BY <2>2, PushAppends DEF Queue!Next
    <2>3. CASE Take
      BY <2>3, TakeTakes DEF Queue!Next
    <2>4. CASE Clear
      BY <2>4, ClearClears DEF Queue!Next
    <2> QED
      BY <2>1, <2>2, <2>3, <2>4 DEF Next
  <1> QED
    BY <1>1, <1>2, RingType, PTL DEF Spec, QueueSpec, Queue!Spec
=============================================================================
