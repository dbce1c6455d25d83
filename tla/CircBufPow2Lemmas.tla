------------------------- MODULE CircBufPow2Lemmas -------------------------
(***************************************************************************)
(* What the operations of CircBufPow2 do to the elements a buffer holds,   *)
(* for every capacity.  Clients reason about size(buf) and Elem(buf, k)    *)
(* from these facts and never unfold the modular arithmetic again.         *)
(***************************************************************************)
EXTENDS CircBufPow2, Sequences, SequenceTheorems, TLAPS

LEMMA ModSmall == ASSUME NEW c \in Nat \ {0}, NEW x \in 0..(c-1)
                  PROVE  x % c = x
  BY SMT

LEMMA ModWrap == ASSUME NEW c \in Nat \ {0}, NEW x \in c..(2*c-1)
                 PROVE  x % c = x - c
  BY SMT

LEMMA ModNeg == ASSUME NEW c \in Nat \ {0}, NEW x \in Int, 0-c <= x, x < 0
                PROVE  x % c = x + c
  BY SMT

\* size() is between 0 and capacity - 1, is 0 exactly for an empty() buffer,
\* and space() is what is missing to capacity - 1: one slot stays unused.
LEMMA SizeFacts ==
  ASSUME NEW Element, NEW c \in Nat \ {0}, NEW b \in Buf(c, Element)
  PROVE  /\ size(b) \in 0..(c-1)
         /\ empty(b) <=> size(b) = 0
         /\ FrontIsNull(b) <=> size(b) = 0
         /\ space(b) = c - 1 - size(b)
         /\ PushOk(b) <=> size(b) < c - 1
         /\ size(b) = IF b.tail <= b.head THEN b.head - b.tail
                                          ELSE b.head - b.tail + c
  <1>1. b.head \in 0..(c-1) /\ b.tail \in 0..(c-1) /\ b.capacity = c
    BY DEF Buf, Index
  <1>2. size(b) = IF b.tail <= b.head THEN b.head - b.tail ELSE b.head - b.tail + c
    BY <1>1, ModSmall, ModNeg DEF size, CIRC_CNT
  <1>3. space(b) = IF b.tail <= b.head THEN b.tail - b.head - 1 + c
                                       ELSE b.tail - b.head - 1
    BY <1>1, ModSmall, ModNeg DEF space, CIRC_CNT
  <1>4. PushOk(b) <=> space(b) >= 1
    BY DEF PushOk, CIRC_SPACE, space
  <1>5. FrontIsNull(b) <=> size(b) = 0
    BY DEF FrontIsNull, size
  <1> DEFINE n == size(b)
  <1>6. n \in 0..(c-1) /\ space(b) = c - 1 - n
    BY <1>1, <1>2, <1>3
  <1>7. empty(b) <=> n = 0
    BY <1>1, <1>2 DEF empty
  <1>8. PushOk(b) <=> n < c - 1
    BY <1>4, <1>6
  <1> QED
    BY <1>2, <1>5, <1>6, <1>7, <1>8

\* The k-th element is in the slot k places after tail, wrapping at the end.
LEMMA ElemSlot ==
  ASSUME NEW Element, NEW c \in Nat \ {0}, NEW b \in Buf(c, Element),
         NEW k \in 0..(c-1)
  PROVE  /\ Elem(b, k) = b.slots[IF b.tail + k < c THEN b.tail + k
                                                   ELSE b.tail + k - c]
         /\ Elem(b, k) \in Element
  <1>1. b.tail \in 0..(c-1) /\ b.capacity = c /\ b.slots \in [0..(c-1) -> Element]
    BY DEF Buf, Index
  <1>2. (b.tail + k) % c = IF b.tail + k < c THEN b.tail + k ELSE b.tail + k - c
    <2> DEFINE x == b.tail + k
    <2>1. x \in 0..(2*c-1)
      BY <1>1
    <2>2. CASE x < c
      BY <2>1, <2>2, ModSmall
    <2>3. CASE ~(x < c)
      <3>1. x \in c..(2*c-1)
        BY <2>1, <2>3
      <3> HIDE DEF x
      <3>2. x % c = x - c
        BY <3>1, ModWrap
      <3> QED
        BY <1>1, <2>3, <3>2 DEF x
    <2> QED
      BY <2>2, <2>3
  <1> DEFINE i == IF b.tail + k < c THEN b.tail + k ELSE b.tail + k - c
  <1>3. Elem(b, k) = b.slots[i]
    BY <1>1, <1>2 DEF Elem
  <1>4. i \in 0..(c-1)
    BY <1>1
  <1> QED
    BY <1>1, <1>3, <1>4

\* front() on a non-empty buffer is its oldest element.
LEMMA FrontFacts ==
  ASSUME NEW Element, NEW c \in Nat \ {0}, NEW b \in Buf(c, Element)
  PROVE  /\ FrontSlot(b) = Elem(b, 0)
         /\ FrontSlot(b) \in Element
  <1>1. b.tail \in 0..(c-1) /\ b.slots \in [0..(c-1) -> Element]
    BY DEF Buf, Index
  <1> QED
    BY <1>1, ElemSlot DEF FrontSlot

\* Filling the slot under head of a buffer with room touches no element held.
LEMMA FillFacts ==
  ASSUME NEW Element, NEW c \in Nat \ {0}, NEW b \in Buf(c, Element),
         NEW e \in Element
  PROVE  /\ Fill(b, e) \in Buf(c, Element)
         /\ size(Fill(b, e)) = size(b)
         /\ \A k \in 0..(size(b)-1) : Elem(Fill(b, e), k) = Elem(b, k)
         /\ Fill(b, e).slots[Fill(b, e).head] = e
         /\ FrontIsNull(Fill(b, e)) = FrontIsNull(b)
         /\ Fill(b, e).tail = b.tail
         /\ Fill(b, e).head = b.head
  <1> DEFINE f == Fill(b, e)
  <1>1. b.head \in 0..(c-1) /\ b.tail \in 0..(c-1) /\ b.capacity = c
        /\ b.slots \in [0..(c-1) -> Element]
    BY DEF Buf, Index
  <1>2. /\ f.head = b.head /\ f.tail = b.tail /\ f.capacity = c
        /\ f.slots = [b.slots EXCEPT ![b.head] = e]
        /\ f \in Buf(c, Element)
    BY <1>1 DEF Fill, Buf, Index
  <1>3. size(f) = size(b) /\ FrontIsNull(f) = FrontIsNull(b)
    BY <1>1, <1>2 DEF size, FrontIsNull
  <1>4. ASSUME NEW k \in 0..(size(b)-1)
        PROVE  Elem(f, k) = Elem(b, k)
    <2>1. size(b) \in 0..(c-1) /\ k \in 0..(c-1)
      BY <1>4, SizeFacts
    <2>2. size(b) = IF b.tail <= b.head THEN b.head - b.tail
                                        ELSE b.head - b.tail + c
      BY SizeFacts
    <2> DEFINE i == IF b.tail + k < c THEN b.tail + k ELSE b.tail + k - c
    <2>3. Elem(b, k) = b.slots[i] /\ Elem(f, k) = f.slots[i]
      <3>1. Elem(b, k) = b.slots[i]
        BY <2>1, ElemSlot
      <3>2. Elem(f, k) = f.slots[IF f.tail + k < c THEN f.tail + k
                                                   ELSE f.tail + k - c]
        <4>1. f \in Buf(c, Element) /\ k \in 0..(c-1)
          BY <1>2, <2>1
        <4> HIDE DEF f
        <4> QED
          BY <4>1, ElemSlot
      <3> QED
        BY <3>1, <3>2, <1>2
    <2>4. i \in 0..(c-1) /\ i # b.head
      BY <2>1, <2>2, <1>1, <1>4
    <2> QED
      BY <2>3, <2>4, <1>1, <1>2
  <1> QED
    BY <1>1, <1>2, <1>3, <1>4

\* Publishing the head of a buffer with room makes the slot under head its
\* newest element and changes none of the others.
LEMMA PublishFacts ==
  ASSUME NEW Element, NEW c \in Nat \ {0}, NEW b \in Buf(c, Element), PushOk(b)
  PROVE  /\ Publish(b) \in Buf(c, Element)
         /\ size(Publish(b)) = size(b) + 1
         /\ \A k \in 0..(size(b)-1) : Elem(Publish(b), k) = Elem(b, k)
         /\ Elem(Publish(b), size(b)) = b.slots[b.head]
         /\ Publish(b).tail = b.tail
  <1> DEFINE p == Publish(b)
  <1>1. b.head \in 0..(c-1) /\ b.tail \in 0..(c-1) /\ b.capacity = c
        /\ b.slots \in [0..(c-1) -> Element]
    BY DEF Buf, Index
  <1>2. (b.head + 1) % c = IF b.head + 1 < c THEN b.head + 1 ELSE 0
    BY <1>1, ModSmall, ModWrap
  <1>3. /\ p.tail = b.tail /\ p.capacity = c /\ p.slots = b.slots
        /\ p.head = IF b.head + 1 < c THEN b.head + 1 ELSE 0
        /\ p \in Buf(c, Element)
    BY <1>1, <1>2 DEF Publish, Buf, Index
  <1>4. size(b) < c - 1 /\ size(b) \in 0..(c-1)
        /\ size(b) = IF b.tail <= b.head THEN b.head - b.tail
                                         ELSE b.head - b.tail + c
    BY SizeFacts
  <1>5. size(p) = IF p.tail <= p.head THEN p.head - p.tail
                                      ELSE p.head - p.tail + c
    BY <1>3, SizeFacts
  <1>6. size(p) = size(b) + 1
    BY <1>1, <1>3, <1>4, <1>5
  <1>7. ASSUME NEW k \in 0..(c-1)
        PROVE  Elem(p, k) = Elem(b, k)
    BY <1>1, <1>3 DEF Elem
  <1>8. Elem(b, size(b)) = b.slots[b.head]
    <2>1. Elem(b, size(b)) = b.slots[IF b.tail + size(b) < c THEN b.tail + size(b)
                                                 ELSE b.tail + size(b) - c]
      BY <1>4, ElemSlot
    <2> QED
      BY <2>1, <1>1, <1>4
  <1> QED
    BY <1>1, <1>3, <1>4, <1>6, <1>7, <1>8

\* push() on a buffer with room appends; on a full one it changes nothing.
LEMMA PushFacts ==
  ASSUME NEW Element, NEW c \in Nat \ {0}, NEW b \in Buf(c, Element),
         NEW e \in Element
  PROVE  /\ push(b, e) \in Buf(c, Element)
         /\ ~PushOk(b) => push(b, e) = b
         /\ PushOk(b) => /\ size(push(b, e)) = size(b) + 1
                         /\ \A k \in 0..(size(b)-1) : Elem(push(b, e), k) = Elem(b, k)
                         /\ Elem(push(b, e), size(b)) = e
  <1>1. CASE ~PushOk(b)
    BY <1>1 DEF push
  <1>2. CASE PushOk(b)
    <2> DEFINE f == Fill(b, e)
    <2>1. /\ f \in Buf(c, Element)
          /\ size(f) = size(b)
          /\ \A k \in 0..(size(b)-1) : Elem(f, k) = Elem(b, k)
          /\ f.slots[f.head] = e
      BY FillFacts
    <2>2. PushOk(f)
      BY <1>2, <2>1, SizeFacts
    <2> HIDE DEF f
    <2>3. /\ Publish(f) \in Buf(c, Element)
          /\ size(Publish(f)) = size(f) + 1
          /\ \A k \in 0..(size(f)-1) : Elem(Publish(f), k) = Elem(f, k)
          /\ Elem(Publish(f), size(f)) = f.slots[f.head]
      BY <2>1, <2>2, PublishFacts
    <2>4. push(b, e) = Publish(f)
      BY <1>2 DEF push, f
    <2> QED
      BY <1>2, <2>1, <2>3, <2>4
  <1> QED
    BY <1>1, <1>2

\* pop() on a non-empty buffer removes exactly its oldest element.
LEMMA PopFacts ==
  ASSUME NEW Element, NEW c \in Nat \ {0}, NEW b \in Buf(c, Element),
         ~FrontIsNull(b)
  PROVE  /\ pop(b) \in Buf(c, Element)
         /\ size(pop(b)) = size(b) - 1
         /\ \A k \in 0..(size(b)-2) : Elem(pop(b), k) = Elem(b, k + 1)
         /\ pop(b).head = b.head
         /\ pop(b).slots = b.slots
  <1> DEFINE p == pop(b)
  <1>1. b.head \in 0..(c-1) /\ b.tail \in 0..(c-1) /\ b.capacity = c
        /\ b.slots \in [0..(c-1) -> Element]
    BY DEF Buf, Index
  <1>2. (b.tail + 1) % c = IF b.tail + 1 < c THEN b.tail + 1 ELSE 0
    BY <1>1, ModSmall, ModWrap
  <1>3. /\ p.head = b.head /\ p.capacity = c /\ p.slots = b.slots
        /\ p.tail = IF b.tail + 1 < c THEN b.tail + 1 ELSE 0
        /\ p \in Buf(c, Element)
    BY <1>1, <1>2 DEF pop, Buf, Index
  <1>4. size(b) # 0 /\ size(b) \in 0..(c-1)
        /\ size(b) = IF b.tail <= b.head THEN b.head - b.tail
                                         ELSE b.head - b.tail + c
    BY SizeFacts
  <1>5. size(p) = IF p.tail <= p.head THEN p.head - p.tail
                                      ELSE p.head - p.tail + c
    BY <1>3, SizeFacts
  <1>6. size(p) = size(b) - 1
    BY <1>1, <1>3, <1>4, <1>5
  <1>7. ASSUME NEW k \in 0..(size(b)-2)
        PROVE  Elem(p, k) = Elem(b, k + 1)
    <2>1. k \in 0..(c-1) /\ k + 1 \in 0..(c-1)
      BY <1>4, <1>7
    <2>2. Elem(p, k) = p.slots[IF p.tail + k < c THEN p.tail + k
                                                 ELSE p.tail + k - c]
      BY <2>1, <1>3, ElemSlot
    <2>3. Elem(b, k + 1) = b.slots[IF b.tail + (k + 1) < c THEN b.tail + (k + 1)
                                                     ELSE b.tail + (k + 1) - c]
      BY <2>1, ElemSlot
    <2> QED
      BY <2>1, <2>2, <2>3, <1>1, <1>3
  <1> QED
    BY <1>3, <1>6, <1>7

-----------------------------------------------------------------------------
\* publish and pop keep a buffer a buffer, whatever it holds.
LEMMA PublishType ==
  ASSUME NEW Element, NEW c \in Nat \ {0}, NEW b \in Buf(c, Element)
  PROVE  Publish(b) \in Buf(c, Element)
  <1>1. b.head \in 0..(c-1) /\ b.capacity = c
    BY DEF Buf, Index
  <1>2. (b.head + 1) % c \in 0..(c-1)
    BY <1>1
  <1> QED
    BY <1>1, <1>2 DEF Publish, Buf, Index

LEMMA PopType ==
  ASSUME NEW Element, NEW c \in Nat \ {0}, NEW b \in Buf(c, Element)
  PROVE  pop(b) \in Buf(c, Element)
  <1>1. CASE FrontIsNull(b)
    BY <1>1 DEF pop
  <1>2. CASE ~FrontIsNull(b)
    BY <1>2, PopFacts
  <1> QED
    BY <1>1, <1>2

\* The buffer init() leaves is empty.
LEMMA InitFacts ==
  ASSUME NEW Element, NEW c \in Nat \ {0}, NEW s \in [Index(c) -> Element]
  PROVE  /\ InitBuf(c, s) \in Buf(c, Element)
         /\ size(InitBuf(c, s)) = 0
         /\ empty(InitBuf(c, s))
         /\ FrontIsNull(InitBuf(c, s))
  <1>1. InitBuf(c, s) \in Buf(c, Element)
    BY DEF InitBuf, Buf, Index
  <1>2. empty(InitBuf(c, s))
    BY DEF InitBuf, empty
  <1> QED
    BY <1>1, <1>2, SizeFacts

\* The set of the elements held.
LEMMA HeldFacts ==
  ASSUME NEW Element, NEW c \in Nat \ {0}, NEW b \in Buf(c, Element)
  PROVE  /\ Held(b) \subseteq Element
         /\ size(b) = 0 => Held(b) = {}
         /\ size(b) > 0 => FrontSlot(b) \in Held(b)
  <1>1. size(b) \in 0..(c-1)
    BY SizeFacts
  <1>2. ASSUME NEW k \in 0..(size(b)-1)
        PROVE  Elem(b, k) \in Element
    <2>1. k \in 0..(c-1)
      BY <1>1
    <2> QED
      BY <2>1, ElemSlot
  <1>3. FrontSlot(b) = Elem(b, 0)
    BY FrontFacts
  <1> QED
    BY <1>1, <1>2, <1>3 DEF Held

LEMMA HeldFill ==
  ASSUME NEW Element, NEW c \in Nat \ {0}, NEW b \in Buf(c, Element),
         NEW e \in Element
  PROVE  Held(Fill(b, e)) = Held(b)
  BY FillFacts DEF Held

LEMMA HeldPublish ==
  ASSUME NEW Element, NEW c \in Nat \ {0}, NEW b \in Buf(c, Element), PushOk(b)
  PROVE  Held(Publish(b)) = Held(b) \union {b.slots[b.head]}
  <1> DEFINE p == Publish(b)
  <1>1. /\ size(p) = size(b) + 1
        /\ \A k \in 0..(size(b)-1) : Elem(p, k) = Elem(b, k)
        /\ Elem(p, size(b)) = b.slots[b.head]
    BY PublishFacts
  <1>2. size(b) \in Nat
    BY SizeFacts
  <1> HIDE DEF p
  <1>3. Held(p) = {Elem(p, k) : k \in 0..size(b)}
    BY <1>1, <1>2 DEF Held
  <1> QED
    BY <1>1, <1>2, <1>3 DEF Held, p

LEMMA HeldPush ==
  ASSUME NEW Element, NEW c \in Nat \ {0}, NEW b \in Buf(c, Element),
         NEW e \in Element, PushOk(b)
  PROVE  Held(push(b, e)) = Held(b) \union {e}
  <1> DEFINE p == push(b, e)
  <1>1. /\ size(p) = size(b) + 1
        /\ \A k \in 0..(size(b)-1) : Elem(p, k) = Elem(b, k)
        /\ Elem(p, size(b)) = e
    BY PushFacts
  <1>2. size(b) \in Nat
    BY SizeFacts
  <1> HIDE DEF p
  <1>3. Held(p) = {Elem(p, k) : k \in 0..size(b)}
    BY <1>1, <1>2 DEF Held
  <1> QED
    BY <1>1, <1>2, <1>3 DEF Held, p

LEMMA HeldPop ==
  ASSUME NEW Element, NEW c \in Nat \ {0}, NEW b \in Buf(c, Element),
         ~FrontIsNull(b)
  PROVE  Held(b) = {FrontSlot(b)} \union Held(pop(b))
  <1> DEFINE p == pop(b)
  <1>1. /\ size(p) = size(b) - 1
        /\ \A k \in 0..(size(b)-2) : Elem(p, k) = Elem(b, k + 1)
    BY PopFacts
  <1>2. size(b) \in Nat /\ size(b) # 0
    BY SizeFacts
  <1>3. FrontSlot(b) = Elem(b, 0)
    BY FrontFacts
  <1> HIDE DEF p
  <1>4. \A k \in 1..(size(b)-1) : Elem(b, k) = Elem(p, k - 1)
    <2> TAKE k \in 1..(size(b)-1)
    <2>1. k - 1 \in 0..(size(b)-2)
      BY <1>2
    <2> QED
      BY <2>1, <1>1, <1>2
  <1>5. Held(b) \subseteq {FrontSlot(b)} \union Held(p)
    <2> SUFFICES ASSUME NEW k \in 0..(size(b)-1)
                 PROVE  Elem(b, k) \in {FrontSlot(b)} \union Held(p)
      BY DEF Held
    <2>1. CASE k = 0
      BY <2>1, <1>3
    <2>2. CASE k # 0
      <3>1. k - 1 \in 0..(size(p)-1) /\ k \in 1..(size(b)-1)
        BY <2>2, <1>1, <1>2
      <3> QED
        BY <3>1, <1>4 DEF Held
    <2> QED
      BY <2>1, <2>2
  <1>6. {FrontSlot(b)} \union Held(p) \subseteq Held(b)
    <2>1. FrontSlot(b) \in Held(b)
      BY <1>2, <1>3 DEF Held
    <2>2. ASSUME NEW k \in 0..(size(p)-1)
          PROVE  Elem(p, k) \in Held(b)
      <3>1. k \in 0..(size(b)-2) /\ k + 1 \in 0..(size(b)-1)
        BY <1>1, <1>2
      <3> QED
        BY <3>1, <1>1 DEF Held
    <2> QED
      BY <2>1, <2>2 DEF Held
  <1> QED
    BY <1>5, <1>6 DEF p

-----------------------------------------------------------------------------
\* The elements held, as a sequence of length size().
LEMMA ContentsFacts ==
  ASSUME NEW Element, NEW c \in Nat \ {0}, NEW b \in Buf(c, Element)
  PROVE  /\ Contents(b) \in Seq(Element)
         /\ Len(Contents(b)) = size(b)
         /\ size(b) \in 0..(c-1)
         /\ \A i \in 1..size(b) : Contents(b)[i] = Elem(b, i - 1)
  <1>1. size(b) \in 0..(c-1)
    BY SizeFacts
  <1>2. ASSUME NEW i \in 1..size(b)
        PROVE  Elem(b, i - 1) \in Element
    <2>1. i - 1 \in 0..(c-1)
      BY <1>1
    <2> QED
      BY <2>1, ElemSlot
  <1> QED
    BY <1>1, <1>2 DEF Contents

\* A buffer whose elements are those of another and one more, or all but the
\* first, has the sequence with that element appended, or without its head.
LEMMA ContentsGrow ==
  ASSUME NEW Element, NEW c \in Nat \ {0},
         NEW b \in Buf(c, Element), NEW p \in Buf(c, Element), NEW e \in Element,
         size(p) = size(b) + 1,
         \A k \in 0..(size(b)-1) : Elem(p, k) = Elem(b, k),
         Elem(p, size(b)) = e
  PROVE  Contents(p) = Append(Contents(b), e)
  <1> DEFINE s == Contents(b)
             t == Contents(p)
  <1>1. /\ s \in Seq(Element) /\ Len(s) = size(b) /\ size(b) \in 0..(c-1)
        /\ \A i \in 1..size(b) : s[i] = Elem(b, i - 1)
    BY ContentsFacts
  <1>2. /\ t \in Seq(Element) /\ Len(t) = size(p)
        /\ \A i \in 1..size(p) : t[i] = Elem(p, i - 1)
    BY ContentsFacts
  <1> HIDE DEF s, t
  <1>3. Append(s, e) \in Seq(Element) /\ Len(Append(s, e)) = Len(t)
    BY <1>1, <1>2
  <1>4. ASSUME NEW i \in 1..Len(t) PROVE t[i] = Append(s, e)[i]
    <2>1. t[i] = Elem(p, i - 1)
      BY <1>2
    <2>2. CASE i = size(b) + 1
      BY <1>1, <2>1, <2>2
    <2>3. CASE i # size(b) + 1
      <3>1. i \in 1..size(b) /\ i - 1 \in 0..(size(b)-1)
        BY <1>1, <1>2, <2>3
      <3>2. t[i] = Elem(b, i - 1)
        BY <2>1, <3>1
      <3> QED
        BY <1>1, <3>1, <3>2
    <2> QED
      BY <2>2, <2>3
  <1>5. t = Append(s, e)
    BY <1>2, <1>3, <1>4, SeqEqual
  <1> QED
    BY <1>5 DEF s, t

LEMMA ContentsShrink ==
  ASSUME NEW Element, NEW c \in Nat \ {0},
         NEW b \in Buf(c, Element), NEW p \in Buf(c, Element),
         size(p) = size(b) - 1, size(b) > 0,
         \A k \in 0..(size(b)-2) : Elem(p, k) = Elem(b, k + 1)
  PROVE  Contents(p) = Tail(Contents(b))
  <1> DEFINE s == Contents(b)
             t == Contents(p)
  <1>1. /\ s \in Seq(Element) /\ Len(s) = size(b) /\ size(b) \in 0..(c-1)
        /\ \A i \in 1..size(b) : s[i] = Elem(b, i - 1)
    BY ContentsFacts
  <1>2. /\ t \in Seq(Element) /\ Len(t) = size(p)
        /\ \A i \in 1..size(p) : t[i] = Elem(p, i - 1)
    BY ContentsFacts
  <1> HIDE DEF s, t
  <1>3. s # <<>>
    BY <1>1
  <1>4. /\ Tail(s) \in Seq(Element) /\ Len(Tail(s)) = Len(t)
        /\ \A i \in 1..Len(t) : Tail(s)[i] = s[i + 1]
    BY <1>1, <1>2, <1>3
  <1>5. ASSUME NEW i \in 1..Len(t) PROVE t[i] = Tail(s)[i]
    <2>1. i - 1 \in 0..(size(b)-2) /\ i + 1 \in 1..size(b)
      BY <1>1, <1>2
    <2>2. t[i] = Elem(b, (i - 1) + 1)
      BY <1>2, <2>1
    <2>3. s[i + 1] = Elem(b, (i + 1) - 1)
      BY <1>1, <2>1
    <2>4. (i - 1) + 1 = (i + 1) - 1
      BY <2>1, <1>1
    <2> QED
      BY <1>4, <2>2, <2>3, <2>4
  <1>6. t = Tail(s)
    BY <1>2, <1>4, <1>5, SeqEqual
  <1> QED
    BY <1>6 DEF s, t

\* What each operation does to the sequence.
LEMMA ContentsFill ==
  ASSUME NEW Element, NEW c \in Nat \ {0}, NEW b \in Buf(c, Element),
         NEW e \in Element
  PROVE  Contents(Fill(b, e)) = Contents(b)
  <1>1. /\ size(Fill(b, e)) = size(b) /\ size(b) \in 0..(c-1)
        /\ \A k \in 0..(size(b)-1) : Elem(Fill(b, e), k) = Elem(b, k)
    BY FillFacts, SizeFacts
  <1>2. \A i \in 1..size(b) : Elem(Fill(b, e), i - 1) = Elem(b, i - 1)
    <2> TAKE i \in 1..size(b)
    <2>1. i - 1 \in 0..(size(b)-1)
      BY <1>1
    <2> QED
      BY <1>1, <2>1
  <1> QED
    BY <1>1, <1>2 DEF Contents

LEMMA ContentsPublish ==
  ASSUME NEW Element, NEW c \in Nat \ {0}, NEW b \in Buf(c, Element), PushOk(b),
         b.slots[b.head] \in Element
  PROVE  Contents(Publish(b)) = Append(Contents(b), b.slots[b.head])
  <1> DEFINE p == Publish(b)
             e == b.slots[b.head]
  <1>1. /\ p \in Buf(c, Element) /\ size(p) = size(b) + 1
        /\ \A k \in 0..(size(b)-1) : Elem(p, k) = Elem(b, k)
        /\ Elem(p, size(b)) = e
    BY PublishFacts
  <1>2. e \in Element
    OBVIOUS
  <1> HIDE DEF p, e
  <1>3. Contents(p) = Append(Contents(b), e)
    BY <1>1, <1>2, ContentsGrow
  <1> QED
    BY <1>3 DEF p, e

LEMMA ContentsPush ==
  ASSUME NEW Element, NEW c \in Nat \ {0}, NEW b \in Buf(c, Element),
         NEW e \in Element, PushOk(b)
  PROVE  Contents(push(b, e)) = Append(Contents(b), e)
  <1> DEFINE p == push(b, e)
  <1>1. /\ p \in Buf(c, Element) /\ size(p) = size(b) + 1
        /\ \A k \in 0..(size(b)-1) : Elem(p, k) = Elem(b, k)
        /\ Elem(p, size(b)) = e
    BY PushFacts
  <1> HIDE DEF p
  <1>2. Contents(p) = Append(Contents(b), e)
    BY <1>1, ContentsGrow
  <1> QED
    BY <1>2 DEF p

LEMMA ContentsPop ==
  ASSUME NEW Element, NEW c \in Nat \ {0}, NEW b \in Buf(c, Element),
         ~FrontIsNull(b)
  PROVE  /\ Contents(b) # <<>>
         /\ FrontSlot(b) = Head(Contents(b))
         /\ Contents(pop(b)) = Tail(Contents(b))
  <1> DEFINE p == pop(b)
  <1>1. /\ p \in Buf(c, Element) /\ size(p) = size(b) - 1
        /\ \A k \in 0..(size(b)-2) : Elem(p, k) = Elem(b, k + 1)
    BY PopFacts
  <1>2. size(b) \in 0..(c-1) /\ size(b) > 0
    BY SizeFacts
  <1> HIDE DEF p
  <1>3. Contents(p) = Tail(Contents(b))
    BY <1>1, <1>2, ContentsShrink
  <1>4. /\ Contents(b) \in Seq(Element) /\ Len(Contents(b)) = size(b)
        /\ Contents(b)[1] = Elem(b, 1 - 1)
    BY <1>2, ContentsFacts
  <1>5. FrontSlot(b) = Elem(b, 0)
    BY FrontFacts
  <1>6. Contents(b) # <<>> /\ Head(Contents(b)) = Contents(b)[1]
    BY <1>2, <1>4
  <1> QED
    BY <1>3, <1>4, <1>5, <1>6 DEF p

\* A buffer is full when the sequence has capacity - 1 elements, and empty when
\* it has none.
LEMMA ContentsLimits ==
  ASSUME NEW Element, NEW c \in Nat \ {0}, NEW b \in Buf(c, Element)
  PROVE  /\ Len(Contents(b)) \in 0..(c-1)
         /\ PushOk(b) <=> Len(Contents(b)) < c - 1
         /\ ~PushOk(b) <=> Len(Contents(b)) = c - 1
         /\ space(b) # 0 <=> PushOk(b)
         /\ FrontIsNull(b) <=> Contents(b) = <<>>
  <1>1. /\ size(b) \in 0..(c-1) /\ (FrontIsNull(b) <=> size(b) = 0)
        /\ space(b) = c - 1 - size(b) /\ (PushOk(b) <=> size(b) < c - 1)
    BY SizeFacts
  <1>2. Contents(b) \in Seq(Element) /\ Len(Contents(b)) = size(b)
    BY ContentsFacts
  <1>3. Contents(b) = <<>> <=> Len(Contents(b)) = 0
    BY <1>2
  <1> QED
    BY <1>1, <1>2, <1>3
=============================================================================
