---------------------------- MODULE DriverProofs ----------------------------
(* Drivers at work, for any capacity, number of threads, of work items and   *)
(* of calls: what the mod-2 ring loses is whole laps, reads count, work      *)
(* items are misused only where two meet, a lone writer's data arrives.       *)
(* Each part proves an inductive invariant of one module of MCDrivers; the   *)
(* end puts them together.                                                   *)
EXTENDS MCDrivers, LifeProofs, FiniteSetTheorems

-----------------------------------------------------------------------------
(* Remainders *)

LEMMA ModRange == ASSUME NEW m \in Nat \ {0}, NEW a \in Int
                  PROVE  /\ a % m \in 0 .. (m - 1) /\ a \div m \in Int
                         /\ a = m * (a \div m) + (a % m)
  OBVIOUS
LEMMA Grow == ASSUME NEW m \in Nat \ {0}, NEW q \in Int, q >= 1
                  PROVE  m * q >= m
<1>1. q - 1 >= 0 /\ m >= 0 /\ q - 1 \in Nat /\ m \in Nat
  OBVIOUS
<1>2. m * (q - 1) >= 0
  BY <1>1
<1>3. m * (q - 1) = m * q - m
  BY Z3
<1> QED
  BY <1>2, <1>3

LEMMA DivUnique == ASSUME NEW m \in Nat \ {0}, NEW q \in Int, NEW r \in 0 .. (m - 1),
                          NEW p \in Int, NEW s \in 0 .. (m - 1),
                     m * q + r = m * p + s
                  PROVE  q = p /\ r = s
<1>1. m * (q - p) = s - r
  BY SMT
<1>2. CASE q - p >= 1
  BY <1>1, <1>2, Grow
<1>3. CASE p - q >= 1
  <2>1. m * (p - q) = r - s
    BY SMT
  <2> QED
    BY <2>1, <1>3, Grow
<1>4. CASE p = q
  BY <1>4
<1> QED
  BY <1>2, <1>3, <1>4

LEMMA ModUnique == ASSUME NEW m \in Nat \ {0}, NEW q \in Int, NEW r \in 0 .. (m - 1)
                  PROVE  (m * q + r) % m = r
<1> DEFINE a == m * q + r
<1>1. a \in Int
  OBVIOUS
<1> HIDE DEF a
<1>2. a % m \in 0 .. (m - 1) /\ a \div m \in Int /\ a = m * (a \div m) + (a % m)
  BY <1>1, ModRange
<1>3. m * q + r = m * (a \div m) + (a % m)
  BY <1>2 DEF a
<1>4. r = a % m
  <2> DEFINE p == a \div m
             t == a % m
  <2> HIDE DEF p, t
  <2>1. p \in Int /\ t \in 0 .. (m - 1) /\ m * q + r = m * p + t
    BY <1>2, <1>3 DEF p, t
  <2>2. r = t
    BY <2>1, DivUnique
  <2> QED
    BY <2>2 DEF t
<1> QED
  BY <1>4 DEF a

LEMMA ModStep == ASSUME NEW m \in Nat \ {0}, NEW a \in Int
                  PROVE  ((a % m) + 1) % m = (a + 1) % m
<1>1. a % m \in 0 .. (m - 1) /\ a \div m \in Int /\ a = m * (a \div m) + (a % m)
  BY ModRange
<1> DEFINE r == a % m
           q == a \div m
<1> HIDE DEF r, q
<1>2. r \in 0 .. (m - 1) /\ q \in Int /\ a + 1 = m * q + (r + 1)
  BY <1>1 DEF r, q
<1>3. CASE r + 1 \in 0 .. (m - 1)
  <2>1. (a + 1) % m = r + 1
    BY <1>2, <1>3, ModUnique
  <2>2. m * 0 + (r + 1) = r + 1
    BY <1>2
  <2>3. (r + 1) % m = r + 1
    BY <2>2, <1>3, ModUnique
  <2> QED
    BY <2>1, <2>3 DEF r
<1>4. CASE r + 1 = m
  <2>1. a + 1 = m * (q + 1) + 0
    <3>1. m * (q + 1) = m * q + m
      BY <1>2
    <3> QED
      BY <1>2, <1>4, <3>1
  <2>2. 0 \in 0 .. (m - 1) /\ m = m * 1 + 0
    OBVIOUS
  <2>3. (m * (q + 1) + 0) % m = 0
    <3>1. q + 1 \in Int
      BY <1>2
    <3> QED
      BY <2>2, <3>1, ModUnique
  <2>4. (r + 1) % m = 0
    BY <1>4, <2>2, ModUnique
  <2> QED
    BY <2>1, <2>3, <2>4 DEF r
<1> QED
  BY <1>2, <1>3, <1>4

\* Whole laps make no difference to a place in the ring.
LEMMA ModShift == ASSUME NEW m \in Nat \ {0}, NEW a \in Int, NEW q \in Int
                  PROVE  (a + m * q) % m = a % m
<1> DEFINE r == a % m
           p == a \div m
<1>1. r \in 0 .. (m - 1) /\ p \in Int /\ a = m * p + r
  BY ModRange
<1> HIDE DEF r, p
<1>2. a + m * q = m * (p + q) + r
  <2>1. m * (p + q) = m * p + m * q
    BY <1>1
  <2>2. m * p \in Int /\ m * q \in Int
    BY <1>1
  <2> QED
    BY <1>1, <2>1, <2>2
<1>3. p + q \in Int
  BY <1>1
<1>4. (m * (p + q) + r) % m = r
  BY <1>1, <1>3, ModUnique
<1> QED
  BY <1>2, <1>4 DEF r

LEMMA ModWithin == ASSUME NEW m \in Nat \ {0}, NEW r \in 0 .. (m - 1)
                   PROVE  r % m = r
<1>1. (m * 0 + r) % m = r
  BY ModUnique
<1>2. m * 0 + r = r
  OBVIOUS
<1> QED
  BY <1>1, <1>2

\* Two places less than a lap apart differ.
LEMMA ModDistinct == ASSUME NEW m \in Nat \ {0}, NEW a \in Int, NEW d \in 1 .. (m - 1)
                     PROVE  (a + d) % m # a % m
<1> DEFINE r == a % m
           p == a \div m
           s == (a + d) % m
           t == (a + d) \div m
<1>1. r \in 0 .. (m - 1) /\ p \in Int /\ a = m * p + r
  BY ModRange
<1>2. s \in 0 .. (m - 1) /\ t \in Int /\ a + d = m * t + s
  <2>1. a + d \in Int
    OBVIOUS
  <2> QED
    BY <2>1, ModRange
<1> HIDE DEF r, p, s, t
<1>3. SUFFICES ASSUME r = s PROVE FALSE
  BY DEF r, s
<1>4. d = m * (t - p)
  <2>1. m * (t - p) = m * t - m * p
    BY <1>1, <1>2
  <2>2. m * t \in Int /\ m * p \in Int
    BY <1>1, <1>2
  <2> QED
    BY <1>1, <1>2, <1>3, <2>1, <2>2
<1>5. CASE t - p >= 1
  <2>1. t - p \in Int /\ m * (t - p) >= m
    BY <1>1, <1>2, <1>5, Grow
  <2> QED
    BY <1>4, <2>1
<1>6. CASE p - t >= 1
  <2>1. p - t \in Int /\ m * (p - t) >= m
    BY <1>1, <1>2, <1>6, Grow
  <2>2. m * (p - t) = 0 - d
    BY <1>1, <1>2, <1>4
  <2> QED
    BY <2>1, <2>2
<1>7. CASE t = p
  <2>1. m * (t - p) = 0
    BY <1>1, <1>2, <1>7
  <2> QED
    BY <1>4, <2>1
<1> QED
  BY <1>1, <1>2, <1>5, <1>6, <1>7

\* The last of the numbers up to h that is at the place of t
LEMMA LastAtPlace ==
  ASSUME NEW m \in Nat \ {0}, NEW h \in Int, NEW t \in Int, t <= h, NEW z \in Int
  PROVE  LET e == h - ((h - t) % m)
         IN  /\ e \in Int /\ e <= h /\ h - m < e /\ t <= e
             /\ (e - t) % m = 0
             /\ (e - z) % m = (t - z) % m
             /\ (e + 1 - z) % m = (t + 1 - z) % m
<1> DEFINE d == h - t
           r == d % m
           q == d \div m
           e == h - r
<1>1. d \in Int /\ d >= 0
  OBVIOUS
<1>2. r \in 0 .. (m - 1) /\ q \in Int /\ d = m * q + r
  <2> HIDE DEF d
  <2> QED
    BY <1>1, ModRange
<1> HIDE DEF r, q
<1>3. e = t + m * q /\ e \in Int /\ e <= h /\ h - m < e
  <2>1. m * q \in Int
    BY <1>2
  <2> QED
    BY <1>2, <2>1
<1>4. t <= e
  <2>1. CASE q >= 0
    <3>1. m * q >= 0
      <4>1. CASE q = 0
        BY <4>1
      <4>2. CASE q >= 1
        <5>1. m * q >= m
          BY <1>2, <4>2, Grow
        <5> QED
          BY <1>2, <5>1
      <4> QED
        BY <1>2, <2>1, <4>1, <4>2
    <3> QED
      BY <1>2, <1>3, <3>1
  <2>2. CASE q < 0
    <3>1. 0 - q >= 1 /\ 0 - q \in Int
      BY <1>2, <2>2
    <3>2. m * (0 - q) >= m
      BY <3>1, Grow
    <3>3. m * (0 - q) = 0 - m * q
      BY <1>2
    <3> QED
      BY <1>1, <1>2, <3>2, <3>3
  <2> QED
    BY <1>2, <2>1, <2>2
<1>5. (e - t) % m = 0
  <2>1. 0 \in 0 .. (m - 1) /\ e - t = m * q + 0
    BY <1>2, <1>3
  <2>2. (m * q + 0) % m = 0
    BY <1>2, <2>1, ModUnique
  <2> QED
    BY <2>1, <2>2
<1>6. (e - z) % m = (t - z) % m /\ (e + 1 - z) % m = (t + 1 - z) % m
  <2>1. t - z \in Int /\ t + 1 - z \in Int
    OBVIOUS
  <2>2. m * q \in Int /\ e - z = (t - z) + m * q /\ e + 1 - z = (t + 1 - z) + m * q
    BY <1>2, <1>3
  <2>3. ((t - z) + m * q) % m = (t - z) % m /\ ((t + 1 - z) + m * q) % m = (t + 1 - z) % m
    BY <1>2, <2>1, ModShift
  <2> QED
    BY <2>2, <2>3
<1> QED
  BY <1>3, <1>4, <1>5, <1>6 DEF r

-----------------------------------------------------------------------------
(* The mod-2 ring *)

Mod2Type ==
  /\ mod2Buf \in Mod2!Buf(Mod2Capacity, Nat)
  /\ pushed \in Nat /\ oldest \in Nat \ {0}

\* With base elements pushed before the last clear(): where head and tail are, and
\* what the last lap left in the slots.  tail stands past the end only after a lap.
Laps(base) ==
  /\ base < oldest /\ oldest <= pushed + 1
  /\ mod2Buf.head = (pushed - base) % Mod2Capacity
  /\ IF mod2Buf.tail = Mod2Capacity
     THEN (oldest - 1 - base) % Mod2Capacity = 0 /\ pushed - base >= Mod2Capacity
                            ELSE mod2Buf.tail = (oldest - 1 - base) % Mod2Capacity
  /\ \A e \in Nat : base < e /\ pushed - Mod2Capacity < e /\ e <= pushed =>
       mod2Buf.slots[(e - 1 - base) % Mod2Capacity] = e

Mod2Inv == Mod2Type /\ \E base \in Nat : Laps(base)

LEMMA BufFacts ==
  Mod2Type => /\ mod2Buf.head \in 0 .. (Mod2Capacity - 1) /\ mod2Buf.tail \in 0 .. Mod2Capacity
              /\ mod2Buf.slots \in [0 .. (Mod2Capacity - 1) -> Nat]
                 /\ mod2Buf.capacity = Mod2Capacity
              /\ mod2Buf = [capacity |-> Mod2Capacity, head |-> mod2Buf.head,
                            tail |-> mod2Buf.tail, slots |-> mod2Buf.slots]
  BY DEF Mod2Type, Mod2!Buf, Mod2!Index

\* What front() shows from inside the block is the last element pushed at the place
\* of the oldest one: whole laps later, if at all.
LEMMA FrontFacts ==
  ASSUME Mod2!Mod2Assumption, Mod2Type, NEW base \in Nat, Laps(base), ~Mod2!FrontIsNull(mod2Buf),
         mod2Buf.tail # Mod2Capacity
  PROVE  /\ oldest <= pushed
         /\ Mod2!FrontSlot(mod2Buf) = pushed - ((pushed - oldest) % Mod2Capacity)
<1> USE DEF Mod2!Mod2Assumption, Mod2Type
<1>1. mod2Buf.head # mod2Buf.tail
  BY BufFacts DEF Mod2!FrontIsNull, Mod2!size
<1>2. oldest <= pushed
  <2>1. oldest = pushed + 1 => oldest - 1 - base = pushed - base
    OBVIOUS
  <2> QED
    BY <1>1, <2>1 DEF Laps
<1> DEFINE e == pushed - ((pushed - oldest) % Mod2Capacity)
<1>3. /\ e \in Int /\ e <= pushed /\ pushed - Mod2Capacity < e /\ oldest <= e
      /\ (e - (base + 1)) % Mod2Capacity = (oldest - (base + 1)) % Mod2Capacity
  <2>1. pushed \in Int /\ oldest \in Int /\ base + 1 \in Int
    OBVIOUS
  <2> QED
    BY <1>2, <2>1, LastAtPlace, ZenonT(60)
<1> HIDE DEF e
<1>4. base < e /\ e \in Nat
  BY <1>3 DEF Laps
<1>5. e - 1 - base = e - (base + 1) /\ oldest - 1 - base = oldest - (base + 1)
  BY <1>3
<1>6. mod2Buf.slots[(e - 1 - base) % Mod2Capacity] = e
  BY <1>3, <1>4 DEF Laps
<1>7. mod2Buf.tail = (e - 1 - base) % Mod2Capacity
  BY <1>3, <1>5 DEF Laps
<1>8. Mod2!FrontSlot(mod2Buf) = mod2Buf.slots[mod2Buf.tail]
  BY BufFacts DEF Mod2!FrontSlot
<1> QED
  BY <1>2, <1>6, <1>7, <1>8 DEF e

LEMMA Mod2Init == Mod2!Mod2Assumption /\ Mod2!Init => Mod2Inv
<1> SUFFICES ASSUME Mod2!Mod2Assumption, Mod2!Init PROVE Mod2Inv
  OBVIOUS
<1> USE DEF Mod2!Mod2Assumption
<1>1. /\ mod2Buf.capacity = Mod2Capacity /\ mod2Buf.head = 0 /\ mod2Buf.tail = 0
      /\ pushed = 0 /\ oldest = 1
  BY DEF Mod2!Init, Mod2!InitBuf
<1>2. Mod2Type
  BY DEF Mod2Type, Mod2!Init, Mod2!InitBuf, Mod2!Buf, Mod2!Index
<1>3. 0 % Mod2Capacity = 0 /\ oldest - 1 - 0 = 0 /\ pushed - 0 = 0 /\ Mod2Capacity # 0
  BY <1>1
<1>4. Laps(0)
  BY <1>1, <1>3 DEF Laps
<1> QED
  BY <1>2, <1>4 DEF Mod2Inv

LEMMA Mod2PushStep ==
  ASSUME Mod2!Mod2Assumption, Mod2Type, NEW base \in Nat, Laps(base), Mod2!Push
  PROVE  Mod2Type' /\ Laps(base)'
<1> USE DEF Mod2!Mod2Assumption
<1>1. CASE ~Mod2!PushOk(mod2Buf)
  <2>1. UNCHANGED <<mod2Buf, pushed, oldest>>
    BY <1>1 DEF Mod2!Push, Mod2!push
  <2> QED
    BY <2>1 DEF Mod2Type, Laps
<1>2. CASE Mod2!PushOk(mod2Buf)
  <2> DEFINE n == pushed - base
  <2>1. /\ mod2Buf' = [mod2Buf EXCEPT !.slots[mod2Buf.head] = pushed + 1,
                       !.head = Mod2!AdvanceHead(mod2Buf)]
        /\ pushed' = pushed + 1 /\ oldest' = oldest
    BY <1>2 DEF Mod2!Push, Mod2!push
  <2>2. /\ mod2Buf'.head = Mod2!AdvanceHead(mod2Buf) /\ mod2Buf'.tail = mod2Buf.tail
           /\ mod2Buf'.capacity = Mod2Capacity
        /\ mod2Buf'.slots = [mod2Buf.slots EXCEPT ![mod2Buf.head] = pushed + 1]
        /\ mod2Buf' = [capacity |-> mod2Buf'.capacity, head |-> mod2Buf'.head,
                       tail |-> mod2Buf'.tail, slots |-> mod2Buf'.slots]
    BY <2>1, BufFacts
  <2>3. pushed \in Nat /\ oldest \in Nat \ {0} /\ n \in Nat /\ Mod2Capacity \in Nat \ {0}
    BY DEF Mod2Type, Laps
  <2>4. mod2Buf.head \in 0 .. (Mod2Capacity - 1) /\ mod2Buf.head = n % Mod2Capacity
    BY BufFacts DEF Laps
  <2>5. Mod2!AdvanceHead(mod2Buf) \in 0 .. (Mod2Capacity - 1)
        /\ Mod2!AdvanceHead(mod2Buf) = (mod2Buf.head + 1) % Mod2Capacity
    <3>1. CASE mod2Buf.head + 1 = Mod2Capacity
      <4>1. Mod2Capacity % Mod2Capacity = 0
        <5>1. 0 \in 0 .. (Mod2Capacity - 1) /\ Mod2Capacity * 1 + 0 = Mod2Capacity
          BY <2>3
        <5>2. (Mod2Capacity * 1 + 0) % Mod2Capacity = 0
          BY <2>3, <5>1, ModUnique
        <5> QED
          BY <5>1, <5>2
      <4> QED
        BY <2>3, <2>4, <3>1, <4>1, BufFacts DEF Mod2!AdvanceHead
    <3>2. CASE mod2Buf.head + 1 # Mod2Capacity
      <4>1. mod2Buf.head + 1 \in 0 .. (Mod2Capacity - 1)
        BY <2>3, <2>4, <3>2
      <4>2. (mod2Buf.head + 1) % Mod2Capacity = mod2Buf.head + 1
        BY <2>3, <4>1, ModWithin
      <4> QED
        BY <3>2, <4>1, <4>2, BufFacts DEF Mod2!AdvanceHead
    <3> QED
      BY <3>1, <3>2
  <2>6. mod2Buf'.head = (pushed' - base) % Mod2Capacity
    <3>1. ((n % Mod2Capacity) + 1) % Mod2Capacity = (n + 1) % Mod2Capacity
      <4>1. n \in Int /\ Mod2Capacity \in Nat \ {0}
        BY <2>3
      <4> HIDE DEF n
      <4> QED
        BY <4>1, ModStep
    <3>2. pushed' - base = n + 1
      BY <2>1, <2>3
    <3> QED
      BY <2>2, <2>4, <2>5, <3>1, <3>2
  <2>7. Mod2Type'
    <3>1. mod2Buf'.slots \in [0 .. (Mod2Capacity - 1) -> Nat] /\ mod2Buf'.tail \in 0 .. Mod2Capacity
      BY <2>2, <2>3, BufFacts
    <3> QED
      BY <2>1, <2>2, <2>3, <2>5, <3>1 DEF Mod2Type, Mod2!Buf, Mod2!Index
  <2>8. ASSUME NEW e \in Nat, base < e, pushed' - Mod2Capacity < e, e <= pushed'
        PROVE  mod2Buf'.slots[(e - 1 - base) % Mod2Capacity] = e
    <3>1. CASE e = pushed + 1
      <4>1. e - 1 - base = n
        BY <2>3, <3>1
      <4>2. (e - 1 - base) % Mod2Capacity = mod2Buf.head
        BY <2>4, <4>1
      <4> QED
        BY <2>2, <2>4, <3>1, <4>2, BufFacts
    <3>2. CASE e # pushed + 1
      <4> DEFINE a == e - 1 - base
                 d == pushed + 1 - e
      <4>1. a \in Int /\ d \in 1 .. (Mod2Capacity - 1) /\ a + d = n /\ e <= pushed
            /\ pushed - Mod2Capacity < e
        BY <2>1, <2>3, <2>8, <3>2
      <4> HIDE DEF a, d, n
      <4>2. a % Mod2Capacity # n % Mod2Capacity
        BY <2>3, <4>1, ModDistinct
      <4>3. a % Mod2Capacity \in 0 .. (Mod2Capacity - 1)
        BY <2>3, <4>1, ModRange
      <4>4. mod2Buf.slots[a % Mod2Capacity] = e
        BY <2>8, <4>1 DEF Laps, a
      <4>5. mod2Buf'.slots[a % Mod2Capacity] = e
        BY <2>2, <2>4, <4>2, <4>3, <4>4, BufFacts
      <4> QED
        BY <4>5 DEF a
    <3> QED
      BY <3>1, <3>2
  <2>9. base < oldest' /\ oldest' <= pushed' + 1
    BY <2>1, <2>3 DEF Laps
  <2>10. pushed - base >= Mod2Capacity => pushed' - base >= Mod2Capacity
    BY <2>1, <2>3
  <2> HIDE DEF n
  <2>11. IF mod2Buf'.tail = Mod2Capacity
         THEN (oldest' - 1 - base) % Mod2Capacity = 0 /\ pushed' - base >= Mod2Capacity
                                 ELSE mod2Buf'.tail = (oldest' - 1 - base) % Mod2Capacity
    BY <2>1, <2>2, <2>10 DEF Laps
  <2> QED
    BY <2>6, <2>7, <2>8, <2>9, <2>11 DEF Laps
<1> QED
  BY <1>1, <1>2

LEMMA Mod2TakeStep ==
  ASSUME Mod2!Mod2Assumption, Mod2Type, NEW base \in Nat, Laps(base), Mod2!Take
  PROVE  Mod2Type' /\ Laps(base)'
<1> USE DEF Mod2!Mod2Assumption
<1>1. /\ mod2Buf' = [mod2Buf EXCEPT !.tail = Mod2!AdvanceTail(mod2Buf)] /\ pushed' = pushed
         /\ ~Mod2!FrontIsNull(mod2Buf)
      /\ taken' = Mod2!FrontSlot(mod2Buf)
      /\ oldest' = IF taken' = BeyondBlock THEN oldest ELSE taken' + 1
  BY DEF Mod2!Take, Mod2!pop
<1>2. /\ mod2Buf'.head = mod2Buf.head /\ mod2Buf'.tail = Mod2!AdvanceTail(mod2Buf)
         /\ mod2Buf'.capacity = Mod2Capacity /\ mod2Buf'.slots = mod2Buf.slots
      /\ mod2Buf' = [capacity |-> mod2Buf'.capacity, head |-> mod2Buf'.head,
                     tail |-> mod2Buf'.tail, slots |-> mod2Buf'.slots]
  BY <1>1, BufFacts
<1>3. pushed \in Nat /\ oldest \in Nat \ {0} /\ Mod2Capacity \in Nat \ {0}
      /\ mod2Buf.tail \in 0 .. Mod2Capacity
  BY BufFacts DEF Mod2Type
<1>4. Mod2!AdvanceTail(mod2Buf) = IF mod2Buf.tail = Mod2Capacity THEN 0 ELSE mod2Buf.tail + 1
  BY BufFacts DEF Mod2!AdvanceTail
<1>5. Mod2!AdvanceTail(mod2Buf) \in 0 .. Mod2Capacity
  BY <1>3, <1>4
<1>6. oldest' \in Nat \ {0} => Mod2Type'
  BY <1>1, <1>2, <1>3, <1>5, BufFacts DEF Mod2Type, Mod2!Buf, Mod2!Index
<1>7. CASE mod2Buf.tail = Mod2Capacity
  <2>1. oldest' = oldest /\ mod2Buf'.tail = 0
    BY <1>1, <1>2, <1>4, <1>7, BufFacts DEF Mod2!FrontSlot
  <2>2. 0 # Mod2Capacity /\ (oldest' - 1 - base) % Mod2Capacity = 0
    BY <1>3, <1>7, <2>1 DEF Laps
  <2>3. Laps(base)'
    BY <1>1, <1>2, <2>1, <2>2 DEF Laps
  <2> QED
    BY <1>3, <1>6, <2>1, <2>3
<1>8. CASE mod2Buf.tail # Mod2Capacity
  <2> DEFINE e == pushed - ((pushed - oldest) % Mod2Capacity)
  <2>1. oldest <= pushed /\ taken' = e
    BY <1>1, <1>8, FrontFacts
  <2>2. /\ e \in Int /\ e <= pushed /\ oldest <= e
        /\ (e + 1 - (base + 1)) % Mod2Capacity = (oldest + 1 - (base + 1)) % Mod2Capacity
    <3>1. pushed \in Int /\ oldest \in Int /\ base + 1 \in Int
      BY <1>3
    <3> QED
      BY <1>3, <2>1, <3>1, LastAtPlace, ZenonT(60)
  <2> HIDE DEF e
  <2>3. e \in Nat /\ oldest' = e + 1
    <3>1. e \in Nat
      BY <1>3, <2>2
    <3> QED
      BY <1>1, <2>1, <3>1
  <2>4. /\ oldest' - 1 - base = e + 1 - (base + 1)
        /\ oldest + 1 - (base + 1) = (oldest - 1 - base) + 1
        /\ oldest - 1 - base \in Int
    BY <1>3, <2>3
  <2>5. (oldest' - 1 - base) % Mod2Capacity = (mod2Buf.tail + 1) % Mod2Capacity
    <3>1. (((oldest - 1 - base) % Mod2Capacity) + 1) % Mod2Capacity = ((oldest - 1 - base) + 1) % Mod2Capacity
      BY <1>3, <2>4, ModStep
    <3>2. mod2Buf.tail = (oldest - 1 - base) % Mod2Capacity
      BY <1>8 DEF Laps
    <3> QED
      BY <2>2, <2>4, <3>1, <3>2
  <2>6. base < oldest' /\ oldest' <= pushed' + 1
    BY <1>1, <1>3, <2>2, <2>3 DEF Laps
  <2>7. IF mod2Buf'.tail = Mod2Capacity
        THEN (oldest' - 1 - base) % Mod2Capacity = 0 /\ pushed' - base >= Mod2Capacity
                                ELSE mod2Buf'.tail = (oldest' - 1 - base) % Mod2Capacity
    <3>1. CASE mod2Buf.tail + 1 = Mod2Capacity
      <4>1. Mod2Capacity % Mod2Capacity = 0
        <5>1. 0 \in 0 .. (Mod2Capacity - 1) /\ Mod2Capacity * 1 + 0 = Mod2Capacity
          BY <1>3
        <5>2. (Mod2Capacity * 1 + 0) % Mod2Capacity = 0
          BY <1>3, <5>1, ModUnique
        <5> QED
          BY <5>1, <5>2
      <4>2. pushed - base >= Mod2Capacity
        <5> SUFFICES ASSUME pushed - base < Mod2Capacity PROVE FALSE
          BY <1>3
        <5>1. oldest - 1 - base \in 0 .. (Mod2Capacity - 1)
          BY <1>3, <2>1 DEF Laps
        <5>2. mod2Buf.tail = oldest - 1 - base
          BY <1>3, <1>8, <5>1, ModWithin DEF Laps
        <5> QED
          BY <1>3, <2>1, <3>1, <5>2
      <4> QED
        BY <1>1, <1>2, <1>4, <1>8, <2>5, <3>1, <4>1, <4>2
    <3>2. CASE mod2Buf.tail + 1 # Mod2Capacity
      <4>1. mod2Buf.tail + 1 \in 0 .. (Mod2Capacity - 1)
        BY <1>3, <1>8, <3>2
      <4>2. (mod2Buf.tail + 1) % Mod2Capacity = mod2Buf.tail + 1
        BY <1>3, <4>1, ModWithin
      <4> QED
        BY <1>2, <1>4, <1>8, <2>5, <3>2, <4>2
    <3> QED
      BY <3>1, <3>2
  <2>8. Laps(base)'
    BY <1>1, <1>2, <2>6, <2>7 DEF Laps
  <2> QED
    BY <1>6, <2>3, <2>8
<1> QED
  BY <1>7, <1>8

LEMMA Mod2ClearStep ==
  ASSUME Mod2!Mod2Assumption, Mod2Type, Mod2!Clear
  PROVE  Mod2Type' /\ Laps(pushed)'
<1> USE DEF Mod2!Mod2Assumption
<1>1. /\ mod2Buf' = [mod2Buf EXCEPT !.head = 0, !.tail = 0] /\ oldest' = pushed + 1
         /\ pushed' = pushed
  BY DEF Mod2!Clear, Mod2!clear
<1>2. /\ mod2Buf'.head = 0 /\ mod2Buf'.tail = 0 /\ mod2Buf'.capacity = Mod2Capacity
         /\ mod2Buf'.slots = mod2Buf.slots
      /\ mod2Buf' = [capacity |-> mod2Buf'.capacity, head |-> mod2Buf'.head,
                     tail |-> mod2Buf'.tail, slots |-> mod2Buf'.slots]
  BY <1>1, BufFacts
<1>3. pushed \in Nat /\ Mod2Capacity \in Nat \ {0}
  BY DEF Mod2Type
<1>4. 0 % Mod2Capacity = 0 /\ oldest' - 1 - pushed' = 0 /\ pushed' - pushed' = 0 /\ Mod2Capacity # 0
  BY <1>1, <1>3
<1>5. Mod2Type'
  BY <1>1, <1>2, <1>3, BufFacts DEF Mod2Type, Mod2!Buf, Mod2!Index
<1>6. /\ pushed' < oldest' /\ oldest' <= pushed' + 1
      /\ \A e \in Nat : ~(pushed' < e /\ e <= pushed')
  BY <1>1, <1>3
<1> QED
  BY <1>1, <1>2, <1>4, <1>5, <1>6 DEF Laps

LEMMA Mod2Next == Mod2!Mod2Assumption /\ Mod2Inv /\ [Mod2!Next]_mod2Vars => Mod2Inv'
<1> SUFFICES ASSUME Mod2!Mod2Assumption, Mod2Inv, [Mod2!Next]_mod2Vars PROVE Mod2Inv'
  OBVIOUS
<1>1. PICK base \in Nat : Laps(base)
  BY DEF Mod2Inv
<1>2. Mod2Type
  BY DEF Mod2Inv
<1>3. CASE Mod2!Push
  BY <1>1, <1>2, <1>3, Mod2PushStep DEF Mod2Inv
<1>4. CASE Mod2!Take
  BY <1>1, <1>2, <1>4, Mod2TakeStep DEF Mod2Inv
<1>5. CASE Mod2!Clear
  <2>1. pushed \in Nat /\ pushed' = pushed
    BY <1>2, <1>5 DEF Mod2Type, Mod2!Clear
  <2>2. Mod2Type' /\ Laps(pushed)'
    BY <1>2, <1>5, Mod2ClearStep
  <2> QED
    BY <2>1, <2>2 DEF Mod2Inv
<1>6. CASE UNCHANGED mod2Vars
  BY <1>1, <1>2, <1>6 DEF Mod2Inv, Mod2Type, Laps, mod2Vars
<1> QED
  BY <1>3, <1>4, <1>5, <1>6 DEF Mod2!Next

\* Before the first wrap head and tail are the counts themselves.
LEMMA Mod2FirstLap == Mod2!Mod2Assumption /\ Mod2Inv => Mod2!FirstLapExact
<1> SUFFICES ASSUME Mod2!Mod2Assumption, Mod2Inv, pushed < Mod2Capacity
             PROVE  Mod2!size(mod2Buf) = pushed - oldest + 1
  BY DEF Mod2!FirstLapExact
<1>1. PICK base \in Nat : Laps(base)
  BY DEF Mod2Inv
<1>2. pushed \in Nat /\ oldest \in Nat \ {0} /\ Mod2Capacity \in Nat \ {0}
  BY DEF Mod2Inv, Mod2Type, Mod2!Mod2Assumption
<1>3. pushed - base \in 0 .. (Mod2Capacity - 1) /\ oldest - 1 - base \in 0 .. (Mod2Capacity - 1)
  BY <1>1, <1>2 DEF Laps
<1>4. mod2Buf.head = pushed - base
  BY <1>1, <1>2, <1>3, ModWithin DEF Laps
<1>5. mod2Buf.tail # Mod2Capacity
  BY <1>1, <1>2, <1>3 DEF Laps
<1>6. mod2Buf.tail = oldest - 1 - base
  BY <1>1, <1>2, <1>3, <1>5, ModWithin DEF Laps
<1> QED
  BY <1>2, <1>4, <1>6 DEF Mod2!size

LEMMA Mod2TakeLaps ==
  Mod2!Mod2Assumption /\ Mod2Inv =>
    (Mod2!Take /\ taken' # BeyondBlock => taken' >= oldest /\ (taken' - oldest) % Mod2Capacity = 0)
<1> SUFFICES ASSUME Mod2!Mod2Assumption, Mod2Inv, Mod2!Take, taken' # BeyondBlock
             PROVE  taken' >= oldest /\ (taken' - oldest) % Mod2Capacity = 0
  OBVIOUS
<1>1. PICK base \in Nat : Laps(base)
  BY DEF Mod2Inv
<1>2. Mod2Type /\ taken' = Mod2!FrontSlot(mod2Buf) /\ ~Mod2!FrontIsNull(mod2Buf)
  BY DEF Mod2Inv, Mod2!Take
<1>3. mod2Buf.tail # Mod2Capacity
  BY <1>2, BufFacts DEF Mod2!FrontSlot
<1>4. oldest <= pushed /\ taken' = pushed - ((pushed - oldest) % Mod2Capacity)
  BY <1>1, <1>2, <1>3, FrontFacts
<1>5. pushed \in Int /\ oldest \in Int /\ Mod2Capacity \in Nat \ {0} /\ base \in Int
  BY <1>2 DEF Mod2Type, Mod2!Mod2Assumption
<1> QED
  BY <1>4, <1>5, LastAtPlace

-----------------------------------------------------------------------------
(* The iio module *)

IioType ==
  /\ iioBound \in BOOLEAN /\ oopsed \in BOOLEAN
  /\ moc_data \in 0 .. (MocValues - 1)
  /\ loaded \in [Readers -> -1 .. (MocValues - 1)]
  /\ counts \in Nat /\ clean \in 0 .. counts
  /\ iioOverlapped \subseteq Iio!Busy
  /\ ~iioBound => Iio!Busy = {}

\* A read that no other one overlaps is the only one, and what it loaded is still there.
IioAlone ==
  \A r \in Iio!Busy : r \notin iioOverlapped => Iio!Busy = {r} /\ loaded[r] = moc_data

\* What moc_data has, and what a read under way will make of it, is no older than the
\* reads that nothing overlapped.
Counted(v) == \E n \in clean .. counts : v = n % MocValues
IioCounts == iioBound => Counted(moc_data) /\ \A r \in Iio!Busy : Counted(loaded[r])

IioInv == IioType /\ IioAlone /\ IioCounts

LEMMA WidthRange == ASSUME Iio!IioAssumption, NEW a \in Int
 PROVE a % MocValues \in 0 .. (MocValues - 1)
  BY ModRange DEF Iio!IioAssumption

LEMMA BusyFacts == ASSUME NEW r \in Readers PROVE r \in Iio!Busy <=> loaded[r] # -1
  BY DEF Iio!Busy

LEMMA IioInit == Iio!IioAssumption /\ Iio!Init => IioInv
<1> SUFFICES ASSUME Iio!IioAssumption, Iio!Init PROVE IioInv
  OBVIOUS
<1>1. Iio!Busy = {} /\ iioBound = FALSE
  BY DEF Iio!Init, Iio!Busy
<1>2. loaded \in [Readers -> -1 .. (MocValues - 1)] /\ 0 \in 0 .. (MocValues - 1)
  BY DEF Iio!Init, Iio!IioAssumption
<1>3. iioOverlapped = {} /\ counts = 0 /\ clean = 0 /\ moc_data = 0 /\ oopsed = FALSE
  BY DEF Iio!Init
<1>4. counts \in Nat /\ clean \in 0 .. counts
  BY <1>3
<1>5. iioBound \in BOOLEAN /\ oopsed \in BOOLEAN /\ iioOverlapped \subseteq Iio!Busy
  BY <1>1, <1>3
<1>6. IioType
  BY <1>1, <1>2, <1>3, <1>4, <1>5 DEF IioType
<1> QED
  BY <1>1, <1>6 DEF IioInv, IioAlone, IioCounts

\* Who is in a read after one began, or ended
LEMMA BusyLoad ==
  ASSUME IioType, NEW r \in Readers, Iio!ReadLoad(r)
  PROVE  /\ Iio!Busy' = Iio!Busy \union {r}
         /\ loaded'[r] = moc_data /\ \A q \in Iio!Busy : q # r /\ loaded'[q] = loaded[q]
<1>1. \A q \in Readers : loaded'[q] = IF q = r THEN moc_data ELSE loaded[q]
  BY DEF IioType, Iio!ReadLoad
<1>2. moc_data # -1
  BY DEF IioType
<1>3. r \notin Iio!Busy
  BY DEF Iio!ReadLoad
<1> QED
  BY <1>1, <1>2, <1>3 DEF Iio!Busy

LEMMA BusyStore ==
  ASSUME IioType, NEW r \in Readers, Iio!ReadStore(r)
  PROVE  Iio!Busy' = Iio!Busy \ {r} /\ \A q \in Iio!Busy' : loaded'[q] = loaded[q]
<1>1. \A q \in Readers : loaded'[q] = IF q = r THEN -1 ELSE loaded[q]
  BY DEF IioType, Iio!ReadStore
<1> QED
  BY <1>1 DEF Iio!Busy

LEMMA IioLoad == ASSUME Iio!IioAssumption, IioInv, NEW r \in Readers, Iio!ReadLoad(r) PROVE IioInv'
<1> USE BusyLoad DEF IioInv
<1>1. IioType'
  <2>1. loaded' \in [Readers -> -1 .. (MocValues - 1)]
    BY DEF IioType, Iio!ReadLoad
  <2>2. iioOverlapped' \subseteq Iio!Busy'
    BY DEF IioType, Iio!ReadLoad
  <2> QED
    BY <2>1, <2>2 DEF IioType, Iio!ReadLoad
<1>2. IioAlone'
  <2>1. CASE Iio!Busy = {}
    BY <2>1 DEF Iio!ReadLoad, IioAlone
  <2>2. CASE Iio!Busy # {}
    BY <2>2 DEF Iio!ReadLoad, IioAlone
  <2> QED
    BY <2>1, <2>2
<1>3. IioCounts'
  <2>1. iioBound /\ UNCHANGED <<iioBound, moc_data, counts, clean>>
    BY DEF Iio!ReadLoad
  <2> QED
    BY <2>1 DEF IioCounts, Counted
<1> QED
  BY <1>1, <1>2, <1>3

LEMMA IioStore == ASSUME Iio!IioAssumption, IioInv, NEW r \in Readers, Iio!ReadStore(r) PROVE IioInv'
<1> USE DEF IioInv
<1>1. r \in Iio!Busy /\ iioBound /\ MocValues \in Nat \ {0}
  BY DEF Iio!ReadStore, IioType, Iio!IioAssumption
<1>2. PICK n \in clean .. counts : loaded[r] = n % MocValues
  BY <1>1 DEF IioCounts, Counted
<1>3. clean \in Nat /\ counts \in Nat /\ clean <= counts /\ n \in Int
  BY <1>2 DEF IioType
<1>4. moc_data' = (n + 1) % MocValues
  <2>1. ((n % MocValues) + 1) % MocValues = (n + 1) % MocValues
    BY <1>1, <1>3, ModStep
  <2> QED
    BY <1>2, <2>1 DEF Iio!ReadStore
<1>5. counts' = counts + 1 /\ iioBound' = iioBound /\ iioOverlapped' = iioOverlapped \ {r}
      /\ clean' = IF r \in iioOverlapped THEN clean ELSE clean + 1
  BY DEF Iio!ReadStore
<1>6. IioType'
  <2>1. loaded' \in [Readers -> -1 .. (MocValues - 1)]
    BY <1>1 DEF IioType, Iio!ReadStore
  <2>2. moc_data' \in 0 .. (MocValues - 1)
    BY <1>3, <1>4, WidthRange
  <2>3. iioOverlapped' \subseteq Iio!Busy'
    BY <1>5, BusyStore DEF IioType
  <2>4. counts' \in Nat /\ clean' \in 0 .. counts'
    BY <1>3, <1>5
  <2>5. oopsed' \in BOOLEAN /\ iioBound'
    BY <1>1, <1>5 DEF IioType, Iio!ReadStore
  <2> QED
    BY <2>1, <2>2, <2>3, <2>4, <2>5 DEF IioType
<1>7. IioAlone'
  <2>1. CASE r \in iioOverlapped
    <3> SUFFICES ASSUME NEW q \in Iio!Busy', q \notin iioOverlapped' PROVE FALSE
      BY DEF IioAlone
    <3> QED
      BY <1>1, <1>5, <2>1, BusyStore DEF IioAlone
  <2>2. CASE r \notin iioOverlapped
    BY <1>1, <2>2, BusyStore DEF IioAlone
  <2> QED
    BY <2>1, <2>2
<1>8. IioCounts'
  <2>1. n + 1 \in clean' .. counts'
    BY <1>2, <1>3, <1>5
  <2>2. Counted(moc_data)'
    BY <1>4, <2>1 DEF Counted
  <2>3. ASSUME NEW q \in Iio!Busy' PROVE Counted(loaded[q])'
    <3>1. r \in iioOverlapped /\ q \in Iio!Busy /\ loaded'[q] = loaded[q]
      BY <1>1, <2>3, BusyStore DEF IioAlone
    <3>2. PICK k \in clean .. counts : loaded[q] = k % MocValues
      BY <1>1, <3>1 DEF IioCounts, Counted
    <3>3. k \in clean' .. counts'
      BY <1>3, <1>5, <3>1, <3>2
    <3> QED
      BY <3>1, <3>2, <3>3 DEF Counted
  <2> QED
    BY <2>2, <2>3 DEF IioCounts
<1> QED
  BY <1>6, <1>7, <1>8

LEMMA IioNext == Iio!IioAssumption /\ IioInv /\ [Iio!Next]_iioVars => IioInv'
<1> SUFFICES ASSUME Iio!IioAssumption, IioInv, [Iio!Next]_iioVars PROVE IioInv'
  OBVIOUS
<1> USE DEF IioInv, IioType, IioAlone, IioCounts, Counted, Iio!Busy
<1>1. CASE Iio!Probe
  <2>1. Iio!Busy = {} /\ Iio!Busy' = {} /\ iioBound'
    BY <1>1 DEF Iio!Probe
  <2>2. moc_data' = 0 /\ counts' = 0 /\ clean' = 0 /\ MocValues \in Nat \ {0}
    BY <1>1 DEF Iio!Probe, Iio!IioAssumption
  <2>3. 0 % MocValues = 0 /\ 0 \in clean' .. counts'
    BY <2>2
  <2>4. Counted(moc_data)'
    BY <2>2, <2>3
  <2>5. IioType'
    BY <1>1, <2>1, <2>2 DEF Iio!Probe
  <2> QED
    BY <2>1, <2>4, <2>5
<1>2. CASE Iio!Remove
  BY <1>2 DEF Iio!Remove, Iio!history
<1>3. CASE Iio!Enable
  BY <1>3 DEF Iio!Enable, Iio!history
<1>4. CASE UNCHANGED iioVars
  BY <1>4 DEF iioVars
<1>5. ASSUME NEW r \in Readers, Iio!ReadLoad(r) \/ Iio!ReadStore(r) PROVE IioInv'
  BY <1>5, IioLoad, IioStore
<1> QED
  BY <1>1, <1>2, <1>3, <1>4, <1>5 DEF Iio!Next

LEMMA IioSafe == IioInv => Iio!ReadsCount
  BY DEF IioInv, IioCounts, Counted, Iio!ReadsCount

-----------------------------------------------------------------------------
(* The work queue modules *)

Listing == queuesPc = "list_add" \/ queuesPc \in Queues!Adding

\* Items that init has not come to
ToCome(i) == (queuesPc = "init" /\ i >= queuesAt) \/ (Listing /\ i > queuesAt)

\* Items that following work_list_ forward comes to
Chain == {i \in Queues!Delayed : next[i] # -1 /\ ~(queuesPc = "add_head" /\ i = queuesAt)}

Places == {"none", "delayed", "queued", "store_prev", "store_next", "kfree"}

QueuesType ==
  /\ queuesPc \in {"init", "list_add", "loaded", "gone"} \union Queues!Adding \union Queues!Exiting
  /\ queuesAt \in Queues!Items /\ queuesTemp \in Queues!Items
  /\ queuesMemory \in [Queues!Items -> {"none", "live", "freed"}]
  /\ queuesWork \in [Queues!Items -> Places]
  /\ next \in [Queues!Items -> Queues!Items \union {-1}]
  /\ prev \in [Queues!Items -> Queues!Items \union {-1}]
  /\ pred \in [Queues!Items -> Queues!Items \union {-1}]
  /\ succ \in [Queues!Items -> Queues!Items \union {-1}]
  /\ next[0] # -1 /\ prev[0] # -1

\* Forward, work_list_ is what is linked in descending order.
Forward ==
  \A x \in Chain \union {0} :
    /\ next[x] \in Chain \union {0}
    /\ next[x] # 0 /\ x # 0 => next[x] < x
    /\ \A j \in Chain : x = 0 \/ j < x => j <= next[x]

\* Backward, an item points at the one before it, but where that is half taken out,
\* or put in.
Back ==
  \A x \in Chain :
    /\ prev[x] # -1
    /\ \/ prev[x] \in Chain \union {0} /\ next[prev[x]] = x
       \/ \E j \in Queues!Deleting : queuesWork[j] = "store_next" /\ succ[j] = x
       \/ queuesPc \in {"add_own", "add_head"} /\ x = succ[0]
       \/ queuesPc = "exit_next" /\ x = queuesTemp

\* What a worker's list_del() has loaded is still so, and no neighbour is being deleted.
Leave ==
  \A j \in Queues!Deleting :
    /\ j \in Chain
    /\ pred[j] \in Chain \union {0} /\ next[pred[j]] = j
    /\ succ[j] = next[j] /\ succ[j] \notin Queues!Deleting
    /\ queuesWork[j] = "store_next" /\ succ[j] # 0 => prev[succ[j]] = pred[j]

\* Init lists an item in front of what it found first.
AddBusy ==
  /\ Listing => /\ queuesAt \in Queues!Delayed /\ queuesAt \notin Chain
                /\ queuesMemory[queuesAt] = "live" /\ queuesWork[queuesAt] \in {"delayed", "queued"}
  /\ queuesPc \in Queues!Adding => succ[0] = next[0] /\ succ[0] \notin Queues!Deleting
  /\ queuesPc \in {"add_own", "add_head"} /\ succ[0] # 0 => prev[succ[0]] = queuesAt
  /\ queuesPc = "add_head" => next[queuesAt] = succ[0] /\ prev[queuesAt] = 0

\* Exit takes out the first item and knows the second.
ExitBusy ==
  /\ queuesPc \in Queues!Exiting => queuesTemp \notin Queues!Deleting
  /\ queuesPc = "exit" => /\ queuesAt = next[0] /\ queuesTemp = next[queuesAt]
                          /\ queuesAt \notin Queues!Deleting
  /\ queuesPc \in {"exit_prev", "exit_next"} =>
       /\ queuesAt \in Chain /\ queuesAt = next[0] /\ queuesTemp = next[queuesAt]
       /\ queuesWork[queuesAt] = "none" /\ pred[0] = 0 /\ succ[0] = queuesTemp
  /\ queuesPc = "exit_next" /\ queuesTemp # 0 => prev[queuesTemp] = 0
  /\ queuesPc = "exit_free" => /\ queuesAt \in Queues!Delayed /\ queuesAt \notin Chain
                               /\ queuesMemory[queuesAt] = "live" /\ queuesWork[queuesAt] = "none"
                               /\ queuesTemp = next[0]

Done(i) == \/ queuesMemory[i] = "live" /\ queuesWork[i] = "kfree"
           \/ queuesMemory[i] = "freed" /\ queuesWork[i] = "none"

\* What is linked lives and waits or is being taken out; what is not has run.
ItemLives ==
  /\ \A i \in Queues!Delayed :
       /\ ToCome(i) => queuesWork[i] = "none" /\ i \notin Chain
       /\ i \in Chain => /\ queuesMemory[i] = "live"
                          /\ \/ queuesWork[i] \in {"delayed", "queued", "store_prev", "store_next"}
                             \/ queuesPc \in {"exit_prev", "exit_next"} /\ i = queuesAt
       /\ \/ ToCome(i) \/ i \in Chain \/ (Listing /\ i = queuesAt)
          \/ (queuesPc = "exit_free" /\ i = queuesAt) \/ Done(i)
  /\ queuesWork[0] \in {"none", "queued", "kfree"}
  /\ \/ ToCome(0) /\ queuesWork[0] = "none"
     \/ ~ToCome(0) /\ queuesMemory[0] = "live" /\ queuesWork[0] = "queued"
     \/ ~ToCome(0) /\ Done(0)
  /\ queuesPc = "gone" => \A i \in Queues!Items : Done(i) /\ queuesWork[i] = "none"

Orderly == ~queuesMisused /\ QueuesType /\ Forward /\ Back /\ Leave /\ AddBusy /\ ExitBusy /\ ItemLives

QueuesInv == queuesOverlapped \/ Orderly

LEMMA QueuesNat ==
  Queues!WorkQueuesAssumption => /\ Cores \in Nat /\ Cores > 0 /\ Queues!Items \subseteq Nat
                                    /\ 0 \in Queues!Items /\ 1 \in Queues!Items
                                 /\ Queues!Delayed \subseteq Queues!Items /\ 0 \notin Queues!Delayed
                                 /\ \A i \in Queues!Items : i # 0 => i \in Queues!Delayed
  BY DEF Queues!WorkQueuesAssumption, Queues!Items, Queues!Delayed

\* Two places of the list have no common successor.
LEMMA OneBefore ==
  ASSUME Queues!WorkQueuesAssumption, Orderly, NEW x \in Chain \union {0}, NEW y \in Chain \union {0},
         next[x] = next[y], next[x] # 0
  PROVE  x = y
<1>1. x \in Nat /\ y \in Nat /\ next[x] \in Nat /\ (x = 0 \/ x \in Chain) /\ (y = 0 \/ y \in Chain)
  BY QueuesNat DEF Orderly, Forward, Chain
<1>2. x # 0 => next[x] < x
  BY DEF Orderly, Forward
<1>3. y # 0 => next[y] < y
  BY DEF Orderly, Forward
<1>4. \A j \in Chain : x = 0 \/ j < x => j <= next[x]
  BY DEF Orderly, Forward
<1>5. \A j \in Chain : y = 0 \/ j < y => j <= next[y]
  BY DEF Orderly, Forward
<1> QED
  BY <1>1, <1>2, <1>3, <1>4, <1>5

\* What is linked may be used.
LEMMA ChainSafe ==
  ASSUME Queues!WorkQueuesAssumption, Orderly, NEW x \in Chain \union {0}
  PROVE  x \in Queues!Items /\ ~Queues!Gone(x) /\ ~Queues!Dangling(x) /\ next[x] \in Chain \union {0}
<1>1. x \in Queues!Items
  BY QueuesNat DEF Chain
<1>2. next[x] \in Chain \union {0} /\ next[x] # -1 /\ prev[x] # -1
  BY QueuesNat DEF Orderly, Forward, Back, QueuesType, Chain
<1>3. ~Queues!Gone(x)
  BY QueuesNat DEF Queues!Gone, Queues!Head, Orderly, ItemLives, Chain
<1> QED
  BY <1>1, <1>2, <1>3 DEF Queues!Dangling, Queues!Poison

LEMMA DeletingFacts ==
  ASSUME Queues!WorkQueuesAssumption, Orderly, NEW j \in Queues!Deleting
  PROVE  /\ j \in Chain /\ j \in Queues!Delayed /\ j \in Queues!Items /\ j # 0
         /\ pred[j] \in Chain \union {0} /\ pred[j] \in Queues!Items /\ next[pred[j]] = j
         /\ succ[j] = next[j] /\ succ[j] \in Chain \union {0} /\ succ[j] \in Queues!Items
         /\ succ[j] \notin Queues!Deleting /\ ~(queuesPc \in {"exit_prev", "exit_next"} /\ j = queuesAt)
<1>1. j \in Chain /\ j \in Queues!Delayed /\ j \in Queues!Items /\ j # 0
  BY QueuesNat DEF Queues!Deleting, Orderly, Leave
<1>2. pred[j] \in Chain \union {0} /\ next[pred[j]] = j /\ succ[j] = next[j] /\ succ[j] \notin Queues!Deleting
  BY DEF Orderly, Leave
<1>3. pred[j] \in Queues!Items /\ succ[j] \in Chain \union {0} /\ succ[j] \in Queues!Items
  BY <1>1, <1>2, ChainSafe
<1>4. ~(queuesPc \in {"exit_prev", "exit_next"} /\ j = queuesAt)
  BY DEF Orderly, ExitBusy, Queues!Deleting
<1> QED
  BY <1>1, <1>2, <1>3, <1>4

LEMMA StorePrevOrderly ==
  ASSUME Queues!WorkQueuesAssumption, Orderly, NEW i \in Queues!Items, Queues!WorkStorePrev(i)
  PROVE  Orderly'
<1>1. i \in Queues!Deleting
  BY QueuesNat DEF Queues!WorkStorePrev, Queues!Deleting, Orderly, ItemLives
<1>2. UNCHANGED <<queuesPc, queuesAt, queuesTemp, queuesMemory, next, pred, succ>>
  BY DEF Queues!WorkStorePrev
<1>3. queuesWork' \in [Queues!Items -> Places]
      /\ \A j \in Queues!Items : queuesWork'[j] = IF j = i THEN "store_next" ELSE queuesWork[j]
  BY DEF Queues!WorkStorePrev, Queues!Set, Orderly, QueuesType, Places
<1>4. prev' \in [Queues!Items -> Queues!Items \union {-1}]
      /\ \A x \in Queues!Items : prev'[x] = IF x = succ[i] THEN pred[i] ELSE prev[x]
  BY <1>1, DeletingFacts DEF Queues!WorkStorePrev, Queues!StorePrev, Queues!Set, Orderly, QueuesType
<1>5. Chain' = Chain /\ (Listing)' = Listing /\ \A x : (ToCome(x))' = ToCome(x)
  BY <1>2 DEF Chain, Listing, ToCome
<1>6. Queues!Deleting' = Queues!Deleting
  BY <1>1, <1>3, QueuesNat DEF Queues!Deleting
<1>7. ~queuesMisused'
  BY <1>1, DeletingFacts, ChainSafe DEF Queues!WorkStorePrev, Queues!StorePrev
<1>8. pred[i] # -1 /\ i # 0 /\ i \in Chain /\ i \in Queues!Delayed
  BY <1>1, DeletingFacts, QueuesNat
<1>a. QueuesType'
  BY <1>2, <1>3, <1>4, <1>8, QueuesNat DEF Orderly, QueuesType
<1>b. Forward'
  BY <1>2, <1>5 DEF Orderly, Forward
<1>c. Back'
  <2> SUFFICES ASSUME NEW x \in Chain
               PROVE  (/\ prev[x] # -1
                       /\ \/ prev[x] \in Chain \union {0} /\ next[prev[x]] = x
                          \/ \E j \in Queues!Deleting : queuesWork[j] = "store_next" /\ succ[j] = x
                          \/ queuesPc \in {"add_own", "add_head"} /\ x = succ[0]
                          \/ queuesPc = "exit_next" /\ x = queuesTemp)'
    BY <1>5 DEF Back
  <2>1. x \in Queues!Items
    BY ChainSafe
  <2>2. CASE x = succ[i]
    BY <1>1, <1>2, <1>3, <1>4, <1>6, <1>8, <2>1, <2>2
  <2>3. CASE x # succ[i]
    <3>1. prev'[x] = prev[x]
      BY <1>4, <2>1, <2>3
    <3>2. \A j \in Queues!Deleting : queuesWork[j] = "store_next" => queuesWork'[j] = "store_next"
      BY <1>3, DeletingFacts
    <3> QED
      BY <1>2, <1>5, <1>6, <3>1, <3>2 DEF Orderly, Back
  <2> QED
    BY <2>2, <2>3
<1>d. Leave'
  <2> SUFFICES ASSUME NEW j \in Queues!Deleting
               PROVE  queuesWork'[j] = "store_next" /\ succ[j] # 0 => prev'[succ[j]] = pred[j]
    BY <1>2, <1>5, <1>6 DEF Orderly, Leave
  <2>1. CASE j = i
    BY <1>1, <1>4, <2>1, DeletingFacts
  <2>2. CASE j # i /\ succ[j] # 0
    <3>1. succ[j] # succ[i]
      BY <1>1, <2>2, DeletingFacts, OneBefore
    <3> QED
      BY <1>3, <1>4, <2>2, <3>1, DeletingFacts DEF Orderly, Leave
  <2> QED
    BY <2>1, <2>2
<1>e. AddBusy'
  <2>1. queuesPc \in Queues!Adding /\ succ[0] # 0 => succ[0] # succ[i] /\ succ[0] \in Queues!Items
    <3> SUFFICES ASSUME queuesPc \in Queues!Adding, succ[0] # 0
                 PROVE  succ[0] # succ[i] /\ succ[0] \in Queues!Items
      OBVIOUS
    <3>1. succ[0] = next[0] /\ next[0] \in Queues!Items
      BY ChainSafe DEF Orderly, AddBusy
    <3> QED
      BY <1>1, <1>8, <3>1, DeletingFacts, OneBefore
  <2>2. Listing => queuesAt # succ[i] /\ queuesAt # i /\ queuesAt \in Queues!Items
    BY <1>1, <1>8, DeletingFacts, QueuesNat DEF Orderly, AddBusy
  <2>3. queuesPc \in {"add_own", "add_head"} => Listing /\ queuesPc \in Queues!Adding
    BY DEF Listing, Queues!Adding
  <2> QED
    BY <1>2, <1>3, <1>4, <1>5, <1>6, <2>1, <2>2, <2>3 DEF Orderly, AddBusy
<1>f. ExitBusy'
  <2>1. queuesPc \in {"exit_prev", "exit_next", "exit_free"} => queuesAt # i /\ queuesAt \in Queues!Items
    BY <1>1, QueuesNat DEF Orderly, ExitBusy, Queues!Deleting, QueuesType
  <2>2. queuesPc = "exit_next" /\ queuesTemp # 0 => queuesTemp # succ[i] /\ queuesTemp \in Queues!Items
    BY <1>1, <1>8, DeletingFacts, OneBefore DEF Orderly, ExitBusy, QueuesType
  <2> QED
    BY <1>2, <1>3, <1>4, <1>5, <1>6, <2>1, <2>2 DEF Orderly, ExitBusy
<1>g. ItemLives'
  <2>1. queuesPc # "gone" /\ ~Done(i) /\ ~ToCome(i) /\ queuesMemory[i] = "live"
    BY <1>1, <1>8, QueuesNat DEF Orderly, ItemLives, Done, Queues!Deleting
  <2>2. \A j \in Queues!Items : j # i => Done(j)' = Done(j)
    BY <1>2, <1>3 DEF Done
  <2> QED
    BY <1>2, <1>3, <1>5, <1>8, <2>1, <2>2, QueuesNat DEF Orderly, ItemLives
<1> QED
  BY <1>7, <1>a, <1>b, <1>c, <1>d, <1>e, <1>f, <1>g DEF Orderly

LEMMA StoreNextOrderly ==
  ASSUME Queues!WorkQueuesAssumption, Orderly, NEW i \in Queues!Items, Queues!WorkStoreNext(i)
  PROVE  Orderly'
<1>1. i \in Queues!Deleting /\ queuesWork[i] = "store_next"
  BY QueuesNat DEF Queues!WorkStoreNext, Queues!Deleting, Orderly, ItemLives
<1>2. UNCHANGED <<queuesPc, queuesAt, queuesTemp, queuesMemory, pred, succ>>
  BY DEF Queues!WorkStoreNext
<1>3. queuesWork' \in [Queues!Items -> Places]
      /\ \A j \in Queues!Items : queuesWork'[j] = IF j = i THEN "kfree" ELSE queuesWork[j]
  BY DEF Queues!WorkStoreNext, Queues!Set, Orderly, QueuesType, Places
<1>4. prev' \in [Queues!Items -> Queues!Items \union {-1}]
      /\ \A x \in Queues!Items : prev'[x] = IF x = i THEN -1 ELSE prev[x]
  BY DEF Queues!WorkStoreNext, Queues!StoreNext, Queues!Set, Queues!Poison, Orderly, QueuesType
<1>5. next' \in [Queues!Items -> Queues!Items \union {-1}]
      /\ \A x \in Queues!Items : next'[x] = IF x = i THEN -1 ELSE IF x = pred[i] THEN succ[i] ELSE next[x]
  BY <1>1, DeletingFacts DEF Queues!WorkStoreNext, Queues!StoreNext, Queues!Poison, Orderly, QueuesType
<1>6. /\ i # 0 /\ i \in Chain /\ i \in Queues!Delayed /\ i \in Queues!Items
      /\ pred[i] \in Chain \union {0} /\ pred[i] \in Queues!Items /\ next[pred[i]] = i
      /\ succ[i] = next[i] /\ succ[i] \in Chain \union {0} /\ succ[i] \in Queues!Items
      /\ succ[i] \notin Queues!Deleting
  BY <1>1, DeletingFacts
<1>7. pred[i] # i /\ succ[i] # i
  BY <1>6, QueuesNat DEF Orderly, Forward
<1>8. Chain' = Chain \ {i}
  <2>1. \A x \in Queues!Delayed : next'[x] # -1 <=> next[x] # -1 /\ x # i
    BY <1>5, <1>6, QueuesNat
  <2>2. \A x \in Queues!Delayed : x \in Chain' <=> x \in Chain /\ x # i
    BY <1>2, <2>1 DEF Chain
  <2>3. Chain' \subseteq Queues!Delayed /\ Chain \subseteq Queues!Delayed
    BY DEF Chain
  <2> QED
    BY <2>2, <2>3
<1>9. (Listing)' = Listing /\ \A x : (ToCome(x))' = ToCome(x)
  BY <1>2 DEF Listing, ToCome
<1>10. Queues!Deleting' = Queues!Deleting \ {i}
  BY <1>1, <1>3, QueuesNat DEF Queues!Deleting
<1>11. ~queuesMisused'
  BY <1>6, ChainSafe DEF Queues!WorkStoreNext, Queues!StoreNext
<1>12. \A x \in Chain \union {0} : x # i /\ next[x] = i => x = pred[i]
  BY <1>6, OneBefore
<1>13. \A x \in Chain : x \in Queues!Items /\ x # 0
  BY QueuesNat DEF Chain
<1>a. QueuesType'
  BY <1>2, <1>3, <1>4, <1>5, <1>6, QueuesNat DEF Orderly, QueuesType
<1>b. Forward'
  <2> SUFFICES ASSUME NEW x \in (Chain \ {i}) \union {0}
               PROVE  /\ next'[x] \in (Chain \ {i}) \union {0}
                      /\ next'[x] # 0 /\ x # 0 => next'[x] < x
                      /\ \A j \in Chain \ {i} : x = 0 \/ j < x => j <= next'[x]
    BY <1>8 DEF Forward
  <2>1. x \in Chain \union {0} /\ x \in Queues!Items /\ x # i
    BY <1>6, <1>13, QueuesNat
  <2>2. /\ next[x] \in Chain \union {0} /\ next[x] \in Nat
        /\ next[x] # 0 /\ x # 0 => next[x] < x
        /\ \A j \in Chain : x = 0 \/ j < x => j <= next[x]
    BY <2>1, <1>13, QueuesNat DEF Orderly, Forward
  <2>3. CASE x # pred[i]
    BY <2>1, <2>2, <2>3, <1>5, <1>6, <1>12
  <2>4. CASE x = pred[i]
    <3>1. next'[x] = succ[i] /\ next[x] = i
      BY <2>1, <2>4, <1>5, <1>6
    <3>2. /\ succ[i] # 0 => succ[i] < i
          /\ \A j \in Chain : j < i => j <= succ[i]
      BY <1>6 DEF Orderly, Forward
    <3>3. i \in Nat /\ succ[i] \in Nat /\ x \in Nat /\ \A j \in Chain : j \in Nat
      BY <1>6, <1>13, <2>1, QueuesNat
    <3> QED
      BY <2>2, <3>1, <3>2, <3>3, <1>6, <1>7
  <2> QED
    BY <2>3, <2>4
<1>c. Back'
  <2> SUFFICES ASSUME NEW x \in Chain \ {i}
               PROVE  /\ prev'[x] # -1
                      /\ \/ prev'[x] \in (Chain \ {i}) \union {0} /\ next'[prev'[x]] = x
                         \/ \E j \in Queues!Deleting \ {i} : queuesWork'[j] = "store_next" /\ succ[j] = x
                         \/ queuesPc \in {"add_own", "add_head"} /\ x = succ[0]
                         \/ queuesPc = "exit_next" /\ x = queuesTemp
    BY <1>2, <1>8, <1>10 DEF Back
  <2>1. x \in Queues!Items /\ x # i /\ prev'[x] = prev[x] /\ prev[x] # -1 /\ x # 0
    BY <1>4, <1>13 DEF Orderly, Back
  <2>2. CASE prev[x] \in Chain \union {0} /\ next[prev[x]] = x /\ prev[x] # i
    <3>1. prev[x] # pred[i] /\ prev[x] \in Queues!Items
      BY <2>1, <2>2, <1>6, <1>13, QueuesNat
    <3>2. next'[prev[x]] = x
      BY <2>2, <3>1, <1>5
    <3> QED
      BY <2>1, <2>2, <3>2
  <2>3. CASE x = succ[i]
    <3>1. prev[x] = pred[i]
      BY <1>1, <2>1, <2>3 DEF Orderly, Leave
    <3> QED
      BY <2>1, <2>3, <3>1, <1>5, <1>6, <1>7
  <2>4. CASE prev[x] = i /\ next[i] = x
    BY <2>3, <2>4, <1>6
  <2>5. ASSUME NEW j \in Queues!Deleting, queuesWork[j] = "store_next", succ[j] = x, j # i
        PROVE \E k \in Queues!Deleting \ {i} : queuesWork'[k] = "store_next" /\ succ[k] = x
    BY <2>5, <1>3, DeletingFacts
  <2> QED
    BY <2>1, <2>2, <2>3, <2>4, <2>5 DEF Orderly, Back
<1>d. Leave'
  <2> SUFFICES ASSUME NEW j \in Queues!Deleting, j # i
               PROVE  /\ j \in Chain \ {i}
                      /\ pred[j] \in (Chain \ {i}) \union {0} /\ next'[pred[j]] = j
                      /\ succ[j] = next'[j] /\ succ[j] \notin Queues!Deleting \ {i}
                      /\ queuesWork'[j] = "store_next" /\ succ[j] # 0 => prev'[succ[j]] = pred[j]
    BY <1>2, <1>8, <1>10 DEF Leave
  <2>1. /\ j \in Chain /\ j \in Queues!Items /\ j # 0
        /\ pred[j] \in Chain \union {0} /\ pred[j] \in Queues!Items /\ next[pred[j]] = j
        /\ succ[j] = next[j] /\ succ[j] \in Queues!Items /\ succ[j] \notin Queues!Deleting
    BY DeletingFacts
  <2>2. pred[j] # i
    BY <2>1, <1>6
  <2>3. pred[j] # pred[i]
    BY <2>1, <1>6
  <2>4. j # pred[i]
    BY <2>1, <1>1, <1>6
  <2>5. succ[j] # i
    BY <2>1, <1>1
  <2>6. queuesWork'[j] = "store_next" /\ succ[j] # 0 => prev'[succ[j]] = pred[j]
    BY <2>1, <2>5, <1>3, <1>4 DEF Orderly, Leave
  <2> QED
    BY <2>1, <2>2, <2>3, <2>4, <2>5, <2>6, <1>5
<1>e. AddBusy'
  <2>1. Listing => queuesAt # i /\ queuesAt # pred[i] /\ queuesAt \in Queues!Items
    BY <1>6, QueuesNat DEF Orderly, AddBusy
  <2>2. queuesPc \in Queues!Adding => succ[0] # i /\ succ[0] = next[0] /\ succ[0] \in Queues!Items /\ pred[i] # 0
    BY <1>1, <1>6, QueuesNat, ChainSafe DEF Orderly, AddBusy
  <2>3. queuesPc \in {"add_own", "add_head"} => Listing /\ queuesPc \in Queues!Adding
    BY DEF Listing, Queues!Adding
  <2>4. queuesPc \in Queues!Adding => next'[0] = next[0]
    BY <2>2, <1>5, <1>6, QueuesNat
  <2>5. queuesPc \in {"add_own", "add_head"} /\ succ[0] # 0 => prev'[succ[0]] = queuesAt
    BY <2>2, <2>3, <1>4 DEF Orderly, AddBusy
  <2>6. queuesPc = "add_head" => next'[queuesAt] = succ[0] /\ prev'[queuesAt] = 0
    BY <2>1, <2>3, <1>4, <1>5 DEF Orderly, AddBusy
  <2>7. queuesPc \in Queues!Adding => succ[0] = next'[0] /\ succ[0] \notin Queues!Deleting'
    BY <2>4, <1>10 DEF Orderly, AddBusy
  <2>8. Listing => /\ queuesAt \in Queues!Delayed /\ queuesAt \notin Chain'
                   /\ queuesMemory[queuesAt] = "live" /\ queuesWork'[queuesAt] \in {"delayed", "queued"}
    BY <2>1, <1>3, <1>8 DEF Orderly, AddBusy
  <2> QED
    BY <1>2, <1>9, <2>5, <2>6, <2>7, <2>8 DEF AddBusy
<1>f. ExitBusy'
  <2>1. queuesPc \in Queues!Exiting => queuesTemp # i /\ queuesTemp \in Queues!Items
    BY <1>1 DEF Orderly, ExitBusy, QueuesType
  <2>2. queuesPc \in {"exit", "exit_prev", "exit_next", "exit_free"} => queuesAt # i /\ queuesAt \in Queues!Items
    BY <1>1, QueuesNat DEF Orderly, ExitBusy, Queues!Deleting, QueuesType
  <2>3. queuesPc = "exit" => /\ queuesAt = next'[0] /\ queuesTemp = next'[queuesAt]
    <3> SUFFICES ASSUME queuesPc = "exit" PROVE queuesAt = next'[0] /\ queuesTemp = next'[queuesAt]
      OBVIOUS
    <3>1. queuesAt = next[0] /\ queuesTemp = next[queuesAt] /\ queuesAt # i /\ queuesTemp # i
      BY <2>1, <2>2 DEF Orderly, ExitBusy, Queues!Exiting
    <3>2. pred[i] # 0 /\ pred[i] # queuesAt
      BY <3>1, <1>6
    <3> QED
      BY <2>2, <3>1, <3>2, <1>5, <1>6, QueuesNat
  <2>4. queuesPc \in {"exit_prev", "exit_next"} =>
          queuesAt \in Chain' /\ queuesAt = next'[0] /\ queuesTemp = next'[queuesAt]
    <3> SUFFICES ASSUME queuesPc \in {"exit_prev", "exit_next"}
                 PROVE queuesAt \in Chain' /\ queuesAt = next'[0] /\ queuesTemp = next'[queuesAt]
      OBVIOUS
    <3>1. queuesAt \in Chain /\ queuesAt = next[0] /\ queuesTemp = next[queuesAt] /\ queuesAt # i /\ queuesTemp # i
      BY <2>1, <2>2 DEF Orderly, ExitBusy, Queues!Exiting
    <3>2. pred[i] # 0 /\ pred[i] # queuesAt
      BY <3>1, <1>6
    <3> QED
      BY <2>2, <3>1, <3>2, <1>5, <1>6, <1>8, QueuesNat
  <2>5. queuesPc = "exit_free" => queuesTemp = next'[0]
    <3> SUFFICES ASSUME queuesPc = "exit_free" PROVE queuesTemp = next'[0]
      OBVIOUS
    <3>1. queuesTemp = next[0] /\ queuesTemp # i
      BY <2>1 DEF Orderly, ExitBusy, Queues!Exiting
    <3> QED
      BY <3>1, <1>5, <1>6, QueuesNat
  <2>6. queuesPc = "exit_next" /\ queuesTemp # 0 => prev'[queuesTemp] = 0
    BY <2>1, <1>4 DEF Orderly, ExitBusy, Queues!Exiting
  <2>7. queuesPc \in {"exit_prev", "exit_next", "exit_free"} => queuesWork'[queuesAt] = queuesWork[queuesAt]
    BY <2>2, <1>3
  <2> QED
    BY <1>2, <1>8, <1>10, <2>3, <2>4, <2>5, <2>6, <2>7 DEF Orderly, ExitBusy
<1>g. ItemLives'
  <2>1. queuesPc # "gone" /\ ~ToCome(i) /\ queuesMemory[i] = "live" /\ Done(i)'
    BY <1>1, <1>2, <1>3, <1>6, QueuesNat DEF Orderly, ItemLives, Done, Queues!Deleting
  <2>2. \A j \in Queues!Items : j # i => Done(j)' = Done(j) /\ queuesWork'[j] = queuesWork[j]
    BY <1>2, <1>3 DEF Done
  <2>3. \A j \in Queues!Delayed : j \in Queues!Items
    BY QueuesNat
  <2>4. \A j \in Queues!Delayed : j # i =>
          /\ ToCome(j) => queuesWork'[j] = "none" /\ j \notin Chain'
          /\ j \in Chain' => /\ queuesMemory[j] = "live"
                             /\ \/ queuesWork'[j] \in {"delayed", "queued", "store_prev", "store_next"}
                                \/ queuesPc \in {"exit_prev", "exit_next"} /\ j = queuesAt
          /\ \/ ToCome(j) \/ j \in Chain' \/ (Listing /\ j = queuesAt)
             \/ (queuesPc = "exit_free" /\ j = queuesAt) \/ Done(j)'
    BY <1>8, <2>2, <2>3 DEF Orderly, ItemLives
  <2>5. queuesWork'[0] = queuesWork[0] /\ Done(0)' = Done(0)
    BY <1>6, <2>2, QueuesNat
  <2> QED
    BY <1>2, <1>8, <1>9, <2>1, <2>4, <2>5 DEF Orderly, ItemLives
<1> QED
  BY <1>11, <1>a, <1>b, <1>c, <1>d, <1>e, <1>f, <1>g DEF Orderly

LEMMA ExpireOrderly ==
  ASSUME Queues!WorkQueuesAssumption, Orderly, NEW i \in Queues!Items, Queues!Expire(i)
  PROVE  Orderly'
<1>1. UNCHANGED <<queuesPc, queuesAt, queuesTemp, queuesMemory, next, prev, pred, succ, queuesMisused>>
  BY DEF Queues!Expire, Queues!links
<1>2. queuesWork' \in [Queues!Items -> Places] /\ queuesWork[i] = "delayed"
      /\ \A j \in Queues!Items : queuesWork'[j] = IF j = i THEN "queued" ELSE queuesWork[j]
  BY DEF Queues!Expire, Queues!Set, Orderly, QueuesType, Places
<1>3. Chain' = Chain /\ (Listing)' = Listing /\ \A x : (ToCome(x))' = ToCome(x)
  BY <1>1 DEF Chain, Listing, ToCome
<1>4. Queues!Deleting' = Queues!Deleting /\ i \notin Queues!Deleting
  BY <1>2, QueuesNat DEF Queues!Deleting
<1>5. QueuesType' /\ Forward'
  BY <1>1, <1>2, <1>3 DEF Orderly, QueuesType, Forward
<1>6. \A j \in Queues!Deleting : queuesWork'[j] = queuesWork[j]
  BY <1>2, <1>4, QueuesNat DEF Queues!Deleting
<1>7. Back' /\ Leave'
  <2>1. Leave'
    BY <1>1, <1>3, <1>4, <1>6 DEF Orderly, Leave
  <2>2. Back'
    BY <1>1, <1>3, <1>4, <1>6 DEF Orderly, Back
  <2> QED
    BY <2>1, <2>2
<1>8. AddBusy' /\ ExitBusy'
  <2>1. AddBusy'
    BY <1>1, <1>2, <1>3, <1>4, QueuesNat DEF Orderly, AddBusy
  <2>2. ExitBusy'
    BY <1>1, <1>2, <1>3, <1>4, QueuesNat DEF Orderly, ExitBusy, QueuesType
  <2> QED
    BY <2>1, <2>2
<1>9. ItemLives'
  <2>1. queuesPc # "gone" /\ ~Done(i) /\ ~ToCome(i) /\ i # 0
    BY <1>2, QueuesNat DEF Orderly, ItemLives, Done
  <2>2. \A j \in Queues!Items : j # i => Done(j)' = Done(j)
    BY <1>1, <1>2 DEF Done
  <2> QED
    BY <1>1, <1>2, <1>3, <2>1, <2>2, QueuesNat DEF Orderly, ItemLives
<1> QED
  BY <1>1, <1>5, <1>7, <1>8, <1>9 DEF Orderly

LEMMA EndOrderly ==
  ASSUME Queues!WorkQueuesAssumption, Orderly, NEW i \in Queues!Items, Queues!WorkEnd(i)
  PROVE  Orderly'
<1>1. UNCHANGED <<queuesPc, queuesAt, queuesTemp, next, prev, pred, succ>>
  BY DEF Queues!WorkEnd, Queues!links
<1>2. queuesWork' \in [Queues!Items -> Places] /\ queuesWork[i] = "kfree"
      /\ \A j \in Queues!Items : queuesWork'[j] = IF j = i THEN "none" ELSE queuesWork[j]
  BY DEF Queues!WorkEnd, Queues!Set, Orderly, QueuesType, Places
<1>3. queuesMemory' \in [Queues!Items -> {"none", "live", "freed"}]
      /\ \A j \in Queues!Items : queuesMemory'[j] = IF j = i THEN "freed" ELSE queuesMemory[j]
  BY DEF Queues!WorkEnd, Queues!Set, Orderly, QueuesType
<1>4. Chain' = Chain /\ (Listing)' = Listing /\ \A x : (ToCome(x))' = ToCome(x)
  BY <1>1 DEF Chain, Listing, ToCome
<1>5. Queues!Deleting' = Queues!Deleting /\ i \notin Queues!Deleting
  BY <1>2, QueuesNat DEF Queues!Deleting
<1>6. /\ i \notin Chain /\ ~ToCome(i) /\ ~(Listing /\ i = queuesAt) /\ queuesMemory[i] = "live"
      /\ ~(queuesPc \in {"exit_prev", "exit_next", "exit_free"} /\ i = queuesAt)
  <2>1. i = 0 => i \notin Chain /\ ~ToCome(i) /\ queuesMemory[i] = "live"
    BY <1>2, QueuesNat DEF Orderly, ItemLives, Chain, Done
  <2>2. ~(Listing /\ i = queuesAt) /\ ~(queuesPc \in {"exit_prev", "exit_next", "exit_free"} /\ i = queuesAt)
    BY <1>2 DEF Orderly, AddBusy, ExitBusy
  <2>3. i # 0 => i \notin Chain /\ ~ToCome(i) /\ queuesMemory[i] = "live"
    BY <1>2, <2>2, QueuesNat DEF Orderly, ItemLives, Done
  <2> QED
    BY <2>1, <2>2, <2>3
<1>7. ~queuesMisused'
  BY <1>6 DEF Queues!WorkEnd
<1>8. QueuesType' /\ Forward'
  BY <1>1, <1>2, <1>3, <1>4 DEF Orderly, QueuesType, Forward
<1>9. \A j \in Queues!Deleting : queuesWork'[j] = queuesWork[j]
  BY <1>2, <1>5, QueuesNat DEF Queues!Deleting
<1>10. Leave'
  BY <1>1, <1>4, <1>5, <1>9 DEF Orderly, Leave
<1>11. Back'
  BY <1>1, <1>4, <1>5, <1>9 DEF Orderly, Back
<1>12. AddBusy'
  BY <1>1, <1>2, <1>3, <1>4, <1>5, <1>6, QueuesNat DEF Orderly, AddBusy
<1>13. ExitBusy'
  BY <1>1, <1>2, <1>3, <1>4, <1>5, <1>6, QueuesNat DEF Orderly, ExitBusy, QueuesType
<1>14. ItemLives'
  <2>1. queuesPc # "gone" /\ Done(i)'
    BY <1>2, <1>3 DEF Orderly, ItemLives, Done
  <2>2. \A j \in Queues!Items : j # i => Done(j)' = Done(j)
    BY <1>2, <1>3 DEF Done
  <2> QED
    BY <1>1, <1>2, <1>3, <1>4, <1>6, <2>1, <2>2, QueuesNat DEF Orderly, ItemLives
<1> QED
  BY <1>7, <1>8, <1>10, <1>11, <1>12, <1>13, <1>14 DEF Orderly

LEMMA BeginOrderly ==
  ASSUME Queues!WorkQueuesAssumption, Orderly, NEW i \in Queues!Items, Queues!WorkBegin(i),
         ~queuesOverlapped'
  PROVE  Orderly'
<1>1. UNCHANGED <<queuesPc, queuesAt, queuesTemp, queuesMemory, next, prev>>
  BY DEF Queues!WorkBegin
<1>2. queuesWork' \in [Queues!Items -> Places] /\ queuesWork[i] = "queued"
      /\ \A j \in Queues!Items : queuesWork'[j] = IF j = i THEN IF i = 0 THEN "kfree" ELSE "store_prev"
                                                  ELSE queuesWork[j]
  BY DEF Queues!WorkBegin, Queues!Set, Orderly, QueuesType, Places
<1>3. Chain' = Chain /\ (Listing)' = Listing /\ \A x : (ToCome(x))' = ToCome(x)
  BY <1>1 DEF Chain, Listing, ToCome
<1>4. Forward'
  BY <1>1, <1>3 DEF Orderly, Forward
<1>5. CASE i = 0
  <2>1. UNCHANGED <<pred, succ, queuesMisused>>
    BY <1>5 DEF Queues!WorkBegin
  <2>2. QueuesType'
    BY <1>1, <1>2, <2>1 DEF Orderly, QueuesType
  <2>3. Queues!Deleting' = Queues!Deleting /\ i \notin Queues!Deleting
    BY <1>2, <1>5, QueuesNat DEF Queues!Deleting
  <2>4. \A j \in Queues!Deleting : queuesWork'[j] = queuesWork[j]
    BY <1>2, <2>3, QueuesNat DEF Queues!Deleting
  <2>5. Leave'
    BY <1>1, <1>3, <2>1, <2>3, <2>4 DEF Orderly, Leave
  <2>6. Back'
    BY <1>1, <1>3, <2>1, <2>3, <2>4 DEF Orderly, Back
  <2>7. AddBusy'
    BY <1>1, <1>2, <1>3, <1>5, <2>1, <2>3, QueuesNat DEF Orderly, AddBusy
  <2>8. queuesPc \in {"exit_prev", "exit_next", "exit_free"} => queuesAt # 0 /\ queuesAt \in Queues!Items
    BY QueuesNat DEF Orderly, ExitBusy, Chain
  <2>9. ExitBusy'
    BY <1>1, <1>2, <1>3, <1>5, <2>1, <2>3, <2>8 DEF Orderly, ExitBusy
  <2>10. ItemLives'
    <3>1. queuesPc # "gone" /\ ~ToCome(0) /\ queuesMemory[0] = "live"
      BY <1>2, <1>5, QueuesNat DEF Orderly, ItemLives, Done
    <3>2. \A j \in Queues!Items : j # 0 => Done(j)' = Done(j)
      BY <1>1, <1>2, <1>5 DEF Done
    <3>3. Done(0)'
      BY <1>1, <1>2, <1>5, <3>1, QueuesNat DEF Done
    <3> QED
      BY <1>1, <1>2, <1>3, <1>5, <3>1, <3>2, <3>3, QueuesNat DEF Orderly, ItemLives
  <2> QED
    BY <1>4, <2>1, <2>2, <2>5, <2>6, <2>7, <2>9, <2>10 DEF Orderly
<1>6. CASE i # 0
  <2>1. i \in Queues!Delayed
    BY <1>6, QueuesNat
  <2>2. /\ pred' \in [Queues!Items -> Queues!Items \union {-1}] /\ succ' \in [Queues!Items -> Queues!Items \union {-1}]
        /\ \A t \in Queues!Items : pred'[t] = IF t = i THEN prev[i] ELSE pred[t]
        /\ \A t \in Queues!Items : succ'[t] = IF t = i THEN next[i] ELSE succ[t]
    BY <1>6 DEF Queues!WorkBegin, Queues!LoadLinks, Queues!Set, Orderly, QueuesType
  <2>3. i \notin Queues!Held /\ \A j \in Queues!Deleting : i # pred[j] /\ i # succ[j]
    BY <1>6 DEF Queues!WorkBegin, Queues!Beside
  <2>4. ~(Listing /\ i = queuesAt) /\ ~(queuesPc \in Queues!Adding /\ i = succ[0])
        /\ ~(queuesPc \in Queues!Exiting /\ queuesAt # 0 /\ (i = queuesAt \/ i = queuesTemp))
    BY <2>1, <2>3 DEF Queues!Held, Listing, Queues!Main, Queues!Head
  <2>5. i \in Chain /\ queuesPc # "gone" /\ queuesMemory[i] = "live"
    <3>1. queuesWork[i] # "none" /\ ~Done(i)
      BY <1>2 DEF Done
    <3>2. i \in Chain /\ queuesPc # "gone"
      BY <1>2, <2>1, <2>4, <3>1 DEF Orderly, ItemLives, ExitBusy
    <3> QED
      BY <2>1, <3>2 DEF Orderly, ItemLives
  <2>6. Queues!Deleting' = Queues!Deleting \union {i} /\ i \notin Queues!Deleting
    BY <1>2, <1>6, <2>1, QueuesNat DEF Queues!Deleting
  <2>7. ~queuesMisused'
    BY <1>6, <2>5, ChainSafe DEF Queues!WorkBegin, Queues!LoadLinks
  <2>8. prev[i] \in Chain \union {0} /\ next[prev[i]] = i
    <3>1. ~(queuesPc \in {"add_own", "add_head"} /\ i = succ[0])
      BY <2>4 DEF Queues!Adding
    <3>2. ~(queuesPc = "exit_next" /\ i = queuesTemp)
      BY <2>4, QueuesNat DEF Orderly, ExitBusy, Queues!Exiting, Chain
    <3> QED
      BY <2>3, <2>5, <3>1, <3>2 DEF Orderly, Back
  <2>9. \A j \in Queues!Deleting : queuesWork'[j] = queuesWork[j] /\ pred'[j] = pred[j] /\ succ'[j] = succ[j]
    BY <1>2, <2>2, <2>6, DeletingFacts
  <2>10. QueuesType'
    BY <1>1, <1>2, <2>2 DEF Orderly, QueuesType
  <2>11. Back'
    BY <1>1, <1>3, <1>6, <2>2, <2>6, <2>9, QueuesNat DEF Orderly, Back
  <2>12. next[i] \notin Queues!Deleting /\ next[i] # i
    <3>1. ASSUME next[i] \in Queues!Deleting PROVE FALSE
      <4>1. next[pred[next[i]]] = next[i] /\ pred[next[i]] \in Chain \union {0} /\ next[i] # 0
        BY <3>1, DeletingFacts
      <4>2. pred[next[i]] = i
        BY <2>5, <4>1, OneBefore
      <4> QED
        BY <2>3, <3>1, <4>2
    <3>2. next[i] # i
      BY <2>5, <1>6, QueuesNat DEF Orderly, Forward
    <3> QED
      BY <3>1, <3>2
  <2>13. Leave'
    <3> SUFFICES ASSUME NEW j \in Queues!Deleting \union {i}
                 PROVE  /\ j \in Chain
                        /\ pred'[j] \in Chain \union {0} /\ next[pred'[j]] = j
                        /\ succ'[j] = next[j] /\ succ'[j] \notin Queues!Deleting \union {i}
                        /\ queuesWork'[j] = "store_next" /\ succ'[j] # 0 => prev[succ'[j]] = pred'[j]
      BY <1>1, <1>3, <2>6 DEF Leave
    <3>1. CASE j = i
      BY <3>1, <1>2, <1>6, <2>2, <2>5, <2>8, <2>12
    <3>2. CASE j \in Queues!Deleting
      BY <3>2, <2>3, <2>9 DEF Orderly, Leave
    <3> QED
      BY <3>1, <3>2
  <2>14. AddBusy'
    <3>1. Listing => queuesAt # i /\ queuesAt \in Queues!Items
      BY <2>4, QueuesNat DEF Orderly, AddBusy
    <3>2. queuesPc \in {"add_own", "add_head"} => queuesPc \in Queues!Adding
      BY DEF Queues!Adding
    <3>3. succ'[0] = succ[0]
      BY <1>6, <2>2, QueuesNat
    <3> QED
      BY <1>1, <1>2, <1>3, <2>4, <2>6, <3>1, <3>2, <3>3 DEF Orderly, AddBusy
  <2>15. ExitBusy'
    <3>1. succ'[0] = succ[0] /\ pred'[0] = pred[0]
      BY <1>6, <2>2, QueuesNat
    <3>2. queuesPc \in Queues!Exiting => queuesAt # i /\ queuesTemp # i
      <4>1. queuesPc \in Queues!Exiting /\ queuesAt = 0 => queuesPc = "exit"
        BY QueuesNat DEF Orderly, ExitBusy, Queues!Exiting, Chain
      <4>2. queuesPc = "exit" /\ queuesAt = 0 => queuesTemp = 0
        BY DEF Orderly, ExitBusy
      <4> QED
        BY <1>6, <2>4, <4>1, <4>2
    <3>3. queuesAt \in Queues!Items
      BY DEF Orderly, QueuesType
    <3>4. {"exit", "exit_prev", "exit_next", "exit_free"} = Queues!Exiting
      BY DEF Queues!Exiting
    <3> QED
      BY <1>1, <1>2, <1>3, <2>6, <3>1, <3>2, <3>3, <3>4 DEF Orderly, ExitBusy
  <2>16. ItemLives'
    <3>1. \A j \in Queues!Items : j # i => Done(j)' = Done(j) /\ queuesWork'[j] = queuesWork[j]
      BY <1>1, <1>2 DEF Done
    <3>2. ~ToCome(i)
      BY <2>1, <2>5 DEF Orderly, ItemLives
    <3> QED
      BY <1>1, <1>2, <1>3, <1>6, <2>1, <2>5, <3>1, <3>2, QueuesNat DEF Orderly, ItemLives
  <2> QED
    BY <1>4, <2>7, <2>10, <2>11, <2>13, <2>14, <2>15, <2>16 DEF Orderly
<1> QED
  BY <1>5, <1>6

LEMMA InitQueueOrderly ==
  ASSUME Queues!WorkQueuesAssumption, Orderly, Queues!InitQueue
  PROVE  Orderly'
<1>1. UNCHANGED <<queuesTemp, next, prev, pred, succ, queuesMisused>> /\ queuesPc = "init"
  BY DEF Queues!InitQueue, Queues!links
<1>2. /\ queuesAt \in Queues!Items /\ ToCome(queuesAt) /\ queuesAt \notin Chain
      /\ queuesWork[queuesAt] = "none"
  BY <1>1, QueuesNat DEF Orderly, QueuesType, ToCome, ItemLives, Chain
<1>3. queuesWork' \in [Queues!Items -> Places]
      /\ \A j \in Queues!Items : queuesWork'[j] = IF j = queuesAt THEN IF j = 0 THEN "queued" ELSE "delayed"
                                                  ELSE queuesWork[j]
  BY <1>2 DEF Queues!InitQueue, Queues!Set, Orderly, QueuesType, Places
<1>4. queuesMemory' \in [Queues!Items -> {"none", "live", "freed"}]
      /\ \A j \in Queues!Items : queuesMemory'[j] = IF j = queuesAt THEN "live" ELSE queuesMemory[j]
  BY <1>2 DEF Queues!InitQueue, Queues!Set, Orderly, QueuesType
<1>5. \/ queuesAt = 0 /\ queuesAt' = 1 /\ queuesPc' = "init"
      \/ queuesAt # 0 /\ queuesAt' = queuesAt /\ queuesPc' = "list_add"
  BY <1>1 DEF Queues!InitQueue
<1>6. Chain' = Chain
  BY <1>1, <1>5 DEF Chain
<1>7. Queues!Deleting' = Queues!Deleting /\ queuesAt \notin Queues!Deleting
  BY <1>2, <1>3, QueuesNat DEF Queues!Deleting
<1>8. \A j \in Queues!Deleting : queuesWork'[j] = queuesWork[j]
  BY <1>3, <1>7, QueuesNat DEF Queues!Deleting
<1>9. QueuesType'
  BY <1>1, <1>3, <1>4, <1>5, QueuesNat DEF Orderly, QueuesType
<1>10. Forward' /\ Leave'
  BY <1>1, <1>6, <1>7, <1>8 DEF Orderly, Forward, Leave
<1>11. Back'
  BY <1>1, <1>5, <1>6, <1>7, <1>8 DEF Orderly, Back
<1>12. AddBusy' /\ ExitBusy'
  <2>1. AddBusy'
    BY <1>2, <1>3, <1>4, <1>5, <1>6, QueuesNat DEF AddBusy, Listing, Queues!Adding
  <2>2. ExitBusy'
    BY <1>5 DEF ExitBusy, Queues!Exiting
  <2> QED
    BY <2>1, <2>2
<1>13. ItemLives'
  <2>1. CASE queuesAt = 0
    <3>1. \A j \in Queues!Delayed : ToCome(j)' /\ ToCome(j) /\ queuesWork'[j] = queuesWork[j]
      BY <1>1, <1>3, <1>5, <2>1, QueuesNat DEF ToCome, Queues!Delayed
    <3>2. ~ToCome(0)' /\ queuesMemory'[0] = "live" /\ queuesWork'[0] = "queued"
      BY <1>3, <1>4, <1>5, <2>1, QueuesNat DEF ToCome, Listing, Queues!Adding
    <3> QED
      BY <1>5, <1>6, <3>1, <3>2 DEF Orderly, ItemLives
  <2>2. CASE queuesAt # 0
    <3>1. \A j \in Queues!Items : j # queuesAt =>
            ToCome(j)' = ToCome(j) /\ Done(j)' = Done(j) /\ queuesWork'[j] = queuesWork[j] /\ queuesMemory'[j] = queuesMemory[j]
      BY <1>1, <1>2, <1>3, <1>4, <1>5, <2>2, QueuesNat DEF ToCome, Done, Listing, Queues!Adding
    <3>2. Listing' /\ ~ToCome(queuesAt)' /\ ~Listing /\ queuesPc' = "list_add" /\ queuesAt' = queuesAt
      BY <1>1, <1>2, <1>5, <2>2, QueuesNat DEF ToCome, Listing, Queues!Adding
    <3>3. \A j \in Queues!Delayed : j # queuesAt => j \in Queues!Items
      BY QueuesNat
    <3> QED
      BY <1>1, <1>2, <1>6, <2>2, <3>1, <3>2, <3>3, QueuesNat DEF Orderly, ItemLives
  <2> QED
    BY <2>1, <2>2
<1> QED
  BY <1>1, <1>9, <1>10, <1>11, <1>12, <1>13 DEF Orderly

LEMMA AddLoadOrderly ==
  ASSUME Queues!WorkQueuesAssumption, Orderly, Queues!AddLoad, ~queuesOverlapped'
  PROVE  Orderly'
<1>1. UNCHANGED <<queuesAt, queuesTemp, queuesMemory, queuesWork, next, prev, pred, queuesMisused>>
      /\ queuesPc = "list_add" /\ queuesPc' = "add_prev" /\ next[0] \notin Queues!Deleting
  BY DEF Queues!AddLoad, Queues!Head
<1>2. succ' \in [Queues!Items -> Queues!Items \union {-1}]
      /\ \A t \in Queues!Items : succ'[t] = IF t = 0 THEN next[0] ELSE succ[t]
  BY QueuesNat DEF Queues!AddLoad, Queues!Set, Queues!Main, Queues!Head, Orderly, QueuesType
<1>3. Chain' = Chain /\ Listing /\ Listing' /\ \A x : (ToCome(x))' = ToCome(x)
  BY <1>1 DEF Chain, Listing, ToCome, Queues!Adding
<1>4. Queues!Deleting' = Queues!Deleting /\ \A j \in Queues!Deleting : succ'[j] = succ[j]
  BY <1>1, <1>2, DeletingFacts DEF Queues!Deleting
<1>5. QueuesType' /\ Forward'
  BY <1>1, <1>2, <1>3 DEF Orderly, QueuesType, Forward, Queues!Adding
<1>6. Leave'
  BY <1>1, <1>3, <1>4 DEF Orderly, Leave
<1>7. Back'
  BY <1>1, <1>3, <1>4 DEF Orderly, Back
<1>8. AddBusy' /\ ExitBusy'
  BY <1>1, <1>2, <1>3, <1>4, QueuesNat DEF Orderly, AddBusy, ExitBusy, Queues!Exiting
<1>9. ItemLives'
  BY <1>1, <1>3 DEF Orderly, ItemLives, Done
<1> QED
  BY <1>1, <1>5, <1>6, <1>7, <1>8, <1>9 DEF Orderly

LEMMA AddPrevOrderly ==
  ASSUME Queues!WorkQueuesAssumption, Orderly, Queues!AddPrev
  PROVE  Orderly'
<1>1. UNCHANGED <<queuesAt, queuesTemp, queuesMemory, queuesWork, next, pred, succ>>
      /\ queuesPc = "add_prev" /\ queuesPc' = "add_own"
  BY DEF Queues!AddPrev
<1>2. Chain' = Chain /\ Listing /\ Listing' /\ \A x : (ToCome(x))' = ToCome(x)
  BY <1>1 DEF Chain, Listing, ToCome, Queues!Adding
<1>3. /\ succ[0] = next[0] /\ succ[0] \in Chain \union {0} /\ succ[0] \in Queues!Items
      /\ succ[0] \notin Queues!Deleting /\ queuesAt \in Queues!Delayed /\ queuesAt \notin Chain
  BY <1>1, <1>2, QueuesNat, ChainSafe DEF Orderly, AddBusy, Queues!Adding
<1>4. prev' \in [Queues!Items -> Queues!Items \union {-1}]
      /\ \A x \in Queues!Items : prev'[x] = IF x = succ[0] THEN queuesAt ELSE prev[x]
  BY <1>3 DEF Queues!AddPrev, Queues!Set, Queues!Main, Orderly, QueuesType
<1>5. ~queuesMisused'
  BY <1>3, ChainSafe DEF Queues!AddPrev, Queues!Main
<1>6. Queues!Deleting' = Queues!Deleting
  BY <1>1 DEF Queues!Deleting
<1>7. QueuesType' /\ Forward'
  BY <1>1, <1>2, <1>3, <1>4, QueuesNat DEF Orderly, QueuesType, Forward, Queues!Adding
<1>8. Leave'
  <2>1. \A j \in Queues!Deleting : succ[j] # 0 => prev'[succ[j]] = prev[succ[j]]
    <3> SUFFICES ASSUME NEW j \in Queues!Deleting, succ[j] # 0 PROVE succ[j] # succ[0]
      BY <1>4, DeletingFacts
    <3> QED
      BY <1>3, DeletingFacts, OneBefore
  <2> QED
    BY <1>1, <1>2, <1>6, <2>1 DEF Orderly, Leave
<1>9. Back'
  <2>1. queuesAt # -1 /\ \A x \in Chain : x \in Queues!Items
    BY <1>3, ChainSafe, QueuesNat
  <2> QED
    BY <1>1, <1>2, <1>4, <1>6, <2>1 DEF Orderly, Back
<1>10. AddBusy' /\ ExitBusy'
  BY <1>1, <1>2, <1>3, <1>4, <1>6, QueuesNat DEF Orderly, AddBusy, ExitBusy, Queues!Exiting, Queues!Adding
<1>11. ItemLives'
  BY <1>1, <1>2 DEF Orderly, ItemLives, Done
<1> QED
  BY <1>5, <1>7, <1>8, <1>9, <1>10, <1>11 DEF Orderly

LEMMA AddOwnOrderly ==
  ASSUME Queues!WorkQueuesAssumption, Orderly, Queues!AddOwn
  PROVE  Orderly'
<1>1. UNCHANGED <<queuesAt, queuesTemp, queuesMemory, queuesWork, pred, succ>>
      /\ queuesPc = "add_own" /\ queuesPc' = "add_head"
  BY DEF Queues!AddOwn
<1>2. Listing /\ Listing' /\ \A x : (ToCome(x))' = ToCome(x)
  BY <1>1 DEF Listing, ToCome, Queues!Adding
<1>3. /\ succ[0] = next[0] /\ succ[0] \in Chain \union {0} /\ succ[0] \in Queues!Items
      /\ succ[0] \notin Queues!Deleting /\ queuesAt \in Queues!Delayed /\ queuesAt \notin Chain
      /\ queuesAt \in Queues!Items /\ queuesAt # 0 /\ queuesMemory[queuesAt] = "live"
  BY <1>1, <1>2, QueuesNat, ChainSafe DEF Orderly, AddBusy, Queues!Adding
<1>4. /\ prev' \in [Queues!Items -> Queues!Items \union {-1}] /\ next' \in [Queues!Items -> Queues!Items \union {-1}]
      /\ \A x \in Queues!Items : prev'[x] = IF x = queuesAt THEN 0 ELSE prev[x]
      /\ \A x \in Queues!Items : next'[x] = IF x = queuesAt THEN succ[0] ELSE next[x]
  BY <1>3, QueuesNat DEF Queues!AddOwn, Queues!Set, Queues!Main, Queues!Head, Orderly, QueuesType
<1>5. ~queuesMisused'
  BY <1>3 DEF Queues!AddOwn, Queues!Gone
<1>6. Queues!Deleting' = Queues!Deleting
  BY <1>1 DEF Queues!Deleting
<1>7. Chain' = Chain
  <2>1. \A x \in Queues!Delayed : x \in Chain' <=> x \in Chain
    BY <1>1, <1>3, <1>4, QueuesNat DEF Chain
  <2>2. Chain' \subseteq Queues!Delayed /\ Chain \subseteq Queues!Delayed
    BY DEF Chain
  <2> QED
    BY <2>1, <2>2
<1>8. \A x \in Chain \union {0} : x \in Queues!Items /\ x # queuesAt /\ next'[x] = next[x] /\ prev'[x] = prev[x]
  BY <1>3, <1>4, ChainSafe
<1>9. QueuesType'
  BY <1>1, <1>3, <1>4, QueuesNat DEF Orderly, QueuesType, Queues!Adding
<1>10. Forward'
  BY <1>7, <1>8 DEF Orderly, Forward
<1>11. Leave'
  BY <1>1, <1>6, <1>7, <1>8, DeletingFacts DEF Orderly, Leave
<1>12. Back'
  BY <1>1, <1>6, <1>7, <1>8 DEF Orderly, Back
<1>13. AddBusy'
  BY <1>1, <1>2, <1>3, <1>4, <1>6, <1>7, <1>8 DEF Orderly, AddBusy, Queues!Adding
<1>14. ExitBusy'
  BY <1>1 DEF ExitBusy, Queues!Exiting
<1>15. ItemLives'
  BY <1>1, <1>2, <1>7 DEF Orderly, ItemLives, Done
<1> QED
  BY <1>5, <1>9, <1>10, <1>11, <1>12, <1>13, <1>14, <1>15 DEF Orderly

LEMMA AddHeadOrderly ==
  ASSUME Queues!WorkQueuesAssumption, Orderly, Queues!AddHead
  PROVE  Orderly'
<1>1. UNCHANGED <<queuesTemp, queuesMemory, queuesWork, prev, pred, succ, queuesMisused>>
      /\ queuesPc = "add_head"
  BY DEF Queues!AddHead
<1>2. \/ queuesAt = Cores /\ queuesAt' = queuesAt /\ queuesPc' = "loaded"
      \/ queuesAt # Cores /\ queuesAt' = queuesAt + 1 /\ queuesPc' = "init"
  BY DEF Queues!AddHead
<1>3. /\ succ[0] = next[0] /\ succ[0] \in Chain \union {0} /\ succ[0] \in Queues!Items
      /\ succ[0] \notin Queues!Deleting /\ queuesAt \in Queues!Delayed /\ queuesAt \notin Chain
      /\ queuesAt \in Queues!Items /\ queuesAt # 0 /\ queuesMemory[queuesAt] = "live"
      /\ queuesWork[queuesAt] \in {"delayed", "queued"}
      /\ next[queuesAt] = succ[0] /\ prev[queuesAt] = 0 /\ (succ[0] # 0 => prev[succ[0]] = queuesAt)
  BY <1>1, QueuesNat, ChainSafe DEF Orderly, AddBusy, Queues!Adding, Listing
<1>4. /\ next' \in [Queues!Items -> Queues!Items \union {-1}]
      /\ \A x \in Queues!Items : next'[x] = IF x = 0 THEN queuesAt ELSE next[x]
  BY <1>3, QueuesNat DEF Queues!AddHead, Queues!Set, Queues!Head, Orderly, QueuesType
<1>5. Queues!Deleting' = Queues!Deleting /\ queuesAt \notin Queues!Deleting
  BY <1>1, <1>3 DEF Queues!Deleting
<1>6. Chain' = Chain \union {queuesAt}
  <2>1. \A x \in Queues!Delayed : x \in Chain' <=> x \in Chain \/ x = queuesAt
    BY <1>1, <1>2, <1>3, <1>4, QueuesNat DEF Chain
  <2>2. Chain' \subseteq Queues!Delayed /\ Chain \subseteq Queues!Delayed
    BY DEF Chain
  <2> QED
    BY <1>3, <2>1, <2>2
<1>7. \A x \in Chain : x \in Queues!Items /\ x # 0 /\ x < queuesAt
  <2>1. \A x \in Chain : x \in Queues!Delayed /\ ~ToCome(x)
    BY DEF Orderly, ItemLives, Chain
  <2> QED
    BY <1>1, <1>3, <2>1, QueuesNat DEF ToCome, Listing, Queues!Adding
<1>8. queuesAt \in Nat /\ queuesAt <= Cores
  BY <1>3, QueuesNat DEF Queues!Delayed
<1>9. QueuesType'
  <2>1. queuesAt' \in Queues!Items
    BY <1>2, <1>3, <1>8, QueuesNat DEF Queues!Items
  <2> QED
    BY <1>1, <1>2, <1>3, <1>4, <2>1, QueuesNat DEF Orderly, QueuesType
<1>10. Forward'
  <2> SUFFICES ASSUME NEW x \in Chain \union {queuesAt} \union {0}
               PROVE  /\ next'[x] \in Chain \union {queuesAt} \union {0}
                      /\ next'[x] # 0 /\ x # 0 => next'[x] < x
                      /\ \A j \in Chain \union {queuesAt} : x = 0 \/ j < x => j <= next'[x]
    BY <1>6 DEF Forward
  <2>1. CASE x = 0
    BY <1>4, <1>7, <1>8, <2>1, QueuesNat
  <2>2. CASE x = queuesAt
    <3>1. next'[x] = next[0]
      BY <1>3, <1>4, <2>2
    <3>2. next[0] \in Chain \union {0} /\ \A j \in Chain : j <= next[0]
      BY DEF Orderly, Forward
    <3>3. next'[x] # 0 => next'[x] < x
      BY <1>7, <2>2, <3>1, <3>2
    <3>4. ASSUME NEW j \in Chain \union {queuesAt}, j < x PROVE j <= next'[x]
      <4>1. j \in Chain
        BY <1>8, <2>2, <3>4
      <4> QED
        BY <3>1, <3>2, <4>1
    <3> QED
      BY <1>3, <2>2, <3>1, <3>2, <3>3, <3>4
  <2>3. CASE x \in Chain
    <3>1. next'[x] = next[x] /\ x < queuesAt /\ x \in Nat
      BY <1>4, <1>7, <2>3, QueuesNat
    <3>2. next[x] \in Chain \union {0} /\ (next[x] # 0 => next[x] < x)
          /\ \A j \in Chain : j < x => j <= next[x]
      BY <1>7, <2>3 DEF Orderly, Forward
    <3>3. ~(queuesAt < x)
      BY <1>8, <3>1
    <3> QED
      BY <1>7, <2>3, <3>1, <3>2, <3>3
  <2> QED
    BY <2>1, <2>2, <2>3
<1>11. Leave'
  <2> SUFFICES ASSUME NEW j \in Queues!Deleting PROVE next'[pred[j]] = j /\ next'[j] = next[j]
    BY <1>1, <1>5, <1>6 DEF Orderly, Leave
  <2>1. pred[j] # 0
    BY <1>3, DeletingFacts
  <2> QED
    BY <1>4, <2>1, DeletingFacts
<1>12. Back'
  <2> SUFFICES ASSUME NEW x \in Chain \union {queuesAt}
               PROVE  /\ prev[x] # -1
                      /\ \/ prev[x] \in Chain \union {queuesAt} \union {0} /\ next'[prev[x]] = x
                         \/ \E j \in Queues!Deleting : queuesWork[j] = "store_next" /\ succ[j] = x
    BY <1>1, <1>5, <1>6 DEF Back
  <2>1. CASE x = queuesAt
    BY <1>3, <1>4, <2>1, QueuesNat
  <2>2. CASE x = succ[0]
    <3>1. x # 0 /\ prev[x] = queuesAt /\ next'[queuesAt] = x
      BY <1>3, <1>4, <1>7, <2>2
    <3> QED
      BY <1>8, <3>1
  <2>3. CASE x \in Chain /\ x # succ[0]
    <3>1. CASE prev[x] \in Chain \union {0} /\ next[prev[x]] = x
      <4>1. prev[x] # 0
        BY <1>3, <2>3, <3>1
      <4> QED
        BY <1>4, <1>7, <2>3, <3>1, <4>1 DEF Orderly, Back
    <3> QED
      BY <1>1, <2>3, <3>1 DEF Orderly, Back
  <2> QED
    BY <2>1, <2>2, <2>3
<1>13. AddBusy' /\ ExitBusy'
  BY <1>2 DEF AddBusy, ExitBusy, Listing, Queues!Adding, Queues!Exiting
<1>14. ItemLives'
  <2>1. \A j \in Queues!Items : Done(j)' = Done(j)
    BY <1>1 DEF Done
  <2>2. \A j \in Queues!Items : ToCome(j)' <=> ToCome(j)
    BY <1>1, <1>2, <1>8, QueuesNat DEF ToCome, Listing, Queues!Adding, Queues!Items
  <2>3. ~Listing' /\ queuesPc' \notin {"exit_prev", "exit_next", "exit_free", "gone"}
        /\ queuesPc \notin {"exit_prev", "exit_next", "exit_free", "gone"}
    BY <1>1, <1>2 DEF Listing, Queues!Adding
  <2>4. ~ToCome(queuesAt)
    BY <1>1, <1>8 DEF ToCome
  <2>5. \A j \in Queues!Delayed :
          /\ ToCome(j)' => queuesWork[j] = "none" /\ j \notin Chain'
          /\ j \in Chain' => queuesMemory[j] = "live"
                             /\ queuesWork[j] \in {"delayed", "queued", "store_prev", "store_next"}
          /\ ToCome(j)' \/ j \in Chain' \/ Done(j)'
    <3> SUFFICES ASSUME NEW j \in Queues!Delayed
                 PROVE  /\ ToCome(j) => queuesWork[j] = "none" /\ j \notin Chain'
                        /\ j \in Chain' => queuesMemory[j] = "live"
                                           /\ queuesWork[j] \in {"delayed", "queued", "store_prev", "store_next"}
                        /\ ToCome(j) \/ j \in Chain' \/ Done(j)
      BY <2>1, <2>2, QueuesNat
    <3>1. CASE j = queuesAt
      BY <1>3, <1>6, <2>4, <3>1
    <3>2. CASE j # queuesAt
      BY <1>6, <2>3, <3>2 DEF Orderly, ItemLives
    <3> QED
      BY <3>1, <3>2
  <2>6. (ToCome(0) <=> ToCome(0)') /\ Done(0)' = Done(0)
    BY <2>1, <2>2, QueuesNat
  <2> QED
    BY <1>1, <2>3, <2>5, <2>6 DEF Orderly, ItemLives
<1> QED
  BY <1>1, <1>9, <1>10, <1>11, <1>12, <1>13, <1>14 DEF Orderly

LEMMA ExitBeginOrderly ==
  ASSUME Queues!WorkQueuesAssumption, Orderly, Queues!ExitBegin, ~queuesOverlapped'
  PROVE  Orderly'
<1>1. UNCHANGED <<queuesMemory, queuesWork, next, prev, pred, succ>>
      /\ queuesPc = "loaded" /\ queuesPc' = "exit"
      /\ queuesAt' = next[0] /\ queuesTemp' = next[next[0]]
      /\ next[0] \notin Queues!Deleting /\ next[next[0]] \notin Queues!Deleting
      /\ queuesMisused' = Queues!Dangling(next[0])
  BY DEF Queues!ExitBegin, Queues!LookUp, Queues!links, Queues!Head
<1>2. next[0] \in Chain \union {0} /\ next[next[0]] \in Chain \union {0}
      /\ next[0] \in Queues!Items /\ next[next[0]] \in Queues!Items /\ ~queuesMisused'
  BY <1>1, ChainSafe
<1>3. Chain' = Chain /\ Queues!Deleting' = Queues!Deleting
  BY <1>1 DEF Chain, Queues!Deleting
<1>4. QueuesType' /\ Forward' /\ Leave'
  BY <1>1, <1>2, <1>3 DEF Orderly, QueuesType, Forward, Leave, Queues!Exiting
<1>5. Back'
  BY <1>1, <1>3 DEF Orderly, Back
<1>6. AddBusy' /\ ExitBusy'
  BY <1>1, <1>3 DEF AddBusy, ExitBusy, Listing, Queues!Adding
<1>7. ItemLives'
  BY <1>1, <1>3 DEF Orderly, ItemLives, Done, ToCome, Listing, Queues!Adding
<1> QED
  BY <1>2, <1>4, <1>5, <1>6, <1>7 DEF Orderly

LEMMA ExitCancelOrderly ==
  ASSUME Queues!WorkQueuesAssumption, Orderly, Queues!ExitCancel, ~queuesOverlapped'
  PROVE  Orderly'
<1>1. UNCHANGED <<queuesAt, queuesTemp, queuesMemory, next, prev>>
      /\ queuesPc = "exit" /\ queuesPc' = "exit_prev" /\ queuesAt # 0
      /\ queuesAt \notin Queues!Running /\ queuesMisused' = Queues!Dangling(queuesAt)
  BY DEF Queues!ExitCancel, Queues!LoadLinks, Queues!Head
<1>2. /\ queuesAt = next[0] /\ queuesTemp = next[queuesAt] /\ queuesTemp \notin Queues!Deleting
      /\ queuesAt \in Chain /\ queuesAt \in Queues!Items /\ queuesTemp \in Chain \union {0}
      /\ ~queuesMisused' /\ queuesAt \notin Queues!Deleting
  BY <1>1, ChainSafe DEF Orderly, ExitBusy, Queues!Exiting
<1>3. queuesWork' \in [Queues!Items -> Places]
      /\ \A j \in Queues!Items : queuesWork'[j] = IF j = queuesAt THEN "none" ELSE queuesWork[j]
  BY <1>1, <1>2 DEF Queues!ExitCancel, Queues!Set, Orderly, QueuesType, Places
<1>4. /\ pred' \in [Queues!Items -> Queues!Items \union {-1}] /\ succ' \in [Queues!Items -> Queues!Items \union {-1}]
      /\ \A t \in Queues!Items : pred'[t] = IF t = 0 THEN prev[queuesAt] ELSE pred[t]
      /\ \A t \in Queues!Items : succ'[t] = IF t = 0 THEN next[queuesAt] ELSE succ[t]
  BY <1>2 DEF Queues!ExitCancel, Queues!LoadLinks, Queues!Set, Queues!Main, Orderly, QueuesType
<1>5. Chain' = Chain
  BY <1>1 DEF Chain
<1>6. Queues!Deleting' = Queues!Deleting
  BY <1>2, <1>3, QueuesNat DEF Queues!Deleting
<1>7. \A j \in Queues!Deleting : queuesWork'[j] = queuesWork[j] /\ pred'[j] = pred[j] /\ succ'[j] = succ[j]
  BY <1>2, <1>3, <1>4, DeletingFacts
<1>8. prev[queuesAt] = 0
  <2>1. ~ \E j \in Queues!Deleting : queuesWork[j] = "store_next" /\ succ[j] = queuesAt
    <3> SUFFICES ASSUME NEW j \in Queues!Deleting, succ[j] = queuesAt PROVE FALSE
      OBVIOUS
    <3> QED
      BY <1>1, <1>2, DeletingFacts, OneBefore
  <2>2. prev[queuesAt] \in Chain \union {0} /\ next[prev[queuesAt]] = queuesAt
    BY <1>1, <1>2, <2>1 DEF Orderly, Back
  <2> QED
    BY <1>1, <1>2, <2>2, OneBefore
<1>9. QueuesType'
  BY <1>1, <1>3, <1>4 DEF Orderly, QueuesType, Queues!Exiting
<1>10. Forward' /\ Leave'
  BY <1>1, <1>5, <1>6, <1>7 DEF Orderly, Forward, Leave
<1>11. Back'
  BY <1>1, <1>5, <1>6, <1>7 DEF Orderly, Back
<1>12. AddBusy' /\ ExitBusy'
  BY <1>1, <1>2, <1>3, <1>4, <1>5, <1>6, <1>8, QueuesNat DEF AddBusy, ExitBusy, Listing, Queues!Adding
<1>13. ItemLives'
  <2>1. \A j \in Queues!Items : j # queuesAt => Done(j)' = Done(j) /\ queuesWork'[j] = queuesWork[j]
    BY <1>1, <1>3 DEF Done
  <2>2. ~Listing /\ ~Listing' /\ \A j : ~ToCome(j) /\ ~ToCome(j)'
    BY <1>1 DEF ToCome, Listing, Queues!Adding
  <2>3. \A j \in Queues!Delayed :
          /\ j \in Chain => /\ queuesMemory[j] = "live"
                            /\ (queuesWork'[j] \in {"delayed", "queued", "store_prev", "store_next"} \/ j = queuesAt)
          /\ j \in Chain \/ Done(j)'
    <3> SUFFICES ASSUME NEW j \in Queues!Delayed
                 PROVE  /\ j \in Chain => /\ queuesMemory[j] = "live"
                             /\ (queuesWork'[j] \in {"delayed", "queued", "store_prev", "store_next"} \/ j = queuesAt)
                        /\ j \in Chain \/ Done(j)'
      OBVIOUS
    <3>1. j \in Queues!Items
      BY QueuesNat
    <3> QED
      BY <1>1, <1>2, <2>1, <2>2, <3>1 DEF Orderly, ItemLives
  <2> QED
    BY <1>1, <1>5, <2>1, <2>2, <2>3, QueuesNat DEF Orderly, ItemLives
<1> QED
  BY <1>2, <1>9, <1>10, <1>11, <1>12, <1>13 DEF Orderly

LEMMA ExitStorePrevOrderly ==
  ASSUME Queues!WorkQueuesAssumption, Orderly, Queues!ExitStorePrev
  PROVE  Orderly'
<1>1. UNCHANGED <<queuesAt, queuesTemp, queuesMemory, queuesWork, next, pred, succ>>
      /\ queuesPc = "exit_prev" /\ queuesPc' = "exit_next"
  BY DEF Queues!ExitStorePrev
<1>2. /\ queuesAt \in Chain /\ queuesAt = next[0] /\ queuesTemp = next[queuesAt]
      /\ queuesWork[queuesAt] = "none" /\ pred[0] = 0 /\ succ[0] = queuesTemp
      /\ queuesTemp \notin Queues!Deleting
  BY <1>1 DEF Orderly, ExitBusy, Queues!Exiting
<1>3. queuesTemp \in Chain \union {0} /\ queuesTemp \in Queues!Items
  BY <1>2, ChainSafe
<1>4. prev' \in [Queues!Items -> Queues!Items \union {-1}]
      /\ \A x \in Queues!Items : prev'[x] = IF x = queuesTemp THEN 0 ELSE prev[x]
  BY <1>2, <1>3, QueuesNat DEF Queues!ExitStorePrev, Queues!StorePrev, Queues!Set, Queues!Main, Orderly, QueuesType
<1>5. ~queuesMisused'
  BY <1>2, <1>3, ChainSafe DEF Queues!ExitStorePrev, Queues!StorePrev, Queues!Main
<1>6. Chain' = Chain /\ Queues!Deleting' = Queues!Deleting
  BY <1>1 DEF Chain, Queues!Deleting
<1>7. QueuesType' /\ Forward'
  BY <1>1, <1>3, <1>4, <1>6, QueuesNat DEF Orderly, QueuesType, Forward, Queues!Exiting
<1>8. Leave'
  <2> SUFFICES ASSUME NEW j \in Queues!Deleting, succ[j] # 0 PROVE prev'[succ[j]] = prev[succ[j]]
    BY <1>1, <1>6 DEF Orderly, Leave
  <2>1. succ[j] # queuesTemp
    BY <1>1, <1>2, DeletingFacts, OneBefore
  <2> QED
    BY <1>4, <2>1, DeletingFacts
<1>9. Back'
  <2>1. \A x \in Chain : x \in Queues!Items
    BY ChainSafe
  <2> QED
    BY <1>1, <1>4, <1>6, <2>1, QueuesNat DEF Orderly, Back
<1>10. AddBusy' /\ ExitBusy'
  BY <1>1, <1>2, <1>3, <1>4, <1>6 DEF AddBusy, ExitBusy, Listing, Queues!Adding
<1>11. ItemLives'
  BY <1>1, <1>6 DEF Orderly, ItemLives, Done, ToCome, Listing, Queues!Adding
<1> QED
  BY <1>5, <1>7, <1>8, <1>9, <1>10, <1>11 DEF Orderly

LEMMA ExitStoreNextOrderly ==
  ASSUME Queues!WorkQueuesAssumption, Orderly, Queues!ExitStoreNext
  PROVE  Orderly'
<1>1. UNCHANGED <<queuesAt, queuesTemp, queuesMemory, queuesWork, pred, succ>>
      /\ queuesPc = "exit_next" /\ queuesPc' = "exit_free"
  BY DEF Queues!ExitStoreNext
<1>2. /\ queuesAt \in Chain /\ queuesAt = next[0] /\ queuesTemp = next[queuesAt]
      /\ queuesWork[queuesAt] = "none" /\ pred[0] = 0 /\ succ[0] = queuesTemp
      /\ queuesTemp \notin Queues!Deleting /\ (queuesTemp # 0 => prev[queuesTemp] = 0)
  BY <1>1 DEF Orderly, ExitBusy, Queues!Exiting
<1>3. /\ queuesTemp \in Chain \union {0} /\ queuesTemp \in Queues!Items
      /\ queuesAt \in Queues!Delayed /\ queuesAt \in Queues!Items /\ queuesAt # 0
      /\ queuesMemory[queuesAt] = "live"
  BY <1>1, <1>2, ChainSafe, QueuesNat DEF Orderly, ItemLives, Chain
<1>4. queuesTemp # queuesAt
  BY <1>2, <1>3, QueuesNat DEF Orderly, Forward
<1>5. /\ prev' \in [Queues!Items -> Queues!Items \union {-1}] /\ next' \in [Queues!Items -> Queues!Items \union {-1}]
      /\ \A x \in Queues!Items : prev'[x] = IF x = queuesAt THEN -1 ELSE prev[x]
      /\ \A x \in Queues!Items : next'[x] = IF x = queuesAt THEN -1 ELSE IF x = 0 THEN queuesTemp ELSE next[x]
  BY <1>2, <1>3 DEF Queues!ExitStoreNext, Queues!StoreNext, Queues!Set, Queues!Main, Queues!Poison, Orderly, QueuesType
<1>6. ~queuesMisused'
  BY <1>2, <1>3 DEF Queues!ExitStoreNext, Queues!StoreNext, Queues!Main, Queues!Gone, Queues!Head
<1>7. Chain' = Chain \ {queuesAt}
  <2>1. \A x \in Queues!Delayed : x \in Chain' <=> x \in Chain /\ x # queuesAt
    BY <1>1, <1>5, QueuesNat DEF Chain
  <2>2. Chain' \subseteq Queues!Delayed /\ Chain \subseteq Queues!Delayed
    BY DEF Chain
  <2> QED
    BY <2>1, <2>2
<1>8. Queues!Deleting' = Queues!Deleting /\ queuesAt \notin Queues!Deleting
  BY <1>1, <1>2 DEF Queues!Deleting
<1>9. \A x \in Chain : x \in Queues!Items /\ x # 0 /\ x \in Nat
  BY QueuesNat DEF Chain
<1>10. \A x \in Chain : next[x] # queuesAt
  BY <1>2, <1>3, <1>9, OneBefore
<1>11. QueuesType'
  BY <1>1, <1>3, <1>5, QueuesNat DEF Orderly, QueuesType, Queues!Exiting
<1>12. Forward'
  <2> SUFFICES ASSUME NEW x \in (Chain \ {queuesAt}) \union {0}
               PROVE  /\ next'[x] \in (Chain \ {queuesAt}) \union {0}
                      /\ next'[x] # 0 /\ x # 0 => next'[x] < x
                      /\ \A j \in Chain \ {queuesAt} : x = 0 \/ j < x => j <= next'[x]
    BY <1>7 DEF Forward
  <2>1. CASE x = 0
    <3>1. next'[0] = queuesTemp
      BY <1>3, <1>5, QueuesNat
    <3>2. \A j \in Chain : j <= queuesAt
      BY <1>2 DEF Orderly, Forward
    <3>3. \A j \in Chain : j < queuesAt => j <= queuesTemp
      BY <1>2, <1>3 DEF Orderly, Forward
    <3>4. \A j \in Chain \ {queuesAt} : j < queuesAt
      BY <1>2, <1>9, <3>2
    <3> QED
      BY <1>3, <1>4, <2>1, <3>1, <3>3, <3>4
  <2>2. CASE x # 0
    <3>1. x \in Chain /\ next'[x] = next[x]
      BY <1>5, <1>9, <2>2
    <3> QED
      BY <1>10, <2>2, <3>1 DEF Orderly, Forward
  <2> QED
    BY <2>1, <2>2
<1>13. Leave'
  <2> SUFFICES ASSUME NEW j \in Queues!Deleting
               PROVE  /\ pred[j] # queuesAt /\ next'[pred[j]] = j /\ next'[j] = next[j] /\ j # queuesAt
                      /\ succ[j] # 0 => prev'[succ[j]] = prev[succ[j]]
    BY <1>1, <1>7, <1>8 DEF Orderly, Leave
  <2>1. pred[j] # queuesAt
    BY <1>2, DeletingFacts
  <2>2. pred[j] # 0
    BY <1>2, <1>8, DeletingFacts
  <2>3. succ[j] # queuesAt
    BY <1>10, DeletingFacts
  <2> QED
    BY <1>5, <1>8, <2>1, <2>2, <2>3, DeletingFacts
<1>14. Back'
  <2> SUFFICES ASSUME NEW x \in Chain, x # queuesAt
               PROVE  /\ prev'[x] # -1
                      /\ \/ prev'[x] \in (Chain \ {queuesAt}) \union {0} /\ next'[prev'[x]] = x
                         \/ \E j \in Queues!Deleting : queuesWork[j] = "store_next" /\ succ[j] = x
    BY <1>1, <1>7, <1>8 DEF Back
  <2>1. prev'[x] = prev[x] /\ prev[x] # -1 /\ x # 0
    BY <1>5, <1>9 DEF Orderly, Back
  <2>2. CASE x = queuesTemp
    BY <1>2, <1>3, <1>5, <2>1, <2>2, QueuesNat
  <2>3. CASE x # queuesTemp /\ prev[x] \in Chain \union {0} /\ next[prev[x]] = x
    <3>1. prev[x] # 0 /\ prev[x] # queuesAt
      BY <1>2, <2>3
    <3> QED
      BY <1>5, <1>9, <2>1, <2>3, <3>1
  <2> QED
    BY <1>1, <2>1, <2>2, <2>3 DEF Orderly, Back
<1>15. AddBusy' /\ ExitBusy'
  <2>1. next'[0] = queuesTemp
    BY <1>3, <1>5, QueuesNat
  <2> QED
    BY <1>1, <1>2, <1>3, <1>7, <1>8, <2>1 DEF AddBusy, ExitBusy, Listing, Queues!Adding
<1>16. ItemLives'
  BY <1>1, <1>7 DEF Orderly, ItemLives, Done, ToCome, Listing, Queues!Adding
<1> QED
  BY <1>6, <1>11, <1>12, <1>13, <1>14, <1>15, <1>16 DEF Orderly

LEMMA ExitFreeOrderly ==
  ASSUME Queues!WorkQueuesAssumption, Orderly, Queues!ExitFree, ~queuesOverlapped'
  PROVE  Orderly'
<1>1. UNCHANGED <<queuesWork, next, prev, pred, succ>>
      /\ queuesPc = "exit_free" /\ queuesPc' = "exit"
      /\ queuesAt' = queuesTemp /\ queuesTemp' = next[queuesTemp] /\ next[queuesTemp] \notin Queues!Deleting
      /\ queuesMisused' = (Queues!Gone(queuesAt) \/ queuesTemp = queuesAt \/ Queues!Dangling(queuesTemp))
  BY DEF Queues!ExitFree, Queues!links
<1>2. /\ queuesAt \in Queues!Delayed /\ queuesAt \in Queues!Items /\ queuesAt \notin Chain /\ queuesAt # 0
      /\ queuesMemory[queuesAt] = "live" /\ queuesWork[queuesAt] = "none"
      /\ queuesTemp = next[0] /\ queuesTemp \notin Queues!Deleting
  BY <1>1, QueuesNat DEF Orderly, ExitBusy, Queues!Exiting
<1>3. queuesTemp \in Chain \union {0} /\ next[queuesTemp] \in Chain \union {0}
      /\ queuesTemp \in Queues!Items /\ next[queuesTemp] \in Queues!Items
  BY <1>2, ChainSafe
<1>4. queuesMemory' \in [Queues!Items -> {"none", "live", "freed"}]
      /\ \A j \in Queues!Items : queuesMemory'[j] = IF j = queuesAt THEN "freed" ELSE queuesMemory[j]
  BY <1>2 DEF Queues!ExitFree, Queues!Set, Orderly, QueuesType
<1>5. ~queuesMisused'
  <2>1. ~Queues!Gone(queuesAt) /\ queuesTemp # queuesAt
    BY <1>2, <1>3 DEF Queues!Gone
  <2>2. ~Queues!Dangling(queuesTemp)
    BY <1>3, ChainSafe
  <2> QED
    BY <1>1, <2>1, <2>2
<1>6. Chain' = Chain /\ Queues!Deleting' = Queues!Deleting
  BY <1>1 DEF Chain, Queues!Deleting
<1>7. QueuesType' /\ Forward' /\ Leave'
  BY <1>1, <1>3, <1>4, <1>6 DEF Orderly, QueuesType, Forward, Leave, Queues!Exiting
<1>8. Back'
  BY <1>1, <1>6 DEF Orderly, Back
<1>9. AddBusy' /\ ExitBusy'
  BY <1>1, <1>2, <1>6 DEF AddBusy, ExitBusy, Listing, Queues!Adding
<1>10. ItemLives'
  <2>1. \A j \in Queues!Items : j # queuesAt => Done(j)' = Done(j) /\ queuesMemory'[j] = queuesMemory[j]
    BY <1>1, <1>4 DEF Done
  <2>2. \A j \in Queues!Items : j = queuesAt => Done(j)'
    BY <1>1, <1>2, <1>4 DEF Done
  <2>3. ~Listing /\ ~Listing' /\ \A j : ~ToCome(j) /\ ~ToCome(j)'
    BY <1>1 DEF ToCome, Listing, Queues!Adding
  <2>4. \A j \in Queues!Delayed :
          /\ j \in Chain => /\ queuesMemory'[j] = "live"
                            /\ queuesWork[j] \in {"delayed", "queued", "store_prev", "store_next"}
          /\ j \in Chain \/ Done(j)'
    <3> SUFFICES ASSUME NEW j \in Queues!Delayed
                 PROVE  /\ j \in Chain => /\ queuesMemory'[j] = "live"
                             /\ queuesWork[j] \in {"delayed", "queued", "store_prev", "store_next"}
                        /\ j \in Chain \/ Done(j)'
      OBVIOUS
    <3>1. j \in Queues!Items
      BY QueuesNat
    <3> QED
      BY <1>1, <1>2, <2>1, <2>2, <2>3, <3>1 DEF Orderly, ItemLives
  <2> QED
    BY <1>1, <1>2, <1>6, <2>1, <2>3, <2>4, QueuesNat DEF Orderly, ItemLives
<1> QED
  BY <1>5, <1>7, <1>8, <1>9, <1>10 DEF Orderly

LEMMA ExitFlushOrderly ==
  ASSUME Queues!WorkQueuesAssumption, Orderly, Queues!ExitFlush
  PROVE  Orderly'
<1>1. UNCHANGED <<queuesAt, queuesTemp, queuesMemory, queuesWork, next, prev, pred, succ, queuesMisused>>
      /\ queuesPc = "exit" /\ queuesPc' = "gone" /\ queuesAt = 0
      /\ \A i \in Queues!Items : queuesWork[i] \in {"none", "delayed"}
  BY DEF Queues!ExitFlush, Queues!links, Queues!Head
<1>2. Chain' = Chain /\ Queues!Deleting' = Queues!Deleting
  BY <1>1 DEF Chain, Queues!Deleting
<1>3. QueuesType' /\ Forward' /\ Leave'
  BY <1>1, <1>2 DEF Orderly, QueuesType, Forward, Leave
<1>4. Back'
  BY <1>1, <1>2 DEF Orderly, Back
<1>5. AddBusy' /\ ExitBusy'
  BY <1>1 DEF AddBusy, ExitBusy, Listing, Queues!Adding, Queues!Exiting
<1>6. Chain = {}
  <2>1. next[0] = 0 /\ \A j \in Chain : j <= next[0]
    BY <1>1 DEF Orderly, ExitBusy, Forward
  <2>2. \A j \in Chain : j \in Nat /\ j # 0
    BY QueuesNat DEF Chain
  <2> QED
    BY <2>1, <2>2
<1>7. ~Listing /\ \A j : ~ToCome(j)
  BY <1>1 DEF ToCome, Listing, Queues!Adding
<1>8. \A i \in Queues!Items : Done(i) /\ queuesWork[i] = "none"
  <2>1. \A i \in Queues!Delayed : Done(i)
    BY <1>1, <1>6, <1>7 DEF Orderly, ItemLives
  <2>2. Done(0)
    BY <1>1, <1>7, QueuesNat DEF Orderly, ItemLives
  <2> QED
    BY <1>1, <2>1, <2>2, QueuesNat DEF Done
<1>9. ItemLives'
  <2>1. \A i : Done(i)' = Done(i)
    BY <1>1 DEF Done
  <2>2. ~Listing' /\ \A j : ~ToCome(j)'
    BY <1>1 DEF ToCome, Listing, Queues!Adding
  <2> QED
    BY <1>1, <1>2, <1>6, <1>8, <2>1, <2>2, QueuesNat DEF ItemLives
<1> QED
  BY <1>1, <1>3, <1>4, <1>5, <1>9 DEF Orderly

LEMMA QueuesInit == Queues!WorkQueuesAssumption /\ Queues!Init => QueuesInv
<1> SUFFICES ASSUME Queues!WorkQueuesAssumption, Queues!Init PROVE Orderly
  BY DEF QueuesInv
<1>1. /\ queuesMemory \in [Queues!Items -> {"none", "live", "freed"}]
      /\ queuesWork \in [Queues!Items -> Places] /\ \A i \in Queues!Items : queuesWork[i] = "none"
  BY DEF Queues!Init, Places
<1>2. /\ next \in [Queues!Items -> Queues!Items \union {-1}] /\ prev = next /\ next[0] = 0
      /\ \A i \in Queues!Items : i # 0 => next[i] = -1
  BY QueuesNat DEF Queues!Init, Queues!Head, Queues!Poison
<1>3. pred \in [Queues!Items -> Queues!Items \union {-1}] /\ succ = pred
  BY QueuesNat DEF Queues!Init, Queues!Head
<1>4. queuesPc = "init" /\ queuesAt = 0 /\ queuesTemp = 0 /\ ~queuesMisused
  BY DEF Queues!Init
<1>5. Chain = {} /\ Queues!Deleting = {}
  BY <1>1, <1>2, QueuesNat DEF Chain, Queues!Deleting
<1>6. QueuesType
  BY <1>1, <1>2, <1>3, <1>4, QueuesNat DEF QueuesType
<1>7. Forward /\ Back /\ Leave /\ AddBusy /\ ExitBusy
  BY <1>2, <1>4, <1>5 DEF Forward, Back, Leave, AddBusy, ExitBusy, Listing, Queues!Adding, Queues!Exiting
<1>8. ItemLives
  BY <1>1, <1>4, <1>5, QueuesNat DEF ItemLives, ToCome
<1> QED
  BY <1>4, <1>6, <1>7, <1>8 DEF Orderly

LEMMA QueuesNext == Queues!WorkQueuesAssumption /\ QueuesInv /\ [Queues!Next]_queuesVars => QueuesInv'
<1> SUFFICES ASSUME Queues!WorkQueuesAssumption, QueuesInv, [Queues!Next]_queuesVars,
                    ~queuesOverlapped'
             PROVE  Orderly'
  BY DEF QueuesInv
<1>1. CASE Queues!Next
  <2>1. ~queuesOverlapped
    BY <1>1 DEF Queues!Next, Queues!InitQueue, Queues!AddLoad, Queues!AddPrev, Queues!AddOwn, Queues!AddHead,
       Queues!ExitBegin, Queues!LookUp, Queues!ExitCancel, Queues!ExitStorePrev, Queues!ExitStoreNext,
       Queues!ExitFree, Queues!ExitFlush, Queues!Expire, Queues!WorkBegin, Queues!WorkStorePrev,
       Queues!WorkStoreNext, Queues!WorkEnd
  <2>2. Orderly
    BY <2>1 DEF QueuesInv
  <2> QED
    BY <1>1, <2>2, InitQueueOrderly, AddLoadOrderly, AddPrevOrderly, AddOwnOrderly, AddHeadOrderly,
       ExitBeginOrderly, ExitCancelOrderly, ExitStorePrevOrderly, ExitStoreNextOrderly, ExitFreeOrderly,
       ExitFlushOrderly, ExpireOrderly, BeginOrderly, StorePrevOrderly, StoreNextOrderly, EndOrderly
       DEF Queues!Next
<1>2. CASE UNCHANGED queuesVars
  <2>1. Orderly
    BY <1>2 DEF QueuesInv, queuesVars
  <2> QED
    BY <1>2, <2>1 DEF queuesVars, Orderly, QueuesType, Forward, Back, Leave, AddBusy, ExitBusy, ItemLives,
       Chain, Listing, ToCome, Done, Queues!Deleting
<1> QED
  BY <1>1, <1>2

LEMMA QueuesSafe == QueuesInv => Queues!MisuseNeedsOverlap /\ Queues!NothingLeftBehind
<1>1. QueuesInv => Queues!MisuseNeedsOverlap
  BY DEF QueuesInv, Orderly, Queues!MisuseNeedsOverlap
<1>2. QueuesInv => Queues!NothingLeftBehind
  BY DEF QueuesInv, Orderly, ItemLives, Done, Queues!NothingLeftBehind
<1> QED
  BY <1>1, <1>2

-----------------------------------------------------------------------------
(* write() of the dma module *)

Mapping   == {"init", "submit", "issue", "wait", "asleep", "check"}
WriterPcs == {"idle", "map", "dead"} \union Mapping

\* From init_completion() to the end of the wait; where a transaction is submitted
Window == {"submit", "issue", "wait", "asleep"}
Owed   == {"issue", "wait", "asleep"}

DmaType ==
  /\ wpc \in [Writers -> WriterPcs]
  /\ submitted \in Seq(Writers)
  /\ issued \in Nat /\ callbacks \in Nat /\ done \in Nat
  /\ issued <= Len(submitted)
  /\ mapped \in Int /\ failures \in Nat

LEMMA DmaInitType == Dma!Init => DmaType
  <1> SUFFICES ASSUME Dma!Init PROVE DmaType
    OBVIOUS
  <1>1. wpc \in [Writers -> WriterPcs]
    BY DEF Dma!Init, WriterPcs
  <1>2. submitted \in Seq(Writers) /\ Len(submitted) = 0
    BY DEF Dma!Init
  <1> QED
    BY <1>1, <1>2 DEF Dma!Init, DmaType

LEMMA DmaStepType == ASSUME DmaType, NEW w \in Writers, Dma!Copy(w) \/ Dma!Step(w) PROVE DmaType'
  <1> USE DEF DmaType, Dma!Goto, WriterPcs, Mapping, Dma!bufVars, Dma!txVars, Dma!rxVars,
     Dma!channelVars, Dma!waitVars, Dma!history
  <1>1. CASE Dma!Copy(w)
    <2>1. wpc' \in [Writers -> WriterPcs]
      BY <1>1 DEF Dma!Copy
    <2> QED
      BY <1>1, <2>1 DEF Dma!Copy
  <1>2. CASE Dma!Map(w)
    <2>1. wpc' \in [Writers -> WriterPcs]
      BY <1>2 DEF Dma!Map
    <2> QED
      BY <1>2, <2>1 DEF Dma!Map
  <1>3. CASE Dma!InitCompletion(w)
    BY <1>3 DEF Dma!InitCompletion
  <1>4. CASE Dma!Submit(w)
    <2>1. submitted' \in Seq(Writers) /\ issued' <= Len(submitted')
      <3>1. submitted' = submitted \/ submitted' = Append(submitted, w)
        BY <1>4 DEF Dma!Submit
      <3>2. /\ Append(submitted, w) \in Seq(Writers)
            /\ Len(Append(submitted, w)) = Len(submitted) + 1 /\ Len(submitted) \in Nat
        OBVIOUS
      <3>3. issued' = issued
        BY <1>4 DEF Dma!Submit
      <3> QED
        BY <3>1, <3>2, <3>3
    <2>2. wpc' \in [Writers -> WriterPcs]
      BY <1>4 DEF Dma!Submit
    <2> QED
      BY <1>4, <2>1, <2>2 DEF Dma!Submit
  <1>5. CASE Dma!Issue(w)
    BY <1>5 DEF Dma!Issue
  <1>6. CASE Dma!Wait(w)
    <2>1. done' \in Nat
      BY <1>6 DEF Dma!Wait
    <2>2. wpc' \in [Writers -> WriterPcs]
      BY <1>6 DEF Dma!Wait
    <2> QED
      BY <1>6, <2>1, <2>2 DEF Dma!Wait
  <1>7. CASE Dma!Check(w)
    <2>1. wpc' \in [Writers -> WriterPcs]
      BY <1>7 DEF Dma!Check
    <2> QED
      BY <1>7, <2>1 DEF Dma!Check
  <1> QED
    BY <1>1, <1>2, <1>3, <1>4, <1>5, <1>6, <1>7 DEF Dma!Step

LEMMA DmaChannelType == DmaType /\ (Dma!Transfer \/ Dma!Callback) => DmaType'
  <1> SUFFICES ASSUME DmaType, Dma!Transfer \/ Dma!Callback PROVE DmaType'
    OBVIOUS
  <1> USE DEF DmaType, Dma!bufVars, Dma!waitVars, Dma!history
  <1>1. CASE Dma!Transfer
    <2>1. submitted # <<>>
      BY <1>1 DEF Dma!Transfer
    <2>2. submitted' \in Seq(Writers) /\ Len(submitted') = Len(submitted) - 1
      BY <1>1, <2>1 DEF Dma!Transfer
    <2> QED
      BY <1>1, <2>2 DEF Dma!Transfer
  <1>2. CASE Dma!Callback
    BY <1>2 DEF Dma!Callback
  <1> QED
    BY <1>1, <1>2

\* What neither the cache nor a stutter changes
Steady ==
  UNCHANGED <<wpc, data_tx_buffer, submitted, issued, callbacks, done, sleepers, woken,
              mapped, failures, wiped, met>>

Cache == Dma!CacheFill \/ Dma!CacheEvict \/ Dma!CacheEvictSource

LEMMA DmaCacheSteady == UNCHANGED dmaVars \/ Cache => Steady
  BY DEF dmaVars, Cache, Steady, Dma!CacheFill, Dma!CacheEvict, Dma!CacheEvictSource,
     Dma!txVars, Dma!channelVars, Dma!waitVars, Dma!history

LEMMA DmaTypeNext == DmaType /\ [Dma!Next]_dmaVars => DmaType'
  <1> SUFFICES ASSUME DmaType, [Dma!Next]_dmaVars PROVE DmaType'
    OBVIOUS
  <1>1. CASE Steady
    BY <1>1 DEF Steady, DmaType
  <1> QED
    BY <1>1, DmaStepType, DmaChannelType, DmaCacheSteady DEF Dma!Next, Cache

\* Nothing is on its way but for writers that wait for it.
Owing == {w \in Writers : wpc[w] \in Owed}
DmaOwes ==
  IsFiniteSet(Owing) /\ Cardinality(Owing) >= Len(submitted) + callbacks + done

LEMMA DmaInitOwes == Dma!Init => DmaOwes
  <1> SUFFICES ASSUME Dma!Init PROVE DmaOwes
    OBVIOUS
  <1>1. Owing = {} /\ Len(submitted) = 0
    BY DEF Dma!Init, Owing, Owed
  <1> QED
    BY <1>1, FS_EmptySet DEF Dma!Init, DmaOwes

LEMMA DmaStepOwes ==
  ASSUME DmaType, DmaOwes, NEW w \in Writers, Dma!Copy(w) \/ Dma!Step(w)
  PROVE  DmaOwes'
  <1> USE DEF Dma!Goto, Dma!bufVars, Dma!channelVars, Dma!waitVars, Dma!history
  <1>1. /\ wpc \in [Writers -> WriterPcs] /\ Len(submitted) \in Nat
        /\ callbacks \in Nat /\ done \in Nat
    BY DEF DmaType
  <1>2. /\ IsFiniteSet(Owing) /\ Cardinality(Owing) \in Nat
        /\ Cardinality(Owing) >= Len(submitted) + callbacks + done
    BY FS_CardinalityType DEF DmaOwes
  <1>3. CASE /\ wpc[w] = "submit" /\ wpc' = [wpc EXCEPT ![w] = "issue"]
             /\ submitted' = Append(submitted, w) /\ UNCHANGED <<callbacks, done>>
    <2>1. w \notin Owing /\ Owing' = Owing \union {w}
      BY <1>1, <1>3 DEF Owing, Owed
    <2>2. IsFiniteSet(Owing') /\ Cardinality(Owing') = Cardinality(Owing) + 1
      BY <1>2, <2>1, FS_AddElement
    <2>3. Len(submitted') = Len(submitted) + 1
      BY <1>3 DEF DmaType
    <2> QED
      BY <1>1, <1>2, <1>3, <2>2, <2>3 DEF DmaOwes
  <1>4. CASE /\ wpc[w] \in Owed /\ wpc' = [wpc EXCEPT ![w] = "check"]
             /\ done' = done - 1 /\ UNCHANGED <<submitted, callbacks>>
    <2>1. w \in Owing /\ Owing' = Owing \ {w}
      BY <1>1, <1>4 DEF Owing, Owed
    <2>2. IsFiniteSet(Owing') /\ Cardinality(Owing') = Cardinality(Owing) - 1
      BY <1>2, <2>1, FS_RemoveElement
    <2> QED
      BY <1>1, <1>2, <1>4, <2>2 DEF DmaOwes
  <1>5. CASE /\ \A v \in Writers : wpc'[v] \in Owed <=> wpc[v] \in Owed
             /\ UNCHANGED <<submitted, callbacks>> /\ done' \in {0, done}
    <2>1. Owing' = Owing
      BY <1>5 DEF Owing
    <2> QED
      BY <1>1, <1>2, <1>5, <2>1 DEF DmaOwes
  <1> USE DEF Owed
  <1>6. CASE Dma!Copy(w)
    BY <1>1, <1>5, <1>6 DEF Dma!Copy
  <1>7. CASE Dma!Map(w)
    BY <1>1, <1>5, <1>7 DEF Dma!Map
  <1>8. CASE Dma!InitCompletion(w)
    BY <1>1, <1>5, <1>8 DEF Dma!InitCompletion
  <1>9. CASE Dma!Submit(w)
    BY <1>1, <1>3, <1>5, <1>9 DEF Dma!Submit
  <1>10. CASE Dma!Issue(w)
    BY <1>1, <1>5, <1>10 DEF Dma!Issue
  <1>11. CASE Dma!Wait(w)
    <2>1. CASE done > 0
      BY <1>1, <1>4, <1>11, <2>1 DEF Dma!Wait
    <2>2. CASE ~(done > 0)
      BY <1>1, <1>5, <1>11, <2>2 DEF Dma!Wait
    <2> QED
      BY <2>1, <2>2
  <1>12. CASE Dma!Check(w)
    BY <1>1, <1>5, <1>12 DEF Dma!Check
  <1> QED
    BY <1>6, <1>7, <1>8, <1>9, <1>10, <1>11, <1>12 DEF Dma!Step

LEMMA DmaNextOwes == DmaType /\ DmaOwes /\ [Dma!Next]_dmaVars => DmaOwes'
  <1> SUFFICES ASSUME DmaType, DmaOwes, [Dma!Next]_dmaVars PROVE DmaOwes'
    OBVIOUS
  <1>1. CASE Steady
    <2>1. Owing' = Owing
      BY <1>1 DEF Steady, Owing
    <2> QED
      BY <1>1, <2>1 DEF Steady, DmaOwes
  <1>2. CASE Dma!Transfer \/ Dma!Callback
    <2>1. Owing' = Owing
      BY <1>2 DEF Dma!Transfer, Dma!Callback, Owing
    <2>2. Len(submitted') + callbacks' + done' = Len(submitted) + callbacks + done
      <3>1. CASE Dma!Transfer
        <4>1. submitted # <<>>
          BY <3>1 DEF Dma!Transfer, DmaType
        <4>2. Len(Tail(submitted)) = Len(submitted) - 1 /\ Len(submitted) \in Nat
          BY <4>1 DEF DmaType
        <4>3. submitted' = Tail(submitted) /\ callbacks' = callbacks + 1 /\ done' = done
          BY <3>1 DEF Dma!Transfer, Dma!waitVars
        <4>4. Len(submitted') = Len(submitted) - 1
          BY <4>2, <4>3
        <4>5. callbacks \in Nat /\ done \in Nat /\ Len(submitted) \in Nat
          BY DEF DmaType
        <4>6. callbacks' = callbacks + 1 /\ done' = done
          BY <4>3
        <4> QED
          BY <4>4, <4>5, <4>6
      <3>2. CASE Dma!Callback
        BY <3>2 DEF Dma!Callback, DmaType
      <3> QED
        BY <1>2, <3>1, <3>2
    <2> QED
      BY <2>1, <2>2 DEF DmaOwes
  <1> QED
    BY <1>1, <1>2, DmaStepOwes, DmaCacheSteady DEF Dma!Next, Cache

\* The channel has nothing of anybody.
Quiet == submitted = <<>> /\ issued = 0 /\ callbacks = 0

LEMMA DmaNobodyQuiet == DmaType /\ DmaOwes /\ Dma!Inside = {} => Quiet
  <1> SUFFICES ASSUME DmaType, DmaOwes, Dma!Inside = {} PROVE Quiet
    OBVIOUS
  <1>1. Owing = {}
    BY DEF Dma!Inside, Owing, Owed
  <1>2. Len(submitted) \in Nat /\ callbacks \in Nat /\ done \in Nat /\ issued \in Nat
    BY DEF DmaType
  <1>3. Len(submitted) = 0 /\ callbacks = 0
    BY <1>1, <1>2, FS_EmptySet DEF DmaOwes
  <1> QED
    BY <1>2, <1>3 DEF Quiet, DmaType

\* What the channel and the completion hold for the writer that is inside.
OnItsWay(w) ==
  \/ /\ Len(submitted) = 1 /\ issued = 1 /\ callbacks = 0 /\ done = 0
  \/ /\ submitted = <<>> /\ issued = 0 /\ callbacks + done = 1 /\ data_rx_buffer = w

WriterHolds(w) ==
  /\ data_tx_buffer = w
  /\ wpc[w] # "map" => tx_memory = w /\ rx_cached # "dirty"
  /\ wpc[w] \in {"map", "init", "submit"} => Quiet
  /\ wpc[w] = "submit" => done = 0
  /\ wpc[w] = "issue" => Len(submitted) = 1 /\ issued = 0 /\ callbacks = 0 /\ done = 0
  /\ wpc[w] \in {"wait", "asleep"} => OnItsWay(w)
  /\ wpc[w] = "check" => Quiet /\ data_rx_buffer = w

\* Whoever met nobody is alone inside.
DmaAlone ==
  \A w \in Dma!Inside \ met : Dma!Inside = {w} /\ WriterHolds(w)

DmaInv == DmaType /\ DmaOwes /\ DmaAlone

LEMMA DmaInit == Dma!Init => DmaInv
  <1> SUFFICES ASSUME Dma!Init PROVE DmaInv
    OBVIOUS
  <1>1. Dma!Inside = {}
    BY DEF Dma!Init, Dma!Inside
  <1> QED
    BY <1>1, DmaInitType, DmaInitOwes DEF DmaInv, DmaAlone

LEMMA DmaCopyAlone == ASSUME DmaInv, NEW w \in Writers, Dma!Copy(w) PROVE DmaAlone'
  <1>1. wpc \in [Writers -> WriterPcs]
    BY DEF DmaInv, DmaType
  <1>2. Dma!Inside' \subseteq Dma!Inside \union {w}
    BY <1>1 DEF Dma!Copy, Dma!Goto, Dma!Inside
  <1>3. CASE Dma!Inside # {}
    <2>1. Dma!Inside' \subseteq met'
      BY <1>2, <1>3 DEF Dma!Copy
    <2> QED
      BY <2>1 DEF DmaAlone
  <1>4. CASE Dma!Inside = {}
    <2>1. Quiet
      BY <1>4, DmaNobodyQuiet DEF DmaInv
    <2>2. ASSUME w \in Dma!Inside' PROVE WriterHolds(w)'
      <3>1. wpc'[w] = "map" /\ data_tx_buffer' = w
        BY <1>1, <2>2 DEF Dma!Copy, Dma!Goto, Dma!Inside
      <3>2. Quiet'
        BY <2>1 DEF Dma!Copy, Dma!channelVars, Quiet
      <3> QED
        BY <3>1, <3>2 DEF WriterHolds
    <2> QED
      BY <1>2, <1>4, <2>2 DEF DmaAlone
  <1> QED
    BY <1>3, <1>4

LEMMA DmaStepAlone == ASSUME DmaInv, NEW w \in Writers, Dma!Step(w) PROVE DmaAlone'
  <1> USE DEF Dma!bufVars, Dma!txVars, Dma!rxVars, Dma!channelVars, Dma!waitVars, Dma!history
  <1>1. wpc \in [Writers -> WriterPcs]
    BY DEF DmaInv, DmaType
  <1>2. /\ met' = met /\ w \in Dma!Inside
        /\ \E pc \in WriterPcs : wpc' = [wpc EXCEPT ![w] = pc]
    BY <1>1 DEF Dma!Step, Dma!Map, Dma!InitCompletion, Dma!Submit, Dma!Issue, Dma!Wait,
       Dma!Check, Dma!Inside, Dma!Goto, WriterPcs, Mapping
  <1>3. Dma!Inside' \subseteq Dma!Inside
    BY <1>1, <1>2 DEF Dma!Inside
  <1> SUFFICES ASSUME Dma!Inside = {w}, WriterHolds(w), w \in Dma!Inside'
               PROVE  WriterHolds(w)'
    <2> SUFFICES ASSUME NEW v \in Dma!Inside' \ met' PROVE Dma!Inside' = {v} /\ WriterHolds(v)'
      BY DEF DmaAlone
    <2>1. v \in Dma!Inside \ met
      BY <1>2, <1>3
    <2>2. Dma!Inside = {v} /\ WriterHolds(v)
      BY <2>1 DEF DmaInv, DmaAlone
    <2>3. v = w
      BY <1>2, <2>2
    <2> QED
      BY <1>3, <2>2, <2>3
  <1>4. wpc'[w] \notin {"idle", "dead"}
    BY DEF Dma!Inside
  <1> USE DEF Dma!Goto, WriterHolds, Quiet
  <1>5. CASE Dma!Map(w)
    BY <1>1, <1>4, <1>5 DEF Dma!Map
  <1>6. CASE Dma!InitCompletion(w)
    BY <1>1, <1>6 DEF Dma!InitCompletion
  <1>7. CASE Dma!Submit(w)
    <2>1. submitted' = Append(submitted, w) /\ wpc'[w] = "issue" /\ wpc[w] = "submit"
      BY <1>1, <1>4, <1>7 DEF Dma!Submit
    <2>2. Len(submitted') = 1
      BY <2>1
    <2> QED
      BY <1>7, <2>1, <2>2 DEF Dma!Submit
  <1>8. CASE Dma!Issue(w)
    BY <1>1, <1>8 DEF Dma!Issue, OnItsWay
  <1>9. CASE Dma!Wait(w)
    <2>1. done \in Nat /\ callbacks \in Nat /\ OnItsWay(w)
      BY <1>9 DEF Dma!Wait, DmaInv, DmaType
    <2>2. CASE done > 0
      BY <1>1, <1>9, <2>1, <2>2 DEF Dma!Wait, OnItsWay
    <2>3. CASE ~(done > 0)
      BY <1>1, <1>9, <2>1, <2>3 DEF Dma!Wait, OnItsWay
    <2> QED
      BY <2>2, <2>3
  <1>10. CASE Dma!Check(w)
    BY <1>1, <1>4, <1>10 DEF Dma!Check
  <1> QED
    BY <1>5, <1>6, <1>7, <1>8, <1>9, <1>10 DEF Dma!Step

\* The cache writes back no line of the one that is alone.
LEMMA DmaCacheAlone == DmaInv /\ (UNCHANGED dmaVars \/ Cache) => DmaAlone'
  <1> SUFFICES ASSUME DmaInv, UNCHANGED dmaVars \/ Cache, NEW w \in Dma!Inside' \ met'
               PROVE  Dma!Inside' = {w} /\ WriterHolds(w)'
    BY DEF DmaAlone
  <1>1. Steady
    BY DmaCacheSteady
  <1>2. Dma!Inside' = Dma!Inside /\ met' = met
    BY <1>1 DEF Steady, Dma!Inside
  <1>3. Dma!Inside = {w} /\ WriterHolds(w)
    BY <1>2 DEF DmaInv, DmaAlone
  <1>4. (tx_memory' = tx_memory \/ tx_memory' = data_tx_buffer)
    BY DEF dmaVars, Cache, Dma!CacheFill, Dma!CacheEvict, Dma!CacheEvictSource, Dma!txVars
  <1>5. rx_cached # "dirty" => data_rx_buffer' = data_rx_buffer /\ rx_cached' # "dirty"
    BY DEF dmaVars, Cache, Dma!CacheFill, Dma!CacheEvict, Dma!CacheEvictSource, Dma!rxVars,
       Dma!WriteBack
  <1>6. UNCHANGED <<wpc, data_tx_buffer, submitted, issued, callbacks, done>>
    BY <1>1 DEF Steady
  <1>7. /\ data_tx_buffer' = w
        /\ wpc'[w] # "map" => tx_memory' = w /\ rx_cached' # "dirty"
    BY <1>3, <1>4, <1>5, <1>6 DEF WriterHolds
  <1>8. wpc[w] # "map" => data_rx_buffer' = data_rx_buffer
    BY <1>3, <1>5 DEF WriterHolds
  <1>9. OnItsWay(w) /\ wpc[w] # "map" => OnItsWay(w)'
    BY <1>6, <1>8 DEF OnItsWay
  <1>10. WriterHolds(w)'
    BY <1>3, <1>6, <1>7, <1>8, <1>9 DEF WriterHolds, Quiet
  <1> QED
    BY <1>2, <1>3, <1>10

LEMMA DmaChannelAlone == DmaInv /\ (Dma!Transfer \/ Dma!Callback) => DmaAlone'
  <1> SUFFICES ASSUME DmaInv, Dma!Transfer \/ Dma!Callback, NEW w \in Dma!Inside' \ met'
               PROVE  Dma!Inside' = {w} /\ WriterHolds(w)'
    BY DEF DmaAlone
  <1> USE DEF Dma!bufVars, Dma!txVars, Dma!rxVars, Dma!waitVars, Dma!history
  <1>1. UNCHANGED <<wpc, data_tx_buffer, tx_memory, rx_cached, met>>
    BY DEF Dma!Transfer, Dma!Callback
  <1>2. Dma!Inside' = Dma!Inside /\ met' = met
    BY <1>1 DEF Dma!Inside
  <1>3. Dma!Inside = {w} /\ WriterHolds(w)
    BY <1>2 DEF DmaInv, DmaAlone
  <1>4. wpc[w] \in WriterPcs /\ wpc[w] \notin {"idle", "dead"}
    BY <1>3 DEF DmaInv, DmaType, Dma!Inside
  <1>5. wpc[w] \in {"wait", "asleep"}
    BY <1>3, <1>4 DEF WriterHolds, Quiet, WriterPcs, Mapping, Dma!Transfer, Dma!Callback
  <1>6. OnItsWay(w) /\ tx_memory = w
    BY <1>3, <1>5 DEF WriterHolds
  <1>7. OnItsWay(w)'
    <2>1. CASE Dma!Transfer
      <3>1. submitted \in Seq(Writers) /\ Len(submitted) = 1 /\ issued = 1 /\ callbacks = 0
            /\ done = 0
        BY <1>6, <2>1 DEF OnItsWay, Dma!Transfer, DmaInv, DmaType
      <3>2. submitted' = <<>> /\ issued' = 0 /\ callbacks' = 1 /\ done' = 0 /\ data_rx_buffer' = w
        BY <1>6, <2>1, <3>1 DEF Dma!Transfer
      <3> QED
        BY <3>2 DEF OnItsWay
    <2>2. CASE Dma!Callback
      <3>1. /\ submitted = <<>> /\ issued = 0 /\ callbacks + done = 1 /\ data_rx_buffer = w
            /\ callbacks \in Nat /\ done \in Nat
        BY <1>6, <2>2 DEF OnItsWay, Dma!Callback, DmaInv, DmaType
      <3>2. submitted' = <<>> /\ issued' = 0 /\ callbacks' + done' = 1 /\ data_rx_buffer' = w
        BY <2>2, <3>1 DEF Dma!Callback
      <3> QED
        BY <3>2 DEF OnItsWay
    <2> QED
      BY <2>1, <2>2
  <1>8. WriterHolds(w)'
    BY <1>1, <1>3, <1>5, <1>7 DEF WriterHolds
  <1> QED
    BY <1>2, <1>3, <1>8

LEMMA DmaInvNext == DmaInv /\ [Dma!Next]_dmaVars => DmaInv'
<1> SUFFICES ASSUME DmaInv, [Dma!Next]_dmaVars PROVE DmaInv'
  OBVIOUS
<1>1. DmaType' /\ DmaOwes'
  BY DmaTypeNext, DmaNextOwes DEF DmaInv
<1>2. DmaAlone'
  BY DmaCopyAlone, DmaStepAlone, DmaCacheAlone, DmaChannelAlone DEF Dma!Next, Cache
<1> QED
  BY <1>1, <1>2 DEF DmaInv

LEMMA DmaAloneSafe == DmaInv => Dma!DataArrives
<1> SUFFICES ASSUME DmaInv, NEW w \in Writers \ met, wpc[w] = "check" PROVE data_rx_buffer = w
  BY DEF Dma!DataArrives
<1>1. w \in Dma!Inside \ met
  BY DEF Dma!Inside
<1> QED
  BY <1>1 DEF DmaInv, DmaAlone, WriterHolds

\* Nothing is under way, nobody sleeps.
Still == Quiet /\ done = 0 /\ sleepers = <<>>

\* One transfer, its callback or its completion
Coming ==
  \/ Len(submitted) = 1 /\ issued = 1 /\ callbacks = 0 /\ done = 0
  \/ submitted = <<>> /\ issued = 0 /\ callbacks + done = 1

WaitsFor(w) ==
  /\ wpc[w] = "issue" => /\ Len(submitted) = 1 /\ issued = 0 /\ callbacks = 0 /\ done = 0
                         /\ sleepers = <<>>
  /\ wpc[w] \in {"wait", "asleep"} => Coming
  /\ wpc[w] = "wait" => sleepers = <<>>
  /\ wpc[w] = "asleep" /\ done = 0 => sleepers = <<w>> /\ w \notin woken
  /\ wpc[w] = "asleep" /\ done # 0 => sleepers = <<>> /\ w \in woken

\* As long as no init_completion() fell between another's and its return, one writer at
\* a time owes and is owed a completion.
DmaWaits ==
  \/ wiped
  \/ /\ \A v, w \in Writers : wpc[v] \in Window /\ wpc[w] \in Window => v = w
     /\ (\A w \in Writers : wpc[w] \notin Owed) => Still
     /\ \A w \in Writers : WaitsFor(w)

LEMMA DmaInitWaits == Dma!Init => DmaWaits
  BY DEF Dma!Init, DmaWaits, WaitsFor, Window, Owed, Still, Quiet

\* A step that moves nobody into the window or out of it
LEMMA DmaOutside ==
  ASSUME DmaType, DmaWaits, ~wiped, NEW w \in Writers,
         wpc[w] \notin Window, wpc' \in [Writers -> WriterPcs], wpc'[w] \notin Window,
         \A v \in Writers \ {w} : wpc'[v] = wpc[v],
         UNCHANGED <<submitted, issued, callbacks, done, sleepers, woken>>
  PROVE  DmaWaits'
<1>1. \A v \in Writers : wpc'[v] = wpc[v] \/ (wpc[v] \notin Window /\ wpc'[v] \notin Window)
  OBVIOUS
<1>2. \A v \in Writers : WaitsFor(v)'
  BY <1>1 DEF DmaWaits, WaitsFor, Window, Coming
<1>3. (\A v \in Writers : wpc'[v] \notin Owed) => Still'
  BY <1>1 DEF DmaWaits, Owed, Window, Still, Quiet
<1>4. \A u, v \in Writers : wpc'[u] \in Window /\ wpc'[v] \in Window => u = v
  BY <1>1 DEF DmaWaits
<1> QED
  BY <1>2, <1>3, <1>4 DEF DmaWaits

\* A step of the only writer in the window
LEMMA DmaInside ==
  ASSUME NEW w \in Writers,
         \A v \in Writers \ {w} : wpc'[v] \notin Window,
         wpc'[w] \notin Owed => Still', WaitsFor(w)'
  PROVE  DmaWaits'
<1>1. \A v \in Writers : WaitsFor(v)'
  BY DEF WaitsFor, Window
<1>2. (\A v \in Writers : wpc'[v] \notin Owed) => Still'
  OBVIOUS
<1>3. \A u, v \in Writers : wpc'[u] \in Window /\ wpc'[v] \in Window => u = v
  OBVIOUS
<1> QED
  BY <1>1, <1>2, <1>3 DEF DmaWaits

LEMMA DmaStepWaits ==
  ASSUME DmaType, DmaWaits, NEW w \in Writers, Dma!Copy(w) \/ Dma!Step(w)
  PROVE  DmaWaits'
<1> USE DEF Dma!Goto, Dma!bufVars, Dma!txVars, Dma!rxVars, Dma!channelVars, Dma!waitVars,
   Dma!history
<1>1. wpc \in [Writers -> WriterPcs] /\ wpc' \in [Writers -> WriterPcs]
  BY DmaStepType DEF DmaType
<1>2. CASE wiped
  <2>1. wiped'
    BY <1>2 DEF Dma!Copy, Dma!Step, Dma!Map, Dma!InitCompletion, Dma!Submit, Dma!Issue, Dma!Wait,
       Dma!Check
  <2> QED
    BY <2>1 DEF DmaWaits
<1> SUFFICES ASSUME ~wiped, ~wiped' PROVE DmaWaits'
  BY <1>2 DEF DmaWaits
<1>3. \A v \in Writers \ {w} : wpc'[v] = wpc[v]
  BY <1>1 DEF Dma!Copy, Dma!Step, Dma!Map, Dma!InitCompletion, Dma!Submit, Dma!Issue, Dma!Wait,
     Dma!Check
<1>4. /\ wpc[w] \in Window => \A v \in Writers \ {w} : wpc[v] \notin Window
      /\ (\A v \in Writers : wpc[v] \notin Owed) => Still
      /\ WaitsFor(w)
  BY DEF DmaWaits
<1>5. CASE Dma!Copy(w)
  BY <1>1, <1>3, <1>5, DmaOutside DEF Dma!Copy, Window
<1>6. CASE Dma!Map(w)
  BY <1>1, <1>3, <1>6, DmaOutside DEF Dma!Map, Window
<1>7. CASE Dma!Check(w)
  BY <1>1, <1>3, <1>7, DmaOutside DEF Dma!Check, Window
<1>8. CASE Dma!InitCompletion(w)
  <2>1. \A v \in Writers \ {w} : wpc[v] \notin Window
    BY <1>8 DEF Dma!InitCompletion, Dma!Others, Window
  <2>2. Still
    BY <1>4, <1>8, <2>1 DEF Dma!InitCompletion, Window, Owed
  <2>3. Still' /\ wpc'[w] = "submit"
    BY <1>1, <1>8, <2>2 DEF Dma!InitCompletion, Still, Quiet
  <2>4. WaitsFor(w)'
    BY <2>3 DEF WaitsFor
  <2> QED
    BY <1>3, <2>1, <2>3, <2>4, DmaInside
<1>9. CASE Dma!Submit(w)
  <2>1. wpc[w] = "submit" /\ \A v \in Writers \ {w} : wpc[v] \notin Window
    BY <1>4, <1>9 DEF Dma!Submit, Window
  <2>2. Still
    BY <1>4, <2>1 DEF Window, Owed
  <2>3. UNCHANGED <<issued, callbacks, done, sleepers, woken>>
    BY <1>9 DEF Dma!Submit
  <2>4. CASE submitted' = Append(submitted, w) /\ wpc'[w] = "issue"
    <3>1. Len(submitted') = 1
      BY <2>2, <2>4 DEF Still, Quiet
    <3>2. WaitsFor(w)'
      BY <2>2, <2>3, <2>4, <3>1 DEF WaitsFor, Still, Quiet
    <3> QED
      BY <1>3, <2>1, <2>4, <3>2, DmaInside DEF Owed
  <2>5. CASE submitted' = submitted /\ wpc'[w] = "idle"
    <3>1. Still'
      BY <2>2, <2>3, <2>5 DEF Still, Quiet
    <3>2. WaitsFor(w)'
      BY <2>5 DEF WaitsFor
    <3> QED
      BY <1>3, <2>1, <3>1, <3>2, DmaInside
  <2> QED
    BY <1>1, <1>9, <2>4, <2>5 DEF Dma!Submit
<1>10. CASE Dma!Issue(w)
  <2>1. wpc[w] = "issue" /\ wpc'[w] = "wait" /\ \A v \in Writers \ {w} : wpc[v] \notin Window
    BY <1>1, <1>4, <1>10 DEF Dma!Issue, Window
  <2>2. WaitsFor(w)'
    BY <1>4, <1>10, <2>1 DEF Dma!Issue, WaitsFor, Coming
  <2> QED
    BY <1>3, <2>1, <2>2, DmaInside DEF Owed
<1>11. CASE Dma!Wait(w)
  <2>1. wpc[w] \in {"wait", "asleep"} /\ \A v \in Writers \ {w} : wpc[v] \notin Window
    BY <1>4, <1>11 DEF Dma!Wait, Window
  <2>2. Coming /\ done \in Nat /\ callbacks \in Nat
        /\ UNCHANGED <<submitted, issued, callbacks>>
    BY <1>4, <1>11, <2>1 DEF WaitsFor, DmaType, Dma!Wait
  <2>3. CASE done > 0
    <3>1. done' = done - 1 /\ wpc'[w] = "check" /\ sleepers' = sleepers
      BY <1>1, <1>11, <2>3 DEF Dma!Wait
    <3>2. sleepers = <<>>
      BY <1>4, <2>1, <2>2, <2>3 DEF WaitsFor
    <3>3. Still'
      BY <2>2, <2>3, <3>1, <3>2 DEF Coming, Still, Quiet
    <3>4. WaitsFor(w)'
      BY <3>1 DEF WaitsFor
    <3> QED
      BY <1>3, <2>1, <3>3, <3>4, DmaInside
  <2>4. CASE ~(done > 0)
    <3>1. done = 0 /\ done' = 0 /\ wpc'[w] = "asleep" /\ sleepers' = Append(sleepers, w)
          /\ w \notin woken'
      BY <1>1, <1>11, <2>2, <2>4 DEF Dma!Wait
    <3>2. wpc[w] = "wait"
      BY <1>4, <1>11, <2>1, <3>1 DEF WaitsFor, Dma!Wait
    <3>3. sleepers' = <<w>>
      BY <1>4, <3>1, <3>2 DEF WaitsFor
    <3>4. WaitsFor(w)'
      BY <2>2, <3>1, <3>3 DEF WaitsFor, Coming
    <3> QED
      BY <1>3, <2>1, <3>1, <3>4, DmaInside DEF Owed
  <2> QED
    BY <2>3, <2>4
<1> QED
  BY <1>5, <1>6, <1>7, <1>8, <1>9, <1>10, <1>11 DEF Dma!Step

\* The channel serves the one writer that is owed something.
LEMMA DmaChannelWaits ==
  DmaType /\ DmaWaits /\ (Dma!Transfer \/ Dma!Callback) => DmaWaits'
<1> SUFFICES ASSUME DmaType, DmaWaits, Dma!Transfer \/ Dma!Callback, ~wiped PROVE DmaWaits'
  BY DEF DmaWaits, Dma!Transfer, Dma!Callback, Dma!history
<1> USE DEF Dma!bufVars, Dma!waitVars
<1>1. wpc' = wpc
  BY DEF Dma!Transfer, Dma!Callback
<1>2. issued > 0 \/ callbacks > 0
  BY DEF Dma!Transfer, Dma!Callback
<1>3. PICK w \in Writers : wpc[w] \in Owed
  BY <1>2 DEF DmaWaits, Still, Quiet
<1>4. /\ WaitsFor(w) /\ \A v \in Writers \ {w} : wpc[v] \notin Window
      /\ callbacks \in Nat /\ done \in Nat /\ issued \in Nat /\ submitted \in Seq(Writers)
  BY <1>3 DEF DmaWaits, DmaType, Window, Owed
<1>5. wpc[w] \in {"wait", "asleep"} /\ Coming
  BY <1>2, <1>3, <1>4 DEF WaitsFor, Owed
<1>6. CASE Dma!Transfer
  <2>1. Len(submitted) = 1 /\ issued = 1 /\ callbacks = 0 /\ done = 0
    BY <1>5, <1>6 DEF Coming, Dma!Transfer
  <2>2. submitted' = <<>> /\ issued' = 0 /\ callbacks' = 1 /\ done' = 0
        /\ UNCHANGED <<sleepers, woken>>
    BY <1>4, <1>6, <2>1 DEF Dma!Transfer
  <2>3. WaitsFor(w)'
    BY <1>1, <1>4, <1>5, <2>1, <2>2 DEF WaitsFor, Coming
  <2> QED
    BY <1>1, <1>3, <1>4, <2>3, DmaInside
<1>7. CASE Dma!Callback
  <2>1. submitted = <<>> /\ issued = 0 /\ callbacks = 1 /\ done = 0
    BY <1>4, <1>5, <1>7 DEF Coming, Dma!Callback
  <2>2. submitted' = <<>> /\ issued' = 0 /\ callbacks' = 0 /\ done' = 1
    BY <1>7, <2>1 DEF Dma!Callback
  <2>3. CASE wpc[w] = "wait"
    <3>1. sleepers' = <<>>
      BY <1>4, <1>7, <2>3 DEF WaitsFor, Dma!Callback
    <3>2. WaitsFor(w)'
      BY <1>1, <2>2, <2>3, <3>1 DEF WaitsFor, Coming
    <3> QED
      BY <1>1, <1>3, <1>4, <3>2, DmaInside
  <2>4. CASE wpc[w] = "asleep"
    <3>1. sleepers = <<w>>
      BY <1>4, <2>1, <2>4 DEF WaitsFor
    <3>2. <<w>> # <<>> /\ Head(<<w>>) = w /\ Tail(<<w>>) = <<>>
      OBVIOUS
    <3>3. sleepers' = <<>> /\ w \in woken'
      BY <1>7, <3>1, <3>2 DEF Dma!Callback
    <3>4. WaitsFor(w)'
      BY <1>1, <2>2, <2>4, <3>3 DEF WaitsFor, Coming
    <3> QED
      BY <1>1, <1>3, <1>4, <3>4, DmaInside
  <2> QED
    BY <1>5, <2>3, <2>4
<1> QED
  BY <1>6, <1>7

LEMMA DmaNextWaits == DmaType /\ DmaWaits /\ [Dma!Next]_dmaVars => DmaWaits'
<1> SUFFICES ASSUME DmaType, DmaWaits, [Dma!Next]_dmaVars PROVE DmaWaits'
  OBVIOUS
<1>1. CASE Steady
  BY <1>1 DEF Steady, DmaWaits, WaitsFor, Coming, Still, Quiet
<1> QED
  BY <1>1, DmaStepWaits, DmaChannelWaits, DmaCacheSteady DEF Dma!Next, Cache

LEMMA DmaWaitsSafe == DmaType /\ DmaWaits => Dma!CompletionComes
<1> SUFFICES ASSUME DmaType, DmaWaits, ~wiped, NEW w \in Writers
             PROVE  /\ wpc[w] = "wait" => issued > 0 \/ callbacks > 0 \/ done > 0
                    /\ wpc[w] = "asleep" => issued > 0 \/ callbacks > 0
                                              \/ (done > 0 /\ w \in woken)
  BY DEF Dma!CompletionComes
<1>1. WaitsFor(w) /\ callbacks \in Nat /\ done \in Nat
  BY DEF DmaWaits, DmaType
<1> QED
  BY <1>1 DEF WaitsFor, Coming

\* Two mappings for every writer that has made them and not returned.
Mappers == {w \in Writers : wpc[w] \in Mapping}
DmaMapped ==
  IsFiniteSet(Mappers) /\ mapped = 2 * Cardinality(Mappers) + 2 * failures

LEMMA DmaInitMapped == Dma!Init => DmaMapped
  <1> SUFFICES ASSUME Dma!Init PROVE DmaMapped
    OBVIOUS
  <1>1. Mappers = {}
    BY DEF Dma!Init, Mappers, Mapping
  <1> QED
    BY <1>1, FS_EmptySet DEF Dma!Init, DmaMapped

LEMMA DmaStepMapped ==
  ASSUME DmaType, DmaMapped, NEW w \in Writers, Dma!Copy(w) \/ Dma!Step(w)
  PROVE  DmaMapped'
  <1> USE DEF Dma!Goto, Mapping, Dma!bufVars, Dma!channelVars, Dma!waitVars, Dma!history
  <1>1. wpc \in [Writers -> WriterPcs] /\ mapped \in Int /\ failures \in Nat
    BY DEF DmaType
  <1>2. /\ IsFiniteSet(Mappers) /\ Cardinality(Mappers) \in Nat
        /\ mapped = 2 * Cardinality(Mappers) + 2 * failures
    BY FS_CardinalityType DEF DmaMapped
  <1>3. CASE wpc[w] = "map" /\ wpc' = [wpc EXCEPT ![w] = "init"]
             /\ mapped' = mapped + 2 /\ failures' = failures
    <2>1. w \notin Mappers /\ Mappers' = Mappers \union {w}
      BY <1>1, <1>3 DEF Mappers
    <2>2. IsFiniteSet(Mappers') /\ Cardinality(Mappers') = Cardinality(Mappers) + 1
      BY <1>2, <2>1, FS_AddElement
    <2> QED
      BY <1>1, <1>2, <1>3, <2>2 DEF DmaMapped
  <1>4. CASE wpc[w] \in Mapping /\ wpc' = [wpc EXCEPT ![w] = "idle"]
             /\ mapped' - 2 * failures' = mapped - 2 * failures - 2
             /\ mapped' \in Int /\ failures' \in Nat
    <2>1. w \in Mappers /\ Mappers' = Mappers \ {w}
      BY <1>1, <1>4 DEF Mappers
    <2>2. IsFiniteSet(Mappers') /\ Cardinality(Mappers') = Cardinality(Mappers) - 1
      BY <1>2, <2>1, FS_RemoveElement
    <2> QED
      BY <1>1, <1>2, <1>4, <2>2 DEF DmaMapped
  <1>5. CASE /\ \A v \in Writers : wpc'[v] \in Mapping <=> wpc[v] \in Mapping
             /\ \/ UNCHANGED <<mapped, failures>>
                \/ mapped' = mapped + 2 /\ failures' = failures + 1
    <2>1. Mappers' = Mappers
      BY <1>5 DEF Mappers
    <2> QED
      BY <1>1, <1>2, <1>5, <2>1 DEF DmaMapped
  <1>6. CASE Dma!Copy(w)
    BY <1>1, <1>5, <1>6 DEF Dma!Copy
  <1>7. CASE Dma!Map(w)
    BY <1>1, <1>3, <1>5, <1>7 DEF Dma!Map
  <1>8. CASE Dma!InitCompletion(w)
    BY <1>1, <1>5, <1>8 DEF Dma!InitCompletion
  <1>9. CASE Dma!Submit(w)
    <2>1. CASE wpc'[w] = "issue" /\ UNCHANGED failures
      BY <1>1, <1>5, <1>9, <2>1 DEF Dma!Submit
    <2>2. CASE failures' = failures + 1 /\ wpc' = [wpc EXCEPT ![w] = "idle"]
      BY <1>1, <1>4, <1>9, <2>2 DEF Dma!Submit
    <2> QED
      BY <1>1, <1>9, <2>1, <2>2 DEF Dma!Submit
  <1>10. CASE Dma!Issue(w)
    BY <1>1, <1>5, <1>10 DEF Dma!Issue
  <1>11. CASE Dma!Wait(w)
    BY <1>1, <1>5, <1>11 DEF Dma!Wait
  <1>12. CASE Dma!Check(w)
    BY <1>1, <1>4, <1>12 DEF Dma!Check
  <1> QED
    BY <1>6, <1>7, <1>8, <1>9, <1>10, <1>11, <1>12 DEF Dma!Step

LEMMA DmaNextMapped == DmaType /\ DmaMapped /\ [Dma!Next]_dmaVars => DmaMapped'
<1> SUFFICES ASSUME DmaType, DmaMapped, [Dma!Next]_dmaVars PROVE DmaMapped'
  OBVIOUS
<1>1. CASE Steady \/ Dma!Transfer \/ Dma!Callback
  <2>1. UNCHANGED <<wpc, mapped, failures>>
    BY <1>1 DEF Steady, Dma!Transfer, Dma!Callback, Dma!history
  <2> QED
    BY <2>1 DEF DmaMapped, Mappers
<1> QED
  BY <1>1, DmaStepMapped, DmaCacheSteady DEF Dma!Next, Cache

LEMMA DmaMappedSafe == DmaType /\ DmaMapped => Dma!MappingsReleased
<1> SUFFICES ASSUME DmaType, DmaMapped, Dma!Inside = {} PROVE mapped = 2 * failures
  BY DEF Dma!MappingsReleased
<1>1. Mappers = {}
  BY DEF Mappers, Mapping, Dma!Inside
<1> QED
  BY <1>1, FS_EmptySet DEF DmaMapped, DmaType

-----------------------------------------------------------------------------
(* All of them *)

DriversInv == Mod2Inv /\ IioInv /\ QueuesInv /\ DmaInv /\ DmaMapped /\ DmaWaits

LEMMA DriversInitInv == DriversInit => DriversInv
  BY DriversAssumption, Mod2Init, IioInit, QueuesInit, DmaInit, DmaInitMapped, DmaInitWaits
     DEF DriversInit, DriversInv, DriversAssumption

\* A step of one module leaves the others alone.
LEMMA DriversStep ==
  [DriversNext]_driversVars =>
    /\ [Mod2!Next]_mod2Vars
    /\ [Iio!Next]_iioVars
    /\ [Queues!Next]_queuesVars
    /\ [Dma!Next]_dmaVars
  BY DEF DriversNext, driversVars

LEMMA DriversNextInv == DriversInv /\ [DriversNext]_driversVars => DriversInv'
<1> SUFFICES ASSUME DriversInv, [DriversNext]_driversVars PROVE DriversInv'
  OBVIOUS
<1> USE DriversAssumption, DriversStep DEF DriversInv, DriversAssumption
<1>1. Mod2Inv'
  BY Mod2Next
<1>2. IioInv'
  BY IioNext
<1>3. QueuesInv'
  BY QueuesNext
<1>4. DmaInv'
  BY DmaInvNext
<1>5. DmaMapped'
  BY DmaNextMapped DEF DmaInv
<1>6. DmaWaits'
  BY DmaNextWaits DEF DmaInv
<1> QED
  BY <1>1, <1>2, <1>3, <1>4, <1>5, <1>6

\* Until the head of the mod-2 ring of rpi_3b_v1_2 first wraps, the ring is an exact
\* queue, whatever its capacity and whenever it is cleared.
THEOREM FirstLapIsExact == DriversSpec => []FirstLapExact
<1>1. DriversInv => FirstLapExact
  BY DriversAssumption, Mod2FirstLap DEF DriversInv, DriversAssumption, FirstLapExact
<1> QED
  BY <1>1, DriversInitInv, DriversNextInv, PTL DEF DriversSpec

\* After that, what its front() shows from inside the block comes in the order it was
\* pushed, and what is skipped is whole laps, however often the ring runs over.
THEOREM WholeLapsAreLost == DriversSpec => LossIsWholeLaps
<1>1. DriversInv /\ [DriversNext]_driversVars =>
        [Mod2!Take /\ taken' # BeyondBlock =>
           taken' >= oldest /\ (taken' - oldest) % Mod2Capacity = 0]_(Mod2!vars)
  BY DriversAssumption, Mod2TakeLaps DEF DriversInv, DriversAssumption
<1> QED
  BY <1>1, DriversInitInv, DriversNextInv, PTL DEF DriversSpec, LossIsWholeLaps,
     Mod2!LossIsWholeLaps

\* The iio module's counter counts every read that no other one overlaps, and none
\* twice, for any width of the counter and number of readers.
THEOREM ReadsAlwaysCount == DriversSpec => []ReadsCount
<1>1. DriversInv => ReadsCount
  BY IioSafe DEF DriversInv, ReadsCount
<1> QED
  BY <1>1, DriversInitInv, DriversNextInv, PTL DEF DriversSpec

\* For any number of cpus and workers, work items, init and exit misuse an item only
\* when two list operations meet ...
THEOREM OnlyMeetingsMisuse == DriversSpec => []MisuseNeedsOverlap
<1>1. DriversInv => MisuseNeedsOverlap
  BY QueuesSafe DEF DriversInv, MisuseNeedsOverlap
<1> QED
  BY <1>1, DriversInitInv, DriversNextInv, PTL DEF DriversSpec

\* ... and but for that exit leaves no item behind.
THEOREM ExitLeavesNothing == DriversSpec => []NothingLeftBehind
<1>1. DriversInv => NothingLeftBehind
  BY QueuesSafe DEF DriversInv, NothingLeftBehind
<1> QED
  BY <1>1, DriversInitInv, DriversNextInv, PTL DEF DriversSpec

\* When a writer that nobody else was with in write() is told of its completion, its own
\* data is in memory, however many writers there are and whatever the cache does.
THEOREM LoneDataArrives == DriversSpec => []DataArrives
<1>1. DriversInv => DataArrives
  BY DmaAloneSafe DEF DriversInv, DataArrives
<1> QED
  BY <1>1, DriversInitInv, DriversNextInv, PTL DEF DriversSpec

\* Drivers at work leave the modules of MCLives as they are.
THEOREM DriversImplementLives == DriversSpec => LivesSpec
<1>1. DriversInit => LivesInit
  BY DEF DriversInit
<1>2. [DriversNext]_driversVars => [LivesNext]_livesVars
  BY DEF DriversNext, driversVars
<1> QED
  BY <1>1, <1>2, PTL DEF DriversSpec, LivesSpec

\* Whenever the callback comes, a writer waits only while its completion is on its way
\* or there, unless another writer's init_completion() fell between; insmod sleeps only
\* while the work item has yet to wake it.
THEOREM WaitersAlwaysAnswered == DriversSpec => []WaitersAnswered
<1>1. DriversInv => Dma!CompletionComes
  BY DmaWaitsSafe DEF DriversInv, DmaInv
<1>2. Dma!CompletionComes /\ Wait!WakeComes => WaitersAnswered
  BY DEF WaitersAnswered
<1> QED
  BY <1>1, <1>2, DriversInitInv, DriversNextInv, DriversImplementLives, WakeAlwaysComes, PTL
     DEF DriversSpec

\* With no writer inside, what is still mapped is what writes left that could not
\* prepare or submit their transaction.
THEOREM OnlyFailedWritesKeep == DriversSpec => []MappingsReleased
<1>1. DriversInv => MappingsReleased
  BY DmaMappedSafe DEF DriversInv, DmaInv, MappingsReleased
<1> QED
  BY <1>1, DriversInitInv, DriversNextInv, PTL DEF DriversSpec
=============================================================================
