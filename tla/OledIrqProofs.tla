--------------------------- MODULE OledIrqProofs ---------------------------
(***************************************************************************)
(* Proofs about OledIrq, for every number of lines, handlers, threads and  *)
(* events and every capacity of the rings.                                 *)
(***************************************************************************)
EXTENDS OledIrq, CircBufPow2Lemmas

LEMMA Caps == CaptureCap \in Nat \ {0} /\ BulkCap \in Nat \ {0}
  BY ConstAssumption DEF InitAccepts

-----------------------------------------------------------------------------
(* Type correctness *)

LEMMA InitType == Init => TypeOK
  <1> SUFFICES ASSUME Init PROVE TypeOK
    OBVIOUS
  <1>1. PICK line \in Lines :
          LET blank == [button_num |-> line, event |-> 0] IN
            /\ isrEvent = blank /\ workEvent = blank
            /\ capture = InitBuf(CaptureCap, [i \in Index(CaptureCap) |-> blank])
            /\ bulk = InitBuf(BulkCap, [i \in Index(BulkCap) |-> blank])
    BY DEF Init
  <1> DEFINE blank == [button_num |-> line, event |-> 0]
  <1>2. blank \in Event
    BY DEF Event
  <1>3. [i \in Index(CaptureCap) |-> blank] \in [Index(CaptureCap) -> Event]
    BY <1>2
  <1>4. [i \in Index(BulkCap) |-> blank] \in [Index(BulkCap) -> Event]
    BY <1>2
  <1>5. capture \in Buf(CaptureCap, Event)
    BY <1>1, <1>3, Caps, InitFacts
  <1>6. bulk \in Buf(BulkCap, Event)
    BY <1>1, <1>4, Caps, InitFacts
  <1>7. out \in Seq(Event)
    BY DEF Init
  <1> QED
    BY <1>1, <1>2, <1>5, <1>6, <1>7 DEF Init, TypeOK, UserPcs, EPERM

LEMMA NextType == TypeOK /\ [Next]_vars => TypeOK'
  <1> SUFFICES ASSUME TypeOK, [Next]_vars PROVE TypeOK'
    OBVIOUS
  <1> USE DEF TypeOK
  <1>1. ASSUME NEW line \in Lines, IsrEnter(line) PROVE TypeOK'
    <2>1. HandlerOf[line] \in Handlers
      BY ConstAssumption
    <2>2. counter[HandlerOf[line]] \in Nat
      BY <2>1
    <2>3. isrEvent' \in Event /\ counter' \in [Handlers -> Nat]
      BY <1>1, <2>1, <2>2 DEF IsrEnter, Event
    <2> QED
      BY <1>1, <2>3 DEF IsrEnter, workVars, waitVars, userVars
  <1>2. CASE IsrPush
    <2>1. Fill(capture, isrEvent) \in Buf(CaptureCap, Event)
      BY Caps, FillFacts
    <2> QED
      BY <1>2, <2>1 DEF IsrPush, workVars, waitVars, userVars
  <1>3. CASE IsrPublish
    <2>1. Publish(capture) \in Buf(CaptureCap, Event)
      BY Caps, PublishType
    <2> QED
      BY <1>3, <2>1 DEF IsrPublish, workVars, waitVars, userVars
  <1>4. CASE IsrSchedule
    BY <1>4 DEF IsrSchedule, workVars, waitVars, userVars
  <1>5. CASE WorkStart
    BY <1>5 DEF WorkStart, isrVars, waitVars, userVars
  <1>6. CASE WorkFront
    BY <1>6 DEF WorkFront, isrVars, waitVars, userVars
  <1>7. CASE WorkCopy
    <2>1. FrontSlot(capture) \in Event
      BY Caps, FrontFacts
    <2> QED
      BY <1>7, <2>1 DEF WorkCopy, isrVars, waitVars, userVars
  <1>8. CASE WorkPop
    <2>1. pop(capture) \in Buf(CaptureCap, Event)
      BY Caps, PopType
    <2> QED
      BY <1>8, <2>1 DEF WorkPop, isrVars, waitVars, userVars
  <1>9. CASE WorkLock
    BY <1>9 DEF WorkLock, isrVars, waitVars, userVars
  <1>10. CASE WorkPush
    <2>1. push(bulk, workEvent) \in Buf(BulkCap, Event)
      BY Caps, PushFacts
    <2> QED
      BY <1>10, <2>1 DEF WorkPush, isrVars, waitVars, userVars
  <1>11. CASE WorkWake
    BY <1>11 DEF WorkWake, isrVars, userVars
  <1>12. CASE WorkUnlock
    BY <1>12 DEF WorkUnlock, isrVars, waitVars, userVars
  <1>13. ASSUME NEW u \in Users, User(u) PROVE TypeOK'
    <2> USE DEF Goto, kernelVars, readVars, isrVars, workVars, waitVars, UserPcs, EPERM
    <2>1. CASE PollTest(u)
      BY <2>1 DEF PollTest
    <2>2. CASE PollWake(u)
      BY <2>2 DEF PollWake
    <2>3. CASE ReadCopy(u)
      <3>1. pop(bulk) \in Buf(BulkCap, Event) /\ FrontSlot(bulk) \in Event
        BY Caps, PopType, FrontFacts
      <3>2. want[u] - 1 \in Nat
        BY <2>3 DEF ReadCopy, LoopAgain
      <3>4. ret[u] + 1 \in Nat
        <4>1. ret[u] \in Nat \union {-1}
          OBVIOUS
        <4> QED
          BY <4>1
      <3>3. Append(out, FrontSlot(bulk)) \in Seq(Event)
        BY <3>1
      <3> QED
        BY <2>3, <3>1, <3>2, <3>3, <3>4 DEF ReadCopy
    <2>4. CASE ReadFail(u)
      <3>1. want[u] - 1 \in Nat
        BY <2>4 DEF ReadFail, LoopAgain
      <3> QED
        BY <2>4, <3>1 DEF ReadFail
    <2>5. CASE ReadLoopEnd(u)
      BY <2>5 DEF ReadLoopEnd
    <2>6. CASE ReadUnlock(u)
      BY <2>6 DEF ReadUnlock
    <2>7. CASE PollLock(u)
      BY <2>7 DEF PollLock
    <2>8. CASE ReadLock(u)
      BY <2>8, Caps, SizeFacts DEF ReadLock
    <2>9. CASE PollBegin(u)
      BY <2>9 DEF PollBegin
    <2>10. CASE ReadBegin(u)
      BY <2>10, ConstAssumption DEF ReadBegin
    <2>11. CASE PollAbandon(u)
      BY <2>11 DEF PollAbandon
    <2>12. CASE ReadBadCount(u)
      BY <2>12 DEF ReadBadCount
    <2> QED
      BY <1>13, <2>1, <2>2, <2>3, <2>4, <2>5, <2>6, <2>7, <2>8, <2>9, <2>10,
         <2>11, <2>12 DEF User, UserInside, UserLock, UserBegin
  <1>14. CASE ReleaseSet
    BY <1>14 DEF ReleaseSet, isrVars, workVars, userVars
  <1>15. CASE ReleaseWake
    BY <1>15 DEF ReleaseWake, isrVars, workVars, userVars
  <1>16. CASE UNCHANGED vars
    BY <1>16 DEF vars, isrVars, workVars, waitVars, userVars
  <1> QED
    BY <1>1, <1>2, <1>3, <1>4, <1>5, <1>6, <1>7, <1>8, <1>9, <1>10, <1>11, <1>12,
       <1>13, <1>14, <1>15, <1>16 DEF Next, Isr, Work

\* Every variable keeps its type: in particular the head and the tail of both
\* rings stay within their capacity.
THEOREM TypeCorrect == Spec => []TypeOK
  BY InitType, NextType, PTL DEF Spec

-----------------------------------------------------------------------------
(* What each kind of step leaves alone. *)

LEMMA IsrFrame ==
  Isr => UNCHANGED <<bulk, workPc, workEvent, mutex, poll_enabled, waiters,
                     triggered, userPc, want, ret, releasePc, out>>
  BY DEF Isr, IsrEnter, IsrPush, IsrPublish, IsrSchedule, workVars, waitVars, userVars

LEMMA WorkFrame ==
  Work => UNCHANGED <<counter, isrPc, isrEvent, poll_enabled, waiters, userPc,
                      want, ret, releasePc, out>>
  BY DEF Work, WorkStart, WorkFront, WorkCopy, WorkPop, WorkLock, WorkPush,
         WorkWake, WorkUnlock, isrVars, waitVars, userVars

LEMMA UserFrame ==
  ASSUME NEW u \in Users, TypeOK, User(u)
  PROVE  /\ UNCHANGED <<counter, isrPc, isrEvent, workPc, workEvent, capture,
                        workPending, releasePc, poll_enabled>>
         /\ \A v \in Users \ {u} : userPc'[v] = userPc[v]
  <1> USE DEF kernelVars, isrVars, workVars, waitVars, Goto, TypeOK
  <1>1. CASE UserInside(u)
    BY <1>1 DEF UserInside, PollTest, PollWake, ReadCopy, ReadFail, ReadLoopEnd,
                ReadUnlock
  <1>2. CASE UserLock(u)
    BY <1>2 DEF UserLock, PollLock, ReadLock
  <1>3. CASE UserBegin(u)
    BY <1>3 DEF UserBegin, PollBegin, ReadBegin
  <1>4. CASE PollAbandon(u)
    BY <1>4 DEF PollAbandon
  <1>5. CASE ReadBadCount(u)
    BY <1>5 DEF ReadBadCount
  <1> QED
    BY <1>1, <1>2, <1>3, <1>4, <1>5 DEF User

LEMMA ReleaseFrame ==
  ReleaseSet \/ ReleaseWake =>
    UNCHANGED <<counter, isrPc, isrEvent, workPc, workEvent, capture, workPending,
                bulk, mutex, waiters, userPc, want, ret, out>>
  BY DEF ReleaseSet, ReleaseWake, isrVars, workVars, userVars

LEMMA StutterFrame ==
  UNCHANGED vars =>
    UNCHANGED <<counter, isrPc, isrEvent, workPc, workEvent, capture, workPending,
                bulk, mutex, poll_enabled, waiters, triggered, userPc, want, ret,
                releasePc, out>>
  BY DEF vars, isrVars, workVars, waitVars, userVars

-----------------------------------------------------------------------------
(* Mutual exclusion on the bulk ring *)

LEMMA NextMutex == TypeOK /\ MutexExclusive /\ [Next]_vars => MutexExclusive'
  <1> SUFFICES ASSUME TypeOK, MutexExclusive, [Next]_vars PROVE MutexExclusive'
    OBVIOUS
  <1> USE DEF MutexExclusive
  <1>1. CASE Isr
    BY <1>1, IsrFrame
  <1>2. CASE Work
    <2>1. userPc' = userPc
      BY <1>2, WorkFrame
    <2>2. CASE WorkStart
      BY <2>1, <2>2 DEF WorkStart
    <2>3. CASE WorkFront
      BY <2>1, <2>3 DEF WorkFront
    <2>4. CASE WorkCopy
      BY <2>1, <2>4 DEF WorkCopy
    <2>5. CASE WorkPop
      BY <2>1, <2>5 DEF WorkPop
    <2>6. CASE WorkLock
      BY <2>1, <2>6, ConstAssumption DEF WorkLock
    <2>7. CASE WorkPush
      BY <2>1, <2>7 DEF WorkPush
    <2>8. CASE WorkWake
      BY <2>1, <2>8 DEF WorkWake
    <2>9. CASE WorkUnlock
      BY <2>1, <2>9, ConstAssumption DEF WorkUnlock
    <2> QED
      BY <1>2, <2>2, <2>3, <2>4, <2>5, <2>6, <2>7, <2>8, <2>9 DEF Work
  <1>3. ASSUME NEW u \in Users, User(u) PROVE MutexExclusive'
    <2>1. workPc' = workPc /\ \A v \in Users \ {u} : userPc'[v] = userPc[v]
      BY <1>3, UserFrame
    <2>2. userPc \in [Users -> UserPcs] /\ u # Worker /\ u # Nobody
          /\ Worker # Nobody /\ \A v \in Users : v # Nobody /\ v # Worker
      BY ConstAssumption DEF TypeOK
    <2>3. CASE PollLock(u) \/ ReadLock(u)
      <3>1. mutex = Nobody /\ mutex' = u /\ userPc'[u] \in Critical
        BY <2>2, <2>3 DEF PollLock, ReadLock, Goto, Critical
      <3> QED
        BY <2>1, <2>2, <3>1
    <2>4. CASE PollTest(u) \/ ReadUnlock(u)
      <3>1. userPc[u] \in Critical /\ mutex' = Nobody /\ userPc'[u] \notin Critical
        BY <2>2, <2>4 DEF PollTest, ReadUnlock, Goto, Critical
      <3> QED
        BY <2>1, <2>2, <3>1
    <2>5. CASE ReadCopy(u) \/ ReadFail(u) \/ ReadLoopEnd(u)
      <3>1. userPc[u] \in Critical /\ mutex' = mutex /\ userPc'[u] \in Critical
        BY <2>2, <2>5 DEF ReadCopy, ReadFail, ReadLoopEnd, Goto, Critical
      <3> QED
        BY <2>1, <2>2, <3>1
    <2>6. CASE PollWake(u) \/ UserBegin(u) \/ PollAbandon(u) \/ ReadBadCount(u)
      <3>1. userPc[u] \notin Critical /\ mutex' = mutex /\ userPc'[u] \notin Critical
        BY <2>2, <2>6 DEF PollWake, UserBegin, PollBegin, ReadBegin, PollAbandon,
                          ReadBadCount, Goto, Critical
      <3> QED
        BY <2>1, <2>2, <3>1
    <2> QED
      BY <1>3, <2>3, <2>4, <2>5, <2>6 DEF User, UserInside, UserLock
  <1>4. CASE ReleaseSet \/ ReleaseWake
    BY <1>4, ReleaseFrame
  <1>5. CASE UNCHANGED vars
    BY <1>5, StutterFrame
  <1> QED
    BY <1>1, <1>2, <1>3, <1>4, <1>5 DEF Next

\* do_work(), read() and poll() exclude each other on the bulk ring.
THEOREM MutualExclusion == Spec => []MutexExclusive
  <1>1. Init => MutexExclusive
    BY ConstAssumption DEF Init, MutexExclusive, Critical
  <1> QED
    BY <1>1, NextMutex, TypeCorrect, PTL DEF Spec

-----------------------------------------------------------------------------
(* The capture ring between one producer and one consumer without a lock *)

CaptureInv == PublishReady /\ CopiedIsFront

LEMMA NextCapture == TypeOK /\ CaptureInv /\ [Next]_vars => CaptureInv'
  <1> SUFFICES ASSUME TypeOK, CaptureInv, [Next]_vars PROVE CaptureInv'
    OBVIOUS
  <1> USE DEF CaptureInv, PublishReady, CopiedIsFront
  <1>0. /\ capture \in Buf(CaptureCap, Event) /\ isrEvent \in Event
        /\ CaptureCap \in Nat \ {0}
    BY Caps DEF TypeOK
  <1>1. CASE Isr
    <2>0. workPc' = workPc /\ workEvent' = workEvent
      BY <1>1, IsrFrame
    <2>1. ASSUME NEW line \in Lines, IsrEnter(line) PROVE CaptureInv'
      BY <2>0, <2>1 DEF IsrEnter
    <2>2. CASE IsrPush
      <3>1. CASE PushOk(capture) /\ capture' = Fill(capture, isrEvent)
                 /\ isrPc' = "publish"
        <4>1. /\ capture' \in Buf(CaptureCap, Event)
              /\ size(capture') = size(capture)
              /\ \A k \in 0..(size(capture)-1) : Elem(capture', k) = Elem(capture, k)
              /\ capture'.slots[capture'.head] = isrEvent
              /\ FrontIsNull(capture') = FrontIsNull(capture)
          BY <1>0, <3>1, FillFacts
        <4>2. PushOk(capture')
          <5>1. size(capture) < CaptureCap - 1
            BY <1>0, <3>1, SizeFacts
          <5> QED
            BY <1>0, <4>1, <5>1, SizeFacts
        <4>3. ~FrontIsNull(capture) => FrontSlot(capture') = FrontSlot(capture)
          <5>1. ~FrontIsNull(capture) => 0 \in 0..(size(capture)-1)
            BY <1>0, SizeFacts
          <5>2. FrontSlot(capture') = Elem(capture', 0)
            BY <1>0, <4>1, FrontFacts
          <5>3. FrontSlot(capture) = Elem(capture, 0)
            BY <1>0, FrontFacts
          <5> QED
            BY <4>1, <5>1, <5>2, <5>3
        <4>4. isrEvent' = isrEvent
          BY <2>2 DEF IsrPush
        <4> QED
          BY <2>0, <4>1, <4>2, <4>3, <4>4
      <3>2. CASE capture' = capture /\ isrPc' = "schedule"
        BY <2>0, <3>2
      <3> QED
        BY <2>2, <3>1, <3>2 DEF IsrPush
    <2>3. CASE IsrPublish
      <3>1. /\ capture' = Publish(capture) /\ PushOk(capture)
            /\ isrPc' = "schedule"
        BY <2>3 DEF IsrPublish
      <3>2. /\ capture' \in Buf(CaptureCap, Event)
            /\ size(capture') = size(capture) + 1
            /\ \A k \in 0..(size(capture)-1) : Elem(capture', k) = Elem(capture, k)
        BY <1>0, <3>1, PublishFacts
      <3>3. ~FrontIsNull(capture')
        <4>1. size(capture) \in Nat
          BY <1>0, SizeFacts
        <4>2. size(capture') # 0
          BY <3>2, <4>1
        <4> QED
          BY <1>0, <3>2, <4>2, SizeFacts
      <3>4. ~FrontIsNull(capture) => FrontSlot(capture') = FrontSlot(capture)
        <4>1. ~FrontIsNull(capture) => 0 \in 0..(size(capture)-1)
          BY <1>0, SizeFacts
        <4>2. FrontSlot(capture') = Elem(capture', 0)
          BY <1>0, <3>2, FrontFacts
        <4>3. FrontSlot(capture) = Elem(capture, 0)
          BY <1>0, FrontFacts
        <4> QED
          BY <3>2, <4>1, <4>2, <4>3
      <3> QED
        BY <2>0, <3>1, <3>3, <3>4
    <2>4. CASE IsrSchedule
      BY <2>0, <2>4 DEF IsrSchedule
    <2> QED
      BY <1>1, <2>1, <2>2, <2>3, <2>4 DEF Isr
  <1>2. CASE Work
    <2>0. isrPc' = isrPc /\ isrEvent' = isrEvent
      BY <1>2, WorkFrame
    <2>1. CASE WorkPop
      <3>1. capture' = pop(capture) /\ ~FrontIsNull(capture) /\ workPc' = "lock"
        BY <2>1 DEF WorkPop
      <3>2. /\ capture' \in Buf(CaptureCap, Event)
            /\ size(capture') = size(capture) - 1
            /\ capture'.head = capture.head /\ capture'.slots = capture.slots
        BY <1>0, <3>1, PopFacts
      <3>3. PushOk(capture) => PushOk(capture')
        <4>1. size(capture) \in Nat /\ size(capture') \in Nat
          BY <1>0, <3>2, SizeFacts
        <4> QED
          BY <1>0, <3>2, <4>1, SizeFacts
      <3> QED
        BY <2>0, <3>1, <3>2, <3>3
    <2>2. CASE WorkFront
      BY <2>0, <2>2 DEF WorkFront
    <2>3. CASE WorkCopy
      BY <2>0, <2>3 DEF WorkCopy
    <2>4. CASE WorkStart
      BY <2>0, <2>4 DEF WorkStart
    <2>5. CASE WorkLock \/ WorkPush \/ WorkWake \/ WorkUnlock
      <3>1. capture' = capture /\ workPc' \notin {"copy", "pop"}
        BY <2>5 DEF WorkLock, WorkPush, WorkWake, WorkUnlock
      <3> QED
        BY <2>0, <3>1
    <2> QED
      BY <1>2, <2>1, <2>2, <2>3, <2>4, <2>5 DEF Work
  <1>3. ASSUME NEW u \in Users, User(u) PROVE CaptureInv'
    BY <1>3, UserFrame
  <1>4. CASE ReleaseSet \/ ReleaseWake
    BY <1>4, ReleaseFrame
  <1>5. CASE UNCHANGED vars
    BY <1>5, StutterFrame
  <1> QED
    BY <1>1, <1>2, <1>3, <1>4, <1>5 DEF Next

\* What do_work() copies is what it pops, whatever interrupts come between.
THEOREM CopyIsSafe == Spec => []CopiedIsFront
  <1>1. Init => CaptureInv
    BY DEF Init, CaptureInv, PublishReady, CopiedIsFront
  <1>2. CaptureInv => CopiedIsFront
    BY DEF CaptureInv
  <1> QED
    BY <1>1, <1>2, NextCapture, TypeCorrect, PTL DEF Spec

-----------------------------------------------------------------------------
(* Captured events are never stranded *)

LEMMA NextNotStranded ==
  TypeOK /\ CaptureInv /\ NotStranded /\ [Next]_vars => NotStranded'
  <1> SUFFICES ASSUME TypeOK, CaptureInv, NotStranded, [Next]_vars
               PROVE  NotStranded'
    OBVIOUS
  <1> USE DEF NotStranded
  <1>1. CASE Isr
    <2>1. ASSUME NEW line \in Lines, IsrEnter(line) PROVE NotStranded'
      BY <2>1 DEF IsrEnter, workVars
    <2>2. CASE IsrPush
      <3>1. FrontIsNull(capture') = FrontIsNull(capture)
        <4>1. capture' \in {capture, Fill(capture, isrEvent)}
          BY <2>2 DEF IsrPush
        <4>2. FrontIsNull(Fill(capture, isrEvent)) = FrontIsNull(capture)
          BY Caps, FillFacts DEF TypeOK
        <4> QED
          BY <4>1, <4>2
      <3> QED
        BY <2>2, <3>1 DEF IsrPush, workVars
    <2>3. CASE IsrPublish
      BY <2>3 DEF IsrPublish
    <2>4. CASE IsrSchedule
      BY <2>4 DEF IsrSchedule
    <2> QED
      BY <1>1, <2>1, <2>2, <2>3, <2>4 DEF Isr
  <1>2. CASE Work
    <2>1. CASE WorkFront
      BY <2>1 DEF WorkFront, isrVars
    <2>2. CASE Work /\ ~WorkFront
      <3>1. workPc' # "idle"
        BY <2>2 DEF Work, WorkStart, WorkCopy, WorkPop, WorkLock, WorkPush,
                    WorkWake, WorkUnlock
      <3> QED
        BY <3>1
    <2> QED
      BY <1>2, <2>1, <2>2
  <1>3. ASSUME NEW u \in Users, User(u) PROVE NotStranded'
    BY <1>3, UserFrame
  <1>4. CASE ReleaseSet \/ ReleaseWake
    BY <1>4, ReleaseFrame
  <1>5. CASE UNCHANGED vars
    BY <1>5, StutterFrame
  <1> QED
    BY <1>1, <1>2, <1>3, <1>4, <1>5 DEF Next

LEMMA InitCapture == Init => CaptureInv /\ NotStranded /\ empty(bulk)
                             /\ FrontIsNull(capture) /\ FrontIsNull(bulk)
  <1> SUFFICES ASSUME Init
               PROVE  CaptureInv /\ NotStranded /\ empty(bulk)
                      /\ FrontIsNull(capture) /\ FrontIsNull(bulk)
    OBVIOUS
  <1>1. PICK line \in Lines :
          LET blank == [button_num |-> line, event |-> 0] IN
            /\ isrEvent = blank /\ workEvent = blank
            /\ capture = InitBuf(CaptureCap, [i \in Index(CaptureCap) |-> blank])
            /\ bulk = InitBuf(BulkCap, [i \in Index(BulkCap) |-> blank])
    BY DEF Init
  <1> DEFINE blank == [button_num |-> line, event |-> 0]
  <1>2. blank \in Event
    BY DEF Event
  <1>3. [i \in Index(CaptureCap) |-> blank] \in [Index(CaptureCap) -> Event]
    BY <1>2
  <1>4. [i \in Index(BulkCap) |-> blank] \in [Index(BulkCap) -> Event]
    BY <1>2
  <1>5. FrontIsNull(capture)
    BY <1>1, <1>3, Caps, InitFacts
  <1>6. FrontIsNull(bulk) /\ empty(bulk)
    BY <1>1, <1>4, Caps, InitFacts
  <1> QED
    BY <1>5, <1>6 DEF Init, CaptureInv, PublishReady, CopiedIsFront, NotStranded

\* While an event is captured and not yet taken, somebody is bound to take it.
THEOREM NothingStranded == Spec => []NotStranded
  <1>1. Init => CaptureInv /\ NotStranded
    BY InitCapture
  <1>2. TypeOK /\ CaptureInv /\ NotStranded /\ [Next]_vars => CaptureInv' /\ NotStranded'
    BY NextCapture, NextNotStranded
  <1> QED
    BY <1>1, <1>2, TypeCorrect, PTL DEF Spec

-----------------------------------------------------------------------------
(* No poll() sleeps through what it waits for *)

WaitInv == PollersQueued /\ NoLostWakeup

LEMMA NextWait == TypeOK /\ WaitInv /\ [Next]_vars => WaitInv'
  <1> SUFFICES ASSUME TypeOK, WaitInv, [Next]_vars PROVE WaitInv'
    OBVIOUS
  <1> USE DEF WaitInv, PollersQueued, NoLostWakeup
  <1>1. CASE Isr
    BY <1>1, IsrFrame
  <1>2. CASE Work
    <2>0. UNCHANGED <<poll_enabled, waiters, userPc, releasePc>>
      BY <1>2, WorkFrame
    <2>1. CASE WorkPush
      <3>1. triggered' = triggered
        BY <2>1 DEF WorkPush, waitVars
      <3>2. CASE workPc' = "wake"
        BY <2>0, <3>1, <3>2
      <3>3. CASE workPc' = "unlock" /\ bulk' = bulk
        BY <2>0, <2>1, <3>1, <3>3 DEF WorkPush
      <3> QED
        BY <2>1, <3>2, <3>3 DEF WorkPush
    <2>2. CASE WorkWake
      <3>1. \A u \in Users : userPc'[u] \in OnQueue => u \in triggered'
        BY <2>0, <2>2 DEF WorkWake
      <3>2. "poll_sleep" \in OnQueue
        BY DEF OnQueue
      <3> QED
        BY <2>0, <3>1, <3>2
    <2>3. CASE WorkStart \/ WorkFront \/ WorkCopy \/ WorkPop \/ WorkLock \/ WorkUnlock
      <3>1. workPc # "wake" /\ bulk' = bulk /\ triggered' = triggered
        BY <2>3 DEF WorkStart, WorkFront, WorkCopy, WorkPop, WorkLock, WorkUnlock,
                    waitVars
      <3> QED
        BY <2>0, <3>1
    <2> QED
      BY <1>2, <2>1, <2>2, <2>3 DEF Work
  <1>3. ASSUME NEW u \in Users, User(u) PROVE WaitInv'
    <2>0. /\ UNCHANGED <<workPc, releasePc, poll_enabled>>
          /\ \A v \in Users \ {u} : userPc'[v] = userPc[v]
          /\ userPc \in [Users -> UserPcs]
      BY <1>3, UserFrame DEF TypeOK
    <2>1. CASE PollTest(u)
      <3>1. CASE userPc'[u] \notin OnQueue /\ waiters' = waiters \ {u}
                 /\ triggered' = triggered \ {u} /\ bulk' = bulk
        BY <2>0, <3>1 DEF OnQueue
      <3>2. CASE userPc'[u] = "poll_sleep" /\ empty(bulk) /\ poll_enabled
                 /\ UNCHANGED <<waiters, triggered, bulk>>
        <4>1. u \in waiters
          BY <2>1 DEF PollTest, OnQueue
        <4> QED
          BY <2>0, <3>2, <4>1
      <3> QED
        BY <2>0, <2>1, <3>1, <3>2 DEF PollTest, Goto, OnQueue
    <2>2. CASE PollWake(u)
      <3>1. /\ userPc'[u] = "poll_lock" /\ u \in waiters
            /\ triggered' = triggered \ {u} /\ waiters' = waiters /\ bulk' = bulk
        BY <2>0, <2>2 DEF PollWake, Goto, OnQueue
      <3> QED
        BY <2>0, <3>1 DEF OnQueue
    <2>3. CASE ReadCopy(u)
      <3>1. userPc' = userPc /\ waiters' = waiters /\ triggered' = triggered
        BY <2>3 DEF ReadCopy, waitVars
      <3>2. ~empty(bulk)
        <4>1. ~FrontIsNull(bulk) /\ bulk \in Buf(BulkCap, Event)
          BY <2>3 DEF ReadCopy, TypeOK
        <4> QED
          BY <4>1, Caps, SizeFacts
      <3> QED
        BY <2>0, <3>1, <3>2
    <2>4. CASE ReadFail(u) \/ ReadLoopEnd(u) \/ ReadUnlock(u) \/ ReadLock(u)
               \/ ReadBegin(u) \/ ReadBadCount(u)
      <3>1. /\ userPc'[u] \notin OnQueue
            /\ UNCHANGED <<waiters, triggered, bulk>>
        BY <2>0, <2>4 DEF ReadFail, ReadLoopEnd, ReadUnlock, ReadLock, ReadBegin,
                          ReadBadCount, Goto, OnQueue, waitVars
      <3> QED
        BY <2>0, <3>1 DEF OnQueue
    <2>5. CASE PollLock(u)
      <3>1. /\ userPc'[u] = "poll_test" /\ userPc[u] = "poll_lock"
            /\ UNCHANGED <<waiters, triggered, bulk>>
        BY <2>0, <2>5 DEF PollLock, Goto, waitVars
      <3> QED
        BY <2>0, <3>1 DEF OnQueue
    <2>6. CASE PollBegin(u)
      <3>1. /\ userPc'[u] = "poll_lock" /\ waiters' = waiters \union {u}
            /\ UNCHANGED <<triggered, bulk>>
        BY <2>0, <2>6 DEF PollBegin, Goto
      <3> QED
        BY <2>0, <3>1
    <2>7. CASE PollAbandon(u)
      <3>1. /\ userPc'[u] = "user" /\ waiters' = waiters \ {u}
            /\ triggered' = triggered \ {u} /\ bulk' = bulk
        BY <2>0, <2>7 DEF PollAbandon, Goto
      <3> QED
        BY <2>0, <3>1 DEF OnQueue
    <2> QED
      BY <1>3, <2>1, <2>2, <2>3, <2>4, <2>5, <2>6, <2>7
         DEF User, UserInside, UserLock, UserBegin
  <1>4. CASE ReleaseSet
    <2>1. releasePc = "idle" /\ releasePc' = "wake"
          /\ UNCHANGED <<waiters, triggered, userPc, bulk, workPc>>
      BY <1>4 DEF ReleaseSet, userVars, workVars
    <2> QED
      BY <2>1
  <1>5. CASE ReleaseWake
    <2>1. triggered' = triggered \union waiters /\ UNCHANGED <<waiters, userPc>>
      BY <1>5 DEF ReleaseWake, userVars
    <2>2. \A u \in Users : userPc'[u] \in OnQueue => u \in triggered'
      BY <2>1
    <2>3. "poll_sleep" \in OnQueue
      BY DEF OnQueue
    <2> QED
      BY <2>1, <2>2, <2>3
  <1>6. CASE UNCHANGED vars
    BY <1>6, StutterFrame
  <1> QED
    BY <1>1, <1>2, <1>3, <1>4, <1>5, <1>6 DEF Next

\* A thread sleeping in poll() that no wake-up has reached has nothing to read
\* and has not been released, or the wake-up is the very next thing to happen.
THEOREM WakeupsNotLost == Spec => []NoLostWakeup
  <1>1. Init => WaitInv
    BY DEF Init, WaitInv, PollersQueued, NoLostWakeup, OnQueue
  <1>2. WaitInv => NoLostWakeup
    BY DEF WaitInv
  <1> QED
    BY <1>1, <1>2, NextWait, TypeCorrect, PTL DEF Spec

-----------------------------------------------------------------------------
(* The order of the pipeline *)

LEMMA SortedFill ==
  ASSUME NEW c \in Nat \ {0}, NEW b \in Buf(c, Event), NEW e \in Event, Sorted(b)
  PROVE  Sorted(Fill(b, e))
  BY FillFacts DEF Sorted

LEMMA SortedPublish ==
  ASSUME NEW c \in Nat \ {0}, NEW b \in Buf(c, Event), PushOk(b), Sorted(b),
         AllBefore(Held(b), {b.slots[b.head]})
  PROVE  Sorted(Publish(b))
  <1> DEFINE p == Publish(b)
  <1>1. /\ size(p) = size(b) + 1
        /\ \A k \in 0..(size(b)-1) : Elem(p, k) = Elem(b, k)
        /\ Elem(p, size(b)) = b.slots[b.head]
        /\ size(b) \in Nat
    BY PublishFacts, SizeFacts
  <1> HIDE DEF p
  <1> SUFFICES ASSUME NEW i \in 0..(size(p)-1), NEW j \in 0..(size(p)-1), i < j
               PROVE  Before(Elem(p, i), Elem(p, j))
    BY DEF Sorted, p
  <1>2. i \in 0..(size(b)-1) /\ Elem(p, i) = Elem(b, i)
    BY <1>1
  <1>3. CASE j = size(b)
    BY <1>1, <1>2, <1>3 DEF AllBefore, Held
  <1>4. CASE j # size(b)
    <2>1. j \in 0..(size(b)-1)
      BY <1>1, <1>4
    <2> QED
      BY <1>1, <1>2, <2>1 DEF Sorted
  <1> QED
    BY <1>3, <1>4

LEMMA SortedPush ==
  ASSUME NEW c \in Nat \ {0}, NEW b \in Buf(c, Event), NEW e \in Event,
         PushOk(b), Sorted(b), AllBefore(Held(b), {e})
  PROVE  Sorted(push(b, e))
  <1> DEFINE f == Fill(b, e)
  <1>1. /\ f \in Buf(c, Event)
        /\ size(f) = size(b)
        /\ f.slots[f.head] = e
        /\ Sorted(f)
        /\ Held(f) = Held(b)
    BY FillFacts, SortedFill, HeldFill
  <1>2. PushOk(f)
    <2>1. size(b) < c - 1
      BY SizeFacts
    <2> QED
      BY <1>1, <2>1, SizeFacts
  <1> HIDE DEF f
  <1>3. Sorted(Publish(f))
    BY <1>1, <1>2, SortedPublish
  <1> QED
    BY <1>3 DEF push, f

LEMMA SortedPop ==
  ASSUME NEW c \in Nat \ {0}, NEW b \in Buf(c, Event), ~FrontIsNull(b), Sorted(b)
  PROVE  Sorted(pop(b)) /\ AllBefore({FrontSlot(b)}, Held(pop(b)))
  <1> DEFINE p == pop(b)
  <1>1. /\ size(p) = size(b) - 1
        /\ \A k \in 0..(size(b)-2) : Elem(p, k) = Elem(b, k + 1)
        /\ size(b) \in Nat /\ size(b) # 0
        /\ FrontSlot(b) = Elem(b, 0)
    BY PopFacts, SizeFacts, FrontFacts
  <1> HIDE DEF p
  <1>2. ASSUME NEW k \in 0..(size(p)-1)
        PROVE  k + 1 \in 1..(size(b)-1) /\ Elem(p, k) = Elem(b, k + 1)
    BY <1>1
  <1>3. Sorted(p)
    <2> SUFFICES ASSUME NEW i \in 0..(size(p)-1), NEW j \in 0..(size(p)-1), i < j
                 PROVE  Before(Elem(p, i), Elem(p, j))
      BY DEF Sorted
    <2>1. /\ i + 1 \in 0..(size(b)-1) /\ Elem(p, i) = Elem(b, i + 1)
          /\ j + 1 \in 0..(size(b)-1) /\ Elem(p, j) = Elem(b, j + 1)
          /\ i + 1 < j + 1
      BY <1>2
    <2> QED
      BY <2>1 DEF Sorted
  <1>4. AllBefore({FrontSlot(b)}, Held(p))
    <2> SUFFICES ASSUME NEW k \in 0..(size(p)-1)
                 PROVE  Before(Elem(b, 0), Elem(p, k))
      BY <1>1 DEF AllBefore, Held
    <2>1. 0 \in 0..(size(b)-1) /\ k + 1 \in 0..(size(b)-1) /\ 0 < k + 1
          /\ Elem(p, k) = Elem(b, k + 1)
      BY <1>1, <1>2
    <2> QED
      BY <2>1 DEF Sorted
  <1> QED
    BY <1>3, <1>4 DEF p

\* The order survives a step that moves no event.
LEMMA SameOrder ==
  ASSUME PipelineOrdered,
         UNCHANGED <<out, bulk, capture, counter, InWork, InIsr>>
  PROVE  PipelineOrdered' /\ InSystem' = InSystem
  BY DEF PipelineOrdered, Sorted, AllBefore, Delivered, InSystem

PipeInv == CaptureInv /\ PipelineOrdered

\* The history a read() extends: one more record, the others where they were.
LEMMA DeliveredAppend ==
  ASSUME TypeOK, NEW e \in Event, out' = Append(out, e)
  PROVE  /\ Delivered' = Delivered \union {e}
         /\ Len(out') = Len(out) + 1 /\ Len(out) \in Nat
         /\ \A i \in 1..Len(out) : out'[i] = out[i]
         /\ out'[Len(out) + 1] = e
  <1>1. /\ Len(out') = Len(out) + 1 /\ Len(out) \in Nat
        /\ \A i \in 1..Len(out) : out'[i] = out[i]
        /\ out'[Len(out) + 1] = e
    BY DEF TypeOK
  <1>2. Delivered' = {out'[i] : i \in 1..(Len(out) + 1)}
    BY <1>1 DEF Delivered
  <1>3. 1..(Len(out) + 1) = 1..Len(out) \union {Len(out) + 1}
    BY <1>1
  <1>4. Delivered' \subseteq Delivered \union {e}
    BY <1>1, <1>2, <1>3 DEF Delivered
  <1>5. Delivered \union {e} \subseteq Delivered'
    BY <1>1, <1>2, <1>3 DEF Delivered
  <1> QED
    BY <1>1, <1>4, <1>5

\* Handlers: an event enters at the back, or is dropped before a full ring.
LEMMA IsrOrder ==
  ASSUME TypeOK, PipeInv, Isr
  PROVE  /\ PipelineOrdered'
         /\ \/ InSystem \subseteq InSystem'
            \/ isrPc = "push" /\ size(capture) = CaptureCap - 1
  <1>0. /\ capture \in Buf(CaptureCap, Event) /\ isrEvent \in Event
        /\ CaptureCap \in Nat \ {0}
        /\ UNCHANGED <<out, bulk, workPc, workEvent>>
    BY Caps, IsrFrame DEF TypeOK
  <1>1. Delivered' = Delivered /\ Held(bulk)' = Held(bulk) /\ InWork' = InWork
        /\ Sorted(bulk)' = Sorted(bulk)
    BY <1>0 DEF Delivered, InWork, Sorted
  <1>2. ASSUME NEW line \in Lines, IsrEnter(line)
        PROVE  PipelineOrdered' /\ InSystem \subseteq InSystem'
    <2> DEFINE h == HandlerOf[line]
               e == [button_num |-> line, event |-> counter[h] + 1]
    <2>1. /\ capture' = capture /\ counter' = [counter EXCEPT ![h] = @ + 1]
          /\ InIsr = {} /\ InIsr' = {e}
      BY <1>2 DEF IsrEnter, InIsr
    <2>2. h \in Handlers /\ counter \in [Handlers -> Nat]
          /\ \A x \in Event : HandlerOf[x.button_num] \in Handlers
      BY ConstAssumption DEF TypeOK, Event
    <2>3. InSystem \subseteq Event
      <3>1. Delivered \subseteq Event
        BY DEF Delivered, TypeOK
      <3>2. Held(bulk) \subseteq Event /\ Held(capture) \subseteq Event
        BY Caps, HeldFacts DEF TypeOK
      <3> QED
        BY <3>1, <3>2, <2>1 DEF InSystem, InWork, TypeOK
    <2>4. /\ InSystem' = InSystem \union {e}
          /\ InSystem = Delivered \union Held(bulk) \union InWork \union Held(capture)
      BY <1>1, <2>1 DEF InSystem
    <2>5. \A x \in InSystem : x.event \in 1..counter[HandlerOf[x.button_num]]
      BY DEF PipeInv, PipelineOrdered
    <2>6. \A x \in InSystem : Before(x, e)
      <3> TAKE x \in InSystem
      <3>1. x.event \in 1..counter[HandlerOf[x.button_num]] /\ counter[h] \in Nat
        BY <2>2, <2>5
      <3> QED
        BY <3>1 DEF Before
    <2>7. \A x \in InSystem' : x.event \in 1..counter'[HandlerOf[x.button_num]]
      <3>1. ASSUME NEW x \in InSystem
            PROVE  x.event \in 1..counter'[HandlerOf[x.button_num]]
        <4>1. x.event \in 1..counter[HandlerOf[x.button_num]]
              /\ HandlerOf[x.button_num] \in Handlers
          BY <2>2, <2>3, <2>5
        <4>2. counter[HandlerOf[x.button_num]] \in Nat
              /\ counter'[HandlerOf[x.button_num]] \in
                   {counter[HandlerOf[x.button_num]],
                    counter[HandlerOf[x.button_num]] + 1}
          BY <2>1, <2>2, <4>1
        <4> QED
          BY <4>1, <4>2
      <3>2. e.event \in 1..counter'[HandlerOf[e.button_num]]
        BY <2>1, <2>2
      <3> QED
        BY <2>4, <3>1, <3>2
    <2> HIDE DEF e, h
    <2>8. AllBefore(Delivered' \union Held(bulk)' \union InWork' \union Held(capture)', InIsr')
      BY <1>1, <2>1, <2>4, <2>6 DEF AllBefore
    <2>9. /\ AllBefore(Delivered', Held(bulk)')
          /\ AllBefore(Delivered' \union Held(bulk)', InWork')
          /\ AllBefore(Delivered' \union Held(bulk)' \union InWork', Held(capture)')
          /\ Sorted(bulk)' /\ Sorted(capture)'
      BY <1>1, <2>1 DEF PipeInv, PipelineOrdered
    <2> QED
      BY <1>0, <2>4, <2>7, <2>8, <2>9 DEF PipeInv, PipelineOrdered
  <1>3. CASE IsrPush
    <2>1. CASE PushOk(capture) /\ capture' = Fill(capture, isrEvent) /\ isrPc' = "publish"
      <3>1. Held(capture)' = Held(capture)
        BY <1>0, <2>1, HeldFill
      <3>2. Sorted(capture)'
        BY <1>0, <2>1, SortedFill DEF PipeInv, PipelineOrdered
      <3>3. InIsr' = InIsr /\ counter' = counter
        BY <1>3, <2>1 DEF IsrPush, InIsr
      <3> QED
        BY <1>0, <1>1, <3>1, <3>2, <3>3 DEF PipeInv, PipelineOrdered, InSystem
    <2>2. CASE ~PushOk(capture) /\ capture' = capture /\ isrPc' = "schedule"
      <3>1. InIsr' = {} /\ counter' = counter
        BY <1>3, <2>2 DEF IsrPush, InIsr
      <3>2. size(capture) = CaptureCap - 1
        BY <1>0, <2>2, SizeFacts
      <3>3. PipelineOrdered'
        BY <1>0, <1>1, <2>2, <3>1 DEF PipeInv, PipelineOrdered, AllBefore, InSystem
      <3> QED
        BY <1>3, <3>2, <3>3 DEF IsrPush
    <2> QED
      BY <1>3, <2>1, <2>2 DEF IsrPush
  <1>4. CASE IsrPublish
    <2>1. /\ capture' = Publish(capture) /\ PushOk(capture)
          /\ capture.slots[capture.head] = isrEvent
          /\ InIsr = {isrEvent} /\ InIsr' = {} /\ counter' = counter
      BY <1>4 DEF IsrPublish, InIsr, PipeInv, CaptureInv, PublishReady
    <2>2. Held(capture)' = Held(capture) \union InIsr
      BY <1>0, <2>1, HeldPublish
    <2>3. AllBefore(Held(capture), {isrEvent})
      BY <2>1 DEF PipeInv, PipelineOrdered, AllBefore
    <2>4. Sorted(capture)'
      BY <1>0, <2>1, <2>3, SortedPublish DEF PipeInv, PipelineOrdered
    <2>5. InSystem' = InSystem
      BY <1>1, <2>1, <2>2 DEF InSystem
    <2> QED
      BY <1>0, <1>1, <2>1, <2>2, <2>4, <2>5 DEF PipeInv, PipelineOrdered, AllBefore
  <1>5. CASE IsrSchedule
    <2>1. UNCHANGED <<out, bulk, capture, counter, InWork, InIsr>>
      BY <1>0, <1>1, <1>5 DEF IsrSchedule, InIsr
    <2> QED
      BY <2>1, SameOrder DEF PipeInv
  <1> QED
    BY <1>2, <1>3, <1>4, <1>5 DEF Isr

\* The work item: an event moves on, or is dropped before a full ring.
LEMMA WorkOrder ==
  ASSUME TypeOK, PipeInv, Work
  PROVE  /\ PipelineOrdered'
         /\ \/ InSystem \subseteq InSystem'
            \/ workPc = "push" /\ size(bulk) = BulkCap - 1
  <1>0. /\ capture \in Buf(CaptureCap, Event) /\ CaptureCap \in Nat \ {0}
        /\ bulk \in Buf(BulkCap, Event) /\ BulkCap \in Nat \ {0}
        /\ workEvent \in Event
        /\ UNCHANGED <<out, counter, isrPc, isrEvent>>
    BY Caps, WorkFrame DEF TypeOK
  <1>1. Delivered' = Delivered /\ InIsr' = InIsr
    BY <1>0 DEF Delivered, InIsr
  <1>2. CASE WorkPop
    <2>1. /\ capture' = pop(capture) /\ bulk' = bulk /\ workEvent' = workEvent
          /\ ~FrontIsNull(capture) /\ workEvent = FrontSlot(capture)
          /\ InWork = {} /\ InWork' = {workEvent}
      BY <1>2 DEF WorkPop, InWork, PipeInv, CaptureInv, CopiedIsFront
    <2>2. Held(capture) = InWork' \union Held(capture)'
      BY <1>0, <2>1, HeldPop
    <2>3. Sorted(capture)' /\ AllBefore(InWork', Held(capture)')
      BY <1>0, <2>1, SortedPop DEF PipeInv, PipelineOrdered
    <2>4. InSystem' = InSystem
      BY <1>1, <2>1, <2>2 DEF InSystem
    <2>5. /\ AllBefore(Delivered' \union Held(bulk)', InWork')
          /\ AllBefore(Delivered' \union Held(bulk)' \union InWork', Held(capture)')
          /\ AllBefore(Delivered' \union Held(bulk)' \union InWork' \union Held(capture)', InIsr')
      BY <1>1, <2>1, <2>2, <2>3 DEF PipeInv, PipelineOrdered, AllBefore
    <2> QED
      BY <1>0, <1>1, <2>1, <2>3, <2>4, <2>5 DEF PipeInv, PipelineOrdered, Sorted
  <1>3. CASE WorkPush
    <2>0. capture' = capture /\ InWork = {workEvent} /\ InWork' = {}
          /\ workPc = "push"
      BY <1>3 DEF WorkPush, InWork
    <2>1. CASE space(bulk) # 0 /\ bulk' = push(bulk, workEvent)
      <3>1. PushOk(bulk)
        <4>1. size(bulk) \in 0..(BulkCap-1) /\ space(bulk) = BulkCap - 1 - size(bulk)
          BY <1>0, SizeFacts
        <4>2. size(bulk) < BulkCap - 1
          BY <1>0, <2>1, <4>1
        <4> QED
          BY <1>0, <4>2, SizeFacts
      <3>2. Held(bulk)' = Held(bulk) \union InWork
        BY <1>0, <2>0, <2>1, <3>1, HeldPush
      <3>3. AllBefore(Held(bulk), {workEvent})
        BY <2>0 DEF PipeInv, PipelineOrdered, AllBefore
      <3>4. Sorted(bulk)'
        BY <1>0, <2>1, <3>1, <3>3, SortedPush DEF PipeInv, PipelineOrdered
      <3>5. InSystem' = InSystem
        BY <1>1, <2>0, <3>2 DEF InSystem
      <3>6. /\ AllBefore(Delivered', Held(bulk)')
            /\ AllBefore(Delivered' \union Held(bulk)', InWork')
            /\ AllBefore(Delivered' \union Held(bulk)' \union InWork', Held(capture)')
            /\ AllBefore(Delivered' \union Held(bulk)' \union InWork' \union Held(capture)', InIsr')
        BY <1>1, <2>0, <3>2 DEF PipeInv, PipelineOrdered, AllBefore
      <3> QED
        BY <1>0, <2>0, <3>4, <3>5, <3>6 DEF PipeInv, PipelineOrdered, Sorted
    <2>2. CASE space(bulk) = 0 /\ bulk' = bulk
      <3>1. size(bulk) = BulkCap - 1
        <4>1. size(bulk) \in 0..(BulkCap-1) /\ space(bulk) = BulkCap - 1 - size(bulk)
          BY <1>0, SizeFacts
        <4> QED
          BY <1>0, <2>2, <4>1
      <3>2. PipelineOrdered'
        BY <1>0, <1>1, <2>0, <2>2 DEF PipeInv, PipelineOrdered, AllBefore, InSystem, Sorted
      <3> QED
        BY <2>0, <3>1, <3>2
    <2> QED
      BY <1>3, <2>1, <2>2 DEF WorkPush
  <1>4. CASE WorkStart \/ WorkFront \/ WorkCopy \/ WorkLock \/ WorkWake \/ WorkUnlock
    <2>1. UNCHANGED <<out, bulk, capture, counter, InWork, InIsr>>
      BY <1>0, <1>1, <1>4 DEF WorkStart, WorkFront, WorkCopy, WorkLock, WorkWake,
                              WorkUnlock, InWork
    <2> QED
      BY <2>1, SameOrder DEF PipeInv
  <1> QED
    BY <1>2, <1>3, <1>4 DEF Work

\* Threads: the oldest event of the bulk ring becomes the last one delivered.
LEMMA UserOrder ==
  ASSUME TypeOK, PipeInv, NEW u \in Users, User(u)
  PROVE  PipelineOrdered' /\ InSystem' = InSystem
  <1>0. /\ bulk \in Buf(BulkCap, Event) /\ BulkCap \in Nat \ {0}
        /\ UNCHANGED <<counter, isrPc, isrEvent, workPc, workEvent, capture>>
    BY Caps, UserFrame DEF TypeOK
  <1>1. InIsr' = InIsr /\ InWork' = InWork
    BY <1>0 DEF InIsr, InWork
  <1>2. CASE ReadCopy(u)
    <2> DEFINE e == FrontSlot(bulk)
    <2>1. /\ ~FrontIsNull(bulk) /\ bulk' = pop(bulk) /\ out' = Append(out, e)
          /\ e \in Event
      BY <1>0, <1>2, FrontFacts DEF ReadCopy
    <2>2. Held(bulk) = {e} \union Held(bulk)'
      BY <1>0, <2>1, HeldPop
    <2>3. Sorted(bulk)' /\ AllBefore({e}, Held(bulk)')
      BY <1>0, <2>1, SortedPop DEF PipeInv, PipelineOrdered
    <2> HIDE DEF e
    <2>4. /\ Delivered' = Delivered \union {e}
          /\ Len(out') = Len(out) + 1 /\ Len(out) \in Nat
          /\ \A i \in 1..Len(out) : out'[i] = out[i]
          /\ out'[Len(out) + 1] = e
      BY <2>1, DeliveredAppend
    <2>5. InSystem' = InSystem
      BY <1>0, <1>1, <2>2, <2>4 DEF InSystem
    <2>6. \A i \in 1..Len(out) : Before(out[i], e)
      BY <2>2 DEF PipeInv, PipelineOrdered, AllBefore, Delivered
    <2>7. \A i, j \in 1..Len(out') : i < j => Before(out'[i], out'[j])
      <3> TAKE i, j \in 1..Len(out')
      <3> HAVE i < j
      <3>1. i \in 1..Len(out) /\ out'[i] = out[i]
        BY <2>4
      <3>2. CASE j = Len(out) + 1
        BY <2>4, <2>6, <3>1, <3>2
      <3>3. CASE j # Len(out) + 1
        <4>1. j \in 1..Len(out) /\ out'[j] = out[j]
          BY <2>4, <3>3
        <4> QED
          BY <3>1, <4>1 DEF PipeInv, PipelineOrdered
      <3> QED
        BY <3>2, <3>3
    <2>8. /\ AllBefore(Delivered', Held(bulk)')
          /\ AllBefore(Delivered' \union Held(bulk)', InWork')
          /\ AllBefore(Delivered' \union Held(bulk)' \union InWork', Held(capture)')
          /\ AllBefore(Delivered' \union Held(bulk)' \union InWork' \union Held(capture)', InIsr')
      BY <1>0, <1>1, <2>2, <2>3, <2>4 DEF PipeInv, PipelineOrdered, AllBefore
    <2> QED
      BY <1>0, <2>3, <2>5, <2>7, <2>8 DEF PipeInv, PipelineOrdered, Sorted
  <1>3. CASE User(u) /\ ~ReadCopy(u)
    <2>1. UNCHANGED <<out, bulk>>
      BY <1>3 DEF User, UserInside, UserLock, UserBegin, PollBegin, PollLock, PollTest,
                  PollWake, PollAbandon, ReadBadCount, ReadBegin, ReadLock, ReadFail,
                  ReadLoopEnd, ReadUnlock
    <2> QED
      BY <1>0, <1>1, <2>1, SameOrder DEF PipeInv
  <1> QED
    BY <1>2, <1>3

LEMMA NextPipe ==
  TypeOK /\ PipeInv /\ [Next]_vars =>
    /\ PipeInv'
    /\ [\/ InSystem \subseteq InSystem'
        \/ isrPc = "push" /\ size(capture) = CaptureCap - 1
        \/ workPc = "push" /\ size(bulk) = BulkCap - 1]_vars
  <1> SUFFICES ASSUME TypeOK, PipeInv, [Next]_vars
               PROVE  /\ PipelineOrdered'
                      /\ \/ InSystem \subseteq InSystem'
                         \/ isrPc = "push" /\ size(capture) = CaptureCap - 1
                         \/ workPc = "push" /\ size(bulk) = BulkCap - 1
    BY NextCapture DEF PipeInv
  <1>1. CASE Isr
    BY <1>1, IsrOrder
  <1>2. CASE Work
    BY <1>2, WorkOrder
  <1>3. ASSUME NEW u \in Users, User(u)
        PROVE  PipelineOrdered' /\ InSystem' = InSystem
    BY <1>3, UserOrder
  <1>4. CASE ReleaseSet \/ ReleaseWake \/ UNCHANGED vars
    <2>1. UNCHANGED <<out, bulk, capture, counter, InWork, InIsr>>
      BY <1>4, ReleaseFrame, StutterFrame DEF InWork, InIsr
    <2> QED
      BY <2>1, SameOrder DEF PipeInv
  <1> QED
    BY <1>1, <1>2, <1>3, <1>4 DEF Next

LEMMA InitPipe == Init => PipeInv
  <1> SUFFICES ASSUME Init PROVE PipelineOrdered
    BY InitCapture DEF PipeInv
  <1>1. Held(bulk) = {} /\ Held(capture) = {} /\ size(bulk) = 0 /\ size(capture) = 0
    <2>1. TypeOK /\ FrontIsNull(capture) /\ FrontIsNull(bulk)
      BY InitType, InitCapture
    <2>2. size(bulk) = 0 /\ size(capture) = 0
      BY <2>1, Caps, SizeFacts DEF TypeOK
    <2> QED
      BY <2>1, <2>2, Caps, HeldFacts DEF TypeOK
  <1>2. InWork = {} /\ InIsr = {} /\ out = <<>> /\ Delivered = {}
    BY DEF Init, InWork, InIsr, Delivered
  <1>3. Sorted(bulk) /\ Sorted(capture)
    BY <1>1 DEF Sorted
  <1>4. \A i, j \in 1..Len(out) : i < j => Before(out[i], out[j])
    BY <1>2
  <1>5. InSystem = {}
    BY <1>1, <1>2 DEF InSystem
  <1> QED
    BY <1>1, <1>2, <1>3, <1>4, <1>5 DEF PipelineOrdered, AllBefore

\* The stages of the pipeline stay in order.
THEOREM PipelineInOrder == Spec => []PipelineOrdered
  <1>1. PipeInv => PipelineOrdered
    BY DEF PipeInv
  <1> QED
    BY <1>1, InitPipe, NextPipe, TypeCorrect, PTL DEF Spec

\* An event numbered by a handler is delivered, in the pipeline, or was dropped
\* before a ring that was full at that moment.
THEOREM LossNeedsFullRing == Spec => LostOnlyWhenFull
  BY InitPipe, NextPipe, TypeCorrect, PTL DEF Spec, LostOnlyWhenFull

-----------------------------------------------------------------------------
(* What a read() that returns too little has met *)

LEMMA NextShort ==
  TypeOK /\ MutexExclusive /\ ShortReadFoundFull /\ [Next]_vars => ShortReadFoundFull'
  <1> SUFFICES ASSUME TypeOK, MutexExclusive, ShortReadFoundFull, [Next]_vars,
                      NEW u \in Users,
                      userPc'[u] = "read_unlock", want'[u] > 0, ret'[u] >= 0
               PROVE  size(bulk)' = BulkCap - 1
    BY DEF ShortReadFoundFull
  <1>1. CASE UNCHANGED <<userPc, want, ret, bulk>>
    BY <1>1 DEF ShortReadFoundFull
  <1>2. CASE WorkPush
    <2>1. userPc'[u] = userPc[u] /\ mutex = Worker
      BY <1>2 DEF WorkPush, userVars, MutexExclusive
    <2> QED
      BY <2>1, ConstAssumption DEF MutexExclusive, Critical
  <1>3. CASE Work /\ ~WorkPush
    <2>1. bulk' = bulk
      BY <1>3 DEF Work, WorkStart, WorkFront, WorkCopy, WorkPop, WorkLock, WorkWake, WorkUnlock
    <2> QED
      BY <1>1, <1>3, <2>1, WorkFrame
  <1>4. ASSUME NEW v \in Users, User(v), v # u PROVE size(bulk)' = BulkCap - 1
    <2>1. userPc[u] = "read_unlock" /\ want'[u] = want[u] /\ ret'[u] = ret[u]
      BY <1>4 DEF User, UserInside, UserLock, UserBegin, PollTest, PollWake, ReadCopy,
         ReadFail, ReadLoopEnd, ReadUnlock, PollLock, ReadLock, PollBegin, ReadBegin,
         PollAbandon, ReadBadCount, Goto, TypeOK, readVars
    <2>2. ~ReadCopy(v)
      BY <1>4, <2>1 DEF ReadCopy, MutexExclusive, Critical
    <2>3. bulk' = bulk
      BY <1>4, <2>2 DEF User, UserInside, UserLock, UserBegin, PollTest, PollWake,
         ReadFail, ReadLoopEnd, ReadUnlock, PollLock, ReadLock, PollBegin, ReadBegin,
         PollAbandon, ReadBadCount
    <2> QED
      BY <2>1, <2>3 DEF ShortReadFoundFull
  <1>5. ASSUME User(u) PROVE size(bulk)' = BulkCap - 1
    <2>1. CASE ReadLoopEnd(u)
      <3>1. bulk' = bulk /\ want'[u] = want[u] /\ want[u] \in Nat /\ ~LoopAgain(u)
        BY <2>1 DEF ReadLoopEnd, TypeOK, readVars
      <3>2. space(bulk) = 0
        BY <3>1 DEF LoopAgain
      <3> QED
        BY <3>1, <3>2, Caps, SizeFacts DEF TypeOK
    <2>2. ~ReadFail(u)
      BY DEF ReadFail, EPERM, TypeOK
    <2> QED
      BY <1>5, <2>1, <2>2 DEF User, UserInside, UserLock, UserBegin, PollTest, PollWake,
         ReadCopy, ReadUnlock, PollLock, ReadLock, PollBegin, ReadBegin, PollAbandon,
         ReadBadCount, Goto, TypeOK
  <1> QED
    BY <1>1, <1>2, <1>3, <1>4, <1>5, IsrFrame, ReleaseFrame, StutterFrame DEF Next

\* For any ring and any number of readers, a read() returns less than it asked for
\* without an error only because the ring is full.
THEOREM ShortReadsMetFull == Spec => []ShortReadFoundFull
  <1>1. Init => ShortReadFoundFull
    BY DEF Init, ShortReadFoundFull
  <1> QED
    BY <1>1, NextShort, TypeCorrect, MutualExclusion, PTL DEF Spec

\* Once the bulk ring is full, nothing is added and nothing is delivered any more.
THEOREM FullRingStaysFull == Spec => FullForGood
  <1>1. TypeOK /\ [Next]_vars => [size(bulk) = BulkCap - 1 => UNCHANGED <<bulk, out>>]_vars
    <2> SUFFICES ASSUME TypeOK, [Next]_vars, size(bulk) = BulkCap - 1
                 PROVE  UNCHANGED <<bulk, out>>
      OBVIOUS
    <2>1. space(bulk) = 0
      BY Caps, SizeFacts DEF TypeOK
    <2>2. CASE Work
      BY <2>1, <2>2, WorkFrame DEF Work, WorkStart, WorkFront, WorkCopy, WorkPop, WorkLock,
         WorkPush, WorkWake, WorkUnlock
    <2>3. ASSUME NEW u \in Users, User(u) PROVE UNCHANGED <<bulk, out>>
      BY <2>1, <2>3 DEF User, UserInside, UserLock, UserBegin, PollTest, PollWake, ReadCopy,
         LoopAgain, ReadFail, ReadLoopEnd, ReadUnlock, PollLock, ReadLock, PollBegin,
         ReadBegin, PollAbandon, ReadBadCount
    <2> QED
      BY <2>2, <2>3, IsrFrame, ReleaseFrame, StutterFrame DEF Next
  <1> QED
    BY <1>1, TypeCorrect, PTL DEF Spec, FullForGood

-----------------------------------------------------------------------------
(* What a read() has removed and what it reports *)

AccountInv == CountKept /\ ReadAccounts

LEMMA NextAccount ==
  TypeOK /\ MutexExclusive /\ AccountInv /\ [Next]_vars => AccountInv'
  <1> DEFINE Account(u) ==
        /\ userPc[u] = "read_lock" => ret[u] = 0
        /\ userPc[u] = "read_loop" => ret[u] # EPERM /\ ret[u] + size(bulk) = found[u]
        /\ userPc[u] = "read_unlock" =>
             /\ ret[u] # EPERM => ret[u] = found[u] - size(bulk)
             /\ ret[u] = EPERM /\ u \notin FaultyUsers => empty(bulk)
  <1> SUFFICES ASSUME TypeOK, MutexExclusive, [Next]_vars,
                      NEW u \in Users, Account(u)
               PROVE  Account(u)'
    BY DEF AccountInv, CountKept, ReadAccounts
  <1>1. CASE UNCHANGED <<userPc, ret, found, bulk>>
    BY <1>1
  <1>2. CASE Work
    <2>1. UNCHANGED <<userPc, ret, found>>
      BY <1>2 DEF Work, WorkStart, WorkFront, WorkCopy, WorkPop, WorkLock, WorkPush,
                  WorkWake, WorkUnlock, userVars
    <2>2. CASE WorkPush
      <3>1. mutex = Worker
        BY <2>2 DEF WorkPush, MutexExclusive
      <3> QED
        BY <2>1, <3>1, ConstAssumption DEF MutexExclusive, Critical
    <2>3. CASE ~WorkPush
      <3>1. bulk' = bulk
        BY <1>2, <2>3 DEF Work, WorkStart, WorkFront, WorkCopy, WorkPop, WorkLock,
                          WorkWake, WorkUnlock
      <3> QED
        BY <1>1, <2>1, <3>1
    <2> QED
      BY <2>2, <2>3
  <1>3. ASSUME NEW v \in Users, User(v), v # u PROVE Account(u)'
    <2>1. /\ userPc'[u] = userPc[u] /\ ret'[u] = ret[u] /\ found'[u] = found[u]
      BY <1>3 DEF User, UserInside, UserLock, UserBegin, PollTest, PollWake, ReadCopy,
         ReadFail, ReadLoopEnd, ReadUnlock, PollLock, ReadLock, PollBegin, ReadBegin,
         PollAbandon, ReadBadCount, Goto, TypeOK, readVars
    <2>2. CASE userPc[u] \in {"read_loop", "read_unlock"}
      <3>1. ~ReadCopy(v)
        BY <1>3, <2>2 DEF ReadCopy, MutexExclusive, Critical
      <3>2. bulk' = bulk
        BY <1>3, <3>1 DEF User, UserInside, UserLock, UserBegin, PollTest, PollWake,
           ReadFail, ReadLoopEnd, ReadUnlock, PollLock, ReadLock, PollBegin, ReadBegin,
           PollAbandon, ReadBadCount
      <3> QED
        BY <2>1, <3>2
    <2> QED
      BY <2>1, <2>2
  <1>4. ASSUME User(u) PROVE Account(u)'
    <2>0. /\ bulk \in Buf(BulkCap, Event) /\ BulkCap \in Nat \ {0}
          /\ ret[u] \in Nat \union {EPERM} /\ found[u] \in Nat
      BY Caps DEF TypeOK
    <2>00. size(bulk) \in Nat /\ (FrontIsNull(bulk) => empty(bulk))
      BY <2>0, SizeFacts
    <2> USE DEF Goto, TypeOK, EPERM, readVars
    <2>1. CASE ReadBegin(u)
      BY <2>1 DEF ReadBegin
    <2>2. CASE ReadLock(u)
      <3>1. /\ userPc[u] = "read_lock" /\ userPc'[u] = "read_loop" /\ bulk' = bulk
            /\ ret'[u] = ret[u] /\ found'[u] = size(bulk)
        BY <2>2 DEF ReadLock
      <3> QED
        BY <2>0, <2>00, <3>1
    <2>3. CASE ReadCopy(u)
      <3>1. /\ userPc[u] = "read_loop" /\ userPc'[u] = "read_loop" /\ bulk' = pop(bulk)
            /\ ret'[u] = ret[u] + 1 /\ found'[u] = found[u] /\ ~FrontIsNull(bulk)
        BY <2>3 DEF ReadCopy
      <3>2. size(pop(bulk)) = size(bulk) - 1
        BY <2>0, <3>1, PopFacts
      <3> QED
        BY <2>0, <2>00, <3>1, <3>2
    <2>4. CASE ReadFail(u)
      <3>1. /\ userPc[u] = "read_loop" /\ userPc'[u] = "read_unlock" /\ bulk' = bulk
            /\ ret'[u] = -1 /\ (FrontIsNull(bulk) \/ u \in FaultyUsers)
        BY <2>4 DEF ReadFail
      <3> QED
        BY <2>00, <3>1
    <2>5. CASE ReadLoopEnd(u)
      <3>1. /\ userPc[u] = "read_loop" /\ userPc'[u] = "read_unlock"
            /\ UNCHANGED <<bulk, ret, found>>
        BY <2>5 DEF ReadLoopEnd
      <3> QED
        BY <2>0, <2>00, <3>1
    <2>6. CASE ReadUnlock(u) \/ PollTest(u) \/ PollWake(u) \/ PollLock(u) \/ PollBegin(u)
               \/ PollAbandon(u) \/ ReadBadCount(u)
      <3>1. userPc'[u] \notin {"read_lock", "read_loop", "read_unlock"}
        BY <2>6 DEF ReadUnlock, PollTest, PollWake, PollLock, PollBegin, PollAbandon,
                    ReadBadCount
      <3> QED
        BY <3>1
    <2> QED
      BY <1>4, <2>1, <2>2, <2>3, <2>4, <2>5, <2>6 DEF User, UserInside, UserLock, UserBegin
  <1>5. CASE Isr \/ ReleaseSet \/ ReleaseWake \/ UNCHANGED vars
    <2>1. UNCHANGED <<userPc, ret, found, bulk>>
      BY <1>5 DEF Isr, IsrEnter, IsrPush, IsrPublish, IsrSchedule, ReleaseSet, ReleaseWake,
                  vars, userVars
    <2> QED
      BY <1>1, <2>1
  <1> QED
    BY <1>2, <1>3, <1>4, <1>5 DEF Next

\* For any ring, any read sizes and any number of readers beside do_work(): a
\* number read() returns is what it removed, and a failure with a good pointer
\* has emptied the ring.
THEOREM ReadsAccountForAll == Spec => []ReadAccounts
  <1>1. Init => AccountInv
    BY DEF Init, AccountInv, CountKept, ReadAccounts
  <1>2. AccountInv => ReadAccounts
    BY DEF AccountInv
  <1> QED
    BY <1>1, <1>2, NextAccount, TypeCorrect, MutualExclusion, PTL DEF Spec

\* The whole inductive invariant.
THEOREM InductiveInvariant == Spec => []IInv
  <1>1. CaptureInv => PublishReady /\ CopiedIsFront
    BY DEF CaptureInv
  <1>2. PipeInv => CaptureInv /\ PipelineOrdered
    BY DEF PipeInv
  <1>3. WaitInv => PollersQueued /\ NoLostWakeup
    BY DEF WaitInv
  <1>4. Init => WaitInv
    BY DEF Init, WaitInv, PollersQueued, NoLostWakeup, OnQueue
  <1>5. AccountInv => CountKept /\ ReadAccounts
    BY DEF AccountInv
  <1>6. Init => AccountInv
    BY DEF Init, AccountInv, CountKept, ReadAccounts
  <1> QED
    BY <1>1, <1>2, <1>3, <1>4, <1>5, <1>6, InitPipe, NextPipe, NextWait, NextAccount, TypeCorrect,
       MutualExclusion, NothingStranded, ShortReadsMetFull, PTL DEF Spec, IInv

-----------------------------------------------------------------------------
(* The driver implements the lossy stream. *)

LEMMA StepRefines ==
  TypeOK /\ PipeInv /\ [Next]_vars => [Stream!Next]_<<counter, out>>
  <1> SUFFICES ASSUME TypeOK, PipeInv, [Next]_vars
               PROVE  Stream!Next \/ UNCHANGED <<counter, out>>
    OBVIOUS
  <1>1. CASE Isr
    <2>1. out' = out
      BY <1>1, IsrFrame
    <2>2. ASSUME NEW line \in Lines, IsrEnter(line)
          PROVE  \E h \in Handlers : Stream!Raise(h)
      <3>1. HandlerOf[line] \in Handlers
        BY ConstAssumption
      <3>2. Stream!Raise(HandlerOf[line])
        BY <2>1, <2>2 DEF IsrEnter, Stream!Raise
      <3> QED
        BY <3>1, <3>2
    <2>3. CASE IsrPush \/ IsrPublish \/ IsrSchedule
      BY <2>1, <2>3 DEF IsrPush, IsrPublish, IsrSchedule
    <2> QED
      BY <1>1, <2>2, <2>3 DEF Isr, Stream!Next
  <1>2. CASE Work
    BY <1>2, WorkFrame
  <1>3. ASSUME NEW u \in Users, User(u)
        PROVE  Stream!Next \/ UNCHANGED <<counter, out>>
    <2>1. counter' = counter
      BY <1>3, UserFrame
    <2>2. CASE ReadCopy(u)
      <3> DEFINE e == FrontSlot(bulk)
      <3>1. e \in Held(bulk) /\ e \in Event /\ out' = Append(out, e)
        <4>1. bulk \in Buf(BulkCap, Event) /\ ~FrontIsNull(bulk)
              /\ out' = Append(out, FrontSlot(bulk))
          BY <2>2 DEF ReadCopy, TypeOK
        <4>2. size(bulk) \in Nat /\ size(bulk) # 0
          BY <4>1, Caps, SizeFacts
        <4>3. size(bulk) > 0
          BY <4>2
        <4>4. FrontSlot(bulk) \in Event /\ FrontSlot(bulk) \in Held(bulk)
          BY <4>1, <4>3, Caps, FrontFacts, HeldFacts
        <4> QED
          BY <4>1, <4>4
      <3> HIDE DEF e
      <3>2. e.event \in 1..counter[HandlerOf[e.button_num]]
        BY <3>1 DEF PipeInv, PipelineOrdered, InSystem
      <3>3. \A i \in 1..Len(out) : Before(out[i], e)
        BY <3>1 DEF PipeInv, PipelineOrdered, AllBefore, Delivered
      <3>4. e.button_num \in Lines
            /\ e = [button_num |-> e.button_num, event |-> e.event]
        BY <3>1 DEF Event
      <3>5. Stream!Deliver(e.button_num)
        BY <2>1, <3>1, <3>2, <3>3, <3>4 DEF Stream!Deliver, Stream!Before, Before
      <3> QED
        BY <3>4, <3>5 DEF Stream!Next
    <2>3. CASE User(u) /\ ~ReadCopy(u)
      <3>1. out' = out
        BY <2>3 DEF User, UserInside, UserLock, UserBegin, PollBegin, PollLock, PollTest,
                    PollWake, PollAbandon, ReadBadCount, ReadBegin, ReadLock, ReadFail,
                    ReadLoopEnd, ReadUnlock
      <3> QED
        BY <2>1, <3>1
    <2> QED
      BY <1>3, <2>2, <2>3
  <1>4. CASE ReleaseSet \/ ReleaseWake \/ UNCHANGED vars
    BY <1>4, ReleaseFrame, StutterFrame
  <1> QED
    BY <1>1, <1>2, <1>3, <1>4 DEF Next

\* What read() copies out, per handler, was raised and comes in increasing
\* order, never twice: the driver implements EventStream.
THEOREM ImplementsStream == Spec => StreamSpec
  <1>1. Init => Stream!Init
    BY DEF Init, Stream!Init
  <1> QED
    BY <1>1, StepRefines, InitPipe, NextPipe, TypeCorrect, PTL
       DEF Spec, StreamSpec, Stream!Spec, Stream!vars

-----------------------------------------------------------------------------
(* The driver implements the pipeline of two bounded stages. *)

pipelineVars == <<counter, Entering, Contents(capture), Moving, Contents(bulk), out>>

LEMMA IsrPipes ==
  ASSUME TypeOK, CaptureInv, Isr PROVE Pipeline!Next \/ UNCHANGED pipelineVars
  <1>0. /\ capture \in Buf(CaptureCap, Event) /\ isrEvent \in Event
        /\ CaptureCap \in Nat \ {0}
    BY Caps DEF TypeOK
  <1>1. UNCHANGED <<bulk, Contents(bulk), Moving, out>>
    BY IsrFrame DEF Moving
  <1>2. ASSUME NEW line \in Lines, IsrEnter(line) PROVE Pipeline!Raise(line)
    <2>1. Entering = <<>> /\ UNCHANGED Contents(capture)
      BY <1>2 DEF IsrEnter, Entering
    <2>2. Entering' = <<[button_num |-> line, event |-> counter[HandlerOf[line]] + 1]>>
      BY <1>2 DEF IsrEnter, Entering
    <2>3. counter' = [counter EXCEPT ![HandlerOf[line]] = @ + 1]
      BY <1>2 DEF IsrEnter
    <2> QED
      BY <1>1, <2>1, <2>2, <2>3 DEF Pipeline!Raise
  <1>3. CASE IsrPush
    <2>1. counter' = counter /\ Entering = <<isrEvent>>
      BY <1>3 DEF IsrPush, Entering
    <2>2. CASE PushOk(capture) /\ capture' = Fill(capture, isrEvent) /\ isrPc' = "publish"
      <3>1. UNCHANGED <<Entering, Contents(capture)>>
        BY <1>0, <1>3, <2>2, ContentsFill DEF IsrPush, Entering
      <3> QED
        BY <1>1, <2>1, <3>1 DEF pipelineVars
    <2>3. CASE ~PushOk(capture) /\ capture' = capture /\ isrPc' = "schedule"
      <3>1. Entering' = <<>> /\ UNCHANGED Contents(capture)
        BY <2>3 DEF Entering
      <3>2. Len(Contents(capture)) = CaptureCap - 1
        BY <1>0, <2>3, ContentsLimits
      <3>3. Entering # <<>>
        BY <2>1
      <3>4. Pipeline!Enter
        BY <1>1, <2>1, <3>1, <3>2, <3>3 DEF Pipeline!Enter
      <3> QED
        BY <3>4 DEF Pipeline!Next
    <2> QED
      BY <1>3, <2>2, <2>3 DEF IsrPush
  <1>4. CASE IsrPublish
    <2>1. /\ counter' = counter /\ Entering = <<isrEvent>> /\ Entering' = <<>>
          /\ capture' = Publish(capture)
      BY <1>4 DEF IsrPublish, Entering
    <2>2. PushOk(capture) /\ capture.slots[capture.head] = isrEvent
      BY <1>4 DEF IsrPublish, CaptureInv, PublishReady
    <2>3. Contents(capture)' = Append(Contents(capture), isrEvent)
      BY <1>0, <2>1, <2>2, ContentsPublish
    <2>4. Len(Contents(capture)) < CaptureCap - 1
      BY <1>0, <2>2, ContentsLimits
    <2>5. Entering # <<>> /\ Head(Entering) = isrEvent
      BY <2>1
    <2>6. Pipeline!Enter
      BY <1>1, <2>1, <2>3, <2>4, <2>5 DEF Pipeline!Enter
    <2> QED
      BY <2>6 DEF Pipeline!Next
  <1>5. CASE IsrSchedule
    <2>1. UNCHANGED <<counter, Entering, capture, Contents(capture)>>
      BY <1>5 DEF IsrSchedule, Entering
    <2> QED
      BY <1>1, <2>1 DEF pipelineVars
  <1> QED
    BY <1>2, <1>3, <1>4, <1>5 DEF Isr, Pipeline!Next

LEMMA WorkPipes ==
  ASSUME TypeOK, CaptureInv, Work PROVE Pipeline!Next \/ UNCHANGED pipelineVars
  <1>0. /\ capture \in Buf(CaptureCap, Event) /\ bulk \in Buf(BulkCap, Event)
        /\ workEvent \in Event /\ CaptureCap \in Nat \ {0} /\ BulkCap \in Nat \ {0}
    BY Caps DEF TypeOK
  <1>1. UNCHANGED <<counter, Entering, out>>
    BY WorkFrame DEF Entering
  <1>2. CASE WorkPop
    <2>1. /\ capture' = pop(capture) /\ workEvent' = workEvent
          /\ UNCHANGED Contents(bulk)
          /\ Moving = <<>> /\ Moving' = <<workEvent>>
      BY <1>2 DEF WorkPop, Moving
    <2>2. ~FrontIsNull(capture) /\ workEvent = FrontSlot(capture)
      BY <1>2 DEF WorkPop, CaptureInv, CopiedIsFront
    <2>3. /\ Contents(capture) # <<>> /\ workEvent = Head(Contents(capture))
          /\ Contents(capture)' = Tail(Contents(capture))
      BY <1>0, <2>1, <2>2, ContentsPop
    <2>4. Pipeline!Take
      BY <1>1, <2>1, <2>3 DEF Pipeline!Take
    <2> QED
      BY <2>4 DEF Pipeline!Next
  <1>3. CASE WorkPush
    <2>1. /\ Moving = <<workEvent>> /\ Moving' = <<>> /\ UNCHANGED Contents(capture)
      BY <1>3 DEF WorkPush, Moving
    <2>2. Moving # <<>> /\ Head(Moving) = workEvent
      BY <2>1
    <2>3. \/ /\ Len(Contents(bulk)) < BulkCap - 1
             /\ Contents(bulk)' = Append(Contents(bulk), workEvent)
          \/ /\ Len(Contents(bulk)) = BulkCap - 1
             /\ Contents(bulk)' = Contents(bulk)
      <3>1. CASE space(bulk) # 0 /\ bulk' = push(bulk, workEvent)
        <4>1. PushOk(bulk)
          BY <1>0, <3>1, ContentsLimits
        <4> QED
          BY <1>0, <3>1, <4>1, ContentsPush, ContentsLimits
      <3>2. CASE space(bulk) = 0 /\ bulk' = bulk
        <4>1. ~PushOk(bulk)
          BY <1>0, <3>2, ContentsLimits
        <4> QED
          BY <1>0, <3>2, <4>1, ContentsLimits
      <3> QED
        BY <1>3, <3>1, <3>2 DEF WorkPush
    <2>4. Pipeline!Put
      BY <1>1, <2>1, <2>2, <2>3 DEF Pipeline!Put
    <2> QED
      BY <2>4 DEF Pipeline!Next
  <1>4. CASE WorkStart \/ WorkFront \/ WorkCopy \/ WorkLock \/ WorkWake \/ WorkUnlock
    <2>1. UNCHANGED <<capture, bulk>>
      BY <1>4 DEF WorkStart, WorkFront, WorkCopy, WorkLock, WorkWake, WorkUnlock
    <2>2. UNCHANGED Moving
      BY <1>4 DEF WorkStart, WorkFront, WorkCopy, WorkLock, WorkWake, WorkUnlock, Moving
    <2> QED
      BY <1>1, <2>1, <2>2 DEF pipelineVars
  <1> QED
    BY <1>2, <1>3, <1>4 DEF Work

LEMMA UserPipes ==
  ASSUME TypeOK, NEW u \in Users, User(u)
  PROVE  Pipeline!Next \/ UNCHANGED pipelineVars
  <1>1. UNCHANGED <<counter, Entering, Contents(capture), Moving>>
    BY UserFrame DEF Entering, Moving
  <1>2. CASE ReadCopy(u)
    <2>1. /\ bulk' = pop(bulk) /\ ~FrontIsNull(bulk)
          /\ out' = Append(out, FrontSlot(bulk))
      BY <1>2 DEF ReadCopy
    <2>2. /\ Contents(bulk) # <<>> /\ FrontSlot(bulk) = Head(Contents(bulk))
          /\ Contents(bulk)' = Tail(Contents(bulk))
      BY <2>1, Caps, ContentsPop DEF TypeOK
    <2>3. Pipeline!Deliver
      BY <1>1, <2>1, <2>2 DEF Pipeline!Deliver
    <2> QED
      BY <2>3 DEF Pipeline!Next
  <1>3. CASE ~ReadCopy(u)
    <2>1. UNCHANGED <<out, bulk>>
      BY <1>3 DEF User, UserInside, UserLock, UserBegin, PollBegin, PollLock, PollTest,
                  PollWake, PollAbandon, ReadBadCount, ReadBegin, ReadLock, ReadFail,
                  ReadLoopEnd, ReadUnlock
    <2> QED
      BY <1>1, <2>1 DEF pipelineVars
  <1> QED
    BY <1>2, <1>3

LEMMA StepPipes ==
  TypeOK /\ CaptureInv /\ [Next]_vars => [Pipeline!Next]_pipelineVars
  <1> SUFFICES ASSUME TypeOK, CaptureInv, [Next]_vars
               PROVE  Pipeline!Next \/ UNCHANGED pipelineVars
    OBVIOUS
  <1>1. CASE ReleaseSet \/ ReleaseWake \/ UNCHANGED vars
    BY <1>1, ReleaseFrame, StutterFrame DEF pipelineVars, Entering, Moving
  <1> QED
    BY <1>1, IsrPipes, WorkPipes, UserPipes DEF Next

LEMMA InitPipes == Init => Pipeline!Init
  <1> SUFFICES ASSUME Init PROVE Pipeline!Init
    OBVIOUS
  <1>1. TypeOK /\ FrontIsNull(capture) /\ FrontIsNull(bulk)
    BY InitType, InitCapture
  <1>2. Contents(capture) = <<>> /\ Contents(bulk) = <<>>
    BY <1>1, Caps, ContentsLimits DEF TypeOK
  <1> QED
    BY <1>2 DEF Init, Pipeline!Init, Entering, Moving

\* The rings with their indices, the unlocked producer and consumer, the work
\* item and the mutex together do what two bounded queues and a mover between
\* them do: an event is lost only before a full stage, and none is copied,
\* overtaken or taken out of thin air.
THEOREM ImplementsPipeline == Spec => PipelineSpec
  BY InitPipes, StepPipes, InitPipe, NextPipe, TypeCorrect, PTL
     DEF Spec, PipelineSpec, Pipeline!Spec, Pipeline!vars, pipelineVars, PipeInv
=============================================================================
