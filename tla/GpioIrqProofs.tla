---------------------------- MODULE GpioIrqProofs ----------------------------
(* Theorems about GpioIrq, for any number of threads, ring sizes, periods and *)
(* interrupts: types, mutual exclusion on the bulk ring, no lost wake-up, the *)
(* pulses asked for, and the backlog that merged work runs leave.             *)
EXTENDS GpioIrq, SequenceTheorems, TLAPS

\* The timer between and within the calls: the halves of the period are right once
\* assigned, and from the cancel on nothing of an earlier call runs.
PeriodSet == period_sec = msec \div 1000 /\ period_nsec = msec % 1000

PulseInv ==
  /\ ctlPc \in {"sec", "nsec", "enable", "start"} => op = "duty"
  /\ ctlPc = "nsec" => period_sec = msec \div 1000
  /\ op = "duty" /\ ctlPc \in {"enable", "cancel", "start", "idle"} => PeriodSet
  /\ ctlPc \in {"start", "gpo", "disable", "wake"} => timer = <<>>
  /\ ctlPc = "gpo" => op \in {"set", "clear", "write"}
  /\ ctlPc \in {"disable", "wake"} => op \in {"set", "clear", "stop"}
  /\ ctlPc = "cancel" => op # "none"
  /\ ctlPc \in {"disable", "wake", "idle"} =>
       (op = "set" => gpo = 1) /\ (op = "clear" => gpo = 0)
  /\ ctlPc = "idle" => IF op = "duty" THEN timer = <<msec \div 1000, msec % 1000>>
                                      ELSE timer = <<>>

\* A thread is on the wait queue as long as it polls.
Queued == \A u \in Users : userPc[u] \in OnQueue => u \in waiters

\* The mutex has the one owner who is in a section.
InSection == {"poll_test", "read_loop", "read_unlock"}
SectionOwner ==
  /\ \A u \in Users : userPc[u] \in InSection <=> mutex = u
  /\ workPc \in {"push", "wake", "unlock"} <=> mutex = Worker

\* Two threads, or a thread and the work item, are never in a section together.
MutexExclusive ==
  \A u \in Users : userPc[u] \in InSection =>
    /\ \A v \in Users : userPc[v] \in InSection => u = v
    /\ workPc \notin {"push", "wake", "unlock"}

\* Before the first wrap of the capture ring an event in it has its run of the
\* work item ahead, or was merged.
One(b) == IF b THEN 1 ELSE 0
Backlog ==
  counter < CaptureCap =>
    /\ capture.head = counter
    /\ size(capture) = merged + One(isrPc = "schedule") + One(workPending) + One(workPc = "take")

\* Each interrupt schedules the work item once.
MergedBound == merged + One(isrPc = "schedule") <= counter

-----------------------------------------------------------------------------
(* Types *)

LEMMA PushType ==
  ASSUME NEW cap \in Nat \ {0}, NEW E, NEW buf \in Buf(cap, E), NEW e \in E
  PROVE  push(buf, e) \in Buf(cap, E)
  <1>1. buf.head \in Index(cap) /\ buf.capacity = cap
    BY DEF Buf
  <1>2. AdvanceHead(buf) \in Index(cap)
    BY <1>1 DEF AdvanceHead, Index
  <1>3. [buf.slots EXCEPT ![buf.head] = e] \in [Index(cap) -> E]
    BY <1>1 DEF Buf
  <1> QED
    BY <1>2, <1>3 DEF Buf, push

LEMMA PopType ==
  ASSUME NEW cap \in Nat \ {0}, NEW E, NEW buf \in Buf(cap, E)
  PROVE  pop(buf) \in Buf(cap, E)
  <1>1. AdvanceTail(buf) \in 0..cap
    BY DEF AdvanceTail, Buf
  <1> QED
    BY <1>1 DEF Buf, pop

LEMMA FrontType ==
  ASSUME NEW cap \in Nat \ {0}, NEW buf \in Buf(cap, Record)
  PROVE  FrontSlot(buf) \in Record
  <1>1. buf.tail # buf.capacity => buf.tail \in Index(cap)
    BY DEF Buf, Index
  <1>2. BeyondBlock \in Record
    BY DEF Record
  <1> QED
    BY <1>1, <1>2 DEF FrontSlot, Buf

LEMMA InitType == Init => TypeOK
  <1> SUFFICES ASSUME Init PROVE TypeOK
    OBVIOUS
  <1>1. ASSUME NEW cap \in Nat \ {0}
        PROVE  InitBuf(cap, [i \in Index(cap) |-> Stale]) \in Buf(cap, Record)
    <2>1. [i \in Index(cap) |-> Stale] \in [Index(cap) -> Record]
      BY DEF Record
    <2>2. 0 \in Index(cap) /\ 0 \in 0..cap
      BY DEF Index
    <2> QED
      BY <2>1, <2>2 DEF InitBuf, Buf
  <1>3. capture \in Buf(CaptureCap, Record) /\ bulk \in Buf(BulkCap, Record)
    BY <1>1, ConstAssumption DEF Init
  <1>2. /\ userPc \in [Users -> UserPcs] /\ want \in [Users -> Nat]
        /\ workEvent \in Record \union {NoEvent}
    BY DEF Init, UserPcs
  <1> QED
    <2>1. workPending \in BOOLEAN /\ poll_enabled \in BOOLEAN
      BY DEF Init
    <2>2. /\ counter \in 0..MaxEvents /\ merged \in 0..MaxEvents /\ out \in Seq(Record)
          /\ msec = 0 /\ period_sec = 0 /\ period_nsec = 0 /\ timer = <<>> /\ gpo = 0
      BY ConstAssumption DEF Init
    <2>3. /\ isrPc = "idle" /\ workPc = "idle" /\ ctlPc = "idle" /\ op = "none"
          /\ mutex = Nobody /\ waiters = {} /\ triggered = {}
      BY DEF Init
    <2> QED
      BY <1>2, <1>3, <2>1, <2>2, <2>3 DEF TypeOK

LEMMA WorkType == TypeOK /\ Work => TypeOK'
  <1> SUFFICES ASSUME TypeOK, Work PROVE TypeOK'
    OBVIOUS
  <1> USE DEF isrVars, waitVars, pulseVars, workVars, userVars
  <1>1. CASE WorkStart
    <2>1. workPending' \in BOOLEAN /\ workPc' = "take"
      BY <1>1 DEF WorkStart
    <2>2. UNCHANGED <<isrVars, waitVars, pulseVars, capture, bulk, workEvent, mutex, userVars, out>>
      BY <1>1, Zenon DEF WorkStart
    <2> QED
      BY <2>1, <2>2 DEF TypeOK
  <1>2. CASE WorkTake
    <2>1. capture' \in Buf(CaptureCap, Record)
      BY <1>2, PopType, ConstAssumption DEF WorkTake, TypeOK
    <2>2. workEvent' \in Record \union {NoEvent}
      BY <1>2, FrontType, ConstAssumption DEF WorkTake, TypeOK, Record
    <2> QED
      BY <1>2, <2>1, <2>2 DEF WorkTake, TypeOK
  <1>3. CASE WorkLock
    BY <1>3 DEF WorkLock, TypeOK
  <1>4. CASE WorkPush
    <2>1. bulk' \in Buf(BulkCap, Record)
      BY <1>4, PushType, ConstAssumption DEF WorkPush, TypeOK
    <2> QED
      BY <1>4, <2>1 DEF WorkPush, TypeOK
  <1>5. CASE WorkWake
    BY <1>5 DEF WorkWake, TypeOK
  <1>6. CASE WorkUnlock
    BY <1>6 DEF WorkUnlock, TypeOK
  <1> QED
    BY <1>1, <1>2, <1>3, <1>4, <1>5, <1>6 DEF Work

LEMMA UserType == ASSUME TypeOK, NEW u \in Users, User(u) PROVE TypeOK'
  <1> USE DEF kernelVars, isrVars, workVars, pulseVars, Goto, UserPcs
  <1>1. CASE PollBegin(u)
    BY <1>1 DEF PollBegin, TypeOK
  <1>2. CASE UserLock(u)
    BY <1>2 DEF UserLock, TypeOK
  <1>3. CASE PollTest(u)
    <2>1. /\ userPc' \in [Users -> UserPcs] /\ waiters' \subseteq Users
          /\ triggered' \subseteq waiters' /\ mutex' = Nobody
      BY <1>3 DEF PollTest, TypeOK
    <2>2. UNCHANGED <<kernelVars, bulk, want, out>>
      BY <1>3 DEF PollTest
    <2> QED
      BY <2>1, <2>2 DEF TypeOK
  <1>4. CASE PollWake(u)
    BY <1>4 DEF PollWake, TypeOK
  <1>5. CASE PollAbandon(u)
    BY <1>5 DEF PollAbandon, TypeOK
  <1>6. CASE ReadBegin(u)
    <2>1. want' \in [Users -> Nat]
      BY <1>6, ConstAssumption DEF ReadBegin, TypeOK
    <2> QED
      BY <1>6, <2>1 DEF ReadBegin, TypeOK
  <1>7. CASE ReadCopy(u)
    <2>1. bulk' \in Buf(BulkCap, Record)
      BY <1>7, PopType, ConstAssumption DEF ReadCopy, TypeOK
    <2>2. out' \in Seq(Record)
      <3>1. FrontSlot(bulk) \in Record
        BY FrontType, ConstAssumption DEF TypeOK
      <3> QED
        BY <1>7, <3>1, AppendProperties DEF ReadCopy, TypeOK
    <2>3. want' \in [Users -> Nat]
      BY <1>7 DEF ReadCopy, TypeOK
    <2> QED
      BY <1>7, <2>1, <2>2, <2>3 DEF ReadCopy, TypeOK
  <1>8. CASE ReadUnlock(u)
    BY <1>8 DEF ReadUnlock, TypeOK
  <1>9. CASE ReadLoopEnd(u)
    BY <1>9 DEF ReadLoopEnd, TypeOK
  <1> QED
    BY <1>1, <1>2, <1>3, <1>4, <1>5, <1>6, <1>7, <1>8, <1>9 DEF User

LEMMA CtlType == TypeOK /\ Ctl => TypeOK'
  <1> SUFFICES ASSUME TypeOK, Ctl PROVE TypeOK'
    OBVIOUS
  <1> USE DEF pathVars, isrVars, workVars, waitVars, userVars
  <1>1. CASE CtlBegin
    BY <1>1 DEF CtlBegin, TypeOK
  <1>2. CASE CtlCancel
    BY <1>2 DEF CtlCancel, TypeOK
  <1>3. CASE CtlGpo
    BY <1>3 DEF CtlGpo, TypeOK
  <1>4. CASE CtlDisable
    <2>1. poll_enabled' \in BOOLEAN
      BY <1>4 DEF CtlDisable
    <2> QED
      BY <1>4, <2>1 DEF CtlDisable, TypeOK
  <1>5. CASE CtlWake
    BY <1>5 DEF CtlWake, TypeOK
  <1>6. CASE CtlSec
    <2>1. msec \in Nat
      BY ConstAssumption DEF TypeOK
    <2>2. period_sec' \in Nat
      BY <1>6, <2>1 DEF CtlSec
    <2> QED
      BY <1>6, <2>2 DEF CtlSec, TypeOK
  <1>7. CASE CtlNsec
    <2>1. msec \in Nat
      BY ConstAssumption DEF TypeOK
    <2>2. period_nsec' \in Int
      BY <1>7, <2>1 DEF CtlNsec, TypeOK
    <2> QED
      BY <1>7, <2>2 DEF CtlNsec, TypeOK
  <1>8. CASE CtlEnable
    <2>1. poll_enabled' \in BOOLEAN
      BY <1>8 DEF CtlEnable
    <2> QED
      BY <1>8, <2>1 DEF CtlEnable, TypeOK
  <1>9. CASE CtlStart
    BY <1>9 DEF CtlStart, TypeOK
  <1> QED
    BY <1>1, <1>2, <1>3, <1>4, <1>5, <1>6, <1>7, <1>8, <1>9 DEF Ctl

LEMMA IsrType == TypeOK /\ MergedBound /\ Isr => TypeOK' /\ MergedBound'
  <1> SUFFICES ASSUME TypeOK, MergedBound, Isr PROVE TypeOK' /\ MergedBound'
    OBVIOUS
  <1> USE ConstAssumption DEF workVars, waitVars, pulseVars, userVars, MergedBound, One
  <1>1. CASE IsrCapture
    <2>1. counter \in Event /\ counter' \in 0..MaxEvents /\ MergedBound'
      BY <1>1 DEF IsrCapture, TypeOK, Event
    <2>2. capture' \in Buf(CaptureCap, Record)
      BY <1>1, <2>1, PushType DEF IsrCapture, TypeOK, Record
    <2> QED
      BY <1>1, <2>1, <2>2 DEF IsrCapture, TypeOK
  <1>2. CASE IsrSchedule
    <2>1. workPending' \in BOOLEAN
      BY <1>2 DEF IsrSchedule
    <2>2. counter' = counter /\ isrPc = "schedule" /\ isrPc' = "idle"
      BY <1>2 DEF IsrSchedule
    <2>3. merged' \in {merged, merged + 1}
      BY <1>2 DEF IsrSchedule
    <2>4. merged' \in 0..MaxEvents /\ MergedBound'
      <3>1. counter \in Nat /\ MaxEvents \in Nat /\ counter <= MaxEvents /\ merged \in Nat
        BY DEF TypeOK
      <3>2. merged + 1 <= counter
        BY <2>2
      <3>3. merged' \in Nat /\ merged' <= counter
        BY <2>3, <3>1, <3>2
      <3>4. merged' \in 0..MaxEvents
        BY <3>1, <3>3
      <3>5. One((isrPc = "schedule")') = 0
        BY <2>2
      <3>6. merged' + One((isrPc = "schedule")') <= counter'
        BY <2>2, <3>3, <3>5
      <3> QED
        BY <3>4, <3>6
    <2> QED
      BY <1>2, <2>1, <2>2, <2>4 DEF IsrSchedule, TypeOK
  <1> QED
    BY <1>1, <1>2 DEF Isr

LEMMA TimerType == TypeOK /\ TimerFires => TypeOK'
  BY DEF TypeOK, TimerFires, pathVars, isrVars, workVars, waitVars, userVars

\* What the other actors leave alone of the interrupt path
LEMMA PathKept ==
  ASSUME (\E u \in Users : User(u)) \/ Ctl \/ TimerFires
  PROVE  UNCHANGED <<counter, isrPc, merged, capture, workPending, workPc, workEvent>>
  <1> USE DEF kernelVars, pathVars, isrVars, workVars
  <1>1. ASSUME NEW u \in Users, User(u)
        PROVE  UNCHANGED <<counter, isrPc, merged, capture, workPending, workPc, workEvent>>
    BY <1>1 DEF User, PollBegin, UserLock, PollTest, PollWake, PollAbandon, ReadBegin,
       ReadCopy, ReadLoopEnd, ReadUnlock
  <1>2. Ctl => UNCHANGED <<counter, isrPc, merged, capture, workPending, workPc, workEvent>>
    BY DEF Ctl, CtlBegin, CtlCancel, CtlGpo, CtlDisable, CtlWake, CtlSec, CtlNsec,
       CtlEnable, CtlStart
  <1>3. TimerFires => UNCHANGED <<counter, isrPc, merged, capture, workPending, workPc, workEvent>>
    BY DEF TimerFires
  <1> QED
    BY <1>1, <1>2, <1>3

LEMMA InitMerged == Init => MergedBound
  BY DEF Init, MergedBound, One

LEMMA NextType == TypeOK /\ MergedBound /\ [Next]_vars => TypeOK' /\ MergedBound'
  <1> SUFFICES ASSUME TypeOK, MergedBound, [Next]_vars PROVE TypeOK' /\ MergedBound'
    OBVIOUS
  <1>1. CASE UNCHANGED vars
    BY <1>1 DEF vars, isrVars, workVars, waitVars, pulseVars, userVars, TypeOK, MergedBound, One
  <1>2. CASE Isr
    BY <1>2, IsrType
  <1>3. CASE Work
    <2>1. UNCHANGED <<counter, isrPc, merged>>
      BY <1>3 DEF Work, WorkStart, WorkTake, WorkLock, WorkPush, WorkWake, WorkUnlock, isrVars
    <2> QED
      BY <1>3, <2>1, WorkType DEF MergedBound, One
  <1>4. CASE (\E u \in Users : User(u)) \/ Ctl \/ TimerFires
    <2>1. MergedBound'
      BY <1>4, PathKept DEF MergedBound, One
    <2> QED
      BY <1>4, <2>1, UserType, CtlType, TimerType
  <1> QED
    BY <1>1, <1>2, <1>3, <1>4 DEF Next

\* Every variable keeps its type; heads and tails stay within their ring, or for a
\* tail one past its end.
THEOREM TypeCorrect == Spec => [](TypeOK /\ MergedBound)
  <1>1. Init => TypeOK /\ MergedBound
    BY InitType, InitMerged
  <1> QED
    BY <1>1, NextType, PTL DEF Spec

-----------------------------------------------------------------------------
(* The bulk ring and its waiters *)

LEMMA InitSections == Init => SectionOwner /\ Queued
  BY ConstAssumption DEF Init, SectionOwner, Queued, InSection, OnQueue

LEMMA UserSections ==
  ASSUME TypeOK, SectionOwner, Queued, NEW u \in Users, User(u)
  PROVE  SectionOwner' /\ Queued'
  <1> USE ConstAssumption DEF SectionOwner, Queued, InSection, OnQueue, Goto, kernelVars, workVars
  <1>1. userPc \in [Users -> UserPcs]
    BY DEF TypeOK
  <1>2. CASE PollBegin(u)
    BY <1>1, <1>2 DEF PollBegin
  <1>3. CASE UserLock(u)
    BY <1>1, <1>3 DEF UserLock
  <1>4. CASE PollTest(u)
    BY <1>1, <1>4 DEF PollTest
  <1>5. CASE PollWake(u)
    BY <1>1, <1>5 DEF PollWake
  <1>6. CASE PollAbandon(u)
    BY <1>1, <1>6 DEF PollAbandon
  <1>7. CASE ReadBegin(u)
    BY <1>1, <1>7 DEF ReadBegin
  <1>8. CASE ReadCopy(u)
    BY <1>1, <1>8 DEF ReadCopy
  <1>9. CASE ReadUnlock(u)
    BY <1>1, <1>9 DEF ReadUnlock
  <1>10. CASE ReadLoopEnd(u)
    BY <1>1, <1>10 DEF ReadLoopEnd
  <1> QED
    BY <1>2, <1>3, <1>4, <1>5, <1>6, <1>7, <1>8, <1>9, <1>10 DEF User

LEMMA WorkSections == SectionOwner /\ Queued /\ Work => SectionOwner' /\ Queued'
  <1> USE ConstAssumption DEF SectionOwner, Queued, InSection, waitVars, userVars
  <1> QED
    BY DEF Work, WorkStart, WorkTake, WorkLock, WorkPush, WorkWake, WorkUnlock

LEMMA CtlSections == SectionOwner /\ Queued /\ (Ctl \/ TimerFires) => SectionOwner' /\ Queued'
  <1> USE DEF SectionOwner, Queued, pathVars, workVars, waitVars, userVars
  <1> QED
    BY DEF Ctl, CtlBegin, CtlCancel, CtlGpo, CtlDisable, CtlWake, CtlSec, CtlNsec,
       CtlEnable, CtlStart, TimerFires

LEMMA NextSections ==
  TypeOK /\ SectionOwner /\ Queued /\ [Next]_vars => SectionOwner' /\ Queued'
  <1> SUFFICES ASSUME TypeOK, SectionOwner, Queued, [Next]_vars PROVE SectionOwner' /\ Queued'
    OBVIOUS
  <1>1. CASE UNCHANGED vars
    BY <1>1 DEF vars, workVars, waitVars, userVars, SectionOwner, Queued
  <1>2. CASE Isr
    BY <1>2 DEF Isr, IsrCapture, IsrSchedule, workVars, waitVars, userVars, SectionOwner, Queued
  <1> QED
    BY <1>1, <1>2, UserSections, WorkSections, CtlSections DEF Next

\* A pusher wakes before it leaves, a disabled device before the call ends; who
\* sleeps is on the queue they wake.
LEMMA NextWakeup ==
  TypeOK /\ SectionOwner /\ Queued /\ NoLostWakeup /\ [Next]_vars => NoLostWakeup'
  <1> SUFFICES ASSUME TypeOK, SectionOwner, Queued, NoLostWakeup, [Next]_vars PROVE NoLostWakeup'
    OBVIOUS
  <1> USE DEF NoLostWakeup
  <1>1. CASE UNCHANGED vars
    BY <1>1 DEF vars, workVars, waitVars, pulseVars, userVars, empty
  <1>2. CASE Isr
    BY <1>2 DEF Isr, IsrCapture, IsrSchedule, workVars, waitVars, pulseVars, userVars, empty
  <1>3. CASE Work
    <2> USE DEF waitVars, pulseVars, userVars, Queued, OnQueue
    <2>1. CASE WorkStart \/ WorkTake \/ WorkLock
      BY <1>3, <2>1 DEF WorkStart, WorkTake, WorkLock, empty
    <2>2. CASE WorkPush
      BY <2>2 DEF WorkPush, empty
    <2>3. CASE WorkWake
      BY <2>3 DEF WorkWake, empty
    <2>4. CASE WorkUnlock
      BY <2>4 DEF WorkUnlock, empty
    <2> QED
      BY <1>3, <2>1, <2>2, <2>3, <2>4 DEF Work
  <1>4. ASSUME NEW u \in Users, User(u) PROVE NoLostWakeup'
    <2> USE DEF Goto, kernelVars, workVars, pulseVars
    <2>1. userPc \in [Users -> UserPcs]
      BY DEF TypeOK
    <2>2. CASE PollBegin(u)
      BY <2>1, <2>2 DEF PollBegin, empty
    <2>3. CASE UserLock(u)
      BY <2>1, <2>3 DEF UserLock, empty
    <2>4. CASE PollTest(u)
      BY <2>1, <2>4 DEF PollTest, empty
    <2>5. CASE PollWake(u)
      BY <2>1, <2>5 DEF PollWake, empty
    <2>6. CASE PollAbandon(u)
      BY <2>1, <2>6 DEF PollAbandon, empty
    <2>7. CASE ReadBegin(u)
      BY <2>1, <2>7 DEF ReadBegin, empty
    <2>8. CASE ReadCopy(u) \/ ReadLoopEnd(u)
      <3>1. ~FrontIsNull(bulk) => ~empty(bulk)
        <4>1. bulk.head \in Int /\ bulk.tail \in Int
          BY ConstAssumption DEF TypeOK, Buf, Index
        <4> QED
          BY <4>1 DEF FrontIsNull, empty, size
      <3>2. bulk' = bulk \/ ~empty(bulk)
        BY <2>8, <3>1 DEF ReadCopy, ReadLoopEnd
      <3>3. \A v \in Users : userPc'[v] = "poll_sleep" => userPc[v] = "poll_sleep"
        BY <2>1, <2>8 DEF ReadCopy, ReadLoopEnd
      <3>4. UNCHANGED <<triggered, poll_enabled, ctlPc, workPc>>
        BY <2>8 DEF ReadCopy, ReadLoopEnd
      <3> QED
        BY <3>2, <3>3, <3>4
    <2>9. CASE ReadUnlock(u)
      BY <2>1, <2>9 DEF ReadUnlock, empty
    <2> QED
      BY <1>4, <2>2, <2>3, <2>4, <2>5, <2>6, <2>7, <2>8, <2>9 DEF User
  <1>5. CASE Ctl
    <2> USE DEF pathVars, workVars, waitVars, userVars, Queued, OnQueue, empty
    <2>1. CASE CtlBegin \/ CtlCancel \/ CtlGpo \/ CtlSec \/ CtlNsec \/ CtlEnable \/ CtlStart
      BY <2>1 DEF CtlBegin, CtlCancel, CtlGpo, CtlSec, CtlNsec, CtlEnable, CtlStart
    <2>2. CASE CtlDisable
      BY <2>2 DEF CtlDisable
    <2>3. CASE CtlWake
      BY <2>3 DEF CtlWake
    <2> QED
      BY <1>5, <2>1, <2>2, <2>3 DEF Ctl
  <1>6. CASE TimerFires
    BY <1>6 DEF TimerFires, pathVars, workVars, waitVars, userVars, empty
  <1> QED
    BY <1>1, <1>2, <1>3, <1>4, <1>5, <1>6 DEF Next

\* Worker, readers and pollers exclude each other on the bulk ring.
THEOREM MutualExclusion == Spec => []MutexExclusive
  <1>1. SectionOwner => MutexExclusive
    BY ConstAssumption DEF SectionOwner, MutexExclusive
  <1> QED
    BY <1>1, TypeCorrect, InitSections, NextSections, PTL DEF Spec

\* No thread sleeps in poll() through what it waits for.
THEOREM WakeupsNotLost == Spec => []NoLostWakeup
  <1>1. Init => NoLostWakeup
    BY DEF Init, NoLostWakeup
  <1> QED
    BY <1>1, TypeCorrect, InitSections, NextSections, NextWakeup, PTL DEF Spec

-----------------------------------------------------------------------------
(* The pulse *)

\* The second half of the period is what the first leaves of it.
LEMMA Halves == ASSUME NEW m \in Nat PROVE m - (m \div 1000) * 1000 = m % 1000
  OBVIOUS

LEMMA NextPulse == TypeOK /\ PulseInv /\ [Next]_vars => PulseInv'
  <1> SUFFICES ASSUME TypeOK, PulseInv, [Next]_vars PROVE PulseInv'
    OBVIOUS
  <1> USE DEF PulseInv, PeriodSet
  <1>1. CASE UNCHANGED pulseVars
    BY <1>1 DEF pulseVars
  <1>2. CASE CtlBegin
    BY <1>2 DEF CtlBegin
  <1>3. CASE CtlCancel
    BY <1>3 DEF CtlCancel, TypeOK
  <1>4. CASE CtlGpo
    BY <1>4 DEF CtlGpo
  <1>5. CASE CtlDisable
    BY <1>5 DEF CtlDisable
  <1>6. CASE CtlWake
    BY <1>6 DEF CtlWake
  <1>7. CASE CtlSec
    BY <1>7 DEF CtlSec
  <1>8. CASE CtlNsec
    <2>1. msec \in Nat
      BY ConstAssumption DEF TypeOK
    <2>2. period_nsec' = msec % 1000
      BY <1>8, <2>1, Halves DEF CtlNsec
    <2> QED
      BY <1>8, <2>2 DEF CtlNsec
  <1>9. CASE CtlEnable
    BY <1>9 DEF CtlEnable
  <1>10. CASE CtlStart
    BY <1>10 DEF CtlStart
  <1>11. CASE TimerFires
    BY <1>11 DEF TimerFires
  <1>12. (Isr \/ Work \/ \E u \in Users : User(u)) => UNCHANGED pulseVars
    BY DEF Isr, IsrCapture, IsrSchedule, Work, WorkStart, WorkTake, WorkLock, WorkPush,
       WorkWake, WorkUnlock, User, PollBegin, UserLock, PollTest, PollWake, PollAbandon,
       ReadBegin, ReadCopy, ReadLoopEnd, ReadUnlock, kernelVars
  <1> QED
    BY <1>1, <1>2, <1>3, <1>4, <1>5, <1>6, <1>7, <1>8, <1>9, <1>10, <1>11, <1>12 DEF Next, Ctl, vars

\* Between calls the timer runs with the period asked for, and only then.
THEOREM PulsesAsAsked == Spec => []PulseAsAsked
  <1>1. Init => PulseInv
    BY DEF Init, PulseInv, PeriodSet
  <1>2. TypeOK /\ PulseInv => PulseAsAsked
    BY DEF PulseInv, PulseAsAsked
  <1> QED
    BY <1>1, <1>2, TypeCorrect, NextPulse, PTL DEF Spec

-----------------------------------------------------------------------------
(* The backlog *)

LEMMA NextBacklog == TypeOK /\ MergedBound /\ Backlog /\ [Next]_vars => Backlog'
  <1> SUFFICES ASSUME TypeOK, MergedBound, Backlog, [Next]_vars, (counter < CaptureCap)'
               PROVE  /\ capture'.head = counter'
                      /\ size(capture') = merged' + One((isrPc = "schedule")')
                           + One(workPending') + One((workPc = "take")')
    BY DEF Backlog
  <1> USE DEF One, size
  <1>1. /\ counter \in Nat /\ merged \in Nat /\ CaptureCap \in Nat
        /\ capture.capacity = CaptureCap /\ capture.tail \in Nat
        /\ capture \in Buf(CaptureCap, Record) /\ workPending \in BOOLEAN
    BY ConstAssumption DEF TypeOK, Buf
  <1>2. CASE UNCHANGED <<counter, isrPc, merged, capture, workPending, workPc>>
    BY <1>2 DEF Backlog
  <1>3. CASE IsrCapture
    <2>1. /\ capture.head = counter /\ capture.tail <= capture.head
          /\ counter' = counter + 1 /\ counter + 1 < CaptureCap
      BY <1>1, <1>3 DEF Backlog, IsrCapture
    <2>2. space(capture) # 0 /\ AdvanceHead(capture) = counter + 1
      BY <1>1, <2>1 DEF space, AdvanceHead
    <2>3. capture'.head = counter + 1 /\ capture'.tail = capture.tail
      BY <1>1, <1>3, <2>2 DEF IsrCapture, push, PushOk, Buf
    <2> QED
      BY <1>1, <1>3, <2>1, <2>3 DEF Backlog, IsrCapture, workVars
  <1>4. CASE IsrSchedule
    BY <1>1, <1>4 DEF Backlog, IsrSchedule, workVars
  <1>5. CASE WorkStart
    BY <1>1, <1>5 DEF Backlog, WorkStart, isrVars
  <1>6. CASE WorkTake
    <2>1. /\ capture.head = counter /\ capture.tail < capture.head /\ counter < CaptureCap
          /\ UNCHANGED <<counter, isrPc, merged, workPending>> /\ workPc' = "lock"
      BY <1>1, <1>6 DEF Backlog, WorkTake, isrVars
    <2>2. space(capture) # 0 /\ ~FrontIsNull(capture) /\ AdvanceTail(capture) = capture.tail + 1
      BY <1>1, <2>1 DEF space, FrontIsNull, AdvanceTail
    <2>3. capture'.head = capture.head /\ capture'.tail = capture.tail + 1
      BY <1>1, <1>6, <2>2 DEF WorkTake, pop, Buf
    <2> QED
      BY <1>1, <1>6, <2>1, <2>3 DEF Backlog, WorkTake
  <1>7. CASE WorkLock \/ WorkPush \/ WorkWake \/ WorkUnlock
    BY <1>1, <1>7 DEF Backlog, WorkLock, WorkPush, WorkWake, WorkUnlock, isrVars
  <1>8. CASE UNCHANGED vars
    BY <1>2, <1>8 DEF vars, isrVars, workVars
  <1>9. CASE (\E u \in Users : User(u)) \/ Ctl \/ TimerFires
    BY <1>2, <1>9, PathKept
  <1> QED
    BY <1>3, <1>4, <1>5, <1>6, <1>7, <1>8, <1>9 DEF Next, Isr, Work

\* Until the capture ring wraps, every merged work run leaves one event behind.
THEOREM BacklogOfMerges == Spec => []BacklogIsMerges
  <1>1. Init => Backlog
    BY ConstAssumption DEF Init, Backlog, InitBuf, size, One
  <1>2. TypeOK /\ Backlog => BacklogIsMerges
    BY DEF TypeOK, Backlog, BacklogIsMerges, One
  <1> QED
    BY <1>1, <1>2, TypeCorrect, NextBacklog, PTL DEF Spec

-----------------------------------------------------------------------------
(* What do_work() obtains from the capture ring *)

\* In the first lap the slot of every interrupt holds its event.
FirstLap ==
  counter < CaptureCap =>
    /\ \A i \in 0..(counter - 1) : capture.slots[i] = i
    /\ workPc \in {"lock", "push", "wake"} => workEvent \in Event

LEMMA NextFirstLap ==
  TypeOK /\ MergedBound /\ Backlog /\ FirstLap /\ [Next]_vars => FirstLap'
  <1> SUFFICES ASSUME TypeOK, MergedBound, Backlog, FirstLap, [Next]_vars,
                      (counter < CaptureCap)'
               PROVE  /\ \A i \in 0..(counter' - 1) : capture'.slots[i] = i
                      /\ workPc' \in {"lock", "push", "wake"} => workEvent' \in Event
    BY DEF FirstLap
  <1>1. /\ counter \in Nat /\ counter <= MaxEvents /\ merged \in Nat /\ CaptureCap \in Nat
        /\ capture.capacity = CaptureCap /\ capture.tail \in Nat
        /\ capture.slots \in [0..(CaptureCap - 1) -> Record]
        /\ capture \in Buf(CaptureCap, Record) /\ MaxEvents \in Nat
    BY ConstAssumption DEF TypeOK, Buf, Index
  <1>2. CASE UNCHANGED <<counter, capture, workPc, workEvent>>
    BY <1>2 DEF FirstLap
  <1>3. CASE IsrCapture
    <2>1. /\ capture.head = counter /\ capture.tail <= capture.head
          /\ counter' = counter + 1 /\ counter + 1 < CaptureCap
          /\ UNCHANGED <<workPc, workEvent>>
      BY <1>1, <1>3 DEF Backlog, IsrCapture, size, One, workVars
    <2>2. PushOk(capture)
      BY <1>1, <2>1 DEF PushOk, space
    <2>3. capture'.slots = [capture.slots EXCEPT ![counter] = counter]
      BY <1>1, <1>3, <2>1, <2>2 DEF IsrCapture, push, Buf
    <2>4. \A i \in 0..(counter - 1) : capture.slots[i] = i
      BY <1>1, <2>1 DEF FirstLap
    <2>5. ASSUME NEW i \in 0..(counter' - 1) PROVE capture'.slots[i] = i
      BY <1>1, <2>1, <2>3, <2>4
    <2> QED
      BY <1>1, <2>1, <2>5 DEF FirstLap
  <1>4. CASE WorkTake
    <2>1. /\ capture.head = counter /\ capture.tail < capture.head /\ counter < CaptureCap
          /\ counter' = counter
      BY <1>1, <1>4 DEF Backlog, WorkTake, isrVars, size, One, TypeOK
    <2>2. space(capture) # 0 /\ ~FrontIsNull(capture)
      BY <1>1, <2>1 DEF space, FrontIsNull, size
    <2>3. capture'.slots = capture.slots /\ workEvent' = capture.slots[capture.tail]
      BY <1>1, <1>4, <2>1, <2>2 DEF WorkTake, pop, FrontSlot, Buf
    <2>4. workEvent' = capture.tail
      BY <1>1, <2>1, <2>3 DEF FirstLap
    <2>5. workEvent' \in Event
      BY <1>1, <2>1, <2>4 DEF Event
    <2> QED
      BY <2>1, <2>3, <2>5 DEF FirstLap
  <1>5. CASE IsrSchedule \/ WorkStart \/ WorkLock \/ WorkPush \/ WorkWake \/ WorkUnlock
    <2>1. /\ UNCHANGED <<counter, capture, workEvent>>
          /\ workPc' \in {"lock", "push", "wake"} => workPc \in {"lock", "push", "wake"}
      BY <1>5 DEF IsrSchedule, WorkStart, WorkLock, WorkPush, WorkWake, WorkUnlock, isrVars,
         workVars
    <2> QED
      BY <2>1 DEF FirstLap
  <1>6. CASE (\E u \in Users : User(u)) \/ Ctl \/ TimerFires
    BY <1>2, <1>6, PathKept
  <1>7. CASE UNCHANGED vars
    BY <1>2, <1>7 DEF vars, isrVars, workVars
  <1> QED
    BY <1>3, <1>4, <1>5, <1>6, <1>7 DEF Next, Isr, Work

\* For any ring sizes: while there have been fewer interrupts than the capture ring
\* has slots, every run of do_work() has obtained an event, so nothing that was never
\* captured is pushed.
THEOREM FirstLapObtains == Spec => []ObtainedInFirstLap
  <1>1. Init => Backlog /\ FirstLap
    BY ConstAssumption DEF Init, Backlog, FirstLap, InitBuf, size, One
  <1>2. FirstLap => ObtainedInFirstLap
    BY DEF FirstLap, ObtainedInFirstLap
  <1> QED
    BY <1>1, <1>2, TypeCorrect, NextBacklog, NextFirstLap, PTL DEF Spec

\* A capture ring without space() stays as it is for good.
THEOREM FullCaptureStays == Spec => CaptureFullForGood
  <1>1. [Next]_vars => [space(capture) = 0 => UNCHANGED capture]_vars
    <2> SUFFICES ASSUME [Next]_vars, space(capture) = 0 PROVE UNCHANGED capture
      OBVIOUS
    <2>1. CASE Isr
      BY <2>1 DEF Isr, IsrCapture, IsrSchedule, push, PushOk
    <2>2. CASE Work
      BY <2>2 DEF Work, WorkStart, WorkTake, WorkLock, WorkPush, WorkWake, WorkUnlock
    <2>3. CASE (\E u \in Users : User(u)) \/ Ctl \/ TimerFires
      BY <2>3, PathKept
    <2> QED
      BY <2>1, <2>2, <2>3 DEF Next, vars
  <1> QED
    BY <1>1, PTL DEF Spec, CaptureFullForGood

-----------------------------------------------------------------------------
(* The order of the records *)

\* The slots a ring has yet to show, and which of two it shows first
Live(buf) ==
  IF buf.tail <= buf.head THEN buf.tail .. (buf.head - 1)
  ELSE (buf.tail .. (buf.capacity - 1)) \union (0 .. (buf.head - 1))
Earlier(buf, i, j) ==
  IF i < buf.tail <=> j < buf.tail THEN i < j ELSE j < buf.tail

\* The captured events among them are in order.
Events(buf) == {buf.slots[i] : i \in Live(buf)} \intersect Event
Ordered(buf) ==
  \A i, j \in Live(buf) :
    Earlier(buf, i, j) /\ buf.slots[i] \in Event /\ buf.slots[j] \in Event
      => buf.slots[i] < buf.slots[j]

LEMMA LiveFacts ==
  ASSUME NEW cap \in Nat \ {0}, NEW buf \in Buf(cap, Record)
  PROVE  /\ buf.capacity = cap /\ buf.head \in 0..(cap - 1) /\ buf.tail \in 0..cap
         /\ buf.slots \in [Index(cap) -> Record]
         /\ Live(buf) \subseteq Index(cap) /\ buf.head \notin Live(buf)
  BY DEF Buf, Index, Live

\* push() adds its element at the end, or, where the head wraps onto the tail, loses all.
LEMMA PushOrder ==
  ASSUME NEW cap \in Nat \ {0}, NEW buf \in Buf(cap, Record), NEW n \in Record,
         Ordered(buf), n \in Event => \A x \in Events(buf) : x < n
  PROVE  /\ Ordered(push(buf, n)) /\ Events(push(buf, n)) \subseteq Events(buf) \union {n}
         /\ push(buf, n).tail = buf.tail
  <1> DEFINE new == push(buf, n)
  <1>1. CASE ~PushOk(buf)
    BY <1>1 DEF push
  <1>2. CASE PushOk(buf)
    <2>1. /\ buf.capacity = cap /\ buf.head \in 0..(cap - 1) /\ buf.tail \in 0..cap
          /\ buf.slots \in [Index(cap) -> Record]
          /\ Live(buf) \subseteq Index(cap) /\ buf.head \notin Live(buf)
      BY LiveFacts
    <2>2. /\ new.capacity = cap /\ new.tail = buf.tail /\ new.head = AdvanceHead(buf)
          /\ new.slots = [buf.slots EXCEPT ![buf.head] = n]
      BY <1>2, <2>1 DEF push, Buf
    <2> HIDE DEF new
    <2>3. Live(new) \subseteq Live(buf) \union {buf.head}
      BY <1>2, <2>1, <2>2 DEF Live, AdvanceHead, PushOk, space
    <2>4. \A i \in Live(buf) : new.slots[i] = buf.slots[i]
      BY <2>1, <2>2
    <2>5. buf.head \in Index(cap) /\ new.slots[buf.head] = n
      BY <2>1, <2>2 DEF Index
    <2>6. \A j \in Live(new) : ~Earlier(new, buf.head, j)
      BY <1>2, <2>1, <2>2 DEF Live, AdvanceHead, PushOk, space, Earlier
    <2>7. \A i, j \in Live(buf) : Earlier(new, i, j) => Earlier(buf, i, j)
      BY <2>2 DEF Earlier
    <2>8. Ordered(new)
      <3> SUFFICES ASSUME NEW i \in Live(new), NEW j \in Live(new), Earlier(new, i, j),
                          new.slots[i] \in Event, new.slots[j] \in Event
                   PROVE  new.slots[i] < new.slots[j]
        BY DEF Ordered
      <3>1. i \in Live(buf) /\ new.slots[i] = buf.slots[i]
        BY <2>3, <2>4, <2>6
      <3>2. CASE j = buf.head
        BY <2>5, <3>1, <3>2 DEF Events
      <3>3. CASE j # buf.head
        BY <2>3, <2>4, <2>7, <3>1, <3>3 DEF Ordered
      <3> QED
        BY <3>2, <3>3
    <2>9. Events(new) \subseteq Events(buf) \union {n}
      BY <2>3, <2>4, <2>5 DEF Events
    <2> QED
      BY <2>2, <2>8, <2>9 DEF new
  <1> QED
    BY <1>1, <1>2

\* pop() takes the first event, or the element past the block.
LEMMA PopOrder ==
  ASSUME NEW cap \in Nat \ {0}, NEW buf \in Buf(cap, Record), ~FrontIsNull(buf),
         Ordered(buf), BeyondBlock \notin Event
  PROVE  /\ Ordered(pop(buf)) /\ Events(pop(buf)) \subseteq Events(buf)
         /\ FrontSlot(buf) \in Event => /\ FrontSlot(buf) \in Events(buf)
                                        /\ \A x \in Events(pop(buf)) : FrontSlot(buf) < x
  <1> DEFINE new == pop(buf)
  <1>1. /\ buf.capacity = cap /\ buf.head \in 0..(cap - 1) /\ buf.tail \in 0..cap
        /\ buf.slots \in [Index(cap) -> Record]
        /\ Live(buf) \subseteq Index(cap) /\ buf.tail # buf.head
    BY LiveFacts DEF FrontIsNull, size
  <1>2. /\ new.capacity = cap /\ new.head = buf.head /\ new.slots = buf.slots
        /\ new.tail = IF buf.tail = cap THEN 0 ELSE buf.tail + 1
    BY <1>1 DEF pop, AdvanceTail, Buf
  <1> HIDE DEF new
  <1>3. Live(new) \subseteq Live(buf)
    BY <1>1, <1>2 DEF Live
  <1>4. \A i, j \in Live(new) : Earlier(new, i, j) => Earlier(buf, i, j)
    BY <1>1, <1>2 DEF Live, Earlier
  <1>5. Ordered(new) /\ Events(new) \subseteq Events(buf)
    BY <1>2, <1>3, <1>4 DEF Ordered, Events
  <1>6. buf.tail # cap => buf.tail \in Live(buf) /\ \A j \in Live(new) : Earlier(buf, buf.tail, j)
    BY <1>1, <1>2 DEF Live, Earlier
  <1>7. ASSUME FrontSlot(buf) \in Event
        PROVE  FrontSlot(buf) \in Events(buf) /\ \A x \in Events(new) : FrontSlot(buf) < x
    <2>1. buf.tail # cap /\ FrontSlot(buf) = buf.slots[buf.tail]
      BY <1>1, <1>7 DEF FrontSlot
    <2>2. FrontSlot(buf) \in Events(buf)
      BY <1>6, <1>7, <2>1 DEF Events
    <2>3. ASSUME NEW x \in Events(new) PROVE FrontSlot(buf) < x
      <3>1. PICK j \in Live(new) : x = buf.slots[j] /\ x \in Event
        BY <1>2 DEF Events
      <3>2. j \in Live(buf) /\ buf.tail \in Live(buf) /\ Earlier(buf, buf.tail, j)
        BY <1>3, <1>6, <2>1
      <3> QED
        BY <1>7, <2>1, <3>1, <3>2 DEF Ordered
    <2> QED
      BY <2>2, <2>3
  <1> QED
    BY <1>5, <1>7 DEF new

\* The events among the records read so far
Got == {out[i] : i \in 1..Len(out)} \intersect Event

LEMMA GotFacts ==
  ASSUME out \in Seq(Record)
  PROVE  /\ Got \subseteq Int
         /\ out' = out => Got' = Got
         /\ \A r \in Record : out' = Append(out, r) =>
              /\ Got' = Got \union ({r} \intersect Event)
              /\ Len(out') = Len(out) + 1 /\ out'[Len(out) + 1] = r
              /\ \A i \in 1..Len(out) : out'[i] = out[i]
  <1>1. Got \subseteq Int
    BY DEF Got, Event
  <1>2. out' = out => Got' = Got
    BY DEF Got
  <1>3. ASSUME NEW r \in Record, out' = Append(out, r)
        PROVE  /\ Got' = Got \union ({r} \intersect Event)
               /\ Len(out') = Len(out) + 1 /\ out'[Len(out) + 1] = r
               /\ \A i \in 1..Len(out) : out'[i] = out[i]
    <2>1. /\ Len(out') = Len(out) + 1 /\ out'[Len(out) + 1] = r /\ Len(out) \in Nat
          /\ \A i \in 1..Len(out) : out'[i] = out[i]
      BY <1>3, AppendProperties
    <2>2. 1..Len(out') = 1..Len(out) \union {Len(out) + 1}
      BY <2>1
    <2>3. {out'[i] : i \in 1..Len(out')} = {out[i] : i \in 1..Len(out)} \union {r}
      BY <2>1, <2>2
    <2> QED
      BY <2>1, <2>3 DEF Got
  <1> QED
    BY <1>1, <1>2, <1>3

\* From reader to handler: what was read, the bulk ring, the event the work item has
\* in hand, the capture ring, the next event.
InHand == IF workPc \in {"lock", "push"} THEN {workEvent} \intersect Event ELSE {}
OrderInv ==
  /\ Ordered(capture) /\ Ordered(bulk)
  /\ \A x \in Got \union Events(bulk) \union InHand \union Events(capture) : x < counter
  /\ \A x \in Got, y \in Events(bulk) \union InHand \union Events(capture) : x < y
  /\ \A x \in Events(bulk), y \in InHand \union Events(capture) : x < y
  /\ \A x \in InHand, y \in Events(capture) : x < y

LEMMA InitOrder == Init => OrderInv
  <1> SUFFICES ASSUME Init PROVE OrderInv
    OBVIOUS
  <1>1. Live(capture) = {} /\ Live(bulk) = {}
    BY ConstAssumption DEF Init, InitBuf, Live
  <1>2. Events(capture) = {} /\ Events(bulk) = {} /\ InHand = {} /\ Got = {}
    BY <1>1 DEF Events, Init, InHand, Got
  <1>3. Ordered(capture) /\ Ordered(bulk)
    BY <1>1 DEF Ordered
  <1> QED
    BY <1>2, <1>3 DEF OrderInv

\* What a step does to the stream: nothing, an interrupt, a later event than all
\* before, or a record that is no event.
StreamStep ==
  \/ UNCHANGED <<counter, out>>
  \/ counter' = counter + 1 /\ out' = out
  \/ \E e \in Event : /\ e < counter /\ \A x \in Got : x < e
                      /\ out' = Append(out, e) /\ counter' = counter
  \/ \E e \in Record \ Event : /\ e = FrontSlot(bulk) /\ ~FrontIsNull(bulk)
                               /\ out' = Append(out, e) /\ counter' = counter

LEMMA NextOrder ==
  ASSUME TypeOK, OrderInv, [Next]_vars
  PROVE  OrderInv' /\ StreamStep
  <1> DEFINE Goal == OrderInv' /\ StreamStep
  <1>1. /\ capture \in Buf(CaptureCap, Record) /\ bulk \in Buf(BulkCap, Record)
        /\ counter \in Nat /\ Got \subseteq Int /\ Event \subseteq Int
        /\ CaptureCap \in Nat \ {0} /\ BulkCap \in Nat \ {0}
        /\ Events(capture) \subseteq Int /\ Events(bulk) \subseteq Int /\ InHand \subseteq Int
    BY ConstAssumption, GotFacts DEF TypeOK, Event, Events, InHand
  <1>2. CASE UNCHANGED <<counter, capture, bulk, out>> /\ InHand' \subseteq InHand
    <2>1. Got' = Got
      BY <1>2, GotFacts DEF TypeOK
    <2>2. Events(bulk)' = Events(bulk) /\ Events(capture)' = Events(capture)
          /\ Ordered(capture)' /\ Ordered(bulk)'
      BY <1>2 DEF OrderInv, Ordered, Events, Live, Earlier
    <2>3. OrderInv'
      BY <1>2, <2>1, <2>2 DEF OrderInv
    <2> QED
      BY <1>2, <2>3 DEF StreamStep
  <1>3. CASE IsrCapture
    <2>1. /\ counter \in Event /\ counter' = counter + 1 /\ capture' = push(capture, counter)
          /\ UNCHANGED <<bulk, out, Got, workPc, workEvent>>
      BY <1>1, <1>3, ConstAssumption, GotFacts DEF IsrCapture, Event, workVars, TypeOK
    <2>2. Ordered(capture') /\ Events(capture') \subseteq Events(capture) \union {counter}
      BY <1>1, <2>1, PushOrder DEF OrderInv, Record
    <2>3. Ordered(bulk') /\ Events(bulk') = Events(bulk) /\ InHand' = InHand
      BY <2>1 DEF OrderInv, InHand
    <2> DEFINE Ahead == Got \union Events(bulk) \union InHand \union Events(capture)
    <2>5. \A x \in Ahead : x < counter /\ x \in Int
      BY <1>1 DEF OrderInv
    <2>6. \A x \in Got' \union Events(bulk') \union InHand' \union Events(capture') : x < counter'
      <3>1. \A x \in Got' \union Events(bulk') \union InHand' \union Events(capture') :
              x \in Ahead \/ x = counter
        BY <2>1, <2>2, <2>3
      <3> HIDE DEF Ahead
      <3> QED
        BY <1>1, <2>1, <2>5, <3>1
    <2>7. \A x \in Got', y \in Events(bulk') \union InHand' \union Events(capture') : x < y
      BY <2>1, <2>2, <2>3, <2>5 DEF OrderInv
    <2>8. \A x \in Events(bulk'), y \in InHand' \union Events(capture') : x < y
      BY <2>2, <2>3, <2>5 DEF OrderInv
    <2>9. \A x \in InHand', y \in Events(capture') : x < y
      BY <2>2, <2>3, <2>5 DEF OrderInv
    <2>10. OrderInv'
      BY <2>2, <2>3, <2>6, <2>7, <2>8, <2>9 DEF OrderInv
    <2> QED
      BY <2>1, <2>10 DEF StreamStep
  <1>4. CASE WorkTake
    <2>1. /\ UNCHANGED <<counter, bulk, out, Got>> /\ workPc' = "lock" /\ InHand = {}
      BY <1>4, GotFacts DEF WorkTake, isrVars, InHand, TypeOK
    <2>2. Ordered(bulk') /\ Events(bulk') = Events(bulk)
      BY <2>1 DEF OrderInv
    <2>3. CASE capture' = capture /\ workEvent' \in {NoEvent, Stale}
      <3>1. InHand' = {} /\ Ordered(capture') /\ Events(capture') = Events(capture)
        BY <2>3, NoEventValues DEF InHand, OrderInv
      <3>2. OrderInv'
        BY <1>1, <2>1, <2>2, <3>1 DEF OrderInv
      <3> QED
        BY <2>1, <3>2 DEF StreamStep
    <2>4. CASE capture' = pop(capture) /\ workEvent' = FrontSlot(capture) /\ ~FrontIsNull(capture)
      <3>1. /\ Ordered(capture') /\ Events(capture') \subseteq Events(capture)
            /\ FrontSlot(capture) \in Event => /\ FrontSlot(capture) \in Events(capture)
                                              /\ \A x \in Events(capture') : FrontSlot(capture) < x
        BY <1>1, <2>4, PopOrder, NoEventValues DEF OrderInv
      <3>2. InHand' = {FrontSlot(capture)} \intersect Event
        BY <2>1, <2>4 DEF InHand
      <3>3. InHand' \subseteq Events(capture) /\ \A x \in InHand', y \in Events(capture') : x < y
        BY <3>1, <3>2
      <3>4. OrderInv'
        BY <1>1, <2>1, <2>2, <3>1, <3>3 DEF OrderInv
      <3> QED
        BY <2>1, <3>4 DEF StreamStep
    <2> QED
      BY <1>4, <2>3, <2>4 DEF WorkTake
  <1>5. CASE WorkPush
    <2>1. UNCHANGED <<counter, capture, out, Got>> /\ InHand' = {}
          /\ InHand = {workEvent} \intersect Event
      BY <1>5, GotFacts DEF WorkPush, isrVars, InHand, TypeOK
    <2>2. CASE bulk' = bulk
      <3>1. OrderInv'
        BY <1>1, <2>1, <2>2 DEF OrderInv
      <3> QED
        BY <2>1, <3>1 DEF StreamStep
    <2>3. CASE bulk' = push(bulk, workEvent) /\ workEvent # NoEvent
      <3>1. workEvent \in Record
        BY <2>3 DEF TypeOK
      <3>2. workEvent \in Event => \A x \in Events(bulk) : x < workEvent
        BY <2>1 DEF OrderInv
      <3>3. /\ Ordered(bulk') /\ Events(bulk') \subseteq Events(bulk) \union {workEvent}
            /\ bulk'.tail = bulk.tail
        BY <1>1, <2>3, <3>1, <3>2, PushOrder DEF OrderInv
      <3>4. Events(bulk') \subseteq Events(bulk) \union InHand
        BY <2>1, <3>3 DEF Events
      <3>5. OrderInv'
        BY <1>1, <2>1, <3>3, <3>4 DEF OrderInv
      <3> QED
        BY <2>1, <3>5 DEF StreamStep
    <2> QED
      BY <1>5, <2>2, <2>3 DEF WorkPush
  <1>6. ASSUME NEW u \in Users, ReadCopy(u) PROVE Goal
    <2>1. UNCHANGED <<counter, capture, workPc, workEvent>> /\ InHand' = InHand
      BY <1>6 DEF ReadCopy, kernelVars, isrVars, workVars, InHand
    <2>2. ~FrontIsNull(bulk) /\ bulk' = pop(bulk) /\ out' = Append(out, FrontSlot(bulk))
      BY <1>6 DEF ReadCopy
    <2> DEFINE e == FrontSlot(bulk)
    <2>3. /\ Ordered(bulk') /\ Events(bulk') \subseteq Events(bulk)
          /\ e \in Event => e \in Events(bulk) /\ \A x \in Events(bulk') : e < x
      BY <1>1, <2>2, PopOrder, NoEventValues DEF OrderInv
    <2>4. Ordered(capture') /\ Events(capture') = Events(capture)
      BY <2>1 DEF OrderInv
    <2>5. e \in Record /\ Got' = Got \union ({e} \intersect Event)
      <3>1. e \in Record
        BY <1>1, FrontType
      <3> QED
        BY <2>2, <3>1, GotFacts DEF TypeOK
    <2> HIDE DEF e
    <2>6. CASE e \in Event
      <3>1. /\ e < counter /\ Got' = Got \union {e} /\ \A x \in Got : x < e
            /\ \A y \in InHand \union Events(capture) : e < y
        BY <2>3, <2>5, <2>6 DEF OrderInv
      <3>2. OrderInv'
        BY <1>1, <2>1, <2>3, <2>4, <2>6, <3>1 DEF OrderInv
      <3> QED
        BY <2>1, <2>2, <2>6, <3>1, <3>2 DEF StreamStep, e
    <2>7. CASE e \notin Event
      <3>1. Got' = Got
        BY <2>5, <2>7
      <3>2. OrderInv'
        BY <1>1, <2>1, <2>3, <2>4, <3>1 DEF OrderInv
      <3> QED
        BY <2>1, <2>2, <2>5, <2>7, <3>2 DEF StreamStep, e
    <2> QED
      BY <2>6, <2>7
  <1>7. CASE IsrSchedule \/ WorkStart \/ WorkLock \/ WorkWake \/ WorkUnlock
    <2>1. UNCHANGED <<counter, capture, bulk, out>> /\ InHand' \subseteq InHand
      BY <1>7 DEF IsrSchedule, WorkStart, WorkLock, WorkWake, WorkUnlock, isrVars, workVars, InHand
    <2> QED
      BY <1>2, <2>1
  <1>8. CASE Ctl \/ TimerFires
    <2>1. UNCHANGED <<counter, capture, bulk, out, workPc, workEvent>>
      BY <1>8 DEF Ctl, CtlBegin, CtlCancel, CtlGpo, CtlDisable, CtlWake, CtlSec, CtlNsec,
         CtlEnable, CtlStart, TimerFires, pathVars, isrVars, workVars
    <2> QED
      BY <1>2, <2>1 DEF InHand
  <1>9. ASSUME NEW u \in Users, User(u), ~ReadCopy(u) PROVE Goal
    <2>1. UNCHANGED <<counter, capture, bulk, out, workPc, workEvent>>
      BY <1>9 DEF User, PollBegin, UserLock, PollTest, PollWake, PollAbandon, ReadBegin,
         ReadLoopEnd, ReadUnlock, kernelVars, isrVars, workVars
    <2> QED
      BY <1>2, <2>1 DEF InHand
  <1>10. CASE UNCHANGED vars
    BY <1>2, <1>10 DEF vars, isrVars, workVars, InHand
  <1>11. Isr \/ Work => Goal
    BY <1>3, <1>4, <1>5, <1>7 DEF Isr, Work
  <1>12. (\E u \in Users : User(u)) => Goal
    BY <1>6, <1>9
  <1> QED
    BY <1>8, <1>10, <1>11, <1>12 DEF Next

-----------------------------------------------------------------------------
(* The first lap of the bulk ring *)

\* Before either ring has wrapped, what was pushed to the bulk ring was taken from
\* the capture ring before: the tail of the one is ahead of the head of the other,
\* and below the head every slot holds an event.
Pushing == IF workPc \in {"lock", "push"} THEN 1 ELSE 0
BulkLap ==
  counter < Lap =>
    /\ bulk.head + Pushing <= capture.tail /\ bulk.tail <= bulk.head
    /\ \A i \in 0..(bulk.head - 1) : bulk.slots[i] \in Event

LEMMA BacklogFacts ==
  ASSUME TypeOK, Backlog, counter < CaptureCap
  PROVE  capture.head = counter /\ capture.tail <= counter /\ capture.tail \in Nat
  <1>1. merged \in Nat /\ counter \in Nat /\ capture.tail \in Nat
    BY ConstAssumption DEF TypeOK, Buf
  <1> QED
    BY <1>1 DEF Backlog, size, One

LEMMA NextBulkLap ==
  TypeOK /\ Backlog /\ FirstLap /\ BulkLap /\ Backlog' /\ TypeOK' /\ [Next]_vars => BulkLap'
  <1> SUFFICES ASSUME TypeOK, Backlog, FirstLap, BulkLap, Backlog', TypeOK', [Next]_vars,
                      (counter < Lap)'
               PROVE  /\ bulk'.head + Pushing' <= capture'.tail /\ bulk'.tail <= bulk'.head
                      /\ \A i \in 0..(bulk'.head - 1) : bulk'.slots[i] \in Event
    BY DEF BulkLap
  <1>1. /\ counter \in Nat /\ CaptureCap \in Nat \ {0} /\ BulkCap \in Nat \ {0}
        /\ bulk.capacity = BulkCap /\ bulk.head \in 0..(BulkCap - 1) /\ bulk.tail \in Nat
        /\ bulk.slots \in [0..(BulkCap - 1) -> Record] /\ capture.capacity = CaptureCap
        /\ Lap <= CaptureCap /\ Lap <= BulkCap /\ Lap \in Nat
    <2>1. CaptureCap \in Nat \ {0} /\ BulkCap \in Nat \ {0}
      BY ConstAssumption
    <2>2. Lap <= CaptureCap /\ Lap <= BulkCap /\ Lap \in Nat
      BY <2>1 DEF Lap
    <2>3. bulk \in Buf(BulkCap, Record) /\ capture \in Buf(CaptureCap, Record) /\ counter \in Nat
      BY DEF TypeOK
    <2> QED
      BY <2>1, <2>2, <2>3 DEF Buf, Index
  <1>2. counter <= counter' /\ counter' < Lap
    BY <1>1, PathKept DEF Next, Isr, IsrCapture, IsrSchedule, Work, WorkStart, WorkTake, WorkLock,
       WorkPush, WorkWake, WorkUnlock, isrVars, vars
  <1>3. /\ counter < Lap /\ counter < CaptureCap
        /\ capture.head = counter /\ capture.tail <= counter /\ capture.tail \in Nat
        /\ bulk.head + Pushing <= capture.tail /\ bulk.tail <= bulk.head
        /\ \A i \in 0..(bulk.head - 1) : bulk.slots[i] \in Event
        /\ workPc \in {"lock", "push", "wake"} => workEvent \in Event
    <2>1. counter < Lap /\ counter < CaptureCap
      <3>1. counter' \in Int
        BY DEF TypeOK
      <3> QED
        BY <1>1, <1>2, <3>1
    <2>2. capture.head = counter /\ capture.tail <= counter /\ capture.tail \in Nat
      BY <2>1, BacklogFacts
    <2> QED
      BY <2>1, <2>2 DEF BulkLap, FirstLap
  <1>4. CASE bulk' = bulk /\ capture'.tail = capture.tail /\ Pushing' <= Pushing
    <2>1. Pushing \in Nat /\ Pushing' \in Nat
      BY DEF Pushing
    <2> QED
      BY <1>1, <1>3, <1>4, <2>1
  <1>5. CASE Isr
    <2>1. bulk' = bulk /\ capture'.tail = capture.tail /\ Pushing' = Pushing
      BY <1>5 DEF Isr, IsrCapture, IsrSchedule, push, workVars, Pushing, TypeOK, Buf
    <2>2. Pushing \in Nat
      BY DEF Pushing
    <2> QED
      BY <1>4, <2>1, <2>2
  <1>6. CASE WorkTake
    <2>1. capture.tail < counter
      BY <1>1, <1>3, <1>6, ConstAssumption DEF WorkTake, Backlog, size, One, TypeOK
    <2>2. space(capture) # 0 /\ ~FrontIsNull(capture)
      BY <1>1, <1>3, <2>1 DEF space, FrontIsNull, size
    <2>3. capture' = pop(capture) /\ bulk' = bulk /\ workPc' = "lock"
      BY <1>6, <2>2 DEF WorkTake
    <2>4. capture'.tail = capture.tail + 1
      BY <1>1, <1>3, <2>1, <2>2, <2>3 DEF pop, AdvanceTail, TypeOK, Buf
    <2>5. Pushing = 0 /\ Pushing' = 1
      BY <1>6, <2>3 DEF WorkTake, Pushing
    <2> QED
      BY <1>1, <1>3, <2>3, <2>4, <2>5
  <1>7. CASE WorkPush
    <2>1. /\ Pushing = 1 /\ Pushing' = 0 /\ capture' = capture /\ workEvent \in Event
          /\ bulk.head + 1 <= capture.tail
      BY <1>3, <1>7 DEF WorkPush, Pushing
    <2>2. CASE bulk' = bulk
      BY <1>1, <1>3, <2>1, <2>2
    <2>3. CASE bulk' = push(bulk, workEvent)
      <3>1. bulk.head + 1 < BulkCap /\ PushOk(bulk)
        BY <1>1, <1>3, <2>1 DEF PushOk, space
      <3>2. /\ bulk'.head = bulk.head + 1 /\ bulk'.tail = bulk.tail
            /\ bulk'.slots = [bulk.slots EXCEPT ![bulk.head] = workEvent]
        BY <1>1, <2>3, <3>1 DEF push, AdvanceHead, TypeOK, Buf
      <3> QED
        BY <1>1, <1>3, <2>1, <3>2
    <2> QED
      BY <1>7, <2>2, <2>3 DEF WorkPush
  <1>8. CASE WorkStart \/ WorkLock \/ WorkWake \/ WorkUnlock
    <2>1. bulk' = bulk /\ capture' = capture
      BY <1>8 DEF WorkStart, WorkLock, WorkWake, WorkUnlock
    <2>2. Pushing' = Pushing /\ Pushing \in Nat
      BY <1>8 DEF WorkStart, WorkLock, WorkWake, WorkUnlock, Pushing
    <2> QED
      BY <1>4, <2>1, <2>2
  <1>9. ASSUME NEW u \in Users, ReadCopy(u)
        PROVE  /\ bulk'.head + Pushing' <= capture'.tail /\ bulk'.tail <= bulk'.head
               /\ \A i \in 0..(bulk'.head - 1) : bulk'.slots[i] \in Event
    <2>1. /\ bulk' = pop(bulk) /\ ~FrontIsNull(bulk) /\ capture' = capture /\ Pushing' = Pushing
      BY <1>9 DEF ReadCopy, kernelVars, workVars, Pushing
    <2>2. bulk.tail < bulk.head
      BY <1>1, <1>3, <2>1 DEF FrontIsNull, size
    <2>3. bulk'.head = bulk.head /\ bulk'.slots = bulk.slots /\ bulk'.tail = bulk.tail + 1
      BY <1>1, <2>1, <2>2 DEF pop, AdvanceTail, TypeOK, Buf
    <2> QED
      BY <1>1, <1>3, <2>1, <2>2, <2>3
  <1>10. ASSUME NEW u \in Users, User(u), ~ReadCopy(u) PROVE bulk' = bulk
    BY <1>10 DEF User, PollBegin, UserLock, PollTest, PollWake, PollAbandon, ReadBegin,
       ReadLoopEnd, ReadUnlock
  <1>11. Ctl \/ TimerFires \/ UNCHANGED vars => bulk' = bulk
    BY DEF Ctl, CtlBegin, CtlCancel, CtlGpo, CtlDisable, CtlWake, CtlSec, CtlNsec,
       CtlEnable, CtlStart, TimerFires, pathVars, vars
  <1>12. CASE /\ (\E u \in Users : User(u)) \/ Ctl \/ TimerFires \/ UNCHANGED vars
              /\ bulk' = bulk
    <2>1. capture' = capture /\ workPc' = workPc
      BY <1>12, PathKept DEF vars, workVars
    <2>2. Pushing' = Pushing /\ Pushing \in Nat
      BY <2>1 DEF Pushing
    <2> QED
      BY <1>4, <1>12, <2>1, <2>2
  <1>13. Work => /\ bulk'.head + Pushing' <= capture'.tail /\ bulk'.tail <= bulk'.head
                 /\ \A i \in 0..(bulk'.head - 1) : bulk'.slots[i] \in Event
    BY <1>6, <1>7, <1>8 DEF Work
  <1> QED
    BY <1>5, <1>9, <1>10, <1>11, <1>12, <1>13 DEF Next

\* In the first lap front() of the bulk ring shows an event.
LEMMA FirstLapShowsEvents ==
  ASSUME TypeOK, Backlog, BulkLap, counter < Lap, ~FrontIsNull(bulk)
  PROVE  FrontSlot(bulk) \in Event
  <1>1. /\ bulk.capacity = BulkCap /\ bulk.head \in 0..(BulkCap - 1) /\ bulk.tail \in Nat
        /\ BulkCap \in Nat
    BY ConstAssumption DEF TypeOK, Buf, Index
  <1>2. bulk.tail < bulk.head /\ \A i \in 0..(bulk.head - 1) : bulk.slots[i] \in Event
    BY <1>1 DEF BulkLap, FrontIsNull, size
  <1> QED
    BY <1>1, <1>2 DEF FrontSlot

\* A step of the driver is a step of the noisy stream, or none.
LEMMA NextStream ==
  ASSUME TypeOK, OrderInv, Backlog, BulkLap, [Next]_vars
  PROVE  [Stream!Next]_<<counter, out>>
  <1>1. StreamStep
    BY NextOrder
  <1>2. CASE UNCHANGED <<counter, out>>
    BY <1>2
  <1>3. CASE counter' = counter + 1 /\ out' = out
    BY <1>3 DEF Stream!Next, Stream!Raise
  <1>4. ASSUME NEW e \in Event, e < counter, \A x \in Got : x < e, out' = Append(out, e),
               counter' = counter
        PROVE  Stream!Next
    <2>1. counter \in Nat /\ e \in 0..(counter - 1) /\ out \in Seq(Record)
      BY <1>4 DEF TypeOK, Event
    <2>2. \A i \in 1..Len(out) : out[i] \notin {Stale, BeyondBlock} => out[i] < e
      <3> SUFFICES ASSUME NEW i \in 1..Len(out), out[i] \notin {Stale, BeyondBlock}
                   PROVE  out[i] < e
        OBVIOUS
      <3>1. out[i] \in Record
        BY <2>1, ElementOfSeq
      <3>2. out[i] \in Got
        BY <3>1 DEF Record, Got
      <3> QED
        BY <1>4, <3>2
    <2> QED
      BY <1>4, <2>1, <2>2 DEF Stream!Next, Stream!Deliver
  <1>5. ASSUME NEW e \in Record \ Event, e = FrontSlot(bulk), ~FrontIsNull(bulk),
               out' = Append(out, e), counter' = counter
        PROVE  Stream!Next
    <2>1. counter >= Lap
      <3>1. counter \in Nat /\ Lap \in Nat
        BY ConstAssumption DEF TypeOK, Lap
      <3> QED
        BY <1>5, <3>1, FirstLapShowsEvents
    <2>2. e \in {Stale, BeyondBlock}
      BY <1>5 DEF Record
    <2> QED
      BY <1>5, <2>1, <2>2 DEF Stream!Next, Stream!Garble
  <1> QED
    BY <1>1, <1>2, <1>3, <1>4, <1>5 DEF StreamStep

\* For any ring sizes, read sizes and number of readers the driver implements
\* NoisyStream: the captured events read were raised and come in their order, each
\* once, and no other record is read before a lap of interrupts.
THEOREM ImplementsStream == Spec => StreamSpec
  <1>1. Init => Stream!Init
    BY DEF Init, Stream!Init
  <1>2. TypeOK /\ OrderInv /\ [Next]_vars => OrderInv'
    BY NextOrder
  <1>3. TypeOK /\ OrderInv /\ Backlog /\ BulkLap /\ [Next]_vars =>
          [Stream!Next]_<<counter, out>>
    BY NextStream
  <1>4. Init => Backlog /\ FirstLap /\ BulkLap
    BY ConstAssumption DEF Init, Backlog, FirstLap, BulkLap, Pushing, InitBuf, size, One
  <1> QED
    BY <1>1, <1>2, <1>3, <1>4, TypeCorrect, InitOrder, NextBacklog, NextFirstLap,
       NextBulkLap, PTL DEF Spec, StreamSpec, Stream!Spec, Stream!vars
=============================================================================
