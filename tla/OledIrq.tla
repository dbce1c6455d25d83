------------------------------ MODULE OledIrq ------------------------------
(***************************************************************************)
(* The interrupt path of the rpi_4b OLED driver,                           *)
(* modules/rpi_4b/1_i2c/OLED/module/gpio_oled_irq.c: from the button       *)
(* interrupts through the capture ring, the work item and the bulk ring to *)
(* the read(), poll() and ioctl() calls of user threads.                   *)
(*                                                                         *)
(* Actors                                                                  *)
(*   - the interrupt handlers: all lines are on one gpio bank, whose       *)
(*     chained interrupt runs them one at a time, but beside every thread; *)
(*   - the work item do_work(), which the kernel never runs twice at once  *)
(*     and which schedule_work() queues again while it runs;               *)
(*   - the user threads in read() and poll(), and one in ioctl().          *)
(* Only the bulk ring is under the mutex; the capture ring has one         *)
(* producer and one consumer and no lock.                                  *)
(*                                                                         *)
(* An interrupt the debounce test rejects returns before it changes        *)
(* anything and is a stuttering step here.  A record is the capture event  *)
(* it carries: bulk_data[] is computed from it.                            *)
(***************************************************************************)
EXTENDS CircBufPow2, Sequences

CONSTANTS
  Lines, Handlers, HandlerOf,  \* gpio lines, handler functions, who serves whom
  Users, FaultyUsers,          \* threads; those whose pointer is or turns bad
  Worker, Nobody,              \* the other values of the mutex owner
  CaptureCap, BulkCap,         \* num_elements of the two rings
  ReadCounts,                  \* read sizes tried, in records
  MaxEvents                    \* bound: events numbered by one handler

ASSUME ConstAssumption ==
  /\ HandlerOf \in [Lines -> Handlers]
  /\ FaultyUsers \subseteq Users
  /\ Worker \notin Users /\ Nobody \notin Users /\ Worker # Nobody
  /\ CaptureCap \in Nat /\ InitAccepts(CaptureCap)
  /\ BulkCap \in Nat /\ InitAccepts(BulkCap)
  /\ ReadCounts \subseteq Nat
  /\ MaxEvents \in Nat

EPERM == -1

Event == [button_num : Lines, event : Nat]
Before(a, b) ==
  HandlerOf[a.button_num] = HandlerOf[b.button_num] => a.event < b.event

VARIABLES
  counter,        \* static counter of each handler function
  isrPc, isrEvent,    \* where the running handler is, its capture_event
  capture, bulk,      \* capture_event_buffer, event_bulk_data_buffer
  workPending,        \* the work item is queued
  workPc, workEvent,  \* where do_work() is, its local capture_event
  mutex,              \* owner of event_bulk_data_mtx
  poll_enabled,
  waiters,            \* threads on capture_event_waitqueue
  triggered,          \* waiters a wake_up has reached since they last looked
  userPc,             \* where each user thread is
  want, ret,          \* read(): records still to read, records read or EPERM
  releasePc,          \* where the ioctl() call is
  out,                \* history: the records copied to user space, in order
  found               \* history: how many the ring held when a read() got the mutex

isrVars  == <<counter, isrPc, isrEvent>>
workVars == <<workPc, workEvent>>
waitVars == <<poll_enabled, waiters, triggered>>
userVars == <<userPc, want, ret, found>>
vars == <<isrVars, workVars, waitVars, userVars,
          capture, bulk, workPending, mutex, releasePc, out>>

\* gpio_oled_irq_init(): kmalloc'ed slots and stack locals hold anything; no
\* step looks at a slot or a local before it is written, so one value will do.
Init ==
  /\ counter = [h \in Handlers |-> 0]
  /\ workPending = FALSE /\ mutex = Nobody
  /\ isrPc = "idle" /\ workPc = "idle" /\ releasePc = "idle"
  /\ poll_enabled = TRUE /\ waiters = {} /\ triggered = {}
  /\ userPc = [u \in Users |-> "user"]
  /\ want = [u \in Users |-> 0] /\ ret = [u \in Users |-> 0]
  /\ out = <<>> /\ found = [u \in Users |-> 0]
  /\ \E line \in Lines :
       LET blank == [button_num |-> line, event |-> 0] IN
         /\ isrEvent = blank /\ workEvent = blank
         /\ capture = InitBuf(CaptureCap, [i \in Index(CaptureCap) |-> blank])
         /\ bulk = InitBuf(BulkCap, [i \in Index(BulkCap) |-> blank])

-----------------------------------------------------------------------------
(* The interrupt handlers. *)

\* An accepted interrupt: fill the local capture event, ++counter.
IsrEnter(line) ==
  LET h == HandlerOf[line] IN
    /\ isrPc = "idle" /\ counter[h] < MaxEvents
    /\ counter' = [counter EXCEPT ![h] = @ + 1]
    /\ isrEvent' = [button_num |-> line, event |-> counter[h] + 1]
    /\ isrPc' = "push"
    /\ UNCHANGED <<capture, bulk, workPending, workVars, mutex, waitVars,
                   userVars, releasePc, out>>

\* Seeded fault: the head moves although the full ring refused the element.
IsrPushIgnoresFull ==
  /\ isrPc = "push"
  /\ capture' = IF PushOk(capture) THEN Fill(capture, isrEvent) ELSE capture
  /\ isrPc' = "publish"
  /\ UNCHANGED <<counter, isrEvent, bulk, workPending, workVars, mutex,
                 waitVars, userVars, releasePc, out>>

\* push(): a full ring loses the event, its return value is not looked at;
\* otherwise the slot is written first ...
IsrPush ==
  /\ isrPc = "push"
  /\ \/ /\ PushOk(capture)
        /\ capture' = Fill(capture, isrEvent)
        /\ isrPc' = "publish"
     \/ /\ ~PushOk(capture)
        /\ isrPc' = "schedule"
        /\ UNCHANGED capture
  /\ UNCHANGED <<counter, isrEvent, bulk, workPending, workVars, mutex,
                 waitVars, userVars, releasePc, out>>

\* ... and the new head afterwards.
IsrPublish ==
  /\ isrPc = "publish"
  /\ capture' = Publish(capture)
  /\ isrPc' = "schedule"
  /\ UNCHANGED <<counter, isrEvent, bulk, workPending, workVars, mutex,
                 waitVars, userVars, releasePc, out>>

\* schedule_work() does nothing when the item is already queued.
IsrSchedule ==
  /\ isrPc = "schedule"
  /\ workPending' = TRUE
  /\ isrPc' = "idle"
  /\ UNCHANGED <<counter, isrEvent, capture, bulk, workVars, mutex,
                 waitVars, userVars, releasePc, out>>

Isr == (\E line \in Lines : IsrEnter(line)) \/ IsrPush \/ IsrPublish \/ IsrSchedule

-----------------------------------------------------------------------------
(* The work item. *)

\* The kernel dequeues the item, then calls do_work().
WorkStart ==
  /\ workPending /\ workPc = "idle"
  /\ workPending' = FALSE
  /\ workPc' = "front"
  /\ UNCHANGED <<isrVars, capture, bulk, workEvent, mutex, waitVars,
                 userVars, releasePc, out>>

\* The loop condition: front() of the capture ring.
WorkFront ==
  /\ workPc = "front"
  /\ workPc' = IF FrontIsNull(capture) THEN "idle" ELSE "copy"
  /\ UNCHANGED <<isrVars, capture, bulk, workPending, workEvent, mutex,
                 waitVars, userVars, releasePc, out>>

\* memcpy() out of the slot front() returned.
WorkCopy ==
  /\ workPc = "copy"
  /\ workEvent' = FrontSlot(capture)
  /\ workPc' = "pop"
  /\ UNCHANGED <<isrVars, capture, bulk, workPending, mutex, waitVars,
                 userVars, releasePc, out>>

WorkPop ==
  /\ workPc = "pop"
  /\ capture' = pop(capture)
  /\ workPc' = "lock"
  /\ UNCHANGED <<isrVars, bulk, workPending, workEvent, mutex, waitVars,
                 userVars, releasePc, out>>

\* Seeded fault: the mutex is taken though somebody holds it.
WorkLockBroken ==
  /\ workPc = "lock"
  /\ mutex' = Worker
  /\ workPc' = "push"
  /\ UNCHANGED <<isrVars, capture, bulk, workPending, workEvent, waitVars,
                 userVars, releasePc, out>>

WorkLock ==
  /\ workPc = "lock" /\ mutex = Nobody
  /\ mutex' = Worker
  /\ workPc' = "push"
  /\ UNCHANGED <<isrVars, capture, bulk, workPending, workEvent, waitVars,
                 userVars, releasePc, out>>

\* Seeded faults: the last free slot is not used; the waiters are not woken.
WorkPushEarly ==
  /\ workPc = "push"
  /\ \/ /\ space(bulk) > 1
        /\ bulk' = push(bulk, workEvent)
        /\ workPc' = "wake"
     \/ /\ space(bulk) <= 1
        /\ workPc' = "unlock"
        /\ UNCHANGED bulk
  /\ UNCHANGED <<isrVars, capture, workPending, workEvent, mutex, waitVars,
                 userVars, releasePc, out>>
WorkPushSilent ==
  /\ workPc = "push"
  /\ bulk' = push(bulk, workEvent)
  /\ workPc' = "unlock"
  /\ UNCHANGED <<isrVars, capture, workPending, workEvent, mutex, waitVars,
                 userVars, releasePc, out>>

\* The event, already popped, is lost when the bulk ring has no space.
WorkPush ==
  /\ workPc = "push"
  /\ \/ /\ space(bulk) # 0
        /\ bulk' = push(bulk, workEvent)
        /\ workPc' = "wake"
     \/ /\ space(bulk) = 0
        /\ workPc' = "unlock"
        /\ UNCHANGED bulk
  /\ UNCHANGED <<isrVars, capture, workPending, workEvent, mutex, waitVars,
                 userVars, releasePc, out>>

WorkWake ==
  /\ workPc = "wake"
  /\ triggered' = triggered \union waiters
  /\ workPc' = "unlock"
  /\ UNCHANGED <<isrVars, capture, bulk, workPending, workEvent, mutex,
                 poll_enabled, waiters, userVars, releasePc, out>>

\* Seeded fault: one event per run of the work item, as in rpi_3b_v1_2.
WorkUnlockReturns ==
  /\ workPc = "unlock"
  /\ mutex' = Nobody
  /\ workPc' = "idle"
  /\ UNCHANGED <<isrVars, capture, bulk, workPending, workEvent, waitVars,
                 userVars, releasePc, out>>

WorkUnlock ==
  /\ workPc = "unlock"
  /\ mutex' = Nobody
  /\ workPc' = "front"
  /\ UNCHANGED <<isrVars, capture, bulk, workPending, workEvent, waitVars,
                 userVars, releasePc, out>>

Work == WorkStart \/ WorkFront \/ WorkCopy \/ WorkPop \/ WorkLock
        \/ WorkPush \/ WorkWake \/ WorkUnlock

-----------------------------------------------------------------------------
(* poll(), as the poll system call drives gpio_oled_irq_poll(). *)

kernelVars == <<isrVars, workVars, capture, workPending, releasePc>>
readVars == <<want, ret, found>>

Goto(u, pc) == userPc' = [userPc EXCEPT ![u] = pc]

\* poll_wait() puts the thread on the wait queue before anything is tested.
PollBegin(u) ==
  /\ userPc[u] = "user"
  /\ waiters' = waiters \union {u}
  /\ Goto(u, "poll_lock")
  /\ UNCHANGED <<kernelVars, bulk, mutex, poll_enabled, triggered, readVars, out>>

PollLock(u) ==
  /\ userPc[u] = "poll_lock" /\ mutex = Nobody
  /\ mutex' = u
  /\ Goto(u, "poll_test")
  /\ UNCHANGED <<kernelVars, bulk, waitVars, readVars, out>>

\* A mask ends the system call: POLLIN sends the thread to read, POLLHUP does
\* not.  No mask puts it to sleep, still on the wait queue.
PollTest(u) ==
  /\ userPc[u] = "poll_test"
  /\ mutex' = Nobody
  /\ \/ /\ ~empty(bulk) \/ ~poll_enabled
        /\ Goto(u, IF empty(bulk) THEN "user" ELSE "readable")
        /\ waiters' = waiters \ {u} /\ triggered' = triggered \ {u}
     \/ /\ empty(bulk) /\ poll_enabled
        /\ Goto(u, "poll_sleep")
        /\ UNCHANGED <<waiters, triggered>>
  /\ UNCHANGED <<kernelVars, bulk, poll_enabled, readVars, out>>

\* A wake-up makes the system call look again, without a second poll_wait().
PollWake(u) ==
  /\ userPc[u] = "poll_sleep" /\ u \in triggered
  /\ triggered' = triggered \ {u}
  /\ Goto(u, "poll_lock")
  /\ UNCHANGED <<kernelVars, bulk, mutex, poll_enabled, waiters, readVars, out>>

\* A timeout or a signal ends the call, whatever arrived meanwhile.
PollAbandon(u) ==
  /\ userPc[u] = "poll_sleep"
  /\ waiters' = waiters \ {u} /\ triggered' = triggered \ {u}
  /\ Goto(u, "user")
  /\ UNCHANGED <<kernelVars, bulk, mutex, poll_enabled, readVars, out>>

-----------------------------------------------------------------------------
(* gpio_oled_irq_read(). *)

\* A count that is no multiple of the record size is refused.
ReadBadCount(u) ==
  /\ userPc[u] \in {"user", "readable"}
  /\ Goto(u, "user")
  /\ ret' = [ret EXCEPT ![u] = EPERM]
  /\ UNCHANGED <<kernelVars, bulk, mutex, waitVars, want, found, out>>

ReadBegin(u) ==
  /\ userPc[u] \in {"user", "readable"}
  /\ \E n \in ReadCounts : want' = [want EXCEPT ![u] = n]
  /\ ret' = [ret EXCEPT ![u] = 0]
  /\ Goto(u, "read_lock")
  /\ UNCHANGED <<kernelVars, bulk, mutex, waitVars, found, out>>

ReadLock(u) ==
  /\ userPc[u] = "read_lock" /\ mutex = Nobody
  /\ mutex' = u
  /\ found' = [found EXCEPT ![u] = size(bulk)]
  /\ Goto(u, "read_loop")
  /\ UNCHANGED <<kernelVars, bulk, waitVars, want, ret, out>>

\* Seeded fault: the loop does not look at the remaining count.
LoopAgainUncounted(u) == space(bulk) # 0

\* The loop condition tests for SPACE in the ring it is about to drain.
LoopAgain(u) == want[u] >= 1 /\ space(bulk) # 0

\* Seeded fault: the record copied out is not popped.
ReadCopyKeeps(u) ==
  /\ userPc[u] = "read_loop" /\ LoopAgain(u)
  /\ ~FrontIsNull(bulk)
  /\ out' = Append(out, FrontSlot(bulk))
  /\ want' = [want EXCEPT ![u] = @ - 1]
  /\ ret' = [ret EXCEPT ![u] = @ + 1]
  /\ UNCHANGED <<kernelVars, bulk, mutex, waitVars, userPc, found>>

\* One turn of the loop that copies a record out: a pointer that turns bad later
\* still takes the first records ...
ReadCopy(u) ==
  /\ userPc[u] = "read_loop" /\ LoopAgain(u)
  /\ ~FrontIsNull(bulk)
  /\ out' = Append(out, FrontSlot(bulk))
  /\ bulk' = pop(bulk)
  /\ want' = [want EXCEPT ![u] = @ - 1]
  /\ ret' = [ret EXCEPT ![u] = @ + 1]
  /\ UNCHANGED <<kernelVars, mutex, waitVars, userPc, found>>

\* ... and one that fails: nothing in the ring, or copy_to_user() failed.
\* The records copied by earlier turns stay popped.
ReadFail(u) ==
  /\ userPc[u] = "read_loop" /\ LoopAgain(u)
  /\ FrontIsNull(bulk) \/ u \in FaultyUsers
  /\ want' = [want EXCEPT ![u] = @ - 1]
  /\ ret' = [ret EXCEPT ![u] = EPERM]
  /\ Goto(u, "read_unlock")
  /\ UNCHANGED <<kernelVars, bulk, mutex, waitVars, found, out>>

ReadLoopEnd(u) ==
  /\ userPc[u] = "read_loop" /\ ~LoopAgain(u)
  /\ Goto(u, "read_unlock")
  /\ UNCHANGED <<kernelVars, bulk, mutex, waitVars, readVars, out>>

ReadUnlock(u) ==
  /\ userPc[u] = "read_unlock"
  /\ mutex' = Nobody
  /\ found' = [found EXCEPT ![u] = 0]
  /\ Goto(u, "user")
  /\ UNCHANGED <<kernelVars, bulk, waitVars, want, ret, out>>

-----------------------------------------------------------------------------
(* gpio_irq_ioctl(IOCTL_RELEASE_POLL), without the mutex. *)

\* Seeded fault: nobody is woken.
ReleaseSetSilent ==
  /\ releasePc = "idle"
  /\ poll_enabled' = FALSE
  /\ UNCHANGED <<isrVars, workVars, capture, workPending, bulk, mutex,
                 waiters, triggered, userVars, releasePc, out>>

ReleaseSet ==
  /\ releasePc = "idle"
  /\ poll_enabled' = FALSE
  /\ releasePc' = "wake"
  /\ UNCHANGED <<isrVars, workVars, capture, workPending, bulk, mutex,
                 waiters, triggered, userVars, out>>

ReleaseWake ==
  /\ releasePc = "wake"
  /\ triggered' = triggered \union waiters
  /\ releasePc' = "idle"
  /\ UNCHANGED <<isrVars, workVars, capture, workPending, bulk, mutex,
                 poll_enabled, waiters, userVars, out>>

-----------------------------------------------------------------------------
\* What a thread does once inside a system call, apart from waiting for the
\* mutex; what a thread starts by itself.
UserInside(u) == PollTest(u) \/ PollWake(u) \/ ReadCopy(u) \/ ReadFail(u)
                 \/ ReadLoopEnd(u) \/ ReadUnlock(u)
UserLock(u)  == PollLock(u) \/ ReadLock(u)
UserBegin(u) == PollBegin(u) \/ ReadBegin(u)

User(u) == UserInside(u) \/ UserLock(u) \/ UserBegin(u)
           \/ PollAbandon(u) \/ ReadBadCount(u)

Next == Isr \/ Work \/ (\E u \in Users : User(u)) \/ ReleaseSet \/ ReleaseWake

Spec == Init /\ [][Next]_vars

\* Handlers and work items run to completion, threads inside a call are
\* scheduled, and the mutex is handed to its waiters: strong fairness of the
\* lock steps.  Nobody has to press a button or to make a call.
Fairness ==
  /\ WF_vars(IsrPush \/ IsrPublish \/ IsrSchedule)
  /\ WF_vars(Work) /\ SF_vars(WorkLock)
  /\ WF_vars(ReleaseWake)
  /\ \A u \in Users : WF_vars(UserInside(u)) /\ SF_vars(UserLock(u))

FairSpec == Spec /\ Fairness

\* An application whose threads call poll() again and again and answer POLLIN
\* with a read() of a valid size, as main.cpp's Run() does.
AnswerPollIn(u) == userPc[u] = "readable" /\ ReadBegin(u)
AppFairness == \A u \in Users : SF_vars(PollBegin(u)) /\ SF_vars(AnswerPollIn(u))

-----------------------------------------------------------------------------
(* Where events are. *)

InIsr     == IF isrPc \in {"push", "publish"} THEN {isrEvent} ELSE {}
InWork    == IF workPc \in {"lock", "push"} THEN {workEvent} ELSE {}
Delivered == {out[i] : i \in 1..Len(out)}
InSystem  == Delivered \union Held(bulk) \union InWork \union Held(capture)
             \union InIsr

UserPcs == {"user", "readable", "poll_lock", "poll_test", "poll_sleep",
            "read_lock", "read_loop", "read_unlock"}
OnQueue  == {"poll_lock", "poll_test", "poll_sleep"}   \* between poll_wait and return
Critical == {"poll_test", "read_loop", "read_unlock"}  \* between lock and unlock

AllBefore(S, T) == \A a \in S, b \in T : Before(a, b)
Sorted(buf) == \A i, j \in 0..(size(buf) - 1) :
                 i < j => Before(Elem(buf, i), Elem(buf, j))

-----------------------------------------------------------------------------
(* Properties *)

\* Every variable has its type; the rings stay within their indices.
TypeOK ==
  /\ counter \in [Handlers -> Nat]
  /\ isrPc \in {"idle", "push", "publish", "schedule"} /\ isrEvent \in Event
  /\ capture \in Buf(CaptureCap, Event) /\ bulk \in Buf(BulkCap, Event)
  /\ workPending \in BOOLEAN /\ workEvent \in Event
  /\ workPc \in {"idle", "front", "copy", "pop", "lock", "push", "wake", "unlock"}
  /\ mutex \in Users \union {Worker, Nobody}
  /\ poll_enabled \in BOOLEAN
  /\ waiters \subseteq Users /\ triggered \subseteq waiters
  /\ userPc \in [Users -> UserPcs]
  /\ want \in [Users -> Nat] /\ ret \in [Users -> Nat \union {EPERM}]
  /\ found \in [Users -> Nat]
  /\ releasePc \in {"idle", "wake"}
  /\ out \in Seq(Event)

\* do_work(), read() and poll() are never two at once in the sections that
\* look at or change the bulk ring: each holds event_bulk_data_mtx there.
MutexExclusive ==
  /\ workPc \in {"push", "wake", "unlock"} <=> mutex = Worker
  /\ \A u \in Users : userPc[u] \in Critical <=> mutex = u

\* The unlocked capture ring is safe with its one producer and one consumer:
\* what do_work() copied from the slot is still what pop() will remove, though
\* interrupts may run between front(), memcpy() and pop().
CopiedIsFront ==
  /\ workPc \in {"copy", "pop"} => ~FrontIsNull(capture)
  /\ workPc = "pop" => workEvent = FrontSlot(capture)

\* No captured event is left without somebody to move it: while the capture
\* ring holds one, the work item is queued, running, or about to be queued,
\* although schedule_work() merges any number of interrupts into one run.
NotStranded ==
  ~FrontIsNull(capture) =>
    workPending \/ workPc # "idle" \/ isrPc = "schedule"

\* No thread sleeps in poll() through what it waits for: when one sleeps and no
\* wake-up has reached it, the bulk ring is empty and polling is enabled, or the
\* one who changed that is about to call wake_up_interruptible().
NoLostWakeup ==
  \A u \in Users : userPc[u] = "poll_sleep" /\ u \notin triggered =>
    /\ empty(bulk) \/ workPc = "wake"
    /\ poll_enabled \/ releasePc = "wake"

\* An event once numbered leaves the pipeline for user space or is dropped
\* before a ring that is full at that moment; nothing else loses one.
LostOnlyWhenFull ==
  [][\/ InSystem \subseteq InSystem'
     \/ isrPc = "push" /\ size(capture) = CaptureCap - 1
     \/ workPc = "push" /\ size(bulk) = BulkCap - 1]_vars

\* The two rings, the work item between them and every step of the handlers and
\* the threads amount to EventPipeline: each event goes through both rings in
\* turn and is lost only before a full one, never twice, never out of turn,
\* although the capture ring has no lock.
Entering == IF isrPc \in {"push", "publish"} THEN <<isrEvent>> ELSE <<>>
Moving   == IF workPc \in {"lock", "push"} THEN <<workEvent>> ELSE <<>>
Pipeline == INSTANCE EventPipeline
  WITH raised <- counter, entering <- Entering, captured <- Contents(capture),
       moving <- Moving, ready <- Contents(bulk),
       CaptureRoom <- CaptureCap - 1, BulkRoom <- BulkCap - 1
PipelineSpec == Pipeline!Spec

\* The driver implements the lossy stream: per handler what read() copies out
\* was raised and comes in increasing order, never twice.
Stream == INSTANCE EventStream WITH raised <- counter
StreamSpec == Stream!Spec

\* read() against do_work() and the other threads: when it reports a number, that
\* is how many records left the ring since it took the mutex; when it fails with
\* a good pointer, it has emptied the ring, and every record the ring held is
\* gone without being reported, though they were fewer than it asked for.
ReadAccounts ==
  \A u \in Users : userPc[u] = "read_unlock" =>
    /\ ret[u] # EPERM => ret[u] = found[u] - size(bulk)
    /\ ret[u] = EPERM /\ u \notin FaultyUsers => empty(bulk)

\* gpio_oled_irq.c:249 "pulls from a buffer": a read() that asked for a record
\* returns 0 bytes only from an empty buffer.
ReadPulls ==
  \A u \in Users :
    userPc[u] = "read_unlock" /\ want[u] > 0 /\ ret[u] = 0 => empty(bulk)

\* What is left of that: a read() that returned less than it asked for, but no
\* error, met a full ring ...
ShortReadFoundFull ==
  \A u \in Users :
    userPc[u] = "read_unlock" /\ want[u] > 0 /\ ret[u] >= 0 => size(bulk) = BulkCap - 1

\* ... and a ring that was full once is full for good: from then on do_work()
\* adds nothing and read() takes nothing, though poll() says there is something.
FullForGood == [][size(bulk) = BulkCap - 1 => UNCHANGED <<bulk, out>>]_vars

\* do_work() keeps up: the capture ring is emptied again and again.
CaptureDrained == []<>FrontIsNull(capture)

\* IOCTL_RELEASE_POLL ends every poll(): gpio_oled_irq.c:64 "set to false to
\* terminate user space blocking poll".
ReleaseEndsPoll ==
  \A u \in Users :
    (userPc[u] \in OnQueue /\ ~poll_enabled) ~> userPc[u] \notin OnQueue

\* As long as the rings do not fill, every event raised is delivered to an
\* application that keeps polling and reading.
EventuallyDelivered ==
  AppFairness =>
    \A line \in Lines : \A n \in 1..MaxEvents :
      LET event == [button_num |-> line, event |-> n] IN
        event \in InSystem ~> event \in Delivered

-----------------------------------------------------------------------------
(* The inductive invariant of the proofs. *)

\* Between writing the slot and publishing the head, the slot under head holds
\* the handler's event and there is room for it.
PublishReady ==
  isrPc = "publish" => PushOk(capture) /\ capture.slots[capture.head] = isrEvent

\* The stages of the pipeline are in order: what is further on is older than
\* what follows, in each ring and between the stages, and no number exceeds
\* its handler's counter.
PipelineOrdered ==
  /\ \A i, j \in 1..Len(out) : i < j => Before(out[i], out[j])
  /\ Sorted(bulk) /\ Sorted(capture)
  /\ AllBefore(Delivered, Held(bulk))
  /\ AllBefore(Delivered \union Held(bulk), InWork)
  /\ AllBefore(Delivered \union Held(bulk) \union InWork, Held(capture))
  /\ AllBefore(Delivered \union Held(bulk) \union InWork \union Held(capture), InIsr)
  /\ \A e \in InSystem : e.event \in 1..counter[HandlerOf[e.button_num]]

\* A thread between poll_wait() and the end of its poll() is on the wait queue.
PollersQueued == \A u \in Users : userPc[u] \in OnQueue => u \in waiters

\* bytes_read starts at nothing; in the loop it is what the ring has lost so far.
CountKept ==
  \A u \in Users :
    /\ userPc[u] = "read_lock" => ret[u] = 0
    /\ userPc[u] = "read_loop" => ret[u] # EPERM /\ ret[u] + size(bulk) = found[u]

IInv == /\ TypeOK /\ MutexExclusive /\ PublishReady /\ CopiedIsFront
        /\ PipelineOrdered /\ NotStranded /\ PollersQueued /\ NoLostWakeup
        /\ ShortReadFoundFull /\ CountKept /\ ReadAccounts
=============================================================================
