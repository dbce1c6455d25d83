------------------------------- MODULE GpioIrq -------------------------------
(***************************************************************************)
(* The rpi_3b_v1_2 gpio driver, modules/rpi_3b_v1_2/1_gpio/gpio_irq.c: a   *)
(* pulse generator on the output pin (ioctl(), write() and a high          *)
(* resolution timer) and the interrupt path of the input pin (handler,     *)
(* work item, read() and poll()).                                          *)
(*                                                                         *)
(* Actors: the interrupt handler, which the line runs one at a time; the   *)
(* work item; the timer; the threads in poll() and read(); one controlling *)
(* thread in ioctl() and write().  The capture ring is under a spinlock,   *)
(* so each of its two critical sections is one step; the bulk ring is      *)
(* under a mutex.  What drives the input line is left open: a rising edge  *)
(* may come at any time.  What read() returns is left out: a failing       *)
(* copy_to_user() or front() only ends its loop.                           *)
(***************************************************************************)
EXTENDS CircBufMod2, Sequences

CONSTANTS
  Users,                 \* threads that poll and read
  Worker, Nobody,        \* the other values of the mutex owner
  CaptureCap, BulkCap,
  Msecs,                 \* duty cycle periods tried
  ReadCounts,            \* read sizes tried, in records
  NoEvent,               \* a NULL capture_event_ref
  Stale,                 \* an uninitialised capture_event: any content, an old event too
  MaxEvents              \* bound: interrupts

ASSUME ConstAssumption ==
  /\ Worker \notin Users /\ Nobody \notin Users /\ Worker # Nobody
  /\ CaptureCap \in Nat \ {0} /\ InitAccepts(CaptureCap)
  /\ BulkCap \in Nat \ {0} /\ InitAccepts(BulkCap)
  /\ Msecs \subseteq Nat \ {0}
  /\ ReadCounts \subseteq Nat
  /\ MaxEvents \in Nat

VARIABLES
  counter, isrPc,     \* static counter of the handler, where it is
  capture, bulk,      \* capture_event_buffer, event_bulk_data_buffer
  workPending, workPc, workEvent,
  mutex,              \* owner of event_bulk_data_mtx
  poll_enabled, waiters, triggered,
  userPc, want,       \* where a thread is, the records its read() still wants
  ctlPc, op,          \* where the controlling thread is, in which operation
  msec,               \* the period it asked for
  period_sec, period_nsec,   \* my_hrt_data_ (nsec in units of a millisecond)
  timer,              \* the interval the timer is armed with, <<>> when it is not
  gpo,                \* value of the output pin
  out,                \* history: the records copied to user space, in order
  merged              \* history: schedule_work() calls that found the item queued

isrVars   == <<counter, isrPc, merged>>
workVars  == <<workPc, workEvent>>
waitVars  == <<poll_enabled, waiters, triggered>>
userVars  == <<userPc, want>>
pulseVars == <<ctlPc, op, msec, period_sec, period_nsec, timer, gpo>>
vars == <<isrVars, workVars, waitVars, pulseVars, capture, bulk, workPending,
          mutex, userVars, out>>

Event  == 0..(MaxEvents - 1)
Record == Event \union {BeyondBlock, Stale}

\* The values that stand for no event are none.
ASSUME NoEventValues ==
  Stale \notin Event /\ BeyondBlock \notin Event /\ NoEvent \notin Event

\* gpio_irq_demo_init().  kmalloc'ed slots hold anything; no step looks at one
\* before it is written.
Init ==
  /\ counter = 0 /\ isrPc = "idle" /\ merged = 0
  /\ capture = InitBuf(CaptureCap, [i \in Index(CaptureCap) |-> Stale])
  /\ bulk = InitBuf(BulkCap, [i \in Index(BulkCap) |-> Stale])
  /\ workPending = FALSE /\ workPc = "idle" /\ workEvent = NoEvent
  /\ mutex = Nobody
  /\ poll_enabled = FALSE /\ waiters = {} /\ triggered = {}
  /\ userPc = [u \in Users |-> "user"] /\ want = [u \in Users |-> 0]
  /\ ctlPc = "idle" /\ op = "none" /\ msec = 0
  /\ period_sec = 0 /\ period_nsec = 0 /\ timer = <<>> /\ gpo = 0
  /\ out = <<>>

-----------------------------------------------------------------------------
(* The interrupt handler. *)

\* A rising edge: capture the event under the spinlock; a push() that is
\* refused loses it.
IsrCapture ==
  /\ isrPc = "idle" /\ counter < MaxEvents
  /\ capture' = push(capture, counter)
  /\ counter' = counter + 1
  /\ isrPc' = "schedule"
  /\ UNCHANGED <<workVars, waitVars, pulseVars, bulk, workPending, mutex,
                 userVars, out, merged>>

IsrSchedule ==
  /\ isrPc = "schedule"
  /\ workPending' = TRUE
  /\ merged' = IF workPending THEN merged + 1 ELSE merged
  /\ isrPc' = "idle"
  /\ UNCHANGED <<workVars, waitVars, pulseVars, capture, bulk, mutex, userVars,
                 counter, out>>

Isr == IsrCapture \/ IsrSchedule

-----------------------------------------------------------------------------
(* The work item: at most one event per run. *)

WorkStart ==
  /\ workPending /\ workPc = "idle"
  /\ workPending' = FALSE
  /\ workPc' = "take"
  /\ UNCHANGED <<isrVars, waitVars, pulseVars, capture, bulk, workEvent, mutex,
                 userVars, out>>

\* Seeded fault: the event taken stays in the ring.
WorkTakeKeeps ==
  /\ workPc = "take"
  /\ workEvent' = IF FrontIsNull(capture) THEN NoEvent ELSE FrontSlot(capture)
  /\ workPc' = "lock"
  /\ UNCHANGED <<isrVars, waitVars, pulseVars, capture, bulk, workPending,
                 mutex, userVars, out>>

\* Under the spinlock.  A ring without space() is not looked at: then the
\* pointer tested later was never set, and may be NULL or not.
WorkTake ==
  /\ workPc = "take"
  /\ \/ /\ space(capture) = 0
        /\ workEvent' \in {NoEvent, Stale}
        /\ UNCHANGED capture
     \/ /\ space(capture) # 0 /\ FrontIsNull(capture)
        /\ workEvent' = NoEvent
        /\ UNCHANGED capture
     \/ /\ space(capture) # 0 /\ ~FrontIsNull(capture)
        /\ workEvent' = FrontSlot(capture)
        /\ capture' = pop(capture)
  /\ workPc' = "lock"
  /\ UNCHANGED <<isrVars, waitVars, pulseVars, bulk, workPending, mutex,
                 userVars, out>>

WorkLock ==
  /\ workPc = "lock" /\ mutex = Nobody
  /\ mutex' = Worker
  /\ workPc' = "push"
  /\ UNCHANGED <<isrVars, waitVars, pulseVars, capture, bulk, workPending,
                 workEvent, userVars, out>>

\* Seeded fault: the waiters are not woken.
WorkPushSilent ==
  /\ workPc = "push"
  /\ bulk' = IF workEvent = NoEvent THEN bulk ELSE push(bulk, workEvent)
  /\ workPc' = "unlock"
  /\ UNCHANGED <<isrVars, waitVars, pulseVars, capture, workPending, workEvent,
                 mutex, userVars, out>>

WorkPush ==
  /\ workPc = "push"
  /\ \/ /\ space(bulk) # 0 /\ workEvent # NoEvent
        /\ bulk' = push(bulk, workEvent)
        /\ workPc' = "wake"
     \/ /\ space(bulk) = 0 \/ workEvent = NoEvent
        /\ workPc' = "unlock"
        /\ UNCHANGED bulk
  /\ UNCHANGED <<isrVars, waitVars, pulseVars, capture, workPending, workEvent,
                 mutex, userVars, out>>

WorkWake ==
  /\ workPc = "wake"
  /\ triggered' = triggered \union waiters
  /\ workPc' = "unlock"
  /\ UNCHANGED <<isrVars, pulseVars, capture, bulk, workPending, workEvent,
                 mutex, poll_enabled, waiters, userVars, out>>

\* Seeded fault: the work item goes on while there is something captured.
WorkUnlockLoops ==
  /\ workPc = "unlock"
  /\ mutex' = Nobody
  /\ workPc' = IF FrontIsNull(capture) THEN "idle" ELSE "take"
  /\ UNCHANGED <<isrVars, waitVars, pulseVars, capture, bulk, workPending,
                 workEvent, userVars, out>>

WorkUnlock ==
  /\ workPc = "unlock"
  /\ mutex' = Nobody
  /\ workPc' = "idle"
  /\ UNCHANGED <<isrVars, waitVars, pulseVars, capture, bulk, workPending,
                 workEvent, userVars, out>>

Work == WorkStart \/ WorkTake \/ WorkLock \/ WorkPush \/ WorkWake \/ WorkUnlock

-----------------------------------------------------------------------------
(* poll() and read(). *)

kernelVars == <<isrVars, workVars, pulseVars, capture, workPending, poll_enabled>>

Goto(u, pc) == userPc' = [userPc EXCEPT ![u] = pc]

\* poll_wait() puts the thread on the wait queue before anything is tested.
PollBegin(u) ==
  /\ userPc[u] = "user"
  /\ waiters' = waiters \union {u}
  /\ Goto(u, "poll_lock")
  /\ UNCHANGED <<kernelVars, bulk, mutex, triggered, want, out>>

\* Each lock step takes the mutex and enters the section it protects.
UserLock(u) ==
  /\ mutex = Nobody
  /\ \/ userPc[u] = "poll_lock" /\ Goto(u, "poll_test")
     \/ userPc[u] = "read_lock" /\ Goto(u, "read_loop")
  /\ mutex' = u
  /\ UNCHANGED <<kernelVars, bulk, waiters, triggered, want, out>>

\* A mask (POLLIN for records, POLLHUP for a disabled device) ends the system
\* call; without one the thread sleeps, still on the wait queue.
PollTest(u) ==
  /\ userPc[u] = "poll_test"
  /\ mutex' = Nobody
  /\ \/ /\ ~empty(bulk) \/ ~poll_enabled
        /\ Goto(u, IF empty(bulk) THEN "user" ELSE "readable")
        /\ waiters' = waiters \ {u} /\ triggered' = triggered \ {u}
     \/ /\ empty(bulk) /\ poll_enabled
        /\ Goto(u, "poll_sleep")
        /\ UNCHANGED <<waiters, triggered>>
  /\ UNCHANGED <<kernelVars, bulk, want, out>>

PollWake(u) ==
  /\ userPc[u] = "poll_sleep" /\ u \in triggered
  /\ triggered' = triggered \ {u}
  /\ Goto(u, "poll_lock")
  /\ UNCHANGED <<kernelVars, bulk, mutex, waiters, want, out>>

PollAbandon(u) ==
  /\ userPc[u] = "poll_sleep"
  /\ waiters' = waiters \ {u} /\ triggered' = triggered \ {u}
  /\ Goto(u, "user")
  /\ UNCHANGED <<kernelVars, bulk, mutex, want, out>>

\* read() of some records; one of a single byte returns gpo and one of another
\* size is refused, both without a look at the ring.
ReadBegin(u) ==
  /\ userPc[u] \in {"user", "readable"}
  /\ \/ \E n \in ReadCounts : want' = [want EXCEPT ![u] = n]
        /\ Goto(u, "read_lock")
     \/ Goto(u, "user") /\ UNCHANGED want
  /\ UNCHANGED <<kernelVars, bulk, mutex, waiters, triggered, out>>

\* A turn of the loop.  It asks for SPACE in the ring it drains and copies what
\* front() shows, whatever that is ...
ReadCopy(u) ==
  /\ userPc[u] = "read_loop"
  /\ want[u] >= 1 /\ space(bulk) # 0 /\ ~FrontIsNull(bulk)
  /\ bulk' = pop(bulk)
  /\ out' = Append(out, FrontSlot(bulk))
  /\ want' = [want EXCEPT ![u] = @ - 1]
  /\ UNCHANGED <<kernelVars, mutex, waiters, triggered, userPc>>

\* ... until it has them all, there is no space, nothing is shown, or the
\* pointer is bad, which any turn may find.
ReadLoopEnd(u) ==
  /\ userPc[u] = "read_loop"
  /\ Goto(u, "read_unlock")
  /\ want' = [want EXCEPT ![u] = 0]
  /\ UNCHANGED <<kernelVars, bulk, mutex, waiters, triggered, out>>

ReadUnlock(u) ==
  /\ userPc[u] = "read_unlock"
  /\ mutex' = Nobody
  /\ Goto(u, "user")
  /\ UNCHANGED <<kernelVars, bulk, waiters, triggered, want, out>>

User(u) == PollBegin(u) \/ UserLock(u) \/ PollTest(u) \/ PollWake(u)
           \/ PollAbandon(u) \/ ReadBegin(u) \/ ReadCopy(u) \/ ReadLoopEnd(u)
           \/ ReadUnlock(u)

-----------------------------------------------------------------------------
(* ioctl(), write() and the timer. *)

pathVars == <<isrVars, workVars, capture, bulk, workPending, mutex, userVars, out>>

\* ESS_SET_GPIO, ESS_CLR_GPIO, ESS_DUTY_CYCLE_GPIO with 0 or a period, write().
CtlBegin ==
  /\ ctlPc = "idle"
  /\ \/ op' \in {"set", "clear", "stop", "write"} /\ ctlPc' = "cancel"
        /\ UNCHANGED msec
     \/ op' = "duty" /\ ctlPc' = "sec" /\ msec' \in Msecs
  /\ UNCHANGED <<pathVars, waitVars, period_sec, period_nsec, timer, gpo>>

\* Seeded fault: the timer goes on with the interval it has.
CtlCancelKeeps ==
  /\ ctlPc = "cancel"
  /\ ctlPc' = CASE op = "duty" -> IF timer = <<>> THEN "start" ELSE "idle"
                [] op = "stop" -> "disable" [] OTHER -> "gpo"
  /\ UNCHANGED <<pathVars, waitVars, op, msec, period_sec, period_nsec, timer, gpo>>

\* hrtimer_cancel() also waits for a running callback.
CtlCancel ==
  /\ ctlPc = "cancel"
  /\ timer' = <<>>
  /\ ctlPc' = CASE op = "duty" -> "start" [] op = "stop" -> "disable"
                [] OTHER -> "gpo"
  /\ UNCHANGED <<pathVars, waitVars, op, msec, period_sec, period_nsec, gpo>>

\* write() sets one value after the other and leaves polling as it is.
CtlGpo ==
  /\ ctlPc = "gpo"
  /\ \/ op = "set" /\ gpo' = 1 /\ ctlPc' = "disable"
     \/ op = "clear" /\ gpo' = 0 /\ ctlPc' = "disable"
     \/ op = "write" /\ gpo' \in {0, 1} /\ ctlPc' \in {"gpo", "idle"}
  /\ UNCHANGED <<pathVars, waitVars, op, msec, period_sec, period_nsec, timer>>

CtlDisable ==
  /\ ctlPc = "disable"
  /\ poll_enabled' = FALSE
  /\ ctlPc' = "wake"
  /\ UNCHANGED <<pathVars, waiters, triggered, op, msec, period_sec,
                 period_nsec, timer, gpo>>

\* Seeded fault: the ioctl returns before it wakes anybody.
CtlWakeNobody ==
  /\ ctlPc = "wake"
  /\ ctlPc' = "idle"
  /\ UNCHANGED <<pathVars, waitVars, op, msec, period_sec, period_nsec, timer, gpo>>

CtlWake ==
  /\ ctlPc = "wake"
  /\ triggered' = triggered \union waiters
  /\ ctlPc' = "idle"
  /\ UNCHANGED <<pathVars, poll_enabled, waiters, op, msec, period_sec,
                 period_nsec, timer, gpo>>

\* The two halves of the period are assigned one after the other, with the
\* timer still running from the call before.
CtlSec ==
  /\ ctlPc = "sec"
  /\ period_sec' = msec \div 1000
  /\ ctlPc' = "nsec"
  /\ UNCHANGED <<pathVars, waitVars, op, msec, period_nsec, timer, gpo>>

CtlNsec ==
  /\ ctlPc = "nsec"
  /\ period_nsec' = msec - period_sec * 1000
  /\ ctlPc' = "enable"
  /\ UNCHANGED <<pathVars, waitVars, op, msec, period_sec, timer, gpo>>

CtlEnable ==
  /\ ctlPc = "enable"
  /\ poll_enabled' = TRUE
  /\ ctlPc' = "cancel"
  /\ UNCHANGED <<pathVars, waiters, triggered, op, msec, period_sec,
                 period_nsec, timer, gpo>>

CtlStart ==
  /\ ctlPc = "start"
  /\ timer' = <<period_sec, period_nsec>>
  /\ ctlPc' = "idle"
  /\ UNCHANGED <<pathVars, waitVars, op, msec, period_sec, period_nsec, gpo>>

Ctl == CtlBegin \/ CtlCancel \/ CtlGpo \/ CtlDisable \/ CtlWake
       \/ CtlSec \/ CtlNsec \/ CtlEnable \/ CtlStart

\* my_kt_function(): toggle the pin, forward the timer by the period.
TimerFires ==
  /\ timer # <<>>
  /\ gpo' = 1 - gpo
  /\ timer' = <<period_sec, period_nsec>>
  /\ UNCHANGED <<pathVars, waitVars, ctlPc, op, msec, period_sec, period_nsec>>

Next == Isr \/ Work \/ (\E u \in Users : User(u)) \/ Ctl \/ TimerFires

Spec == Init /\ [][Next]_vars

\* Handlers, work items and calls already begun go on, and the mutex is handed
\* to its waiters.  Nobody has to make a call.
Fairness ==
  /\ WF_vars(IsrSchedule) /\ WF_vars(Work) /\ SF_vars(WorkLock)
  /\ WF_vars(CtlDisable \/ CtlWake)
  /\ \A u \in Users :
       /\ WF_vars(PollTest(u) \/ PollWake(u) \/ ReadCopy(u) \/ ReadLoopEnd(u)
                   \/ ReadUnlock(u))
       /\ SF_vars(UserLock(u))

FairSpec == Spec /\ Fairness

-----------------------------------------------------------------------------
(* Properties *)

UserPcs == {"user", "readable", "poll_lock", "poll_test", "poll_sleep",
            "read_lock", "read_loop", "read_unlock"}
OnQueue == {"poll_lock", "poll_test", "poll_sleep"}

\* Every variable has its type; the mutex owner is who is in a section.
TypeOK ==
  /\ counter \in 0..MaxEvents /\ isrPc \in {"idle", "schedule"}
  /\ capture \in Buf(CaptureCap, Record) /\ bulk \in Buf(BulkCap, Record)
  /\ workPending \in BOOLEAN /\ workEvent \in Record \union {NoEvent}
  /\ workPc \in {"idle", "take", "lock", "push", "wake", "unlock"}
  /\ mutex \in Users \union {Worker, Nobody}
  /\ poll_enabled \in BOOLEAN /\ waiters \subseteq Users /\ triggered \subseteq waiters
  /\ userPc \in [Users -> UserPcs] /\ want \in [Users -> Nat]
  /\ ctlPc \in {"idle", "cancel", "gpo", "disable", "wake", "sec", "nsec", "enable", "start"}
  /\ op \in {"none", "set", "clear", "stop", "write", "duty"}
  /\ msec \in Msecs \union {0} /\ period_sec \in Nat /\ period_nsec \in Int
  /\ timer \in {<<>>} \union (Nat \X Int) /\ gpo \in {0, 1}
  /\ out \in Seq(Record) /\ merged \in 0..MaxEvents

\* The driver implements the noisy stream: through two rings that lose laps and
\* show foreign memory, the captured events a reader gets were raised and come in
\* the order of the interrupts, each once, and for one lap of the smaller ring
\* nothing else is among them, though do_work() pushes and read() copies without
\* asking what it is.
Lap == IF CaptureCap < BulkCap THEN CaptureCap ELSE BulkCap
Stream == INSTANCE NoisyStream WITH raised <- counter, Noise <- {Stale, BeyondBlock}
StreamSpec == Stream!Spec

\* As long as the capture ring has not wrapped, every schedule_work() that
\* found the item queued leaves exactly one event behind for good.
BacklogIsMerges ==
  isrPc = "idle" /\ workPc = "idle" /\ ~workPending /\ counter < CaptureCap
    => size(capture) = merged

\* No thread sleeps in poll() through what it waits for, though polling is
\* enabled and disabled without the mutex.
NoLostWakeup ==
  \A u \in Users : userPc[u] = "poll_sleep" /\ u \notin triggered =>
    /\ empty(bulk) \/ workPc = "wake"
    /\ poll_enabled \/ ctlPc = "wake"

\* Between calls the timer runs with the period last asked for and only in
\* duty cycle mode, and a pin that was set or cleared stays so, although the
\* timer may fire between any two steps of a call.
PulseAsAsked ==
  ctlPc = "idle" =>
    /\ timer # <<>> <=> op = "duty"
    /\ op = "duty" => timer = <<msec \div 1000, msec % 1000>>
    /\ op = "set" => gpo = 1
    /\ op = "clear" => gpo = 0

\* A disabled device lets every poll() return (gpio_irq.c:323 "signal any
\* blocked poll"), unless it is enabled again first.
PollsReleased ==
  \A u \in Users :
    (userPc[u] \in OnQueue /\ ~poll_enabled) ~>
      (userPc[u] \notin OnQueue \/ poll_enabled)

\* gpio_irq.c:530 "capture event obtained": what do_work() pushes to the bulk
\* ring is an event it took from the capture ring.
PushedWasObtained == workPc = "wake" => workEvent # Stale

\* That is so, and every run of do_work() obtains one, while there have been fewer
\* interrupts than the capture ring has slots ...
ObtainedInFirstLap ==
  counter < CaptureCap /\ workPc \in {"lock", "push", "wake"} => workEvent \in Event

\* ... and a capture ring without space() is left alone for good, by handler and
\* work item alike: no event is obtained any more.
CaptureFullForGood == [][space(capture) = 0 => UNCHANGED capture]_vars
=============================================================================
