------------------------------ MODULE WaitQueue ------------------------------
(***************************************************************************)
(* wait_queues_demo() of ubuntu_18_04, 3_wait_queues/wait_queues.c, which  *)
(* canonical_init() calls: it queues a work item that sets a condition and *)
(* wakes the queue, and waits there for the condition.  A signal ends the  *)
(* wait too; nothing waits for the work item when the module goes.         *)
(***************************************************************************)
VARIABLES
  pc,          \* where insmod and then rmmod is
  work,        \* where the work item is: "none", "queued", "running", "set", "woke"
  wait_queue_condition,
  waiting, triggered,   \* on the wait queue; woken up
  signalled,   \* history: the wait was ended by a signal
  late         \* history: where the work item was when it ran in code that is gone

vars == <<pc, work, wait_queue_condition, waiting, triggered, signalled, late>>

Init ==
  /\ pc = "demo" /\ work = "none" /\ wait_queue_condition = 0
  /\ waiting = FALSE /\ triggered = FALSE
  /\ signalled = FALSE /\ late = {}

\* INIT_WORK(), schedule_work()
Demo ==
  /\ pc = "demo"
  /\ pc' = "prepare" /\ work' = "queued"
  /\ UNCHANGED <<wait_queue_condition, waiting, triggered, signalled, late>>

\* wait_event_interruptible(): on the queue first ...
Prepare ==
  /\ pc = "prepare"
  /\ waiting' = TRUE /\ triggered' = FALSE
  /\ pc' = "test"
  /\ UNCHANGED <<work, wait_queue_condition, signalled, late>>

\* ... then the condition, then sleep
Test ==
  /\ pc = "test"
  /\ IF wait_queue_condition # 0 THEN pc' = "node" /\ waiting' = FALSE
     ELSE pc' = "asleep" /\ UNCHANGED waiting
  /\ UNCHANGED <<work, wait_queue_condition, triggered, signalled, late>>

Wake ==
  /\ pc = "asleep" /\ triggered
  /\ pc' = "prepare"
  /\ UNCHANGED <<work, wait_queue_condition, waiting, triggered, signalled, late>>

Signal ==
  /\ pc = "asleep"
  /\ pc' = "node" /\ waiting' = FALSE /\ signalled' = TRUE
  /\ UNCHANGED <<work, wait_queue_condition, triggered, late>>

\* The rest of canonical_init(); one that fails leaves no module.
RegisterNode ==
  /\ pc = "node"
  /\ pc' \in {"loaded", "gone"}
  /\ UNCHANGED <<work, wait_queue_condition, waiting, triggered, signalled, late>>

\* canonical_exit() does not look at the work item.
Exit ==
  /\ pc = "loaded"
  /\ pc' = "gone"
  /\ UNCHANGED <<work, wait_queue_condition, waiting, triggered, signalled, late>>

-----------------------------------------------------------------------------
(* work_queue_function() *)

Late == late' = IF pc = "gone" THEN late \union {work} ELSE late

WorkRuns ==
  /\ work = "queued"
  /\ work' = "running" /\ Late
  /\ UNCHANGED <<pc, wait_queue_condition, waiting, triggered, signalled>>

WorkSets ==
  /\ work = "running"
  /\ work' = "set" /\ wait_queue_condition' = 1 /\ Late
  /\ UNCHANGED <<pc, waiting, triggered, signalled>>

WorkWakes ==
  /\ work = "set"
  /\ work' = "woke" /\ Late
  /\ triggered' = (triggered \/ waiting)
  /\ UNCHANGED <<pc, wait_queue_condition, waiting, signalled>>

WorkReturns ==
  /\ work = "woke"
  /\ work' = "none" /\ Late
  /\ UNCHANGED <<pc, wait_queue_condition, waiting, triggered, signalled>>

Work == WorkRuns \/ WorkSets \/ WorkWakes \/ WorkReturns

Next == Demo \/ Prepare \/ Test \/ Wake \/ Signal \/ RegisterNode \/ Exit \/ Work

\* insmod goes on while it can, and so does the worker.
Fairness == WF_vars(Prepare \/ Test \/ Wake) /\ WF_vars(Work)

Spec == Init /\ [][Next]_vars /\ Fairness

-----------------------------------------------------------------------------
(* Properties *)

\* Unless a signal ended the wait, the work item runs in code that is gone only
\* for its last two steps, the wake-up and the return; the condition is set before.
NoStaleUse == signalled \/ late \subseteq {"set", "woke"}

\* No sleep without a wake-up: insmod sleeps only while the work item has yet to wake
\* it, or has.
WakeComes == pc = "asleep" => triggered \/ work \in {"queued", "running", "set"}

\* The wait ends, whenever the work item sets the condition and wakes.
DemoReturns == pc = "prepare" ~> pc \in {"node", "loaded", "gone"}
=============================================================================
