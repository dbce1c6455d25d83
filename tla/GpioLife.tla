------------------------------ MODULE GpioLife ------------------------------
(***************************************************************************)
(* Loading and unloading the rpi_3b_v1_2 gpio module, with every step that *)
(* may fail: canonical_init(), gpio_irq_demo_init() (whose result nobody   *)
(* looks at), gpio_irq_exit() and canonical_exit().  The interrupt comes   *)
(* as soon as it is requested; the work item, the timer and programs run   *)
(* beside them.  exit waits for the timer, not for the work item.          *)
(***************************************************************************)
VARIABLES
  pc,
  pins, irq,         \* gpios requested ("input", "output"), request_irq() done
  rings,             \* each ring's buffer: "none", "live", "freed"
  workInit,          \* INIT_WORK() done
  pending, running,  \* the work item is queued, runs
  hrt, timer,        \* my_hrt_data_; its timer: "idle", "armed", "running"
  nodes, open,       \* what is registered for the node; a program has it open
  stale,             \* history: what was used, or freed, that was not held
  causes             \* history: what may lead to it

pinVars  == <<pins, irq>>
workVars == <<rings, workInit, pending, running>>
hrtVars  == <<hrt, timer>>
nodeVars == <<nodes, open>>
history  == <<stale, causes>>
vars == <<pc, pinVars, workVars, hrtVars, nodeVars, history>>

Rings   == {"capture", "bulk"}
AllLive == [r \in Rings |-> "live"]

Init ==
  /\ pc = "out"
  /\ pins = {} /\ irq = FALSE
  /\ rings = [r \in Rings |-> "none"] /\ workInit = FALSE
  /\ pending = FALSE /\ running = FALSE
  /\ hrt = "none" /\ timer = "idle"
  /\ nodes = {} /\ open = FALSE
  /\ stale = {} /\ causes = {}

Goto(next)      == pc' = next
Unless(held, s) == IF held THEN {} ELSE {s}
Fails(cause)    == causes' = causes \union {cause} /\ UNCHANGED stale
Failed          == Fails("failed")

-----------------------------------------------------------------------------
(* insmod *)

Load ==
  /\ pc = "out"
  /\ Goto("input")
  /\ rings' = [r \in Rings |-> "none"] /\ workInit' = FALSE /\ hrt' = "none"
  /\ UNCHANGED <<pinVars, pending, running, timer, nodeVars, history>>

\* gpio_request() to request_irq(): only a failing gpio_direction_input() gives
\* the pin back.
InitInput ==
  /\ pc = "input"
  /\ \/ pins' = pins \union {"input"} /\ irq' = TRUE /\ Goto("rings") /\ UNCHANGED history
     \/ pins' \in {pins, pins \union {"input"}} /\ Goto("node") /\ Failed /\ UNCHANGED irq
  /\ UNCHANGED <<workVars, hrtVars, nodeVars>>

\* Both rings, then the wait queue, the work item, the locks
InitRings ==
  /\ pc = "rings"
  /\ \/ rings' = AllLive /\ workInit' = TRUE /\ Goto("output") /\ UNCHANGED history
     \/ /\ rings' \in {rings, [rings EXCEPT !["capture"] = "live"]}
        /\ Goto("node") /\ Failed /\ UNCHANGED workInit
  /\ UNCHANGED <<pinVars, pending, running, hrtVars, nodeVars>>

\* The output pin and my_hrt_data_, whose kmalloc() is not tested
InitOutput ==
  /\ pc = "output"
  /\ \/ pins' = pins \union {"output"} /\ hrt' = "live" /\ Goto("node") /\ UNCHANGED history
     \/ Goto("node") /\ Failed /\ UNCHANGED <<pins, hrt>>
     \/ /\ pins' = pins \union {"output"} /\ Goto("gone") /\ UNCHANGED hrt
        /\ stale' = stale \union {"timer"} /\ causes' = causes \union {"failed"}
  /\ UNCHANGED <<irq, workVars, timer, nodeVars>>

\* A module whose init fails is gone, without exit; an error of device_create()
\* or cdev_add() is not the value tested for and passes unseen.
RegisterNode ==
  /\ pc = "node"
  /\ \/ nodes' \in SUBSET {"device", "cdev"} /\ Goto("loaded") /\ UNCHANGED history
     \/ Goto("gone") /\ Fails("node") /\ UNCHANGED nodes
  /\ UNCHANGED <<pinVars, workVars, hrtVars, open>>

-----------------------------------------------------------------------------
(* rmmod, which an open node keeps out *)

\* free_irq() waits for a running handler.
ExitInput ==
  /\ pc = "loaded" /\ ~open
  /\ Goto("free_output")
  /\ irq' = FALSE /\ pins' = pins \ {"input"}
  /\ stale' = stale \union Unless("input" \in pins, "pin")
  /\ UNCHANGED <<workVars, hrtVars, nodeVars, causes>>

\* The timer still runs.
ExitOutput ==
  /\ pc = "free_output"
  /\ Goto("cancel")
  /\ pins' = pins \ {"output"}
  /\ stale' = stale \union Unless("output" \in pins, "pin")
  /\ causes' = causes \union Unless(timer = "idle", "armed")
  /\ UNCHANGED <<irq, workVars, hrtVars, nodeVars>>

\* hrtimer_cancel() waits for a running callback.
ExitCancel ==
  /\ pc = "cancel" /\ timer # "running"
  /\ Goto("free_timer")
  /\ timer' = "idle"
  /\ stale' = stale \union Unless(hrt = "live", "timer")
  /\ UNCHANGED <<pinVars, workVars, hrt, nodeVars, causes>>

ExitFreeTimer ==
  /\ pc = "free_timer"
  /\ Goto("release")
  /\ hrt' = IF hrt = "live" THEN "freed" ELSE hrt
  /\ UNCHANGED <<pinVars, workVars, timer, nodeVars, history>>

\* Nothing flushes the work item.
ExitRelease ==
  /\ pc = "release"
  /\ Goto("unregister")
  /\ rings' = [r \in Rings |-> IF rings[r] = "live" THEN "freed" ELSE rings[r]]
  /\ causes' = causes \union Unless(~pending /\ ~running, "pending")
  /\ UNCHANGED <<pinVars, workInit, pending, running, hrtVars, nodeVars, stale>>

\* There is no cdev_del().
Unregister ==
  /\ pc = "unregister"
  /\ Goto("out")
  /\ nodes' = nodes \intersect {"cdev"}
  /\ UNCHANGED <<pinVars, workVars, hrtVars, open, history>>

-----------------------------------------------------------------------------
(* What goes on meanwhile *)

\* Code that is gone and rings that are not there are all the same to a handler.
RingsUsed == stale' = stale \union Unless(pc \notin {"out", "gone"} /\ rings = AllLive, "ring")

\* gpio_irq_handler()
Interrupt ==
  /\ irq
  /\ RingsUsed
  /\ causes' = causes \union Unless(workInit, "early")
  /\ pending' = (pending \/ workInit)
  /\ UNCHANGED <<pc, pinVars, rings, workInit, running, hrtVars, nodeVars>>

\* ess_do_work()
WorkBegin ==
  /\ pending /\ ~running
  /\ pending' = FALSE /\ running' = TRUE
  /\ RingsUsed
  /\ UNCHANGED <<pc, pinVars, rings, workInit, hrtVars, nodeVars, causes>>

WorkEnd ==
  /\ running
  /\ running' = FALSE
  /\ RingsUsed
  /\ UNCHANGED <<pc, pinVars, rings, workInit, pending, hrtVars, nodeVars, causes>>

\* my_kt_function(): it turns the pin over ...
TimerFires ==
  /\ timer = "armed"
  /\ timer' = "running"
  /\ stale' = stale \union Unless("output" \in pins, "pin")
  /\ UNCHANGED <<pc, pinVars, workVars, hrt, nodeVars, causes>>

\* ... and reads its period to be armed again.
TimerRestarts ==
  /\ timer = "running"
  /\ timer' = "armed"
  /\ stale' = stale \union Unless(hrt = "live", "timer")
  /\ UNCHANGED <<pc, pinVars, workVars, hrt, nodeVars, causes>>

Open ==
  /\ pc = "loaded" /\ nodes = {"device", "cdev"} /\ ~open
  /\ open' = TRUE
  /\ UNCHANGED <<pc, pinVars, workVars, hrtVars, nodes, history>>

Close ==
  /\ open
  /\ open' = FALSE
  /\ UNCHANGED <<pc, pinVars, workVars, hrtVars, nodes, history>>

\* read() and poll()
UseRings ==
  /\ open
  /\ RingsUsed
  /\ UNCHANGED <<pc, pinVars, workVars, hrtVars, nodeVars, causes>>

\* write() and ioctl(): the timer is cancelled, the pin set or the timer started.
UseTimer ==
  /\ open /\ timer # "running"
  /\ timer' \in {"idle", "armed"}
  /\ stale' = stale \union Unless(hrt = "live", "timer") \union Unless("output" \in pins, "pin")
  /\ UNCHANGED <<pc, pinVars, workVars, hrt, nodeVars, causes>>

Next ==
  \/ Load \/ InitInput \/ InitRings \/ InitOutput \/ RegisterNode
  \/ ExitInput \/ ExitOutput \/ ExitCancel \/ ExitFreeTimer \/ ExitRelease \/ Unregister
  \/ Interrupt \/ WorkBegin \/ WorkEnd \/ TimerFires \/ TimerRestarts
  \/ Open \/ Close \/ UseRings \/ UseTimer

Spec == Init /\ [][Next]_vars

-----------------------------------------------------------------------------
(* Properties *)

\* Nothing that is gone is used but for a named cause: a step of a load that
\* failed (anything), an interrupt before gpio_irq_demo_init() made the rings, a
\* work item left when exit released them, a load that failed over its node and
\* left the irq, a timer armed when exit freed the pin it turns over.  The timer's
\* own memory is never used after it is freed.
NoStaleUse ==
  \/ "failed" \in causes
  \/ /\ "timer" \notin stale
     /\ "pin" \in stale => "armed" \in causes
     /\ "ring" \in stale => causes \intersect {"early", "pending", "node"} # {}

\* However a load went, unloading takes back the irq, the pins, the timer, all
\* memory and the node, everything but the cdev.  A load that failed over its node
\* takes nothing back: irq, pins and all memory stay, and the code is gone.
UnloadReleases ==
  /\ pc = "out" =>
       /\ ~irq /\ pins = {} /\ timer = "idle" /\ nodes \subseteq {"cdev"}
       /\ hrt # "live" /\ \A r \in Rings : rings[r] # "live"
  /\ pc = "gone" /\ "failed" \notin causes =>
       irq /\ pins = {"input", "output"} /\ hrt = "live" /\ rings = AllLive
=============================================================================
