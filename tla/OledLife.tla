------------------------------ MODULE OledLife ------------------------------
(***************************************************************************)
(* Loading and unloading the rpi_4b OLED module, with every step that may  *)
(* fail: canonical_init() and canonical_exit(), ess_oled_init() and        *)
(* ess_oled_cleanup(), the i2c probe and remove, and the pins, rings and   *)
(* work item of gpio_oled_irq.c.  Interrupts come as soon as a pin has     *)
(* its irq, the work item runs beside them, and programs use the device    *)
(* node.                                                                   *)
(***************************************************************************)
EXTENDS Integers, FiniteSets

CONSTANTS LastPin       \* 7 pins: 1 is BUTTON_5, 2 is BUTTON_6, then the rocker

LifeAssumption == LastPin \in Nat /\ LastPin > 2

Pins  == 1..LastPin
Nodes == {"region", "class", "device", "cdev"}
Rings == {"capture", "bulk"}

VARIABLES
  pc, pin,         \* where init, probe or exit is; the pin it is at
  descs, irqs,     \* pins whose gpio_desc is held, whose irq is requested
  numbered,        \* pins with gpio_number and gpio_irq_number set
  driver, bound,   \* i2c_add_driver() done; the probe succeeded
  oled,            \* ess_ssd1305_oled_ and its buffer: "none", "live", "freed"
  rings,           \* the same for each ring
  workInit, work,  \* INIT_WORK() done; "idle", "queued", "running"
  nodes, open,     \* what is registered for the node; a program has it open
  stale,           \* history: what was used, or released, that was not held
  causes           \* history: what may lead to it

pinVars  == <<descs, irqs, numbered>>
devVars  == <<driver, bound, oled>>
workVars == <<rings, workInit, work>>
nodeVars == <<nodes, open>>
history  == <<stale, causes>>
vars == <<pc, pin, pinVars, devVars, workVars, nodeVars, history>>

\* A module's variables start anew with every load.
Init ==
  /\ pc = "out" /\ pin = 1
  /\ descs = {} /\ irqs = {} /\ numbered = {}
  /\ driver = FALSE /\ bound = FALSE /\ oled = "none"
  /\ rings = [r \in Rings |-> "none"] /\ workInit = FALSE /\ work = "idle"
  /\ nodes = {} /\ open = FALSE
  /\ stale = {} /\ causes = {}

Goto(next)      == pc' = next
Unless(held, s) == IF held THEN {} ELSE {s}
Fails(cause)    == causes' = causes \union {cause} /\ UNCHANGED stale
Failed          == Fails("failed")

-----------------------------------------------------------------------------
(* insmod *)

Load ==
  /\ pc = "out"
  /\ Goto("add_driver")
  /\ pin' = 1 /\ numbered' = {} /\ oled' = "none"
  /\ rings' = [r \in Rings |-> "none"] /\ workInit' = FALSE /\ nodes' = {}
  /\ UNCHANGED <<descs, irqs, driver, bound, work, open, history>>

\* i2c_add_driver(): it probes a device that is there.  The core keeps a driver
\* whose probe fails.
AddDriver ==
  /\ pc = "add_driver"
  /\ \/ Goto("probe_pin") /\ driver' = TRUE /\ UNCHANGED history
     \/ Goto("init_rings") /\ driver' = TRUE /\ Failed    \* no device
     \/ Goto("region") /\ UNCHANGED driver /\ Failed
  /\ UNCHANGED <<pin, pinVars, bound, oled, workVars, nodeVars>>

PinDone == IF pin = LastPin THEN Goto("alloc") /\ UNCHANGED pin
           ELSE pin' = pin + 1 /\ UNCHANGED pc

\* gpio_oled_irq(): the descriptor, which one holder has, its irq number, the irq.
ProbePin ==
  /\ pc = "probe_pin"
  /\ \/ /\ pin \notin descs /\ descs' = descs \union {pin}
        /\ numbered' = numbered \union {pin}
        /\ \/ /\ irqs' = irqs \union {pin}
              /\ PinDone /\ UNCHANGED history
           \/ /\ Goto("probe_undo") /\ Failed
              /\ UNCHANGED <<irqs, pin>>
     \/ /\ pin \notin descs /\ descs' = descs \union {pin}
        /\ PinDone \/ (Goto("probe_undo") /\ UNCHANGED pin)
        /\ Failed /\ UNCHANGED <<irqs, numbered>>   \* no number: the debounce's result
     \/ /\ Goto("probe_undo") /\ Failed      \* no descriptor
        /\ UNCHANGED <<pin, pinVars>>
  /\ UNCHANGED <<devVars, workVars, nodeVars>>

\* gpio_oled_probe() has one list of gpiod_put() for each pin that may fail.
Puts(k) == CASE k = 1 -> {}
             [] k = 2 -> {1}
             [] OTHER -> {1} \union (3..k)

\* gpiod_put() of a descriptor that is an error value is one more use of what is
\* not there.
ProbeUndo ==
  /\ pc = "probe_undo"
  /\ descs' = descs \ Puts(pin)
  /\ stale' = stale \union Unless(Puts(pin) \subseteq descs, "pin")
  /\ Goto("init_rings")
  /\ UNCHANGED <<pin, irqs, numbered, devVars, workVars, nodeVars, causes>>

\* ess_oled_probe() after the pins: the adapter's functionality, the memory, ...
ProbeAlloc ==
  /\ pc = "alloc"
  /\ \/ Goto("init_panel") /\ oled' = "live" /\ UNCHANGED history
     \/ Goto("init_rings") /\ oled' \in {"none", "freed"} /\ Failed
  /\ UNCHANGED <<pin, pinVars, driver, bound, workVars, nodeVars>>

\* ... and the commands and first frames.
ProbePanel ==
  /\ pc = "init_panel"
  /\ Goto("init_rings")
  /\ \/ bound' = TRUE /\ UNCHANGED history
     \/ UNCHANGED bound /\ Failed
  /\ UNCHANGED <<pin, pinVars, driver, oled, workVars, nodeVars>>

\* gpio_oled_irq_init(); nobody looks at its result.
InitRings ==
  /\ pc = "init_rings"
  /\ Goto("region")
  /\ \/ rings' = [r \in Rings |-> "live"] /\ workInit' = TRUE /\ UNCHANGED history
     \/ UNCHANGED <<rings, workInit>> /\ Failed
     \/ rings' = [rings EXCEPT !["capture"] = "freed"] /\ UNCHANGED workInit /\ Failed
  /\ UNCHANGED <<pin, pinVars, devVars, work, nodeVars>>

\* canonical_init(): the node.  A module whose init fails is gone, without exit;
\* errors of class_create(), device_create() and cdev_add() are not the values
\* it tests for: the first is followed as a pointer, the others pass unseen.
Register(at, what, next) ==
  /\ pc = at
  /\ \/ nodes' = nodes \union {what} /\ Goto(next) /\ UNCHANGED history
     \/ /\ UNCHANGED nodes
        /\ IF what \in {"region", "class"} THEN Goto("gone") /\ Fails("node")
           ELSE Goto(next) /\ UNCHANGED history
  /\ UNCHANGED <<pin, pinVars, devVars, workVars, open>>

RegisterNode ==
  \/ Register("region", "region", "class")
  \/ Register("class", "class", "device")
  \/ Register("device", "device", "cdev")
  \/ Register("cdev", "cdev", "loaded")

-----------------------------------------------------------------------------
(* rmmod: canonical_exit(), ess_oled_cleanup(), gpio_oled_irq_exit().  An open *)
(* node keeps the module.                                                      *)

\* i2c_del_driver(), with ess_oled_remove() for a bound device: it puts all pins.
Unload ==
  /\ pc = "loaded" /\ ~open
  /\ Goto("free_pin") /\ pin' = 1
  /\ driver' = FALSE /\ bound' = FALSE
  /\ \/ bound /\ oled' = "freed" /\ descs' = {} /\ causes' = causes \union {"removed"}
     \/ ~bound /\ UNCHANGED <<oled, descs, causes>>
  /\ UNCHANGED <<irqs, numbered, workVars, nodeVars, stale>>

\* Whether this pin and its irq are there to be released: a pin that remove has put
\* is not, and without a number it is another one that is freed.
FreesHeld ==
  stale' = stale \union Unless(pin \in descs \intersect numbered, "pin")
                 \union Unless(pin \in irqs, "irq")

\* Seeded fault: the last pin is forgotten.
FreePinButLast ==
  /\ pc = "free_pin"
  /\ descs' = descs \ ({pin} \intersect numbered)
  /\ irqs' = irqs \ {pin}
  /\ IF pin = LastPin - 1 THEN Goto("flush") /\ UNCHANGED pin ELSE pin' = pin + 1 /\ UNCHANGED pc
  /\ UNCHANGED <<numbered, devVars, workVars, nodeVars, causes>> /\ FreesHeld

\* release_gpio_resource(): gpio_free(), free_irq()
FreePin ==
  /\ pc = "free_pin"
  /\ descs' = descs \ ({pin} \intersect numbered)
  /\ irqs' = irqs \ {pin}
  /\ IF pin = LastPin THEN Goto("flush") /\ UNCHANGED pin ELSE pin' = pin + 1 /\ UNCHANGED pc
  /\ UNCHANGED <<numbered, devVars, workVars, nodeVars, causes>> /\ FreesHeld

\* Seeded fault: the work item is not waited for.
FlushNothing ==
  /\ pc = "flush"
  /\ Goto("release")
  /\ UNCHANGED <<pin, pinVars, devVars, workVars, nodeVars, history>>

\* flush_scheduled_work()
Flush ==
  /\ pc = "flush" /\ work = "idle"
  /\ Goto("release")
  /\ UNCHANGED <<pin, pinVars, devVars, workVars, nodeVars, history>>

\* release() frees the buffer again when init had freed it.
Release ==
  /\ pc = "release"
  /\ rings' = [r \in Rings |-> IF rings[r] = "none" THEN "none" ELSE "freed"]
  /\ stale' = stale \union Unless(\A r \in Rings : rings[r] # "freed", "ring")
  /\ Goto("unregister")
  /\ UNCHANGED <<pin, pinVars, devVars, workInit, work, nodeVars, causes>>

\* There is no cdev_del().
Unregister ==
  /\ pc = "unregister"
  /\ nodes' = nodes \intersect {"cdev"}
  /\ Goto("out")
  /\ UNCHANGED <<pin, pinVars, devVars, workVars, open, history>>

-----------------------------------------------------------------------------
(* What goes on meanwhile *)

InModule == pc \notin {"out", "gone"}
Live     == InModule /\ rings = [r \in Rings |-> "live"]
Early    == pc \in {"add_driver", "probe_pin", "probe_undo", "alloc", "init_panel", "init_rings"}

\* A handler pushes to the capture ring and queues the work item.
Interrupt ==
  /\ irqs # {} /\ work # "queued"
  /\ stale' = stale \union Unless(Live, "ring")
  /\ causes' = causes \union Unless(~Early, "early")
  /\ work' = IF workInit THEN "queued" ELSE work
  /\ UNCHANGED <<pc, pin, pinVars, devVars, rings, workInit, nodeVars>>

WorkRuns ==
  /\ work \in {"queued", "running"}
  /\ stale' = stale \union Unless(Live, "ring")
  /\ work' = IF work = "queued" THEN "running" ELSE "idle"
  /\ UNCHANGED <<pc, pin, pinVars, devVars, rings, workInit, nodeVars, causes>>

Open ==
  /\ pc = "loaded" /\ "cdev" \in nodes /\ ~open
  /\ open' = TRUE
  /\ UNCHANGED <<pc, pin, pinVars, devVars, workVars, nodes, history>>

\* read(), write() and ioctl() use the rings and the frame buffer.
Use ==
  /\ open
  /\ stale' = stale \union Unless(Live, "ring") \union Unless(oled = "live", "memory")
  /\ UNCHANGED <<pc, pin, pinVars, devVars, workVars, nodeVars, causes>>

Close ==
  /\ open
  /\ open' = FALSE
  /\ UNCHANGED <<pc, pin, pinVars, devVars, workVars, nodes, history>>

Next ==
  \/ Load \/ AddDriver \/ ProbePin \/ ProbeUndo \/ ProbeAlloc \/ ProbePanel
  \/ InitRings \/ RegisterNode
  \/ Unload \/ FreePin \/ Flush \/ Release \/ Unregister
  \/ Interrupt \/ WorkRuns \/ Open \/ Use \/ Close

Spec == Init /\ [][Next]_vars

-----------------------------------------------------------------------------
(* Properties *)

\* From the first load to any later unload no handler, work item, program or cleanup
\* uses or releases what is not there but for a named cause: a step of a load that
\* failed (anything); for the rings, an interrupt between request_irq() and
\* gpio_oled_irq_init(), or a load that failed over its node, whose handlers stay; for
\* the pins, any unload of a bound device, where remove has put what exit then frees.
NoStaleUse ==
  \/ "failed" \in causes
  \/ /\ stale \subseteq {"ring", "pin"}
     /\ "ring" \in stale => causes \intersect {"early", "node"} # {}
     /\ "pin" \in stale => "removed" \in causes

\* However a load went, unloading takes back every irq, the driver and the node,
\* and every descriptor whose number was recorded; with no failed step,
\* everything but the cdev.  A load that failed over its node takes nothing back:
\* driver, irqs, pins, rings and frame buffer stay, and the code is gone.
UnloadReleases ==
  /\ pc = "out" =>
       /\ irqs = {} /\ descs \intersect numbered = {} /\ ~driver
       /\ nodes \subseteq {"cdev"}
       /\ "failed" \notin causes => descs = {} /\ oled # "live" /\ work = "idle"
  /\ pc = "gone" /\ "failed" \notin causes =>
       /\ driver /\ bound /\ irqs = Pins /\ descs = Pins
       /\ rings = [r \in Rings |-> "live"] /\ oled = "live"
=============================================================================
