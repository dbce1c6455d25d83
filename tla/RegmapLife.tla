----------------------------- MODULE RegmapLife -----------------------------
(***************************************************************************)
(* The OLED driver built over regmap (2_i2c/OLED_regmap/module/i2c_oled.c) *)
(* as the i2c core sees it: probe, remove, and the programs that use what  *)
(* probe allocated.  The driver is bound when it is added, unbound when it *)
(* is deleted, and root may unbind and bind it at any time between.  The   *)
(* pins are one thing here; what each step does to them is in OledLife.    *)
(***************************************************************************)
VARIABLES
  pc,
  driver, bound,   \* i2c_add_driver() done; the driver has the device
  leaving,         \* the module is being unloaded
  pins,            \* gpio_oled_probe() holds them
  oled, map,       \* ess_ssd1305_oled_ and its regmap: "none", "live", "freed"
  open,            \* a program has the device node open
  stale,           \* history: who used, or freed, what was not there
  causes           \* history: what may lead to it

history == <<stale, causes>>
vars == <<pc, driver, bound, leaving, pins, oled, map, open, history>>

Init ==
  /\ pc = "out"
  /\ driver = FALSE /\ bound = FALSE /\ leaving = FALSE
  /\ pins = FALSE /\ oled = "none" /\ map = "none"
  /\ open = FALSE
  /\ stale = {} /\ causes = {}

Goto(next)      == pc' = next
Unless(held, s) == IF held THEN {} ELSE {s}
Failed(step)    == Goto("loaded") /\ causes' = causes \union {step}

-----------------------------------------------------------------------------
(* ess_oled_init(), ess_oled_probe() *)

\* i2c_add_driver() probes a device that is there.
AddDriver ==
  /\ pc = "out"
  /\ oled' = "none" /\ map' = "none" /\ leaving' = FALSE
  /\ \/ driver' = TRUE /\ Goto("pins") /\ UNCHANGED causes
     \/ driver' \in BOOLEAN /\ Failed("probe")
  /\ UNCHANGED <<bound, pins, open, stale>>

\* Bound again; the i2c core calls probe.
Bind ==
  /\ pc = "loaded" /\ driver /\ ~bound
  /\ Goto("pins")
  /\ UNCHANGED <<driver, bound, leaving, pins, oled, map, open, history>>

\* gpio_oled_probe(): a pin still held is not had again.
ProbePins ==
  /\ pc = "pins"
  /\ \/ ~pins /\ pins' = TRUE /\ Goto("alloc") /\ UNCHANGED causes
     \/ Failed("probe") /\ UNCHANGED pins
  /\ UNCHANGED <<driver, bound, leaving, oled, map, open, stale>>

\* The adapter's functionality, kmalloc() and kzalloc(); errors keep the pins.
ProbeAlloc ==
  /\ pc = "alloc"
  /\ \/ oled' = "live" /\ Goto("regmap") /\ UNCHANGED causes
     \/ oled' \in {oled, "none", "freed"} /\ Failed("probe")
  /\ UNCHANGED <<driver, bound, leaving, pins, map, open, stale>>

\* regmap_init_i2c(): its error frees everything, then the result is read from
\* what was freed: the core may take it for success.
ProbeRegmap ==
  /\ pc = "regmap"
  /\ \/ map' = "live" /\ Goto("panel") /\ UNCHANGED <<bound, pins, oled, history>>
     \/ /\ oled' = "freed" /\ pins' = FALSE /\ stale' = stale \union {"probe"}
        /\ bound' \in BOOLEAN
        /\ Failed("probe") /\ UNCHANGED map
  /\ UNCHANGED <<driver, leaving, open>>

\* Commands and first frames; an error releases nothing.
ProbePanel ==
  /\ pc = "panel"
  /\ \/ bound' = TRUE /\ Goto("loaded") /\ UNCHANGED causes
     \/ Failed("panel") /\ UNCHANGED bound
  /\ UNCHANGED <<driver, leaving, pins, oled, map, open, stale>>

-----------------------------------------------------------------------------
(* ess_oled_remove(), ess_oled_cleanup() *)

\* The buffer and ess_ssd1305_oled_ are freed first.
RemoveFree ==
  /\ Goto("remove")
  /\ bound' = FALSE /\ oled' = "freed"
  /\ stale' = stale \union Unless(oled = "live", "twice")

Unbind ==
  /\ pc = "loaded" /\ bound
  /\ RemoveFree
  /\ causes' = causes \union {"unbound"}
  /\ UNCHANGED <<driver, leaving, pins, map, open>>

\* rmmod, which an open node keeps out; gpio_oled_irq_exit() has the pins back.
Unload ==
  /\ pc = "loaded" /\ ~open
  /\ driver' = FALSE /\ leaving' = TRUE
  /\ IF bound THEN RemoveFree /\ UNCHANGED pins
     ELSE Goto("out") /\ pins' = FALSE /\ UNCHANGED <<bound, oled, stale>>
  /\ UNCHANGED <<map, open, causes>>

\* The regmap to exit is read from the memory just freed: it may be another's by
\* now.  gpio_oled_remove()
RemoveRegmap ==
  /\ pc = "remove"
  /\ stale' = stale \union {"remove"}
  /\ map' \in {map, "freed"}
  /\ pins' = FALSE
  /\ Goto(IF leaving THEN "out" ELSE "loaded")
  /\ UNCHANGED <<driver, bound, leaving, oled, open, causes>>

-----------------------------------------------------------------------------
(* Programs *)

Open ==
  /\ pc # "out" /\ ~leaving /\ ~open
  /\ open' = TRUE
  /\ UNCHANGED <<pc, driver, bound, leaving, pins, oled, map, history>>

Close ==
  /\ open
  /\ open' = FALSE
  /\ UNCHANGED <<pc, driver, bound, leaving, pins, oled, map, history>>

\* write() and ioctl() draw into the buffer and send it through the regmap.
Use ==
  /\ open
  /\ stale' = stale \union Unless(oled = "live" /\ map = "live", "program")
  /\ causes' = causes \union Unless(bound, "unready")
  /\ UNCHANGED <<pc, driver, bound, leaving, pins, oled, map, open>>

Next ==
  \/ AddDriver \/ Bind \/ ProbePins \/ ProbeAlloc \/ ProbeRegmap \/ ProbePanel
  \/ Unbind \/ Unload \/ RemoveRegmap
  \/ Open \/ Close \/ Use

Spec == Init /\ [][Next]_vars

-----------------------------------------------------------------------------
(* Properties *)

\* But for remove(), which reads the regmap from memory it freed at every unload,
\* nothing is used or freed that is not there, unless a step of the probe failed
\* or the driver did not have the device when a program came.
NoStaleUse ==
  /\ stale \intersect {"probe", "twice"} # {} => "probe" \in causes
  /\ "program" \in stale => causes \intersect {"probe", "unready"} # {}

\* Unloading leaves memory only where a command of a probe had failed.
UnloadReleases ==
  pc = "out" => ~driver /\ ~bound /\ ~pins /\ (oled = "live" => "panel" \in causes)
=============================================================================
