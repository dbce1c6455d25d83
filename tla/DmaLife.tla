------------------------------- MODULE DmaLife -------------------------------
(***************************************************************************)
(* Loading and unloading the dma module, modules/rpi_4b/4_dma/dma_moc.c:   *)
(* dma_init() registers the driver and makes a proc entry, dma_probe()     *)
(* allocates what goes with the binding, and a program writes to the misc  *)
(* device.  Root may unbind and bind the driver at any time, even while    *)
(* the program has the device open.  How write() goes is in DmaWrite.      *)
(***************************************************************************)
VARIABLES
  pc,
  driver, bound,   \* platform_driver_register() done; the driver has the device
  leaving,         \* the module is being unloaded
  memory, channel, misc,   \* dma_private_data and its buffers, the dma channel, the
                           \* registered misc device: the binding has them
  sized,           \* the size of the buffers was found in the device tree
  proc,            \* the proc entry is there
  open, moving,    \* whose the open device and the data on its way are: "no",
                   \* "bound", or "unbound", of a binding that is gone
  stale,           \* history: what was used that was not there
  causes           \* history: what may lead to it

probeVars == <<bound, memory, channel, misc, sized>>
userVars  == <<open, moving>>
history   == <<stale, causes>>
vars == <<pc, driver, leaving, probeVars, proc, userVars, history>>

Init ==
  /\ pc = "out"
  /\ driver = FALSE /\ leaving = FALSE
  /\ bound = FALSE /\ memory = FALSE /\ channel = FALSE /\ misc = FALSE
  /\ sized = FALSE /\ proc = FALSE
  /\ open = "no" /\ moving = "no"
  /\ stale = {} /\ causes = {}

Goto(next)      == pc' = next
Unless(held, s) == IF held THEN {} ELSE {s}

-----------------------------------------------------------------------------
(* dma_init(), dma_probe() *)

\* platform_driver_register() probes a device that is there.
Register ==
  /\ pc = "out"
  /\ leaving' = FALSE
  /\ \/ driver' = TRUE /\ pc' \in {"probe", "proc"}
     \/ UNCHANGED <<driver, pc>>
  /\ UNCHANGED <<probeVars, proc, userVars, history>>

\* Without the channel all memory goes again.  A size that is not found is only
\* logged, and so is an error of misc_register().
Probe ==
  /\ pc \in {"probe", "reprobe"}
  /\ Goto(IF pc = "probe" THEN "proc" ELSE "loaded")
  /\ \/ /\ bound' = TRUE /\ memory' = TRUE /\ channel' = TRUE
        /\ misc' \in BOOLEAN /\ sized' \in BOOLEAN
        /\ causes' = causes \union Unless(misc', "misc") \union Unless(sized', "size")
     \/ UNCHANGED <<probeVars, causes>>
  /\ UNCHANGED <<driver, leaving, proc, userVars, stale>>

\* create_proc(), whose result dma_init() does not look at
CreateProc ==
  /\ pc = "proc"
  /\ Goto("loaded")
  /\ proc' \in BOOLEAN
  /\ UNCHANGED <<driver, leaving, probeVars, userVars, history>>

Bind ==
  /\ pc = "loaded" /\ ~bound
  /\ Goto("reprobe")
  /\ UNCHANGED <<driver, leaving, probeVars, proc, userVars, history>>

-----------------------------------------------------------------------------
(* dma_remove(), dma_exit() *)

Gone(user) == IF user = "bound" THEN "unbound" ELSE user

\* The core frees the memory after dma_remove(); the program is not asked.
Remove ==
  /\ bound
  /\ bound' = FALSE /\ memory' = FALSE /\ channel' = FALSE /\ misc' = FALSE
  /\ stale' = stale \union Unless(misc, "misc")
  /\ open' = Gone(open) /\ moving' = Gone(moving)

Unbind ==
  /\ pc \in {"proc", "loaded", "unregister"}
  /\ Remove
  /\ causes' = causes \union {"unbound"}
  /\ UNCHANGED <<pc, driver, leaving, sized, proc>>

\* rmmod, which an open device keeps out
RemoveProc ==
  /\ pc = "loaded" /\ open = "no"
  /\ Goto("unregister")
  /\ leaving' = TRUE /\ proc' = FALSE
  /\ UNCHANGED <<driver, probeVars, userVars, history>>

Unregister ==
  /\ pc = "unregister"
  /\ Goto("out")
  /\ driver' = FALSE
  /\ \/ Remove
     \/ ~bound /\ UNCHANGED <<bound, memory, channel, misc, userVars, stale>>
  /\ UNCHANGED <<leaving, sized, proc, causes>>

-----------------------------------------------------------------------------
(* A program *)

Open ==
  /\ misc /\ ~leaving /\ open = "no"
  /\ open' = "bound"
  /\ UNCHANGED <<pc, driver, leaving, probeVars, proc, moving, history>>

Close ==
  /\ open # "no" /\ moving = "no"
  /\ open' = "no"
  /\ UNCHANGED <<pc, driver, leaving, probeVars, proc, moving, history>>

\* dma_write() up to its wait
Write ==
  /\ open # "no" /\ moving = "no"
  /\ moving' = open
  /\ stale' = stale \union Unless(open = "bound", "program")
  /\ UNCHANGED <<pc, driver, leaving, probeVars, proc, open, causes>>

\* The data arrives; write() goes on and sets byte 16 of the buffer it came to.
Arrive ==
  /\ moving # "no"
  /\ moving' = "no"
  /\ stale' = stale \union Unless(moving = "bound", "program")
                    \union Unless(moving = "unbound" \/ sized, "outside")
  /\ UNCHANGED <<pc, driver, leaving, probeVars, proc, open, causes>>

Next ==
  \/ Register \/ Probe \/ CreateProc \/ Bind
  \/ Unbind \/ RemoveProc \/ Unregister
  \/ Open \/ Close \/ Write \/ Arrive

Spec == Init /\ [][Next]_vars

-----------------------------------------------------------------------------
(* Properties *)

\* Buffers and misc device are used only while there, but for a named cause: a
\* program uses freed memory only if root unbound the driver, never after rmmod;
\* it writes outside of a buffer, or a device not registered is deregistered,
\* only after a step of the probe failed unseen.
NoStaleUse ==
  /\ "program" \in stale => "unbound" \in causes
  /\ "outside" \in stale => "size" \in causes
  /\ "misc" \in stale => "misc" \in causes

\* However it was bound and unbound before, unloading leaves nothing.
UnloadReleases ==
  pc = "out" => ~driver /\ ~bound /\ ~memory /\ ~channel /\ ~misc /\ ~proc
=============================================================================
