------------------------------ MODULE TimerLife ------------------------------
(***************************************************************************)
(* The timer module of ubuntu_18_04, 4_timers/timers.c: timers_init()      *)
(* starts two high resolution timers, each in memory of its own, and two   *)
(* list timers; the periodic ones start themselves again from their        *)
(* callback, while timers_exit() cancels one after the other and frees the *)
(* memory between.                                                         *)
(***************************************************************************)
EXTENDS Naturals, Sequences

Order      == <<"hrt_one_shot", "hrt_periodic", "one_shot", "periodic">>
Timers     == {Order[i] : i \in DOMAIN Order}
Hrt        == {"hrt_one_shot", "hrt_periodic"}
Periodic == {"hrt_periodic", "periodic"}

VARIABLES
  pc, at,          \* where init or exit is, and at which timer of Order
  memory,          \* of each timer: "none", "live", "freed"; a list timer's is the module's
  armed, running,  \* timers that are to expire, whose callback runs
  stale, failed    \* history: memory that is not there was used; the step that
                   \* failed: "none", "memory", "node"

vars == <<pc, at, memory, armed, running, stale, failed>>

Init ==
  /\ pc = "out" /\ at = 1
  /\ memory = [t \in Timers |-> "none"]
  /\ armed = {} /\ running = {}
  /\ stale = FALSE /\ failed = "none"

Set(t, m) == memory' = [memory EXCEPT ![t] = m]
Uses(t)   == stale' = (stale \/ memory[t] # "live")

Load ==
  /\ pc = "out"
  /\ pc' = "start" /\ at' = 1
  /\ memory' = [t \in Timers |-> IF t \in Hrt THEN "none" ELSE "live"]
  /\ UNCHANGED <<armed, running, stale, failed>>

\* kmalloc(), whose result is not tested, hrtimer_start(); or mod_timer()
Start ==
  /\ pc = "start"
  /\ LET t == Order[at] IN
     \/ /\ Set(t, "live")
        /\ armed' = armed \union {t}
        /\ UNCHANGED <<stale, failed>>
        /\ IF at = Len(Order) THEN pc' = "node" /\ UNCHANGED at
           ELSE at' = at + 1 /\ UNCHANGED pc
     \/ /\ t \in Hrt
        /\ stale' = TRUE /\ failed' = "memory" /\ pc' = "gone"
        /\ UNCHANGED <<at, memory, armed>>
  /\ UNCHANGED running

\* canonical_init() returns an error with the timers started: the module is gone.
RegisterNode ==
  /\ pc = "node"
  /\ \/ pc' = "loaded" /\ UNCHANGED <<memory, failed>>
     \/ /\ pc' = "gone" /\ failed' = "node"
        /\ memory' = [t \in Timers |-> IF t \in Hrt THEN memory[t] ELSE "freed"]
  /\ UNCHANGED <<at, armed, running, stale>>

ExitBegin ==
  /\ pc = "loaded"
  /\ pc' = "cancel" /\ at' = 1
  /\ UNCHANGED <<memory, armed, running, stale, failed>>

\* hrtimer_cancel(), del_timer_sync(): they wait for a running callback.
Cancel ==
  /\ pc = "cancel" /\ Order[at] \notin running
  /\ armed' = armed \ {Order[at]}
  /\ pc' = "free"
  /\ Uses(Order[at])
  /\ UNCHANGED <<at, memory, running, failed>>

\* kfree(); the memory of the list timers goes with the module.
Free ==
  /\ pc = "free"
  /\ IF at = Len(Order)
     THEN /\ pc' = "out" /\ UNCHANGED at
          /\ memory' = [t \in Timers |-> IF t \in Hrt THEN memory[t] ELSE "freed"]
     ELSE /\ pc' = "cancel" /\ at' = at + 1
          /\ memory' = IF Order[at] \in Hrt THEN [memory EXCEPT ![Order[at]] = "freed"] ELSE memory
  /\ UNCHANGED <<armed, running, stale, failed>>

\* periodic_func_hrt() reads its period from its memory.
Expire(t) ==
  /\ t \in armed
  /\ armed' = armed \ {t} /\ running' = running \union {t}
  /\ Uses(t)
  /\ UNCHANGED <<pc, at, memory, failed>>

\* HRTIMER_RESTART, mod_timer()
Return(t) ==
  /\ t \in running
  /\ running' = running \ {t}
  /\ armed' = IF t \in Periodic THEN armed \union {t} ELSE armed
  /\ Uses(t)
  /\ UNCHANGED <<pc, at, memory, failed>>

Next ==
  \/ Load \/ Start \/ RegisterNode \/ ExitBegin \/ Cancel \/ Free
  \/ \E t \in Timers : Expire(t) \/ Return(t)

Spec == Init /\ [][Next]_vars

-----------------------------------------------------------------------------
(* Properties *)

\* Timers that start themselves again and an exit that frees them one by one: no
\* callback uses memory that is freed, unless a step of init failed.
NoStaleUse == stale => failed # "none"

\* After exit no timer is left to expire in code that is gone, none runs, and no
\* memory is left.  A load that failed over its node takes nothing back: the
\* periodic timers go on for good, and so does the memory of the others.
UnloadReleases ==
  /\ pc = "out" => armed = {} /\ running = {} /\ \A t \in Timers : memory[t] # "live"
  /\ pc = "gone" /\ failed = "node" =>
       Periodic \subseteq armed \union running /\ \A t \in Hrt : memory[t] = "live"
=============================================================================
