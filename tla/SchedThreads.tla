----------------------------- MODULE SchedThreads ----------------------------
(***************************************************************************)
(* cpp_posix_concurrency/thread_scheduler: main() makes a thread for every *)
(* scheduling policy and joins them.  The constructor, which runs in main, *)
(* sets a niceness by the id of the thread it runs in: it is main's.  The  *)
(* thread sets its own policy, niceness or priority when it starts.        *)
(***************************************************************************)
EXTENDS Naturals, Sequences

CONSTANT
  Asked    \* of the threads in order: [policy, priority, plain: a std::thread]

CFS     == {"SCHED_OTHER", "SCHED_BATCH", "SCHED_IDLE"}
Threads == 1 .. Len(Asked)

SchedAssumption ==
  \A t \in Threads : /\ Asked[t].policy \in CFS \cup {"SCHED_FIFO", "SCHED_RR"}
                     /\ Asked[t].priority \in Nat /\ Asked[t].plain \in BOOLEAN

VARIABLES
  root,              \* whether the process may raise itself
  mpc, next,         \* where main is, with which thread
  pc,                \* of every thread
  mainNice, nice,    \* niceness of main and of the threads
  policy, priority

vars == <<root, mpc, next, pc, mainNice, nice, policy, priority>>

Init ==
  /\ root \in BOOLEAN
  /\ mpc = "create" /\ next = 1
  /\ pc = [t \in Threads |-> "none"]
  /\ mainNice = 0 /\ nice = [t \in Threads |-> 0]
  /\ policy = [t \in Threads |-> "SCHED_OTHER"] /\ priority = [t \in Threads |-> 0]

At(t, place)   == pc[t] = place
Goto(t, place) == pc' = [pc EXCEPT ![t] = place]
IsCFS(t)       == Asked[t].policy \in CFS

\* setpriority(): niceness goes up for all, down only for root.
Renice(old, new) == IF root \/ new >= old THEN new ELSE old

\* pthread_setschedparam() to a real-time policy takes a root.
SetRealtime(t) ==
  IF root THEN /\ policy' = [policy EXCEPT ![t] = Asked[t].policy]
               /\ priority' = [priority EXCEPT ![t] = Asked[t].priority]
          ELSE UNCHANGED <<policy, priority>>

\* main goes on with the thread after the one it is at.
Advance ==
  /\ next' = IF next = Len(Asked) THEN 1 ELSE next + 1
  /\ mpc'  = IF next < Len(Asked) THEN mpc ELSE IF mpc = "join" THEN "end" ELSE "join"

-----------------------------------------------------------------------------
(* main() *)

\* The thread starts with the niceness of main.
Create ==
  /\ mpc = "create" /\ At(next, "none")
  /\ Goto(next, "start")
  /\ nice' = [nice EXCEPT ![next] = mainNice]
  /\ IF Asked[next].plain THEN Advance ELSE UNCHANGED <<mpc, next>>
  /\ UNCHANGED <<root, mainNice, policy, priority>>

\* The rest of the constructor
Construct ==
  /\ mpc = "create" /\ ~At(next, "none")
  /\ IF IsCFS(next)
     THEN mainNice' = Renice(mainNice, Asked[next].priority) /\ UNCHANGED <<policy, priority>>
     ELSE SetRealtime(next) /\ UNCHANGED mainNice
  /\ Advance
  /\ UNCHANGED <<root, pc, nice>>

Join ==
  /\ mpc = "join" /\ At(next, "end")
  /\ Advance
  /\ UNCHANGED <<root, pc, mainNice, nice, policy, priority>>

-----------------------------------------------------------------------------
(* thread_1_handler() *)

SetPolicy(t) ==
  /\ At(t, "start")
  /\ IF IsCFS(t)
     THEN /\ policy' = [policy EXCEPT ![t] = Asked[t].policy] /\ UNCHANGED priority
          /\ Goto(t, "niceness")
     ELSE SetRealtime(t) /\ Goto(t, "run")
  /\ UNCHANGED <<root, mpc, next, mainNice, nice>>

SetNiceness(t) ==
  /\ At(t, "niceness")
  /\ nice' = [nice EXCEPT ![t] = Renice(@, Asked[t].priority)]
  /\ Goto(t, "run")
  /\ UNCHANGED <<root, mpc, next, mainNice, policy, priority>>

\* It logs what it runs with three times and ends.
Finish(t) ==
  /\ At(t, "run")
  /\ Goto(t, "end")
  /\ UNCHANGED <<root, mpc, next, mainNice, nice, policy, priority>>

Next ==
  \/ Create \/ Construct \/ Join
  \/ \E t \in Threads : SetPolicy(t) \/ SetNiceness(t) \/ Finish(t)

Spec == Init /\ [][Next]_vars

-----------------------------------------------------------------------------
(* Properties *)

\* Whatever the constructors do to main meanwhile, a thread runs with the policy
\* and niceness it was made for; without root a real-time one stays what main was.
RunsAsAsked ==
  \A t \in Threads :
    pc[t] \in {"run", "end"} =>
      IF IsCFS(t) THEN policy[t] = Asked[t].policy /\ nice[t] = Asked[t].priority
      ELSE IF root THEN policy[t] = Asked[t].policy /\ priority[t] = Asked[t].priority
      ELSE policy[t] = "SCHED_OTHER" /\ nice[t] <= mainNice
=============================================================================
