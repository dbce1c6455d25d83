------------------------------- MODULE SyncLog -------------------------------
(***************************************************************************)
(* cpp_posix_concurrency/util: threads that log lines through one SyncLog, *)
(* which GetLog() makes at its first call, without a lock of its own.      *)
(***************************************************************************)
EXTENDS Naturals

CONSTANTS
  Threads,
  NoLog,        \* the pointer's null
  Lines         \* lines every thread logs

LogAssumption == NoLog \notin Threads /\ Lines \in Nat

VARIABLES
  pc,
  log_,         \* the log in use; a log is named by the thread that made it
  mine,         \* the log every thread has been given
  held,         \* the logs whose mutex is locked
  lines,        \* lines logged
  raced         \* history: a thread found no log while another was making one

vars == <<pc, log_, mine, held, lines, raced>>

Init ==
  /\ pc = [t \in Threads |-> "run"]
  /\ log_ = NoLog
  /\ mine = [t \in Threads |-> NoLog]
  /\ held = {} /\ lines = [t \in Threads |-> 0] /\ raced = FALSE

At(t, place)   == pc[t] = place
Goto(t, place) == pc' = [pc EXCEPT ![t] = place]

\* GetLog(): the pointer is looked at, ...
Check(t) ==
  /\ At(t, "run") /\ lines[t] < Lines
  /\ Goto(t, IF log_ = NoLog THEN "make" ELSE "return")
  /\ raced' = (raced \/ (log_ = NoLog /\ \E u \in Threads : At(u, "make")))
  /\ UNCHANGED <<log_, mine, held, lines>>

\* ... set to a new log, ...
Make(t) ==
  /\ At(t, "make")
  /\ log_' = t /\ Goto(t, "return")
  /\ UNCHANGED <<mine, held, lines, raced>>

\* ... and read once more.
Return(t) ==
  /\ At(t, "return")
  /\ mine' = [mine EXCEPT ![t] = log_] /\ Goto(t, "lock")
  /\ UNCHANGED <<log_, held, lines, raced>>

\* Seeded fault: no lock is taken.
LockNothing(t) ==
  /\ At(t, "lock")
  /\ held' = held \cup {mine[t]} /\ Goto(t, "line")
  /\ UNCHANGED <<log_, mine, lines, raced>>

\* Log(): the mutex of this log, then the line ...
Lock(t) ==
  /\ At(t, "lock") /\ mine[t] \notin held
  /\ held' = held \cup {mine[t]} /\ Goto(t, "line")
  /\ UNCHANGED <<log_, mine, lines, raced>>

\* ... is out with its end, and the mutex free.
LineOut(t) ==
  /\ At(t, "line")
  /\ lines' = [lines EXCEPT ![t] = @ + 1]
  /\ held' = held \ {mine[t]} /\ Goto(t, "run")
  /\ UNCHANGED <<log_, mine, raced>>

Next ==
  \E t \in Threads : Check(t) \/ Make(t) \/ Return(t) \/ Lock(t) \/ LineOut(t)

Spec == Init /\ [][Next]_vars

-----------------------------------------------------------------------------
(* Properties *)

\* The lines of two threads mix only when two threads made a log at once, and each
\* then locks the mutex of its own.
LinesApart ==
  \A t, u \in Threads : At(t, "line") /\ At(u, "line") => t = u \/ raced
=============================================================================
