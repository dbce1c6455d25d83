----------------------------- MODULE UnnamedPipe -----------------------------
(***************************************************************************)
(* ipc/pipe/unnamed/pipe_unnamed.cpp: a parent that writes a record for    *)
(* every key into a pipe and a child that prints what it reads until the   *)
(* end of file, for which the parent waits before it exits.  Ctrl-C may    *)
(* come to either at any time.  A record, written at once, is one element. *)
(***************************************************************************)
EXTENDS Integers, Sequences, SequencesExt

CONSTANTS
  Ten,        \* the value that ends the program: 10
  PipeSize,   \* records the pipe holds
  MaxKeys     \* bound: keys

UnnamedAssumption == Ten \in Nat \ {0} /\ PipeSize \in Nat \ {0} /\ MaxKeys \in Nat

VARIABLES
  ppc, cpc,              \* where parent and child are
  readEnds, writeEnds,   \* who has which end open
  pipe,
  val, parent_running, raw, keys,
  written, printed,      \* history: records
  ending                 \* history: how the parent left its loop, "none"

ends    == <<readEnds, writeEnds>>
history == <<written, printed, ending>>
vars == <<ppc, cpc, ends, pipe, val, parent_running, raw, keys, history>>

\* After fork() both have both ends.
Init ==
  /\ ppc = "start" /\ cpc = "start"
  /\ readEnds = {"parent", "child"} /\ writeEnds = {"parent", "child"}
  /\ pipe = <<>>
  /\ val = 0 /\ parent_running = TRUE /\ raw = FALSE /\ keys = 0
  /\ written = <<>> /\ printed = <<>> /\ ending = "none"

-----------------------------------------------------------------------------
(* The parent *)

ParentStart ==
  /\ ppc = "start"
  /\ readEnds' = readEnds \ {"parent"}
  /\ raw' = TRUE /\ ppc' = "keys"
  /\ UNCHANGED <<cpc, writeEnds, pipe, val, parent_running, keys, history>>

\* The tenth increment: the write end is closed, the loop ends.
KeyEnds ==
  /\ ppc = "keys" /\ parent_running /\ val + 1 = Ten
  /\ val' = Ten /\ parent_running' = FALSE
  /\ writeEnds' = writeEnds \ {"parent"}
  /\ ending' = "ten" /\ ppc' = "wait"
  /\ UNCHANGED <<cpc, readEnds, pipe, raw, keys, written, printed>>

\* Any other up or down key: write() waits for room; without a reader the signal
\* it raises ends the parent where it is.
KeyWrites ==
  /\ ppc = "keys" /\ keys < MaxKeys
  /\ keys' = keys + 1
  /\ val' \in {val - 1, val + 1} \ {Ten}
  /\ IF readEnds = {}
     THEN /\ ppc' = "gone" /\ writeEnds' = writeEnds \ {"parent"} /\ ending' = "signal"
          /\ UNCHANGED <<pipe, written>>
     ELSE /\ Len(pipe) < PipeSize
          /\ pipe' = Append(pipe, val') /\ written' = Append(written, val')
          /\ UNCHANGED <<ppc, writeEnds, ending>>
  /\ UNCHANGED <<cpc, readEnds, parent_running, raw, printed>>

KeyQuit ==
  /\ ppc = "keys"
  /\ ending' = "quit" /\ ppc' = "wait"
  /\ UNCHANGED <<cpc, ends, pipe, val, parent_running, raw, keys, written, printed>>

\* wait(): the child's exit; the terminal is put back.
ParentExit ==
  /\ ppc = "wait" /\ cpc \in {"done", "gone"}
  /\ ppc' = "gone" /\ raw' = FALSE
  /\ writeEnds' = writeEnds \ {"parent"}
  /\ UNCHANGED <<cpc, readEnds, pipe, val, parent_running, keys, history>>

\* ctrl_c_handler()
ParentInterrupt ==
  /\ ppc # "gone"
  /\ ppc' = "gone" /\ raw' = FALSE
  /\ readEnds' = readEnds \ {"parent"} /\ writeEnds' = writeEnds \ {"parent"}
  /\ ending' = "interrupt"
  /\ UNCHANGED <<cpc, pipe, val, parent_running, keys, written, printed>>

-----------------------------------------------------------------------------
(* The child *)

ChildStart ==
  /\ cpc = "start"
  /\ cpc' = "read" /\ writeEnds' = writeEnds \ {"child"}
  /\ UNCHANGED <<ppc, readEnds, pipe, val, parent_running, raw, keys, history>>

ChildRead ==
  /\ cpc = "read" /\ pipe # <<>>
  /\ pipe' = Tail(pipe) /\ printed' = Append(printed, Head(pipe))
  /\ UNCHANGED <<ppc, cpc, ends, val, parent_running, raw, keys, written, ending>>

\* Seeded fault: what is left when the writers have closed is not read.
ChildEndsUnread ==
  /\ cpc = "read" /\ writeEnds = {}
  /\ cpc' = "done" /\ readEnds' = readEnds \ {"child"}
  /\ UNCHANGED <<ppc, writeEnds, pipe, val, parent_running, raw, keys, history>>

\* End of file: nothing to read and nobody left to write
ChildEnds ==
  /\ cpc = "read" /\ pipe = <<>> /\ writeEnds = {}
  /\ cpc' = "done" /\ readEnds' = readEnds \ {"child"}
  /\ UNCHANGED <<ppc, writeEnds, pipe, val, parent_running, raw, keys, history>>

ChildInterrupt ==
  /\ cpc \notin {"done", "gone"}
  /\ cpc' = "gone"
  /\ readEnds' = readEnds \ {"child"} /\ writeEnds' = writeEnds \ {"child"}
  /\ ending' = IF ending = "none" THEN "interrupt" ELSE ending
  /\ UNCHANGED <<ppc, pipe, val, parent_running, raw, keys, written, printed>>

Parent == ParentStart \/ KeyEnds \/ KeyWrites \/ KeyQuit \/ ParentExit \/ ParentInterrupt
Child  == ChildStart \/ ChildRead \/ ChildEnds \/ ChildInterrupt

Next == Parent \/ Child

\* The processes go on when they can; keys and Ctrl-C need not come.
ParentGoes == ParentStart \/ ParentExit
ChildGoes  == ChildStart \/ ChildRead \/ ChildEnds
Fairness   == WF_vars(ParentGoes) /\ WF_vars(ChildGoes)

Spec == Init /\ [][Next]_vars /\ Fairness

-----------------------------------------------------------------------------
(* Properties *)

\* The child prints the records in order; one that reached the end of file has
\* printed them all.  The terminal is as before, unless a write without a reader
\* ended the parent.
ChildReadsAll ==
  /\ IsPrefix(printed, written)
  /\ cpc = "done" => printed = written
  /\ ppc = "gone" /\ ending # "signal" => ~raw

\* The tenth increment ends both processes.
TenEndsBoth == ending = "ten" ~> ppc = "gone" /\ cpc \in {"done", "gone"}

\* The tenth increment closes the last write end but the child's own: a child that
\* reads finds a record or the end of file.
TenReachesEnd == ending = "ten" /\ cpc = "read" => writeEnds = {}

\* pipe_unnamed.cpp:69 "q - quit": the key ends the program.
QuitEnds == ending = "quit" ~> ppc = "gone"

\* Why it does not: the key leaves the parent's write end open, for whose closing the
\* child waits, for whose end the parent waits.  Only Ctrl-C ends them.
QuitNeedsInterrupt ==
  ending = "quit" => cpc # "done" /\ (ppc = "gone" => cpc = "gone")
=============================================================================
