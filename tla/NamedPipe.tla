------------------------------ MODULE NamedPipe ------------------------------
(***************************************************************************)
(* ipc/pipe/named: writers that make a fifo under a well-known name, write *)
(* to it and remove the name, and readers that read it to the end of file  *)
(* and remove the name as well.  All of them go by the name, which may by  *)
(* then stand for the fifo of somebody else; what goes through the fifo is *)
(* left out, only who has it open matters to the name.                     *)
(***************************************************************************)
CONSTANTS
  Writers, Readers,
  NoFile            \* what the name stands for once removed

NamedAssumption ==
  Writers \cap Readers = {} /\ NoFile \notin {"fifo", "regular"} \X Writers

Procs == Writers \cup Readers
Files == {"fifo", "regular"} \X Writers      \* a kind and who created it

VARIABLES
  pc,
  name,       \* BACKING_FILE: the file it stands for
  file,       \* what every process opened
  opened,     \* the processes that have it open
  robbed      \* history: somebody removed a name that was not of its file

vars == <<pc, name, file, opened, robbed>>

Init ==
  /\ pc = [p \in Procs |-> "start"]
  /\ name = NoFile
  /\ file = [p \in Procs |-> NoFile]
  /\ opened = {} /\ robbed = FALSE

At(p, place)   == pc[p] = place
Goto(p, place) == pc' = [pc EXCEPT ![p] = place]

\* The other side of a fifo f, there or on its way in.
Others(p, f) ==
  {q \in opened : file[q] = f /\ (q \in Writers) # (p \in Writers)}

\* open(): of a fifo it waits for the other side, and lets go all who wait for it.
Opens(p, f) ==
  LET waiting == f[1] = "fifo" /\ Others(p, f) = {} IN
  /\ file' = [file EXCEPT ![p] = f] /\ opened' = opened \cup {p}
  /\ pc' = [q \in Procs |->
              CASE q = p -> IF waiting THEN "opening" ELSE "open"
                [] q \in Others(p, f) -> IF At(q, "opening") THEN "open" ELSE pc[q]
                [] OTHER -> pc[q]]

\* unlink() of the name
RemovesName(p) ==
  /\ name' = NoFile
  /\ robbed' = (robbed \/ name \notin {NoFile, file[p]})

-----------------------------------------------------------------------------
(* A writer *)

\* Seeded fault: a name that is there is taken for granted, and so is one that is not.
MkfifoSkipped(w) ==
  /\ At(w, "start")
  /\ Goto(w, "named")
  /\ UNCHANGED <<name, file, opened, robbed>>

\* mkfifo() fails when the name is taken, and ends the writer.
Mkfifo(w) ==
  /\ At(w, "start")
  /\ IF name = NoFile
     THEN Goto(w, "named") /\ name' = <<"fifo", w>>
     ELSE Goto(w, "gone") /\ UNCHANGED name
  /\ UNCHANGED <<file, opened, robbed>>

\* open() with O_CREAT makes a regular file of a name that has gone meanwhile.
OpenToWrite(w) ==
  /\ At(w, "named")
  /\ name' = IF name = NoFile THEN <<"regular", w>> ELSE name
  /\ Opens(w, name')
  /\ UNCHANGED robbed

\* A write without a reader ends the writer by a signal; the name stays.
WriteAlone(w) ==
  /\ At(w, "open") /\ w \in opened
  /\ file[w][1] = "fifo" /\ Others(w, file[w]) = {}
  /\ Goto(w, "gone") /\ opened' = opened \ {w}
  /\ UNCHANGED <<name, file, robbed>>

\* termination_handler() at the end of the loop, or for Ctrl-C, after which the
\* loop goes on without a file: close(), ...
Terminate(w) ==
  /\ At(w, "open")
  /\ \E next \in {"ended", "interrupted"} : Goto(w, next)
  /\ opened' = opened \ {w}
  /\ UNCHANGED <<name, file, robbed>>

\* ... then unlink(); a Ctrl-C here does the same once more.
WriterUnlink(w) ==
  /\ pc[w] \in {"ended", "interrupted"}
  /\ \/ Goto(w, IF At(w, "ended") THEN "gone" ELSE "open")
     \/ UNCHANGED pc
  /\ RemovesName(w)
  /\ UNCHANGED <<file, opened>>

-----------------------------------------------------------------------------
(* A reader *)

\* open() without O_CREAT
OpenToRead(r) ==
  /\ At(r, "start")
  /\ IF name = NoFile
     THEN Goto(r, "gone") /\ UNCHANGED <<file, opened>>
     ELSE Opens(r, name)
  /\ UNCHANGED <<name, robbed>>

\* End of file: of a fifo when nobody has it open to write; then close(), ...
EndOfFile(r) ==
  /\ At(r, "open")
  /\ file[r][1] = "regular" \/ Others(r, file[r]) = {}
  /\ Goto(r, "ended") /\ opened' = opened \ {r}
  /\ UNCHANGED <<name, file, robbed>>

\* ... and unlink()
ReaderUnlink(r) ==
  /\ At(r, "ended")
  /\ RemovesName(r) /\ Goto(r, "gone")
  /\ UNCHANGED <<file, opened>>

\* A process may be killed at any place; its file is closed, the name stays.
Killed(p) ==
  /\ pc[p] # "gone"
  /\ Goto(p, "gone") /\ opened' = opened \ {p}
  /\ UNCHANGED <<name, file, robbed>>

Next ==
  \/ \E w \in Writers : \/ Mkfifo(w) \/ OpenToWrite(w) \/ WriteAlone(w)
                        \/ Terminate(w) \/ WriterUnlink(w)
  \/ \E r \in Readers : OpenToRead(r) \/ EndOfFile(r) \/ ReaderUnlink(r)
  \/ \E p \in Procs : Killed(p)

Spec == Init /\ [][Next]_vars

-----------------------------------------------------------------------------
(* Properties *)

\* A writer, which has just made a fifo, ends up with a regular file or the fifo
\* of another only after somebody removed a name that no longer was of its file.
OwnFifoUnlessRobbed ==
  \A w \in Writers : file[w] \in {NoFile, <<"fifo", w>>} \/ robbed
=============================================================================
