------------------------------ MODULE FileLock -------------------------------
(***************************************************************************)
(* ipc/file_lock: writers that count up or down and write the value over   *)
(* the start of a file under a write lock they wait for, and readers that  *)
(* read the file byte by byte under a read lock they do not wait for.  A   *)
(* record is longer for a value with a sign; the file never gets shorter.  *)
(***************************************************************************)
EXTENDS Integers, Sequences, SequencesExt

CONSTANTS
  Writers, Readers,
  MaxVal            \* bound: values are -MaxVal .. MaxVal

LockAssumption == Writers \cap Readers = {} /\ MaxVal \in Nat

Procs == Writers \cup Readers

VARIABLES
  pc,
  file_val,         \* of every writer
  created, content, \* the file: a sequence of pieces of records
  locks,            \* the processes that hold a lock on it
  got               \* what every reader has read under its lock

vars == <<pc, file_val, created, content, locks, got>>

Init ==
  /\ pc = [p \in Procs |-> "keys"]
  /\ file_val = [w \in Writers |-> 0]
  /\ created = FALSE /\ content = <<>> /\ locks = {}
  /\ got = [r \in Readers |-> <<>>]

At(p, place)   == pc[p] = place
Goto(p, place) == pc' = [pc EXCEPT ![p] = place]

\* The record of a writer and a value, and the file with it written at the start
Record(w, val) == [k \in 1 .. (IF val < 0 THEN 2 ELSE 1) |-> <<w, val>>]
Over(old, rec) == rec \o SubSeq(old, Len(rec) + 1, Len(old))

-----------------------------------------------------------------------------
(* A writer *)

\* An up or down key: the value changes, whether or not the file then opens.
KeyWrite(w) ==
  /\ At(w, "keys")
  /\ \E val \in {file_val[w] - 1, file_val[w] + 1} :
       val \in -MaxVal .. MaxVal /\ file_val' = [file_val EXCEPT ![w] = val]
  /\ \/ created' = TRUE /\ Goto(w, "opened")
     \/ UNCHANGED <<created, pc>>
  /\ UNCHANGED <<content, locks, got>>

\* F_SETLKW waits for everybody else.
LockWrite(w) ==
  /\ At(w, "opened") /\ locks \subseteq {w}
  /\ locks' = {w} /\ Goto(w, "locked")
  /\ UNCHANGED <<file_val, created, content, got>>

WriteRecord(w) ==
  /\ At(w, "locked")
  /\ content' = Over(content, Record(w, file_val[w]))
  /\ Goto(w, "written")
  /\ UNCHANGED <<file_val, created, locks, got>>

\* F_UNLCK, and close() of a file that is no longer locked
Unlock(w) ==
  /\ At(w, "written")
  /\ locks' = locks \ {w} /\ Goto(w, "keys")
  /\ UNCHANGED <<file_val, created, content, got>>

-----------------------------------------------------------------------------
(* A reader *)

OpenRead(r) ==
  /\ At(r, "keys") /\ created
  /\ Goto(r, "opened")
  /\ UNCHANGED <<file_val, created, content, locks, got>>

\* Seeded fault: the result of F_SETLK is not looked at.
LockReadUnchecked(r) ==
  /\ At(r, "opened")
  /\ locks' = IF locks \cap Writers = {} THEN locks \cup {r} ELSE locks
  /\ Goto(r, "reading")
  /\ UNCHANGED <<file_val, created, content, got>>

\* F_SETLK fails at once when a writer has the lock: nothing is read.
LockRead(r) ==
  /\ At(r, "opened")
  /\ IF locks \cap Writers = {}
     THEN /\ locks' = locks \cup {r} /\ Goto(r, "reading")
     ELSE Goto(r, "keys") /\ UNCHANGED locks
  /\ UNCHANGED <<file_val, created, content, got>>

ReadByte(r) ==
  /\ At(r, "reading") /\ Len(got[r]) < Len(content)
  /\ got' = [got EXCEPT ![r] = Append(@, content[Len(@) + 1])]
  /\ UNCHANGED <<pc, file_val, created, content, locks>>

\* End of file: close() gives the lock back.
CloseRead(r) ==
  /\ At(r, "reading") /\ Len(got[r]) >= Len(content)
  /\ locks' = locks \ {r} /\ Goto(r, "keys")
  /\ got' = [got EXCEPT ![r] = <<>>]
  /\ UNCHANGED <<file_val, created, content>>

\* The kernel takes the lock from a process that is killed.
Killed(p) ==
  /\ pc[p] # "gone"
  /\ Goto(p, "gone") /\ locks' = locks \ {p}
  /\ UNCHANGED <<file_val, created, content, got>>

Next ==
  \/ \E w \in Writers : KeyWrite(w) \/ LockWrite(w) \/ WriteRecord(w) \/ Unlock(w)
  \/ \E r \in Readers : OpenRead(r) \/ LockRead(r) \/ ReadByte(r) \/ CloseRead(r)
  \/ \E p \in Procs : Killed(p)

Spec == Init /\ [][Next]_vars

-----------------------------------------------------------------------------
(* Properties *)

\* While a reader reads byte by byte, what it has read is the start of the file as
\* it is: it prints one state of the file, not pieces of two.  (The last record may
\* be followed by the end of an older, longer one: no writer truncates the file.)
ReadsOneState ==
  \A r \in Readers : At(r, "reading") => IsPrefix(got[r], content)
=============================================================================
