------------------------------- MODULE ShmSem -------------------------------
(***************************************************************************)
(* ipc/shared_mem_semaphore: writer.cpp fills a record in shared memory,   *)
(* reader.cpp prints it, and two named semaphores hand it back and forth.  *)
(*                                                                         *)
(* The shared memory and the semaphores outlive the processes: nobody      *)
(* calls sem_unlink(), and unlink(BACKING_FILE) names a file of the root   *)
(* directory, not the object of shm_open().  So a process that starts      *)
(* again finds them as the last one left them.  sem_open() uses its        *)
(* initial value only when it creates the semaphore.  The buffer is the    *)
(* number printed into it.                                                 *)
(***************************************************************************)
EXTENDS Integers

CONSTANTS
  FinalVal,       \* the value that ends the writer: 10 in the code
  Interrupts,     \* SIGINT reaches the writer, signals end the reader
  MaxStarts,      \* bound: starts of each program
  MaxKeys         \* bound: arrow keys pressed in all

ASSUME ShmAssumption ==
  /\ FinalVal \in Int
  /\ Interrupts \in BOOLEAN
  /\ MaxStarts \in Nat /\ MaxKeys \in Nat

VARIABLES
  created,            \* which of the three named objects exist
  shm,                \* [state, buffer] of the shared memory
  sem_write, sem_read,
  wpc, file_val, running,  \* the writer
  rpc, seen,          \* the reader; the buffer it printed last
  r_write,            \* its sem_write: "open", or "failed" for SEM_FAILED
  wstarts, rstarts, keys,
  quitPosts,          \* history: posts of sem_read by a quitting writer
  lost                \* history: posts owed by a process that died

memVars == <<created, shm, sem_write, sem_read>>
wData   == <<file_val, running, wstarts, keys>>
wVars   == <<wpc, wData>>
rVars   == <<rpc, seen, r_write, rstarts>>
vars    == <<memVars, wVars, rVars, quitPosts, lost>>

Init ==
  /\ created = {} /\ shm = [state |-> 0, buffer |-> 0]
  /\ sem_write = 0 /\ sem_read = 0
  /\ wpc = "off" /\ file_val = 0 /\ running = TRUE
  /\ rpc = "off" /\ seen = 0 /\ r_write = "open"
  /\ wstarts = 0 /\ rstarts = 0 /\ keys = 0 /\ quitPosts = 0 /\ lost = 0

\* sem_open(name, O_CREAT, mode, value): what the semaphore is worth then.
Opened(name, sem, value) == IF name \in created THEN sem ELSE value

-----------------------------------------------------------------------------
(* writer.cpp *)

\* Map the memory, make it one record long, state 0.
WStart ==
  /\ wpc = "off" /\ wstarts < MaxStarts
  /\ wstarts' = wstarts + 1
  /\ created' = created \union {"shm"}
  /\ shm' = [shm EXCEPT !.state = 0]
  /\ file_val' = 0 /\ running' = TRUE
  /\ wpc' = "open_write"
  /\ UNCHANGED <<sem_write, sem_read, rVars, keys, quitPosts, lost>>

WOpenWrite ==
  /\ wpc = "open_write"
  /\ created' = created \union {"write"}
  /\ sem_write' = Opened("write", sem_write, 1)
  /\ wpc' = "open_read"
  /\ UNCHANGED <<shm, sem_read, wData, rVars, quitPosts, lost>>

WOpenRead ==
  /\ wpc = "open_read"
  /\ created' = created \union {"read"}
  /\ sem_read' = Opened("read", sem_read, 0)
  /\ wpc' = "menu"
  /\ UNCHANGED <<shm, sem_write, wData, rVars, quitPosts, lost>>

\* A step of the setup fails and main() returns -1.
WFails ==
  /\ wpc \in {"open_write", "open_read"}
  /\ wpc' = "off"
  /\ UNCHANGED <<memVars, wData, rVars, quitPosts, lost>>

\* The up or the down key.
WKey ==
  /\ wpc = "menu" /\ running /\ keys < MaxKeys
  /\ keys' = keys + 1
  /\ \E step \in {1, -1} : file_val' = file_val + step
  /\ wpc' = "wait"
  /\ UNCHANGED <<memVars, running, wstarts, rVars, quitPosts, lost>>

\* Seeded fault: the writer does not wait for the reader.
WWaitNot ==
  /\ wpc = "wait"
  /\ sem_write' = sem_write - 1
  /\ wpc' = "fill"
  /\ UNCHANGED <<created, shm, sem_read, file_val, running, wstarts, keys, rVars, quitPosts, lost>>

WWait ==
  /\ wpc = "wait" /\ sem_write > 0
  /\ sem_write' = sem_write - 1
  /\ wpc' = "fill"
  /\ UNCHANGED <<created, shm, sem_read, file_val, running, wstarts, keys, rVars, quitPosts, lost>>

\* The state, then sprintf() into the buffer.
WFill ==
  /\ wpc = "fill"
  /\ shm' = [state |-> IF file_val = FinalVal THEN 2 ELSE 1, buffer |-> file_val]
  /\ running' = (file_val # FinalVal)
  /\ wpc' = "post"
  /\ UNCHANGED <<created, sem_write, sem_read, file_val, wstarts, keys, rVars, quitPosts, lost>>

\* Seeded fault: the reader is released twice.
WPostTwice ==
  /\ wpc = "post"
  /\ sem_read' = sem_read + 2
  /\ wpc' = "menu"
  /\ UNCHANGED <<created, shm, sem_write, wData, rVars, quitPosts, lost>>

WPost ==
  /\ wpc = "post"
  /\ sem_read' = sem_read + 1
  /\ wpc' = "menu"
  /\ UNCHANGED <<created, shm, sem_write, wData, rVars, quitPosts, lost>>

\* The q key, or the end of the loop after FinalVal.
WQuit ==
  /\ wpc = "menu"
  /\ shm' = [shm EXCEPT !.state = 2]
  /\ wpc' = "quit_post"
  /\ UNCHANGED <<created, sem_write, sem_read, wData, rVars, quitPosts, lost>>

\* Seeded fault: the quitting writer does not release the reader.
WQuitSilent ==
  /\ wpc = "quit_post"
  /\ wpc' = "off"
  /\ UNCHANGED <<memVars, wData, rVars, quitPosts, lost>>

\* "signal reader to terminate"; then release everything.
WQuitPost ==
  /\ wpc = "quit_post"
  /\ sem_read' = sem_read + 1
  /\ quitPosts' = quitPosts + 1
  /\ wpc' = "off"
  /\ UNCHANGED <<created, shm, sem_write, wData, rVars, lost>>

\* ctrl_c_handler(): releases everything, then returns to where it came from.
WInterrupt ==
  /\ Interrupts /\ wpc \in {"menu", "wait", "fill", "post"}
  /\ shm' = [shm EXCEPT !.state = 2]
  /\ sem_read' = sem_read + 1
  /\ quitPosts' = quitPosts + 1
  /\ lost' = IF wpc \in {"fill", "post"} THEN lost + 1 ELSE lost
  /\ wpc' = "unmapped"
  /\ UNCHANGED <<created, sem_write, wData, rVars>>

\* The next access to the memory or the semaphores kills the process.
WCrash ==
  /\ wpc = "unmapped"
  /\ wpc' = "off"
  /\ UNCHANGED <<memVars, wData, rVars, quitPosts, lost>>

Writer == WStart \/ WOpenWrite \/ WOpenRead \/ WFails \/ WKey \/ WWait \/ WFill
          \/ WPost \/ WQuit \/ WQuitPost \/ WInterrupt \/ WCrash

-----------------------------------------------------------------------------
(* reader.cpp *)

\* shm_open() without O_CREAT fails when there is no memory yet.
RStart ==
  /\ rpc = "off" /\ rstarts < MaxStarts /\ "shm" \in created
  /\ rstarts' = rstarts + 1
  /\ r_write' = "open"
  /\ rpc' = "open_read"
  /\ UNCHANGED <<memVars, wVars, seen, quitPosts, lost>>

ROpenRead ==
  /\ rpc = "open_read"
  /\ created' = created \union {"read"}
  /\ sem_read' = Opened("read", sem_read, 0)
  /\ rpc' = "open_write"
  /\ UNCHANGED <<shm, sem_write, wVars, seen, r_write, rstarts, quitPosts, lost>>

\* The reader would create the write semaphore with 0.  A failure goes unnoticed, as
\* sem_read is tested again: the reader goes on without the semaphore.
ROpenWrite ==
  /\ rpc = "open_write"
  /\ \/ /\ created' = created \union {"write"}
        /\ sem_write' = Opened("write", sem_write, 0)
        /\ UNCHANGED r_write
     \/ /\ r_write' = "failed"
        /\ UNCHANGED <<created, sem_write>>
  /\ rpc' = "wait"
  /\ UNCHANGED <<shm, sem_read, wVars, seen, rstarts, quitPosts, lost>>

RWait ==
  /\ rpc = "wait" /\ sem_read > 0
  /\ sem_read' = sem_read - 1
  /\ rpc' = "read"
  /\ UNCHANGED <<created, shm, sem_write, wVars, seen, r_write, rstarts, quitPosts, lost>>

\* Print the buffer, then look at the state.
RRead ==
  /\ rpc = "read"
  /\ seen' = shm.buffer
  /\ rpc' = IF shm.state = 2 THEN "last_post" ELSE "post"
  /\ UNCHANGED <<memVars, wVars, r_write, rstarts, quitPosts, lost>>

\* Posting to SEM_FAILED, a null pointer, kills the reader with its token.
RPost ==
  /\ rpc \in {"post", "last_post"}
  /\ \/ /\ r_write = "open"
        /\ sem_write' = sem_write + 1
        /\ rpc' = IF rpc = "post" THEN "wait" ELSE "off"
        /\ UNCHANGED lost
     \/ /\ r_write = "failed"
        /\ lost' = lost + 1
        /\ rpc' = "off"
        /\ UNCHANGED sem_write
  /\ UNCHANGED <<created, shm, sem_read, wVars, seen, r_write, rstarts, quitPosts>>

\* A signal ends the reader anywhere, a failing setup does at the first two steps.
RKilled ==
  /\ Interrupts /\ rpc # "off"
  /\ lost' = IF rpc \in {"read", "post", "last_post"} THEN lost + 1 ELSE lost
  /\ rpc' = "off"
  /\ UNCHANGED <<memVars, wVars, seen, r_write, rstarts, quitPosts>>

Reader == RStart \/ ROpenRead \/ ROpenWrite \/ RWait \/ RRead \/ RPost \/ RKilled

Next == Writer \/ Reader

Spec == Init /\ [][Next]_vars

\* A running process goes on; users need not press a key nor start a program.
Fairness ==
  /\ WF_vars(ROpenRead \/ ROpenWrite \/ RWait \/ RRead \/ RPost)
  /\ WF_vars(WOpenWrite \/ WOpenRead \/ WWait \/ WFill \/ WPost \/ WQuitPost)

FairSpec == Spec /\ Fairness

-----------------------------------------------------------------------------
(* Properties *)

WPcs == {"off", "open_write", "open_read", "menu", "wait", "fill", "post",
         "quit_post", "unmapped"}
RPcs == {"off", "open_read", "open_write", "wait", "read", "post", "last_post"}

\* Every variable has its type; a process that uses a semaphore has opened it.
TypeOK ==
  /\ created \subseteq {"shm", "write", "read"}
  /\ shm \in [state : 0..2, buffer : Int]
  /\ sem_write \in Nat /\ sem_read \in Nat
  /\ wpc \in WPcs /\ file_val \in Int /\ running \in BOOLEAN
  /\ rpc \in RPcs /\ seen \in Int /\ r_write \in {"open", "failed"}
  /\ wstarts \in 0..MaxStarts /\ rstarts \in 0..MaxStarts /\ keys \in 0..MaxKeys
  /\ quitPosts \in Nat /\ lost \in Nat
  /\ wpc \notin {"off", "open_write"} => "write" \in created
  /\ rpc \notin {"off", "open_read", "open_write"} => r_write = "failed" \/ "write" \in created
  /\ wpc \notin {"off", "open_write", "open_read"} => "read" \in created
  /\ rpc \notin {"off", "open_read"} => "read" \in created

\* Tokens: what the semaphores hold and what the processes have taken.
Writing == wpc \in {"fill", "post"}
Reading == rpc \in {"read", "post", "last_post"}
Tokens == sem_write + sem_read
          + (IF Writing THEN 1 ELSE 0) + (IF Reading THEN 1 ELSE 0)

\* There is at most one token for the record, however often the programs are
\* started, but for each writer that quits (it posts without having waited).
\* A process that dies with its token takes it away.
TokensBounded == Tokens + lost <= 1 + quitPosts

\* The semaphores keep writer and reader apart until a writer has quit.
ExclusiveUntilQuit == quitPosts = 0 => ~(Writing /\ Reading)

\* reader.cpp:70 "binary semaphore for mutual exclusion with other process":
\* writer and reader are never both at the record.
Exclusive == ~(Writing /\ Reading)

\* In one session no value is overwritten before the reader has printed it.
NothingOverwritten ==
  [][WFill => seen = shm.buffer \/ lost > 0 \/ quitPosts > 0]_vars

\* A reader that is up when a writer quits stops, whichever of its steps it was
\* at, unless the writer is started again before it has seen the state.
ReaderStops == (wpc = "quit_post" /\ rpc # "off")
                 ~> (rpc = "off" \/ wpc \notin {"quit_post", "off"})
=============================================================================
