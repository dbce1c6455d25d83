------------------------------- MODULE MCDemos -------------------------------
(***************************************************************************)
(* User programs for TLC: the unnamed pipe (UnnamedPipe), the named pipe   *)
(* (NamedPipe), the locked file (FileLock), the log of the thread          *)
(* demonstrations (SyncLog) and the scheduler one (SchedThreads).  They    *)
(* share nothing: a behaviour is of one of them, the others stay where     *)
(* they start.                                                             *)
(***************************************************************************)
EXTENDS Naturals, Sequences

CONSTANTS
  Ten, PipeSize, PipeKeys,
  Writers, Readers, NoFile,
  LockReaders, MaxVal,
  LogThreads, NoLog, Lines

\* The threads of main() of thread_scheduler
Made(policy_, priority_, plain_) == [policy |-> policy_, priority |-> priority_, plain |-> plain_]
MCAsked ==
  << Made("SCHED_OTHER", 0, TRUE),  Made("SCHED_OTHER", 3, FALSE),
     Made("SCHED_BATCH", 4, FALSE), Made("SCHED_IDLE", 5, FALSE),
     Made("SCHED_FIFO", 1, FALSE),  Made("SCHED_RR", 2, FALSE) >>

VARIABLES
  program,         \* which program this behaviour is of
  ppc, cpc, readEnds, writeEnds, unnamedPipe, unnamedVal, parent_running,
  unnamedRaw, unnamedKeys, written, printed, ending,
  namedPc, namedName, namedFile, namedOpened, robbed,
  lockPc, lockFile_val, lockCreated, lockContent, lockLocks, lockGot,
  logPc, log_, logMine, held, lines, raced,
  schedRoot, mpc, schedNext, schedPc, mainNice, nice, policy, priority

Unnamed == INSTANCE UnnamedPipe WITH
  pipe <- unnamedPipe, val <- unnamedVal, raw <- unnamedRaw,
  keys <- unnamedKeys, MaxKeys <- PipeKeys
Named == INSTANCE NamedPipe WITH
  pc <- namedPc, name <- namedName, file <- namedFile, opened <- namedOpened
Lock == INSTANCE FileLock WITH
  pc <- lockPc, file_val <- lockFile_val, created <- lockCreated,
  content <- lockContent, locks <- lockLocks, got <- lockGot,
  Readers <- LockReaders
Log == INSTANCE SyncLog WITH
  pc <- logPc, mine <- logMine, Threads <- LogThreads
Sched == INSTANCE SchedThreads WITH
  root <- schedRoot, next <- schedNext, pc <- schedPc, Asked <- MCAsked

unnamedVars == <<ppc, cpc, readEnds, writeEnds, unnamedPipe, unnamedVal,
                 parent_running, unnamedRaw, unnamedKeys, written, printed,
                 ending>>
namedVars == <<namedPc, namedName, namedFile, namedOpened, robbed>>
lockVars == <<lockPc, lockFile_val, lockCreated, lockContent, lockLocks,
              lockGot>>
logVars == <<logPc, log_, logMine, held, lines, raced>>
schedVars == <<schedRoot, mpc, schedNext, schedPc, mainNice, nice, policy,
               priority>>

DemosAssumption ==
  /\ Unnamed!UnnamedAssumption /\ Named!NamedAssumption /\ Lock!LockAssumption
  /\ Log!LogAssumption /\ Sched!SchedAssumption

Demos == {"unnamed", "named", "lock", "log", "sched"}

demosVars == <<unnamedVars, namedVars, lockVars, logVars, schedVars>>

\* A program that does not run has one initial state.
DemosInit ==
  /\ Unnamed!Init /\ Named!Init /\ Lock!Init /\ Log!Init /\ Sched!Init
  /\ program # "sched" => ~schedRoot

DemosNext ==
  \/ program = "unnamed" /\ Unnamed!Next /\ UNCHANGED <<namedVars, lockVars, logVars, schedVars>>
  \/ program = "named" /\ Named!Next /\ UNCHANGED <<unnamedVars, lockVars, logVars, schedVars>>
  \/ program = "lock" /\ Lock!Next /\ UNCHANGED <<unnamedVars, namedVars, logVars, schedVars>>
  \/ program = "log" /\ Log!Next /\ UNCHANGED <<unnamedVars, namedVars, lockVars, schedVars>>
  \/ program = "sched" /\ Sched!Next /\ UNCHANGED <<unnamedVars, namedVars, lockVars, logVars>>

-----------------------------------------------------------------------------
(* Properties *)

\* The child of the unnamed pipe prints the records in order, at the end of file
\* all of them; but for a write without a reader the terminal is put back.
ChildReadsAll == Unnamed!ChildReadsAll

\* A writer gets the fifo it made, but for a late unlink() of another.
OwnFifoUnlessRobbed == Named!OwnFifoUnlessRobbed

\* A reader of the locked file prints one state of it.
ReadsOneState == Lock!ReadsOneState

\* Lines of two threads mix only when two made the log at once; a thread runs with
\* the policy and niceness it was made for.
ThreadsAsAsked == Log!LinesApart /\ Sched!RunsAsAsked
=============================================================================
