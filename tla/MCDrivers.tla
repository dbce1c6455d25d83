------------------------------ MODULE MCDrivers ------------------------------
(***************************************************************************)
(* Drivers at work, for TLC: the ring of the rpi_3b_v1_2 gpio driver       *)
(* (CircBufMod2Queue), the iio module (IioTrigger), the two work queue     *)
(* modules (WorkQueues) and write() of the dma module (DmaWrite), beside   *)
(* the modules of MCLives.  They share nothing: a behaviour is of one of   *)
(* them.                                                                   *)
(***************************************************************************)
EXTENDS MCLives

CONSTANTS
  BeyondBlock, Mod2Capacity, MaxPushes,
  Readers, MocValues, MaxCounts,
  Cores, MaxActive,
  Writers, MaxWrites

VARIABLES
  mod2Buf, pushed, oldest, taken,
  iioBound, oopsed, moc_data, loaded, counts, clean, iioOverlapped,
  queuesPc, queuesAt, queuesTemp, queuesMemory, queuesWork, next, prev, pred, succ,
  queuesMisused, queuesOverlapped,
  wpc, data_tx_buffer, tx_memory, data_rx_buffer, rx_line, rx_cached,
  submitted, issued, callbacks, done, sleepers, woken, mapped, writes,
  failures, wiped, met

Mod2 == INSTANCE CircBufMod2Queue WITH
  Capacity <- Mod2Capacity, buf <- mod2Buf
Iio == INSTANCE IioTrigger WITH
  bound <- iioBound, Modulus <- MocValues, overlapped <- iioOverlapped
Queues == INSTANCE WorkQueues WITH
  pc <- queuesPc, at <- queuesAt, temp <- queuesTemp, memory <- queuesMemory,
  work <- queuesWork, misused <- queuesMisused,
  overlapped <- queuesOverlapped
Dma == INSTANCE DmaWrite

mod2Vars == <<mod2Buf, pushed, oldest, taken>>
iioVars == <<iioBound, oopsed, moc_data, loaded, counts, clean, iioOverlapped>>
queuesVars == <<queuesPc, queuesAt, queuesTemp, queuesMemory, queuesWork,
                next, prev, pred, succ, queuesMisused, queuesOverlapped>>
dmaVars == <<wpc, data_tx_buffer, tx_memory, data_rx_buffer, rx_line, rx_cached,
             submitted, issued, callbacks, done, sleepers, woken, mapped, writes,
             failures, wiped, met>>
driversVars == <<livesVars, mod2Vars, iioVars, queuesVars, dmaVars>>

ASSUME DriversAssumption ==
  /\ LivesAssumption /\ Mod2!Mod2Assumption
  /\ Iio!IioAssumption /\ Queues!WorkQueuesAssumption /\ Dma!DmaAssumption

Drivers == Lives \union {"mod2", "iio", "queues", "dma"}

DriversInit == LivesInit /\ Mod2!Init /\ Iio!Init /\ Queues!Init /\ Dma!Init

DriversNext ==
  \/ LivesNext /\ UNCHANGED <<mod2Vars, iioVars, queuesVars, dmaVars>>
  \/ module = "mod2" /\ Mod2!Next /\ UNCHANGED <<livesVars, iioVars, queuesVars, dmaVars>>
  \/ module = "iio" /\ Iio!Next /\ UNCHANGED <<livesVars, mod2Vars, queuesVars, dmaVars>>
  \/ module = "queues" /\ Queues!Next /\ UNCHANGED <<livesVars, mod2Vars, iioVars, dmaVars>>
  \/ module = "dma" /\ Dma!Next /\ UNCHANGED <<livesVars, mod2Vars, iioVars, queuesVars>>

DriversSpec == DriversInit /\ [][DriversNext]_driversVars

-----------------------------------------------------------------------------
(* Properties *)

\* Until its head first wraps, the mod-2 ring of rpi_3b_v1_2 is an exact queue.
FirstLapExact == Mod2!FirstLapExact

\* What the mod-2 ring loses or repeats afterwards is whole laps of elements;
\* the order of what its front() shows from inside the block is kept.
LossIsWholeLaps == Mod2!LossIsWholeLaps

\* moc_data counts the reads of the raw attribute modulo its width: every one that no
\* other one overlapped, and none twice.
ReadsCount == Iio!ReadsCount

\* Work items, init and exit misuse an item only when two list operations meet.
MisuseNeedsOverlap == Queues!MisuseNeedsOverlap

\* But for that, exit leaves nothing behind.
NothingLeftBehind == Queues!NothingLeftBehind

\* When a writer is told of its completion, its own data is in memory, if it was alone.
DataArrives == Dma!DataArrives

\* Whoever waits is owed the wake-up and gets it: the writer for its transfer, unless
\* another one reset the completion, insmod for the work item of the wait queue.
WaitersAnswered == Dma!CompletionComes /\ Wait!WakeComes

\* Mappings left behind are those of writes that failed to prepare or to submit.
MappingsReleased == Dma!MappingsReleased
=============================================================================
