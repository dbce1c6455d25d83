------------------------------ MODULE DmaWrite ------------------------------
(***************************************************************************)
(* write() of the dma module, modules/rpi_4b/4_dma/dma_moc.c: the data is  *)
(* copied to one buffer, a dma channel moves it to another, and the writer *)
(* waits for the channel's callback.  Both buffers and the completion are  *)
(* the device's; no lock keeps a second writer out.                        *)
(*                                                                         *)
(* A buffer's content is the writer whose data it has.  The channel takes  *)
(* what was issued in order; it reads the source when it moves it.  It     *)
(* moves memory: the cpu may have a cache line of either buffer, which     *)
(* write() maps DMA_TO_DEVICE both, so lines are written back but none is  *)
(* dropped.                                                                *)
(***************************************************************************)
EXTENDS Integers, Sequences, FiniteSets

CONSTANTS
  Writers, Nobody,
  MaxWrites             \* bound: calls of write() in all

DmaAssumption == Nobody \notin Writers /\ MaxWrites \in Nat

VARIABLES
  wpc,                  \* where each writer is
  data_tx_buffer,       \* as the cpu sees it
  tx_memory,            \* as the channel does
  data_rx_buffer,       \* in memory
  rx_line, rx_cached,   \* the cpu's line of it: "no", "clean" or "dirty"
  submitted, issued,    \* transactions the channel has not begun; how many issued
  callbacks,            \* transfers whose callback is to come
  done, sleepers, woken,\* dma_completion: its count and wait queue
  mapped,               \* dma mappings held
  writes,
  failures,             \* history: writes that could not prepare or submit
  wiped,                \* history: init_completion() fell into another's wait
  met                   \* history: writers that were not alone in their write()

txVars      == <<data_tx_buffer, tx_memory>>
rxVars      == <<data_rx_buffer, rx_line, rx_cached>>
bufVars     == <<txVars, rxVars>>
channelVars == <<submitted, issued, callbacks>>
waitVars    == <<done, sleepers, woken>>
history     == <<failures, wiped, met>>
vars == <<wpc, bufVars, channelVars, waitVars, mapped, writes, history>>

Init ==
  /\ wpc = [w \in Writers |-> "idle"]
  /\ data_tx_buffer = Nobody /\ tx_memory = Nobody
  /\ data_rx_buffer = Nobody /\ rx_line = Nobody /\ rx_cached = "dirty"
  /\ submitted = <<>> /\ issued = 0 /\ callbacks = 0
  /\ done = 0 /\ sleepers = <<>> /\ woken = {}
  /\ mapped = 0 /\ writes = 0
  /\ failures = 0 /\ wiped = FALSE /\ met = {}

Goto(w, pc)   == wpc' = [wpc EXCEPT ![w] = pc]
Others(w, pcs) == \E v \in Writers \ {w} : wpc[v] \in pcs
Inside        == {w \in Writers : wpc[w] \notin {"idle", "dead"}}

-----------------------------------------------------------------------------
(* dma_write() *)

\* copy_from_user(); a failing one may have copied some.
Copy(w) ==
  /\ wpc[w] = "idle" /\ writes < MaxWrites
  /\ writes' = writes + 1
  /\ met' = IF Inside = {} THEN met \ {w} ELSE met \union Inside \union {w}
  /\ \/ data_tx_buffer' = w /\ Goto(w, "map")
     \/ data_tx_buffer' \in {w, data_tx_buffer} /\ UNCHANGED wpc
  /\ UNCHANGED <<tx_memory, rxVars, channelVars, waitVars, mapped, failures, wiped>>

\* A dirty line is written back; dma_map_single() keeps it, clean.
WriteBack ==
  IF rx_cached = "dirty" THEN data_rx_buffer' = rx_line ELSE UNCHANGED data_rx_buffer

\* Seeded fault: the destination is not mapped.
MapSource(w) ==
  /\ wpc[w] = "map"
  /\ mapped' = mapped + 2
  /\ tx_memory' = data_tx_buffer
  /\ Goto(w, "init")
  /\ UNCHANGED <<data_tx_buffer, rxVars, channelVars, waitVars, writes, history>>

\* dma_map_single() of both buffers; device_prep_dma_memcpy() may have no descriptor
\* to give, which nothing tests: the writer ends at its null pointer.
Map(w) ==
  /\ wpc[w] = "map"
  /\ mapped' = mapped + 2
  /\ tx_memory' = data_tx_buffer
  /\ WriteBack
  /\ rx_cached' = IF rx_cached = "dirty" THEN "clean" ELSE rx_cached
  /\ \/ Goto(w, "init") /\ UNCHANGED failures
     \/ Goto(w, "dead") /\ failures' = failures + 1
  /\ UNCHANGED <<data_tx_buffer, rx_line, channelVars, waitVars, writes, wiped, met>>

\* init_completion(): count and wait queue start anew, whoever was in them.
InitCompletion(w) ==
  /\ wpc[w] = "init"
  /\ done' = 0 /\ sleepers' = <<>>
  /\ wiped' = (wiped \/ Others(w, {"submit", "issue", "wait", "asleep"}))
  /\ Goto(w, "submit")
  /\ UNCHANGED <<bufVars, channelVars, woken, mapped, writes, failures, met>>

\* dmaengine_submit(); on an error the mappings stay.
Submit(w) ==
  /\ wpc[w] = "submit"
  /\ \/ /\ submitted' = Append(submitted, w)
        /\ Goto(w, "issue")
        /\ UNCHANGED failures
     \/ /\ failures' = failures + 1
        /\ Goto(w, "idle")
        /\ UNCHANGED submitted
  /\ UNCHANGED <<bufVars, issued, callbacks, waitVars, mapped, writes, wiped, met>>

\* Seeded fault: init_completion() comes after the transaction is issued.
IssueThenInit(w) ==
  \/ /\ wpc[w] = "issue"
     /\ issued' = Len(submitted)
     /\ Goto(w, "late_init")
     /\ UNCHANGED <<bufVars, submitted, callbacks, waitVars, mapped, writes, history>>
  \/ /\ wpc[w] = "late_init"
     /\ done' = 0 /\ sleepers' = <<>>
     /\ Goto(w, "wait")
     /\ UNCHANGED <<bufVars, channelVars, woken, mapped, writes, history>>

\* dma_async_issue_pending() issues all that is submitted.
Issue(w) ==
  /\ wpc[w] = "issue"
  /\ issued' = Len(submitted)
  /\ Goto(w, "wait")
  /\ UNCHANGED <<bufVars, submitted, callbacks, waitVars, mapped, writes, history>>

\* wait_for_completion()
Wait(w) ==
  /\ \/ wpc[w] = "wait"
     \/ wpc[w] = "asleep" /\ w \in woken
  /\ woken' = woken \ {w}
  /\ IF done > 0
     THEN /\ done' = done - 1
          /\ Goto(w, "check")
          /\ UNCHANGED sleepers
     ELSE /\ sleepers' = Append(sleepers, w)
          /\ Goto(w, "asleep")
          /\ UNCHANGED done
  /\ UNCHANGED <<bufVars, channelVars, mapped, writes, history>>

\* The cpu loads the line, if it has none, and writes one byte of it: what it sees,
\* and will write back, is what the line has.
LookAt == rx_line' = (IF rx_cached = "no" THEN data_rx_buffer ELSE rx_line) /\ rx_cached' = "dirty"

\* Seeded fault: the second mapping is kept.
CheckKeeps(w) ==
  /\ wpc[w] = "check"
  /\ LookAt
  /\ mapped' = mapped - 1
  /\ Goto(w, "idle")
  /\ UNCHANGED <<txVars, data_rx_buffer, channelVars, waitVars, writes, history>>

\* The data is printed, with byte 16 blanked meanwhile; the mappings are released,
\* which for DMA_TO_DEVICE leaves the cache alone.
Check(w) ==
  /\ wpc[w] = "check"
  /\ LookAt
  /\ mapped' = mapped - 2
  /\ Goto(w, "idle")
  /\ UNCHANGED <<txVars, data_rx_buffer, channelVars, waitVars, writes, history>>

-----------------------------------------------------------------------------
(* The channel, and the cache, which loads and writes back when it likes *)

Transfer ==
  /\ issued > 0
  /\ data_rx_buffer' = tx_memory
  /\ submitted' = Tail(submitted) /\ issued' = issued - 1
  /\ callbacks' = callbacks + 1
  /\ UNCHANGED <<wpc, txVars, rx_line, rx_cached, waitVars, mapped, writes, history>>

\* dma_done_callback(): complete() wakes the first of the wait queue.
Callback ==
  /\ callbacks > 0
  /\ callbacks' = callbacks - 1
  /\ done' = done + 1
  /\ IF sleepers = <<>> THEN UNCHANGED <<sleepers, woken>>
     ELSE sleepers' = Tail(sleepers) /\ woken' = woken \union {Head(sleepers)}
  /\ UNCHANGED <<wpc, bufVars, submitted, issued, mapped, writes, history>>

CacheFill ==
  /\ rx_cached = "no"
  /\ rx_line' = data_rx_buffer /\ rx_cached' = "clean"
  /\ UNCHANGED <<wpc, txVars, data_rx_buffer, channelVars, waitVars, mapped, writes, history>>

CacheEvict ==
  /\ rx_cached # "no"
  /\ WriteBack
  /\ rx_line' = Nobody /\ rx_cached' = "no"
  /\ UNCHANGED <<wpc, txVars, channelVars, waitVars, mapped, writes, history>>

CacheEvictSource ==
  /\ tx_memory' = data_tx_buffer
  /\ UNCHANGED <<wpc, data_tx_buffer, rxVars, channelVars, waitVars, mapped, writes, history>>

Step(w) == Map(w) \/ InitCompletion(w) \/ Submit(w) \/ Issue(w) \/ Wait(w) \/ Check(w)

Next ==
  \/ \E w \in Writers : Copy(w) \/ Step(w)
  \/ Transfer \/ Callback
  \/ CacheFill \/ CacheEvict \/ CacheEvictSource

\* A writer that may go on does, the channel moves what was issued.
Fairness == WF_vars(Transfer) /\ WF_vars(Callback) /\ \A w \in Writers : WF_vars(Step(w))

Spec == Init /\ [][Next]_vars /\ Fairness

-----------------------------------------------------------------------------
(* Properties *)

\* When a writer is told of its completion, its own data is in memory at the
\* destination, whatever writes came before and whatever the cache held of them,
\* unless another writer was in write() meanwhile.  What the writer then sees and
\* prints may still be an older line.
DataArrives == \A w \in Writers \ met : wpc[w] = "check" => data_rx_buffer = w

\* A writer that submitted its transaction returns, though the callback may come
\* before it waits, unless another writer's init_completion() fell between its
\* own and its return.
WriterReturns ==
  \A w \in Writers : wpc[w] = "issue" ~> wiped \/ wpc[w] = "idle"

\* The completion a writer waits for is on its way or there, and who sleeps for it is
\* woken with it, but for that init_completion().
CompletionComes ==
  ~wiped => \A w \in Writers :
    /\ wpc[w] = "wait" => issued > 0 \/ callbacks > 0 \/ done > 0
    /\ wpc[w] = "asleep" => issued > 0 \/ callbacks > 0 \/ (done > 0 /\ w \in woken)

\* With no writer inside, what is still mapped is what failed writes left.
MappingsReleased == Inside = {} => mapped = 2 * failures
=============================================================================
