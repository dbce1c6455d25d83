----------------------------- MODULE WorkQueues -----------------------------
(***************************************************************************)
(* The two work queue modules of ubuntu_18_04, workqueues.c (one worker)   *)
(* and cmwq.c (MaxActive of them): init queues one work item and, for each *)
(* cpu, a delayed one that it also puts on work_list_; an item frees its   *)
(* own memory; exit takes the list apart.  There is no lock: list_add()    *)
(* and list_del() load links and store them one by one.                    *)
(***************************************************************************)
EXTENDS Integers, FiniteSets

CONSTANTS
  Cores,       \* num_online_cpus()
  MaxActive    \* 1 for create_singlethread_workqueue()

WorkQueuesAssumption == Cores \in Nat \ {0} /\ MaxActive \in Nat \ {0}

Delayed == 1..Cores     \* the delayed items, in the order init queues them
Items   == 0..Cores     \* 0 is data_, which is not delayed and on no list
Head    == 0            \* as a link: work_list_ itself
Main    == 0            \* as a thread: init, then exit; data_'s worker uses no link
Poison  == -1           \* links after list_del(), or never stored

VARIABLES
  pc, at,          \* where init or exit is, and at which item
  temp,            \* list_for_each_safe(): the item after it
  memory,          \* of each item: "none", "live", "freed"
  work,            \* "none", "delayed", "queued" or where its worker is:
                   \* "store_prev", "store_next", "kfree"
  next, prev,      \* the links of work_list_ and of the items
  pred, succ,      \* the links each thread's list operation has loaded
  misused,         \* history: a freed or unlinked item was used as if it were not
  overlapped       \* history: a list operation began at an item or a neighbour of
                   \* an item that another one, or exit's loop, was busy with

links == <<next, prev, pred, succ>>
vars == <<pc, at, temp, memory, work, links, misused, overlapped>>

Init ==
  /\ pc = "init" /\ at = 0 /\ temp = 0
  /\ memory = [i \in Items |-> "none"] /\ work = [i \in Items |-> "none"]
  /\ next = [i \in Items |-> IF i = Head THEN Head ELSE Poison] /\ prev = next
  /\ pred = [t \in Items |-> Head] /\ succ = pred
  /\ misused = FALSE /\ overlapped = FALSE

Set(f, i, v) == [f EXCEPT ![i] = v]

Running  == {i \in Items : work[i] \in {"store_prev", "store_next", "kfree"}}
Deleting == {i \in Delayed : work[i] \in {"store_prev", "store_next"}}
Adding   == {"add_prev", "add_own", "add_head"}
Exiting  == {"exit", "exit_prev", "exit_next", "exit_free"}

Gone(i)     == i # Head /\ memory[i] # "live"
Dangling(i) == Gone(i) \/ next[i] = Poison \/ prev[i] = Poison

\* What init or exit is busy with, and what a worker's list_del() is
Held == {i \in Delayed : \/ pc \in Adding \union {"list_add"} /\ i = at
                         \/ pc \in Adding /\ i = succ[Main]
                         \/ pc \in Exiting /\ at # Head /\ i \in {at, temp}}
Beside(i) == \E j \in Deleting : i \in {pred[j], succ[j]}

-----------------------------------------------------------------------------
(* list_del() of item i by thread t: three steps *)

LoadLinks(t, i) ==
  /\ pred' = Set(pred, t, prev[i]) /\ succ' = Set(succ, t, next[i])
  /\ misused' = Dangling(i)

\* next->prev = prev
StorePrev(t) ==
  /\ prev' = Set(prev, succ[t], pred[t])
  /\ misused' = Gone(succ[t])

\* prev->next = next; the item's own links are poisoned.
StoreNext(t, i) ==
  /\ next' = [next EXCEPT ![pred[t]] = succ[t], ![i] = Poison]
  /\ prev' = Set(prev, i, Poison)
  /\ misused' = (Gone(pred[t]) \/ Gone(i))

-----------------------------------------------------------------------------
(* workqueues_init(), cmwq_init() *)

\* kmalloc(), queue_work() and queue_delayed_work_on(), the first with no delay
InitQueue ==
  /\ pc = "init"
  /\ memory' = Set(memory, at, "live")
  /\ work' = Set(work, at, IF at = 0 THEN "queued" ELSE "delayed")
  /\ IF at = 0 THEN at' = 1 /\ UNCHANGED pc ELSE pc' = "list_add" /\ UNCHANGED at
  /\ UNCHANGED <<temp, links, misused, overlapped>>

\* list_add() after the item was queued: it loads the first item, ...
AddLoad ==
  /\ pc = "list_add"
  /\ pc' = "add_prev"
  /\ succ' = Set(succ, Main, next[Head])
  /\ overlapped' = (overlapped \/ work[at] \notin {"delayed", "queued"} \/ next[Head] \in Deleting)
  /\ UNCHANGED <<at, temp, memory, work, next, prev, pred, misused>>

\* ... stores in that one, ...
AddPrev ==
  /\ pc = "add_prev"
  /\ pc' = "add_own"
  /\ prev' = Set(prev, succ[Main], at)
  /\ misused' = Gone(succ[Main])
  /\ UNCHANGED <<at, temp, memory, work, next, pred, succ, overlapped>>

\* ... in the new one ...
AddOwn ==
  /\ pc = "add_own"
  /\ pc' = "add_head"
  /\ next' = Set(next, at, succ[Main]) /\ prev' = Set(prev, at, Head)
  /\ misused' = Gone(at)
  /\ UNCHANGED <<at, temp, memory, work, pred, succ, overlapped>>

\* ... and in the head.
AddHead ==
  /\ pc = "add_head"
  /\ next' = Set(next, Head, at)
  /\ IF at = Cores THEN pc' = "loaded" /\ UNCHANGED at ELSE pc' = "init" /\ at' = at + 1
  /\ UNCHANGED <<temp, memory, work, prev, pred, succ, misused, overlapped>>

-----------------------------------------------------------------------------
(* Timers and workers *)

Expire(i) ==
  /\ work[i] = "delayed"
  /\ work' = Set(work, i, "queued")
  /\ UNCHANGED <<pc, at, temp, memory, links, misused, overlapped>>

\* do_work(), do_work_delayed() with list_del() ...
WorkBegin(i) ==
  /\ work[i] = "queued" /\ Cardinality(Running) < MaxActive
  /\ IF i = 0 THEN work' = Set(work, i, "kfree") /\ UNCHANGED <<pred, succ, misused, overlapped>>
     ELSE /\ work' = Set(work, i, "store_prev")
          /\ LoadLinks(i, i)
          /\ overlapped' = (overlapped \/ i \in Held \/ Beside(i))
  /\ UNCHANGED <<pc, at, temp, memory, next, prev>>

\* Seeded fault: the next item goes on pointing back to this one.
WorkStorePrevForgets(i) ==
  /\ work[i] = "store_prev"
  /\ work' = Set(work, i, "store_next")
  /\ UNCHANGED <<pc, at, temp, memory, links, misused, overlapped>>

WorkStorePrev(i) ==
  /\ work[i] = "store_prev"
  /\ work' = Set(work, i, "store_next")
  /\ StorePrev(i)
  /\ UNCHANGED <<pc, at, temp, memory, next, pred, succ, overlapped>>

WorkStoreNext(i) ==
  /\ work[i] = "store_next"
  /\ work' = Set(work, i, "kfree")
  /\ StoreNext(i, i)
  /\ UNCHANGED <<pc, at, temp, memory, pred, succ, overlapped>>

\* ... and kfree()
WorkEnd(i) ==
  /\ work[i] = "kfree"
  /\ work' = Set(work, i, "none")
  /\ memory' = Set(memory, i, "freed")
  /\ misused' = (memory[i] # "live")
  /\ UNCHANGED <<pc, at, temp, links, overlapped>>

-----------------------------------------------------------------------------
(* workqueues_exit(), cmwq_exit() *)

\* list_for_each_safe() looks up an item and the one after it.
LookUp(i) ==
  /\ at' = i /\ temp' = next[i]
  /\ misused' = Dangling(i)
  /\ overlapped' = (overlapped \/ i \in Deleting \/ next[i] \in Deleting)

ExitBegin ==
  /\ pc = "loaded"
  /\ pc' = "exit"
  /\ LookUp(next[Head])
  /\ UNCHANGED <<memory, work, links>>

\* Seeded fault: the delayed item is not cancelled.
ExitForgets ==
  /\ pc = "exit" /\ at # Head
  /\ pc' = "exit_prev"
  /\ overlapped' = (overlapped \/ at \in Running)
  /\ LoadLinks(Main, at)
  /\ UNCHANGED <<at, temp, memory, work, next, prev>>

\* One turn of the loop: cancel_delayed_work(), which does not wait for a running
\* item, list_del() ...
ExitCancel ==
  /\ pc = "exit" /\ at # Head
  /\ pc' = "exit_prev"
  /\ work' = IF at \in Running THEN work ELSE Set(work, at, "none")
  /\ overlapped' = (overlapped \/ at \in Running)
  /\ LoadLinks(Main, at)
  /\ UNCHANGED <<at, temp, memory, next, prev>>

ExitStorePrev ==
  /\ pc = "exit_prev"
  /\ pc' = "exit_next"
  /\ StorePrev(Main)
  /\ UNCHANGED <<at, temp, memory, work, next, pred, succ, overlapped>>

ExitStoreNext ==
  /\ pc = "exit_next"
  /\ pc' = "exit_free"
  /\ StoreNext(Main, at)
  /\ UNCHANGED <<at, temp, memory, work, pred, succ, overlapped>>

\* ... and kfree(); then the one looked up before.
ExitFree ==
  /\ pc = "exit_free"
  /\ pc' = "exit"
  /\ memory' = Set(memory, at, "freed")
  /\ at' = temp /\ temp' = next[temp]
  /\ misused' = (Gone(at) \/ temp = at \/ Dangling(temp))
  /\ overlapped' = (overlapped \/ next[temp] \in Deleting)
  /\ UNCHANGED <<work, links>>

\* flush_workqueue() waits for what is queued or running, not for timers.
ExitFlush ==
  /\ pc = "exit" /\ at = Head
  /\ \A i \in Items : work[i] \in {"none", "delayed"}
  /\ pc' = "gone"
  /\ UNCHANGED <<at, temp, memory, work, links, misused, overlapped>>

\* What follows a misuse is anybody's guess: the behaviour ends with it.
Next ==
  /\ ~misused
  /\ \/ InitQueue \/ AddLoad \/ AddPrev \/ AddOwn \/ AddHead
     \/ ExitBegin \/ ExitCancel \/ ExitStorePrev \/ ExitStoreNext \/ ExitFree \/ ExitFlush
     \/ \E i \in Items : \/ Expire(i) \/ WorkBegin(i)
                         \/ WorkStorePrev(i) \/ WorkStoreNext(i) \/ WorkEnd(i)

Spec == Init /\ [][Next]_vars

-----------------------------------------------------------------------------
(* Properties *)

\* Items that free themselves, at any distance but next to each other, while init
\* lists more and exit frees the rest, use nothing that is freed or unlinked: that
\* takes two list operations that meet, or exit's loop meeting a worker.
MisuseNeedsOverlap == misused => overlapped

\* But for that, after exit no item is left to run in code that is gone, and none
\* is leaked, however timers, workers and exit came together.
NothingLeftBehind ==
  pc = "gone" /\ ~overlapped =>
    \A i \in Items : work[i] = "none" /\ memory[i] = "freed"
=============================================================================
