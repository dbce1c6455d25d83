----------------------------- MODULE MemoryDev -----------------------------
(***************************************************************************)
(* The memory module of ubuntu_18_04, 7_memory: memory_init() allocates    *)
(* block after block and unwinds when one fails; open() takes a mutex that *)
(* the last close of the file gives back; mmap() maps a part of one block, *)
(* which programs fill byte by byte (main.cpp).  A mapping keeps the file, *)
(* as an open descriptor does.                                             *)
(***************************************************************************)
EXTENDS Integers, Sequences, FiniteSets

CONSTANTS
  Procs, Nobody,
  Size             \* of the mapped block; 16 pages

MemoryAssumption == Nobody \notin Procs /\ Size \in Nat \ {0}

\* In the order of memory_init(); krealloc() moves the first to a new block, the
\* temporary pages are freed at once.
Order   == <<"kmalloc", "krealloc", "dma", "user", "user_hi", "pages", "temporary",
             "vmalloc", "vzalloc", "mmap">>
Blocks  == {Order[i] : i \in DOMAIN Order} \ {"temporary"}
Cells   == 0..(Size - 1)

VARIABLES
  pc, at,      \* where init or exit is, and at which block of Order
  held,        \* blocks allocated
  lock,        \* holder of mmap_mutex_
  fd, view,    \* per process: descriptor open, cells mapped
  fill_offset, \* main.cpp
  stray,       \* history: a cell was written that was not mapped
  failed       \* history: the step of init that failed, "none"

procVars == <<lock, fd, view, fill_offset, stray>>
vars == <<pc, at, held, procVars, failed>>

Init ==
  /\ pc = "out" /\ at = 1
  /\ held = {}
  /\ lock = Nobody
  /\ fd = [p \in Procs |-> FALSE] /\ view = [p \in Procs |-> {}]
  /\ fill_offset = [p \in Procs |-> 0] /\ stray = FALSE
  /\ failed = "none"

Set(f, p, v) == [f EXCEPT ![p] = v]

-----------------------------------------------------------------------------
(* memory_init(), memory_exit() *)

\* Its pointers start anew; what an earlier load lost is out of reach.
Load ==
  /\ pc = "out"
  /\ pc' = "alloc" /\ at' = 1 /\ failed' = "none"
  /\ held' = {}
  /\ UNCHANGED procVars

Allocated ==
  CASE Order[at] = "krealloc"  -> (held \ {"kmalloc"}) \union {"krealloc"}
    [] Order[at] = "temporary" -> held
    [] OTHER -> held \union {Order[at]}

\* The pages of the middle are not tested; of the temporary ones that cannot be
\* had the address is used all the same.
Allocate ==
  /\ pc = "alloc"
  /\ \/ held' = Allocated /\ UNCHANGED failed
        /\ IF at = Len(Order) THEN pc' = "node" /\ UNCHANGED at ELSE at' = at + 1 /\ UNCHANGED pc
     \/ Order[at] = "pages" /\ at' = at + 1 /\ UNCHANGED <<pc, held, failed>>
     \/ Order[at] = "temporary" /\ pc' = "gone" /\ failed' = "temporary" /\ UNCHANGED <<at, held>>
     \/ Order[at] \notin {"pages", "temporary"} /\ pc' = "err" /\ failed' = Order[at]
        /\ UNCHANGED <<at, held>>
  /\ UNCHANGED procVars

\* What free_memory() has a pointer to: a failed krealloc() has set the one to the
\* block it did not move to NULL.
Reachable == IF failed = "krealloc" THEN Blocks \ {"kmalloc"} ELSE Blocks

\* free_memory(), of a failed init or at exit
FreeMemory ==
  /\ pc \in {"err", "exit"}
  /\ pc' = "out"
  /\ held' = held \ Reachable
  /\ UNCHANGED <<at, procVars, failed>>

\* An error of canonical_init() after memory_init() frees nothing.
RegisterNode ==
  /\ pc = "node"
  /\ \/ pc' = "loaded" /\ UNCHANGED failed
     \/ pc' = "gone" /\ failed' = "node"
  /\ UNCHANGED <<at, held, procVars>>

InUse(p) == fd[p] \/ view[p] # {}

\* rmmod, which an open file keeps out; memory_exit() unlocks what nobody holds.
Exit ==
  /\ pc = "loaded" /\ \A p \in Procs : ~InUse(p)
  /\ pc' = "exit"
  /\ lock' = Nobody
  /\ UNCHANGED <<at, held, fd, view, fill_offset, stray, failed>>

-----------------------------------------------------------------------------
(* Files *)

\* memory_open(): mutex_trylock()
Open(p) ==
  /\ pc = "loaded" /\ ~InUse(p)
  /\ lock = Nobody
  /\ lock' = p
  /\ fd' = Set(fd, p, TRUE) /\ fill_offset' = Set(fill_offset, p, 0)
  /\ UNCHANGED <<pc, at, held, view, stray, failed>>

\* memory_mmap(): offset and size within the block
Mmap(p) ==
  /\ fd[p] /\ view[p] = {}
  /\ \E offset \in 0..(Size + 1), size \in 1..(Size + 1) :
       /\ offset <= Size /\ size <= Size - offset
       /\ view' = Set(view, p, offset..(offset + size - 1))
  /\ UNCHANGED <<pc, at, held, lock, fd, fill_offset, stray, failed>>

\* Seeded fault: the mutex is given back with the descriptor.
CloseUnlocks(p) ==
  /\ fd[p]
  /\ fd' = Set(fd, p, FALSE)
  /\ lock' = Nobody
  /\ UNCHANGED <<pc, at, held, view, fill_offset, stray, failed>>

\* memory_close() comes with the last of descriptor and mapping.
Close(p) ==
  /\ fd[p]
  /\ fd' = Set(fd, p, FALSE)
  /\ lock' = IF view[p] = {} THEN Nobody ELSE lock
  /\ UNCHANGED <<pc, at, held, view, fill_offset, stray, failed>>

Munmap(p) ==
  /\ view[p] # {}
  /\ view' = Set(view, p, {})
  /\ lock' = IF fd[p] THEN lock ELSE Nobody
  /\ UNCHANGED <<pc, at, held, fd, fill_offset, stray, failed>>

\* The up and down keys of main.cpp, which maps the whole block
FillKey(p) ==
  /\ fd[p] /\ view[p] = Cells
  /\ \/ fill_offset[p] < Size - 1 /\ fill_offset' = Set(fill_offset, p, fill_offset[p] + 1)
     \/ fill_offset[p] # 0 /\ fill_offset' = Set(fill_offset, p, fill_offset[p] - 1)
  /\ stray' = (stray \/ fill_offset[p] \notin view[p])
  /\ UNCHANGED <<pc, at, held, lock, fd, view, failed>>

Next ==
  \/ Load \/ Allocate \/ FreeMemory \/ RegisterNode \/ Exit
  \/ \E p \in Procs : Open(p) \/ Mmap(p) \/ Close(p) \/ Munmap(p) \/ FillKey(p)

Spec == Init /\ [][Next]_vars

-----------------------------------------------------------------------------
(* Properties *)

\* One process at a time has the file or a mapping of it, even one that closed
\* the file and kept the mapping; what it maps is memory the module still holds,
\* and programs write nowhere else.
OneHolder ==
  /\ \A p \in Procs : InUse(p) => lock = p /\ pc = "loaded"
  /\ \A p \in Procs : view[p] # {} => view[p] \subseteq Cells /\ "mmap" \in held
  /\ ~stray

\* A memory_init() that fails at an allocation it tests, however far it came, and an
\* exit give every block back, except the one a failed krealloc() had left in place.
\* A load that fails later takes nothing back: not over its node, nor when the
\* temporary pages it does not test are not there.
UnloadReleases ==
  /\ pc = "out" =>
       /\ lock = Nobody
       /\ held = IF failed = "krealloc" THEN {"kmalloc"} ELSE {}
  /\ pc = "gone" =>
       /\ {"krealloc", "dma", "user", "user_hi"} \subseteq held
       /\ failed = "node" => {"vmalloc", "vzalloc", "mmap"} \subseteq held
       /\ failed \in {"node", "temporary"}
=============================================================================
