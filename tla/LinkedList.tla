----------------------------- MODULE LinkedList -----------------------------
(***************************************************************************)
(* linked_list_demo() of ubuntu_18_04, 2_linked_list/linked_list.c: a head *)
(* node, an array of node pointers and the nodes are allocated one by one; *)
(* the nodes are put on a list at its head, then, in a second round, at    *)
(* its tail; each round takes one out of the middle and then all.          *)
(***************************************************************************)
EXTENDS Integers, Sequences, SequencesExt

CONSTANTS
  num_elements,   \* 10
  Fifth           \* the node taken out of the middle, nodes[5]

ListAssumption == num_elements \in Nat /\ Fifth \in 0..(num_elements - 1)

Nodes == 0..(num_elements - 1)
Rounds == <<"head", "tail">>

VARIABLES
  pc, i,           \* where the demonstration is, at which node
  round,
  head, array,     \* the head node and the array are allocated
  nodes,           \* nodes allocated
  list,            \* the list at the head node
  pos, temp,       \* list_for_each_safe(): this node and the next, -1 for the head
  misused,         \* history: a node not allocated, or not on the list, was used
  failed           \* history: the allocation that failed, "none"

allocVars == <<head, array, nodes, failed>>
walkVars  == <<list, pos, temp, misused>>
vars == <<pc, i, round, allocVars, walkVars>>

Init ==
  /\ pc = "alloc_head" /\ i = 0 /\ round = 1
  /\ head = FALSE /\ array = FALSE /\ nodes = {}
  /\ list = <<>> /\ pos = -1 /\ temp = -1
  /\ misused = FALSE /\ failed = "none"

AllocHead ==
  /\ pc = "alloc_head"
  /\ \/ head' = TRUE /\ pc' = "alloc_array" /\ UNCHANGED failed
     \/ pc' = "done" /\ failed' = "head" /\ UNCHANGED head
  /\ UNCHANGED <<i, round, array, nodes, walkVars>>

\* The array is not tested for NULL: the first node would be stored through it.
AllocArray ==
  /\ pc = "alloc_array"
  /\ \/ array' = TRUE /\ pc' = "alloc" /\ UNCHANGED <<misused, failed>>
     \/ pc' = "oops" /\ misused' = TRUE /\ failed' = "array" /\ UNCHANGED array
  /\ UNCHANGED <<i, round, head, nodes, list, pos, temp>>

AllocNode ==
  /\ pc = "alloc"
  /\ \/ /\ nodes' = nodes \union {i} /\ UNCHANGED failed
        /\ IF i = num_elements - 1 THEN pc' = "insert" /\ i' = 0 ELSE i' = i + 1 /\ UNCHANGED pc
     \/ pc' = "undo" /\ failed' = "node" /\ UNCHANGED <<i, nodes>>
  /\ UNCHANGED <<round, head, array, walkVars>>

\* while ((i-1) > 0)
Undo ==
  /\ pc = "undo"
  /\ IF i - 1 > 0
     THEN i' = i - 1 /\ nodes' = nodes \ {i - 1} /\ UNCHANGED <<pc, array>>
     ELSE array' = FALSE /\ pc' = "done" /\ UNCHANGED <<i, nodes>>
  /\ UNCHANGED <<round, head, failed, walkVars>>

-----------------------------------------------------------------------------
(* The two rounds *)

\* list_add(), list_add_tail()
Insert ==
  /\ pc = "insert"
  /\ list' = IF Rounds[round] = "head" THEN <<i>> \o list ELSE Append(list, i)
  /\ misused' = (misused \/ i \notin nodes)
  /\ IF i = num_elements - 1 THEN pc' = "middle" /\ UNCHANGED i ELSE i' = i + 1 /\ UNCHANGED pc
  /\ UNCHANGED <<round, allocVars, pos, temp>>

At(n)     == CHOOSE k \in DOMAIN list : list[k] = n
NextOf(n) == IF At(n) = Len(list) THEN -1 ELSE list[At(n) + 1]

\* list_del()
ListDel(n) == list' = IF n \in ToSet(list) THEN RemoveAt(list, At(n)) ELSE list

DeleteMiddle ==
  /\ pc = "middle"
  /\ ListDel(Fifth)
  /\ misused' = (misused \/ Fifth \notin ToSet(list))
  /\ pc' = "walk"
  /\ UNCHANGED <<i, round, allocVars, pos, temp>>

WalkBegin ==
  /\ pc = "walk"
  /\ pos' = IF list = <<>> THEN -1 ELSE list[1]
  /\ temp' = IF pos' = -1 THEN -1 ELSE NextOf(pos')
  /\ pc' = "delete"
  /\ UNCHANGED <<i, round, allocVars, list, misused>>

\* The next node was looked up before this one is unlinked.
WalkDelete ==
  /\ pc = "delete" /\ pos # -1
  /\ ListDel(pos)
  /\ misused' = (misused \/ pos \notin ToSet(list) \/ (temp # -1 /\ temp \notin ToSet(list)))
  /\ pos' = temp
  /\ temp' = IF temp = -1 THEN -1 ELSE NextOf(temp)
  /\ UNCHANGED <<pc, i, round, allocVars>>

RoundEnd ==
  /\ pc = "delete" /\ pos = -1
  /\ i' = 0
  /\ IF round = Len(Rounds) THEN pc' = "free" /\ UNCHANGED round
     ELSE pc' = "insert" /\ round' = round + 1
  /\ UNCHANGED <<allocVars, walkVars>>

Free ==
  /\ pc = "free"
  /\ nodes' = nodes \ {i}
  /\ misused' = (misused \/ i \notin nodes)
  /\ IF i = num_elements - 1
     THEN pc' = "done" /\ array' = FALSE /\ head' = FALSE /\ UNCHANGED i
     ELSE i' = i + 1 /\ UNCHANGED <<pc, array, head>>
  /\ UNCHANGED <<round, failed, list, pos, temp>>

Next ==
  \/ AllocHead \/ AllocArray \/ AllocNode \/ Undo
  \/ Insert \/ DeleteMiddle \/ WalkBegin \/ WalkDelete \/ RoundEnd \/ Free

Spec == Init /\ [][Next]_vars

-----------------------------------------------------------------------------
(* Properties *)

\* Nothing is used that is not allocated or not on the list, unless the array was
\* not to be had; no node is freed while it is listed.
NoStaleUse ==
  /\ misused => failed = "array"
  /\ ToSet(list) \subseteq nodes

\* The demonstration gives everything back, but when the allocation of a node
\* fails: then the head node stays, and the first node if there was one.  It does not
\* end when the array is not to be had: the head node stays then too.
EndReleases ==
  /\ pc = "done" =>
       /\ ~array /\ list = <<>>
       /\ head = (failed = "node")
       /\ nodes = IF failed = "node" /\ i > 0 THEN {0} ELSE {}
  /\ pc = "oops" => head /\ ~array /\ nodes = {}
=============================================================================
