------------------------------ MODULE LinkList ------------------------------
(***************************************************************************)
(* The doubly linked list of instructions (class LinkList), with its       *)
(* pointers, and a pass that walks over it with one iterator.              *)
(*                                                                         *)
(* An object of the heap is a ListNode: the two sentinels inside the list, *)
(* and a node for each instruction ever inserted; a removed node is never  *)
(* freed.  A node's name stands for its data too, as every insertion       *)
(* allocates both.                                                         *)
(*                                                                         *)
(* A definition introduced as a slip is the one after it with a bug a      *)
(* programmer could make; nothing uses it.                                 *)
(***************************************************************************)
EXTENDS Integers, SequencesExt, FiniteSets

CONSTANTS
    MaxNodes,          \* how many insertions there may be
    HeadNode, TailNode, NullPtr   \* the sentinels, and the null pointer

ASSUME MaxNodesAssumption == MaxNodes \in Nat
ASSUME SentinelsAssumption ==
    /\ Cardinality({HeadNode, TailNode, NullPtr}) = 3
    /\ \A n \in 1..MaxNodes : n \notin {HeadNode, TailNode, NullPtr}

VARIABLES
    heap,      \* by object, its prev and next
    new,       \* how many nodes have been allocated
    size,      \* the list's own count
    iter       \* the pass's iterator

listVars == <<heap, new, size, iter>>

Nodes   == 1..MaxNodes
Objects == Nodes \cup {HeadNode, TailNode}

ListInit ==
    /\ heap = [o \in Objects |->
                [prev |-> IF o = TailNode THEN HeadNode ELSE NullPtr,
                 next |-> IF o = HeadNode THEN TailNode ELSE NullPtr]]
    /\ new = 0
    /\ size = 0
    /\ iter = TailNode

-----------------------------------------------------------------------------
(* The methods of ListNode.  Every line is one of their assignments, made  *)
(* in the heap the lines before it left.                                   *)

(* A slip: the last two assignments change places.                         *)
InsertedAtNextSwapped(h, this, node) ==
    LET h1 == [h EXCEPT ![node].prev = this]
        h2 == [h1 EXCEPT ![node].next = h1[this].next]
        h3 == [h2 EXCEPT ![this].next = node]
    IN  [h3 EXCEPT ![h3[this].next].prev = node]

(* ListNode::insert_at_next                                                *)
InsertedAtNext(h, this, node) ==
    LET h1 == [h EXCEPT ![node].prev = this]
        h2 == [h1 EXCEPT ![node].next = h1[this].next]
        h3 == [h2 EXCEPT ![h2[this].next].prev = node]
    IN  [h3 EXCEPT ![this].next = node]

(* ListNode::insert_at_prev                                                *)
InsertedAtPrev(h, this, node) ==
    LET h1 == [h EXCEPT ![node].next = this]
        h2 == [h1 EXCEPT ![node].prev = h1[this].prev]
        h3 == [h2 EXCEPT ![h2[this].prev].next = node]
    IN  [h3 EXCEPT ![this].prev = node]

(* ListNode::remove_self                                                   *)
RemovedSelf(h, this) ==
    LET h1 == [h EXCEPT ![h[this].prev].next = h[this].next]
        h2 == [h1 EXCEPT ![h1[this].next].prev = h1[this].prev]
    IN  [h2 EXCEPT ![this] = [prev |-> NullPtr, next |-> NullPtr]]

-----------------------------------------------------------------------------
(* The methods of LinkList and what the passes do with the nodes it gives  *)
(* them.                                                                   *)

InsertAtBegin ==
    /\ new < MaxNodes
    /\ new' = new + 1
    /\ size' = size + 1
    /\ heap' = InsertedAtNext(heap, HeadNode, new + 1)
    /\ UNCHANGED iter

InsertAtTail ==
    /\ new < MaxNodes
    /\ new' = new + 1
    /\ size' = size + 1
    /\ heap' = InsertedAtPrev(heap, TailNode, new + 1)
    /\ UNCHANGED iter

(* A slip: only the methods that allocate the node count it.               *)
InsertAfterUncounted ==
    /\ new < MaxNodes
    /\ iter # TailNode
    /\ new' = new + 1
    /\ heap' = InsertedAtNext(heap, iter, new + 1)
    /\ iter' = new + 1
    /\ UNCHANGED size

(* insert_after, as the unifier calls it: the inserted node is where it    *)
(* inserts next.                                                           *)
InsertAfter ==
    /\ new < MaxNodes
    /\ iter # TailNode
    /\ new' = new + 1
    /\ size' = size + 1
    /\ heap' = InsertedAtNext(heap, iter, new + 1)
    /\ iter' = new + 1

(* remove, whose answer the passes go on with                              *)
RemoveNode ==
    /\ iter \in Nodes
    /\ iter' = heap[iter].next
    /\ size' = size - 1
    /\ heap' = RemovedSelf(heap, iter)
    /\ UNCHANGED new

(* begin(), and the iterator's own next and prev                           *)
Begin ==
    /\ iter' = heap[HeadNode].next
    /\ UNCHANGED <<heap, new, size>>

Forward ==
    /\ iter # TailNode
    /\ iter' = heap[iter].next
    /\ UNCHANGED <<heap, new, size>>

Backward ==
    /\ iter # HeadNode
    /\ iter' = heap[iter].prev
    /\ UNCHANGED <<heap, new, size>>

(* A slip: get steps once too often.                                       *)
GetNext(i) ==
    LET go[k \in 0..i + 1] == IF k = 0 THEN heap[HeadNode].next ELSE heap[go[k - 1]].next IN
    /\ i < size
    /\ iter' = go[i + 1]
    /\ UNCHANGED <<heap, new, size>>

(* get, whose assertion trusts size                                        *)
Get(i) ==
    LET go[k \in 0..i] == IF k = 0 THEN heap[HeadNode].next ELSE heap[go[k - 1]].next IN
    /\ i < size
    /\ iter' = go[i]
    /\ UNCHANGED <<heap, new, size>>

ListNext ==
    \/ InsertAtBegin \/ InsertAtTail \/ InsertAfter \/ RemoveNode
    \/ Begin \/ Forward \/ Backward
    \/ \E i \in 0..MaxNodes - 1 : Get(i)

ListSpec == ListInit /\ [][ListNext]_listVars

-----------------------------------------------------------------------------
(* What the heap stands for.                                               *)

(* The nodes met from one sentinel on, up to the first object that is      *)
(* none.                                                                   *)
Walk(start, field) ==
    LET step[k \in 0..MaxNodes + 1] ==
            IF k = 0 THEN start
            ELSE IF step[k - 1] = NullPtr THEN NullPtr ELSE heap[step[k - 1]][field]
        length == CHOOSE n \in 0..MaxNodes + 1 :
            /\ \A k \in 1..n : step[k] \in Nodes
            /\ n <= MaxNodes => step[n + 1] \notin Nodes
    IN  [k \in 1..length |-> step[k]]

InOrder == Walk(HeadNode, "next")

Place(o) ==
    LET order == InOrder IN
    IF o = HeadNode THEN 0
    ELSE IF o = TailNode THEN Len(order) + 1
    ELSE IF \E k \in DOMAIN order : order[k] = o
    THEN CHOOSE k \in DOMAIN order : order[k] = o ELSE -1

List == INSTANCE InsnList WITH Items <- Nodes, items <- InOrder, at <- Place(iter)

-----------------------------------------------------------------------------
(* Properties.                                                             *)

(* The list can be walked from both ends: prev is the inverse of next, so  *)
(* what remove_self and the insertions hang on to prev is the node before   *)
(* (linklist.hpp:19-44).                                                   *)
SameBackwards == Walk(TailNode, "prev") = Reverse(InOrder)

(* size is the number of nodes that can be reached.  get's assertion and   *)
(* every loop that counts down from total_size (TU_Vistor.cpp:45,          *)
(* RemoveTailVistor.cpp:8) would walk off the list otherwise.              *)
SizeCounts == size = Len(InOrder)

(* The list is a sequence with a cursor, as InsnList describes it and as   *)
(* the block's operations are modelled: removing under the iterator gives  *)
(* the following node, inserting elsewhere leaves the iterator where it    *)
(* is.                                                                     *)
IsList == List!Spec

=============================================================================
