---------------------------- MODULE PriorityQueue ----------------------------
(***************************************************************************)
(* EventQueue/PriorityQueue.h at the level of its pointers: a fixed array  *)
(* of nodes, each either in the list that starts at head, kept in order by *)
(* insertion, or in the list of free nodes. An action is a call, made with *)
(* interrupts disabled by EventQueueClassic, so that calls do not overlap. *)
(* Handles are nodes of the list: the program erases an event only while   *)
(* it is queued (AsyncProcedure forgets its handle when the event runs).   *)
(***************************************************************************)
EXTENDS Integers, Sequences, SequencesExt

CONSTANTS Capacity,  \* the number of nodes
          Keys       \* the priorities: remaining times, in EventQueueClassic

ASSUME CapacityAssumption == /\ Capacity \in Nat \ {0}
                             /\ Keys \subseteq Nat /\ Keys # {}

Nodes == 1..Capacity
NULL == 0

VARIABLES next,              \* the link of each node
          free_nodes,        \* the first free node
          head,              \* the first node of the queue
          used_nodes_count,
          key,               \* the priority of the content of each node
          looping            \* a call is in a loop that does not end

vars == <<next, free_nodes, head, used_nodes_count, key, looping>>

(* The nodes a walk along the links meets from p on; Capacity steps go     *)
(* through any list without a cycle.                                       *)
Chain(p, links) ==
    LET at[i \in Nodes] == IF i = 1 THEN p
                           ELSE IF at[i - 1] = NULL THEN NULL ELSE links[at[i - 1]]
    IN Restrict(at, {i \in Nodes : at[i] # NULL})

List == Chain(head, next)
Free == Chain(free_nodes, next)

-----------------------------------------------------------------------------
(* initialize(): every node is free, in the order of the array.            *)
Init ==
    /\ next = [n \in Nodes |-> IF n = Capacity THEN NULL ELSE n + 1]
    /\ free_nodes = 1
    /\ head = NULL
    /\ used_nodes_count = 0
    /\ key \in [Nodes -> {CHOOSE k \in Keys : TRUE}]
    /\ looping = FALSE

(* Mutated forms: a comparison that is not strict, a node that is not given *)
(* back, a count that is not kept.                                         *)
InsertAfterLax(links, prev, n) ==
    LET c == Chain(prev, links)
        i == SelectInSeq(c, LAMBDA p : links[p] = NULL \/ key'[n] <= key'[links[p]])
    IN [links EXCEPT ![c[i]] = n, ![n] = links[c[i]]]

UnlinkLeaking(n) ==
    /\ next[head] = n
    /\ next' = [next EXCEPT ![head] = next[n]]
    /\ used_nodes_count' = used_nodes_count - 1
    /\ UNCHANGED <<free_nodes, head, key, looping>>

PopUncounted ==
    /\ ~looping
    /\ head # NULL
    /\ head' = next[head]
    /\ next' = [next EXCEPT ![head] = free_nodes]
    /\ free_nodes' = head
    /\ UNCHANGED <<used_nodes_count, key, looping>>

(* insert_after: n goes behind the first node, from prev on, that is last  *)
(* or whose successor n precedes.                                          *)
InsertAfter(links, prev, n) ==
    LET c == Chain(prev, links)
        i == SelectInSeq(c, LAMBDA p : links[p] = NULL \/ key'[n] < key'[links[p]])
    IN [links EXCEPT ![c[i]] = n, ![n] = links[c[i]]]

(* push: a queue without a free node returns NULL and is left alone.       *)
Push(k) ==
    /\ ~looping
    /\ free_nodes # NULL
    /\ LET n == free_nodes
           links == [next EXCEPT ![n] = NULL]
       IN /\ key' = [key EXCEPT ![n] = k]
          /\ free_nodes' = next[n]
          /\ used_nodes_count' = used_nodes_count + 1
          /\ \/ /\ head = NULL
                /\ head' = n /\ next' = links
             \/ /\ head # NULL /\ k < key[head]
                /\ head' = n /\ next' = [links EXCEPT ![n] = head]
             \/ /\ head # NULL /\ k >= key[head]
                /\ next' = InsertAfter(links, head, n)
                /\ UNCHANGED head
    /\ UNCHANGED looping

Pop ==
    /\ ~looping
    /\ head # NULL
    /\ head' = next[head]
    /\ next' = [next EXCEPT ![head] = free_nodes]
    /\ free_nodes' = head
    /\ used_nodes_count' = used_nodes_count - 1
    /\ UNCHANGED <<key, looping>>

(* erase: the head is popped; the node behind it is unlinked. The search   *)
(* tests the node behind the head again and again, so that for any node    *)
(* further down it never ends.                                             *)
Unlink(n) ==
    /\ next[head] = n
    /\ next' = [next EXCEPT ![head] = next[n], ![n] = free_nodes]
    /\ free_nodes' = n
    /\ used_nodes_count' = used_nodes_count - 1
    /\ UNCHANGED <<head, key, looping>>

EraseLoops(n) ==
    /\ next[head] # n
    /\ looping' = TRUE
    /\ UNCHANGED <<next, free_nodes, head, used_nodes_count, key>>

Erase(n) ==
    /\ ~looping
    /\ n \in Range(List)
    /\ IF head = n THEN Pop ELSE Unlink(n) \/ EraseLoops(n)

(* update, once the content of n has changed. A node that is still in      *)
(* place stays; else it is inserted again, behind the node that was before *)
(* it when that one still precedes it, behind the head otherwise: callers  *)
(* may not lower an element that is not the head below the head's priority *)
(* (EventQueueClassic only updates the head).                              *)
InPlace(n) == next[n] = NULL \/ key'[n] < key'[next[n]]

UpdateHead ==
    IF InPlace(head)
    THEN UNCHANGED <<next, head>>
    ELSE /\ head' = next[head]
         /\ next' = InsertAfter(next, next[head], head)

UpdateBehind(n) ==
    \E prev \in Range(List) :
        /\ next[prev] = n
        /\ UNCHANGED head
        /\ LET links == [next EXCEPT ![prev] = next[n]]
           IN next' = CASE key'[prev] >= key'[n] -> InsertAfter(links, head, n)
                        [] key'[prev] < key'[n] /\ InPlace(n) -> next
                        [] OTHER -> InsertAfter(links, prev, n)

Update(n, k) ==
    /\ ~looping
    /\ n \in Range(List)
    /\ n = head \/ k >= key[head]
    /\ key' = [key EXCEPT ![n] = k]
    /\ IF n = head THEN UpdateHead ELSE UpdateBehind(n)
    /\ UNCHANGED <<free_nodes, used_nodes_count, looping>>

(* clear: the nodes are freed one by one, from the head.                   *)
Clear ==
    /\ ~looping
    /\ head # NULL
    /\ LET l == List
       IN /\ next' = [n \in Nodes |->
                        CASE n = head -> free_nodes
                          [] n \in Range(Tail(l)) -> l[(CHOOSE i \in DOMAIN l : l[i] = n) - 1]
                          [] OTHER -> next[n]]
          /\ free_nodes' = Last(l)
    /\ head' = NULL
    /\ used_nodes_count' = 0
    /\ UNCHANGED <<key, looping>>

Next ==
    \/ \E k \in Keys : Push(k) \/ \E n \in Nodes : Update(n, k)
    \/ \E n \in Nodes : Erase(n)
    \/ Pop
    \/ Clear
    \/ looping /\ UNCHANGED vars

Spec == Init /\ [][Next]_vars

-----------------------------------------------------------------------------
(* The links stay within the array, and the count within its size.         *)
TypeOK ==
    /\ next \in [Nodes -> Nodes \union {NULL}]
    /\ free_nodes \in Nodes \union {NULL}
    /\ head \in Nodes \union {NULL}
    /\ used_nodes_count \in 0..Capacity
    /\ key \in [Nodes -> Keys]
    /\ looping \in BOOLEAN

(* No node is lost or linked twice, whatever the sequence of calls: each   *)
(* is in the queue or in the free list, both end, and the count of size()  *)
(* agrees: full() is exactly Capacity elements.                            *)
NodesConserved ==
    /\ Range(List) \union Range(Free) = Nodes
    /\ Len(List) + Len(Free) = Capacity
    /\ used_nodes_count = Len(List)

(* The list that the links make.                                           *)
Ordered == INSTANCE OrderedQueue WITH
    Handles <- Nodes, list <- List, key <- key

(* The queue is an ordered list: each call has the effect the list gives   *)
(* it, elements of the same priority stay in the order of their insertion. *)
ImplementsOrderedQueue == Ordered!Spec

(* "erase a node from the list" (PriorityQueue.h:280): a call to erase     *)
(* with a node of the list returns.                                        *)
EraseReturns == ~looping

=============================================================================
