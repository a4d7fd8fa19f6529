----------------------------- MODULE OrderedQueue -----------------------------
(***************************************************************************)
(* What EventQueue/PriorityQueue.h promises: its elements in the order of  *)
(* their priorities, those of the same priority in the order in which they *)
(* got it. EventQueueClassic is modelled on top of such a list.            *)
(***************************************************************************)
EXTENDS Integers, Sequences, SequencesExt

CONSTANTS Handles,   \* what identifies an element of the queue
          Keys       \* the priorities, the least first

VARIABLES list,      \* the elements, in order
          key        \* the priority of each of them

vars == <<list, key>>

Elements == Range(list)

Init ==
    /\ list = <<>>
    /\ key \in [Handles -> Keys]

(* Where an element of priority k goes in l: before the first element it   *)
(* precedes strictly.                                                      *)
InsertByKey(l, h, k) ==
    LET i == SelectInSeq(l, LAMBDA e : k < key[e])
    IN InsertAt(l, IF i = 0 THEN Len(l) + 1 ELSE i, h)

Push(h, k) ==
    /\ h \notin Elements
    /\ list' = InsertByKey(list, h, k)
    /\ key' = [key EXCEPT ![h] = k]

Pop ==
    /\ list # <<>>
    /\ list' = Tail(list)
    /\ UNCHANGED key

Erase(h) ==
    /\ h \in Elements
    /\ list' = RemoveFirst(list, h)
    /\ UNCHANGED key

(* The priority of an element of the list changes, and its place with it.  *)
Update(h, k) ==
    /\ h \in Elements
    /\ list' = InsertByKey(RemoveFirst(list, h), h, k)
    /\ key' = [key EXCEPT ![h] = k]

Clear ==
    /\ list' = <<>>
    /\ UNCHANGED key

Next ==
    \/ \E h \in Handles, k \in Keys : Push(h, k) \/ Update(h, k)
    \/ \E h \in Handles : Erase(h)
    \/ Pop
    \/ Clear

Spec == Init /\ [][Next]_vars
=============================================================================
