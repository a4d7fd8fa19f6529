---------------------------- MODULE CircularBuffer ----------------------------
(***************************************************************************)
(* util/CircularBuffer.h: Size slots, the indices of the next slot to      *)
(* write and to read, and the flag that tells full from empty when they    *)
(* are equal. Its operations are used as parts of their callers' actions.  *)
(***************************************************************************)
EXTENDS Integers, Sequences

CONSTANT Size

ASSUME SizeAssumption == Size \in Nat \ {0}

VARIABLES slots,  \* _buffer
          head,   \* _head, the next slot to write
          tail,   \* _tail, the next slot to read
          full    \* _full

buffer == <<slots, head, tail, full>>

Empty == head = tail /\ ~full

(* What is in the buffer, the oldest first.                                *)
Count == IF full THEN Size ELSE (head - tail + Size) % Size
Contents == [i \in 1..Count |-> slots[(tail + i - 1) % Size]]

(* reset(), on a buffer whose slots hold anything.                         *)
Reset(any) ==
    /\ slots = [i \in 0..(Size - 1) |-> any]
    /\ head = 0 /\ tail = 0 /\ full = FALSE

(* Mutated forms of push: an index that does not wrap; a push that fills   *)
(* the buffer without telling.                                             *)
PushUnwrapped(d) ==
    /\ ~full
    /\ slots' = [slots EXCEPT ![head] = d]
    /\ head' = head + 1
    /\ full' = (head' = tail)
    /\ UNCHANGED tail

PushUnflagged(d) ==
    /\ ~full
    /\ slots' = [slots EXCEPT ![head] = d]
    /\ head' = (head + 1) % Size
    /\ UNCHANGED <<tail, full>>

(* push(data); it fails on a full buffer.                                  *)
Push(d) ==
    /\ ~full
    /\ slots' = [slots EXCEPT ![head] = d]
    /\ head' = (head + 1) % Size
    /\ full' = (head' = tail)
    /\ UNCHANGED tail

(* pop(dest, len): how many elements it yields. In the last case it is a   *)
(* pop up to the end of the array and then one from its start, which finds *)
(* the buffer empty or stops at the next slot to write.                    *)
LesserOf(m, n) == IF m <= n THEN m ELSE n

Popped(len) ==
    CASE Empty -> 0
      [] tail < head -> LesserOf(len, head - tail)
      [] ~Empty /\ tail >= head /\ tail + len <= Size -> len
      [] ~Empty /\ tail >= head /\ tail + len > Size ->
            (Size - tail) + LesserOf(len - (Size - tail), head)

Pop(len) ==
    /\ tail' = (tail + Popped(len)) % Size
    /\ full' = (full /\ tail < head)
    /\ UNCHANGED <<slots, head>>

(* What pop(dest, len) writes to dest.                                     *)
PopData(len) == [i \in 1..Popped(len) |-> slots[(tail + i - 1) % Size]]
=============================================================================
