------------------------------ MODULE EventQueue ------------------------------
(***************************************************************************)
(* What the event queue of ble-cliapp promises to its users, whatever      *)
(* implements it (the interface of EventQueue/EventQueue.h): an event is   *)
(* posted for now or for later, becomes ready, and ready events are run    *)
(* once each in the order in which they became ready, unless cancelled. A  *)
(* delayed event becomes ready less than a millisecond before the instant  *)
(* its poster asked for, never earlier.                                    *)
(***************************************************************************)
EXTENDS Integers, Sequences, SequencesExt

CONSTANTS Nodes,       \* the handles of events
          MaxDelay,    \* bound on the delay or period of a post, in ms
          TicksPerMs   \* ticks of the clock in a millisecond

VARIABLES ready,    \* the handles of the events to run now, in order
          waiting,  \* the handles of the events to run later
          due       \* ticks before the instant asked for, of a waiting event

vars == <<ready, waiting, due>>

Posted == Range(ready) \union waiting

Init ==
    /\ ready = <<>>
    /\ waiting = {}
    /\ due = [n \in Nodes |-> 0]

(* An event posted without delay runs after all those that are ready.      *)
Post(n) ==
    /\ n \notin Posted
    /\ ready' = Append(ready, n)
    /\ UNCHANGED <<waiting, due>>

(* post_in and post_every.                                                 *)
PostIn(n, ms) ==
    /\ n \notin Posted
    /\ waiting' = waiting \union {n}
    /\ due' = [due EXCEPT ![n] = TicksPerMs * ms]
    /\ UNCHANGED ready

(* The waiting events of batch become ready, behind those that are.        *)
Ripe(batch) ==
    /\ IsInjective(batch)
    /\ \A n \in Range(batch) : due[n] < TicksPerMs

Batches(S) == UNION {[1..k -> S] : k \in 0..Cardinality(S)}

Promote ==
    \E batch \in Batches(waiting) \ {<<>>} :
        /\ Ripe(batch)
        /\ ready' = ready \o batch
        /\ waiting' = waiting \ Range(batch)
        /\ UNCHANGED due

(* The event ready for longest is run; if it is periodic it waits again.   *)
Run ==
    /\ ready # <<>>
    /\ ready' = Tail(ready)
    /\ \/ /\ waiting' = waiting
          /\ due' = [due EXCEPT ![Head(ready)] = 0]
       \/ \E ms \in 1..MaxDelay :
            /\ waiting' = waiting \union {Head(ready)}
            /\ due' = [due EXCEPT ![Head(ready)] = TicksPerMs * ms]

(* A cancelled event never runs; cancelling updates the time, so that      *)
(* others may become ready.                                                *)
Cancel(n) ==
    /\ n \in Posted
    /\ due' = [due EXCEPT ![n] = 0]
    /\ \E batch \in Batches(waiting \ {n}) :
        /\ Ripe(batch)
        /\ \/ n \in waiting /\ ready' = ready \o batch
           \/ \E i \in DOMAIN ready :
                ready[i] = n /\ ready' = RemoveAt(ready, i) \o batch
        /\ waiting' = waiting \ (Range(batch) \union {n})

Tick ==
    /\ due' = [n \in Nodes |-> IF due[n] > 0 THEN due[n] - 1 ELSE 0]
    /\ UNCHANGED <<ready, waiting>>

Next ==
    \/ \E n \in Nodes : Post(n) \/ Cancel(n) \/ \E ms \in 1..MaxDelay : PostIn(n, ms)
    \/ Promote
    \/ Run
    \/ Tick

Spec == Init /\ [][Next]_vars
=============================================================================
