-------------------------- MODULE EventQueueClassic --------------------------
(***************************************************************************)
(* The event queue of ble-cliapp (EventQueue/EventQueueClassic.h): one     *)
(* priority queue shared by the main loop, which dispatches it, by the     *)
(* callbacks the main loop runs, which post and cancel, and by interrupts, *)
(* which post (serial data, BLE stack) or advance time (the ticker).       *)
(* Every method body is one critical section, that is with interrupts      *)
(* disabled, hence one action here; dispatch() leaves its critical section *)
(* to run the callback, hence Dispatch and Return.                         *)
(*                                                                         *)
(* Time is counted in ticks, TicksPerMs of them to a millisecond, because  *)
(* the code truncates the timer to milliseconds (get_time) and what it     *)
(* truncates is what can make an event early or late.                      *)
(***************************************************************************)
EXTENDS Integers, Sequences, SequencesExt

CONSTANTS Nodes,       \* the nodes of the priority queue, also the event handles
          MaxDelay,    \* bound on the delay or period, in ms, of a post
          TicksPerMs,  \* resolution of the hardware clock below a millisecond
          IsrLatency   \* ticks the ticker interrupt may be delayed by a critical section

ASSUME ClockAssumption == /\ MaxDelay \in Nat
                          /\ TicksPerMs \in Nat \ {0}
                          /\ IsrLatency \in Nat

VARIABLES queue,      \* the nodes of _events_queue, from head to tail
          remaining,  \* _ms_remaining_time of each node, relative to the timer's start
          period,     \* _ms_repeat_period of each node, 0 when it is not periodic
          pending,    \* _timed_event_pending
          timerOn,    \* _timer is counting
          elapsed,    \* ticks _timer has counted since its reset
          armed,      \* _ticker is attached
          alarm,      \* ticks before _ticker fires, negative when it is overdue
          busy,       \* the thread runs a callback, outside of the critical section
          hung,       \* erase() is looping, with interrupts disabled
          due         \* (history) ticks before the instant asked for by the poster

vars == <<queue, remaining, period, pending, timerOn, elapsed, armed, alarm,
          busy, hung, due>>
clock == <<pending, timerOn, armed, alarm>>

Queued == Range(queue)
Timed == {n \in Queued : remaining[n] > 0}
Ready == {n \in Queued : remaining[n] = 0}

(* Milliseconds in ticks.                                                  *)
Ticks(ms) == TicksPerMs * ms

(* get_time(): the timer, truncated to milliseconds.                       *)
TimerMs == elapsed \div TicksPerMs

-----------------------------------------------------------------------------
Init ==
    /\ queue = <<>>
    /\ remaining = [n \in Nodes |-> 0]
    /\ period = [n \in Nodes |-> 0]
    /\ due = [n \in Nodes |-> 0]
    /\ pending = FALSE /\ timerOn = FALSE /\ armed = FALSE
    /\ elapsed = 0 /\ alarm = 0
    /\ busy = FALSE /\ hung = FALSE

(* Mutated forms of definitions below, one plausible bug each, which the   *)
(* properties must tell from the code. Here: among equals the last comes   *)
(* first; a new element is always the head.                                *)
IsSlotBeforeEquals(q, i, r) ==
    /\ \A j \in 1..(i - 1) : remaining[q[j]] < r
    /\ i <= Len(q) => r <= remaining[q[i]]

IsSlotFront(q, i, r) == i = 1

(* PriorityQueue::push and insert_after: i is where an element of          *)
(* remaining time r goes in q, before the first element it precedes.       *)
IsSlot(q, i, r) ==
    /\ \A j \in 1..(i - 1) : remaining[q[j]] <= r
    /\ i <= Len(q) => r < remaining[q[i]]

(* update_ticker(ms_delay), and the start of the timer that goes with it.  *)
Arm(ms) ==
    /\ pending' = TRUE /\ armed' = TRUE /\ timerOn' = TRUE
    /\ alarm' = Ticks(ms)

Disarm ==
    /\ pending' = FALSE /\ armed' = FALSE /\ timerOn' = FALSE
    /\ alarm' = 0

(* Mutated forms: the time the timer has counted is not added to a delay;  *)
(* the ticker is not set for an event that is first; it is for any event.  *)
EnterFromStart(q, n, ms) ==
    \E i \in 1..(Len(q) + 1) :
        /\ IsSlot(q, i, ms)
        /\ queue' = InsertAt(q, i, n)
        /\ remaining' = [remaining EXCEPT ![n] = ms]
        /\ due' = [due EXCEPT ![n] = Ticks(ms)]
        /\ IF ms > 0 /\ (~pending \/ \A j \in 1..(i - 1) : remaining[q[j]] = 0)
           THEN Arm(ms)
           ELSE UNCHANGED clock

EnterArming(q, n, ms, when) ==
    LET r == IF ms > 0 /\ pending THEN ms + TimerMs ELSE ms
    IN \E i \in 1..(Len(q) + 1) :
        /\ IsSlot(q, i, r)
        /\ queue' = InsertAt(q, i, n)
        /\ remaining' = [remaining EXCEPT ![n] = r]
        /\ due' = [due EXCEPT ![n] = Ticks(ms)]
        /\ IF ms > 0 /\ when THEN Arm(ms) ELSE UNCHANGED clock

EnterKeepsTicker(q, n, ms) == EnterArming(q, n, ms, ~pending)
EnterSetsTicker(q, n, ms) == EnterArming(q, n, ms, TRUE)

(* The end of do_post and of reschedule_event: node n enters q for ms      *)
(* milliseconds from now, with remaining time counted from the timer's     *)
(* start. The ticker is set for it when no timed event was pending and     *)
(* when it is the first of the queue with a remaining time.                *)
Enter(q, n, ms) ==
    LET r == IF ms > 0 /\ pending THEN ms + TimerMs ELSE ms
    IN \E i \in 1..(Len(q) + 1) :
        /\ IsSlot(q, i, r)
        /\ queue' = InsertAt(q, i, n)
        /\ remaining' = [remaining EXCEPT ![n] = r]
        /\ due' = [due EXCEPT ![n] = Ticks(ms)]
        /\ IF ms > 0 /\ (~pending \/ \A j \in 1..(i - 1) : remaining[q[j]] = 0)
           THEN Arm(ms)
           ELSE UNCHANGED clock

(* do_post. A post on a full queue returns NULL and changes nothing here;  *)
(* interrupts only post without delay, callbacks also with one.            *)
Post(n, ms, repeat) ==
    /\ ~hung
    /\ n \notin Queued
    /\ ms > 0 => busy
    /\ repeat => ms > 0
    /\ Enter(queue, n, ms)
    /\ period' = [period EXCEPT ![n] = IF repeat THEN ms ELSE 0]
    /\ UNCHANGED <<elapsed, busy, hung>>

(* Mutated forms. In the first two the ticker is not set again for the     *)
(* events left, and the time counted is taken off events it exceeds too,   *)
(* or not; in the third the timer restarts but its time is not taken off.  *)
UpdateTimeUnclamped(q) ==
    /\ remaining' = [n \in Nodes |-> IF n \in Range(q) THEN remaining[n] - TimerMs ELSE 0]
    /\ elapsed' = 0
    /\ Disarm

UpdateTimeOnce(q) ==
    /\ remaining' = [n \in Nodes |-> IF n \in Range(q) /\ remaining[n] > TimerMs
                                     THEN remaining[n] - TimerMs ELSE 0]
    /\ elapsed' = 0
    /\ Disarm

UpdateTimeUncounted(q) ==
    /\ remaining' = [n \in Nodes |-> IF n \in Range(q) THEN remaining[n] ELSE 0]
    /\ elapsed' = 0
    /\ \/ /\ \A i \in DOMAIN q : remaining[q[i]] = 0
          /\ Disarm
       \/ \E i \in DOMAIN q :
            /\ remaining[q[i]] > 0
            /\ \A j \in 1..(i - 1) : remaining[q[j]] = 0
            /\ Arm(remaining[q[i]])

(* updateTime and update_events_remaining_time, on the nodes of q: the     *)
(* timer restarts from zero and the milliseconds it had counted are taken  *)
(* off; the fraction of a millisecond it had counted beyond is lost.       *)
Left(n) == IF remaining[n] <= TimerMs THEN 0 ELSE remaining[n] - TimerMs

UpdateTime(q) ==
    /\ remaining' = [n \in Nodes |-> IF n \in Range(q) THEN Left(n) ELSE 0]
    /\ elapsed' = 0
    /\ \/ /\ \A i \in DOMAIN q : Left(q[i]) = 0
          /\ Disarm
       \/ \E i \in DOMAIN q :
            /\ Left(q[i]) > 0
            /\ \A j \in 1..(i - 1) : Left(q[j]) = 0
            /\ Arm(Left(q[i]))

(* The handler of the ticker interrupt.                                    *)
TickerIsr ==
    /\ ~hung /\ armed /\ alarm <= 0
    /\ UpdateTime(queue)
    /\ UNCHANGED <<queue, period, busy, hung, due>>

(* cancel(handle), on an event that is still queued. erase() unlinks the   *)
(* head and the node after it; its search never advances, so for any node  *)
(* further down it does not return.                                        *)
Unlink(i) ==
    LET q == RemoveAt(queue, i)
    IN /\ queue' = q
       /\ UpdateTime(q)
       /\ period' = [period EXCEPT ![queue[i]] = 0]
       /\ due' = [due EXCEPT ![queue[i]] = 0]
       /\ UNCHANGED <<busy, hung>>

EraseLoops ==
    /\ hung' = TRUE
    /\ UNCHANGED <<queue, remaining, period, clock, elapsed, busy, due>>

Cancel(n) ==
    /\ ~hung /\ busy
    /\ \E i \in DOMAIN queue :
        /\ queue[i] = n
        /\ IF i <= 2 THEN Unlink(i) ELSE EraseLoops

(* One turn of dispatch(): the head is ready; it is popped, or rescheduled *)
(* (reschedule_event and PriorityQueue::update) when it is periodic, and   *)
(* its callback is run.                                                    *)
Dispatch ==
    /\ ~hung /\ ~busy
    /\ queue # <<>>
    /\ remaining[Head(queue)] = 0
    /\ busy' = TRUE
    /\ IF period[Head(queue)] > 0
       THEN Enter(Tail(queue), Head(queue), period[Head(queue)])
       ELSE /\ queue' = Tail(queue)
            /\ due' = [due EXCEPT ![Head(queue)] = 0]
            /\ UNCHANGED <<remaining, clock>>
    /\ UNCHANGED <<period, elapsed, hung>>

Return ==
    /\ ~hung /\ busy
    /\ busy' = FALSE
    /\ UNCHANGED <<queue, remaining, period, clock, elapsed, hung, due>>

(* A tick of the hardware clock. The ticker interrupt is taken at most     *)
(* IsrLatency ticks after it is due.                                       *)
Tick ==
    /\ ~hung
    /\ armed => alarm > -IsrLatency
    /\ elapsed' = IF timerOn THEN elapsed + 1 ELSE elapsed
    /\ alarm' = IF armed THEN alarm - 1 ELSE alarm
    /\ due' = [n \in Nodes |-> IF due[n] > 0 THEN due[n] - 1 ELSE 0]
    /\ UNCHANGED <<queue, remaining, period, pending, timerOn, armed, busy, hung>>

(* Once in the endless loop, with interrupts disabled, nothing else runs.  *)
Spin == hung /\ UNCHANGED vars

Next ==
    \/ \E n \in Nodes, ms \in 0..MaxDelay, repeat \in BOOLEAN : Post(n, ms, repeat)
    \/ \E n \in Nodes : Cancel(n)
    \/ Dispatch
    \/ Return
    \/ TickerIsr
    \/ Tick
    \/ Spin

(* The main loop calls dispatch() for ever and callbacks return; time and  *)
(* interrupts go on unless erase() loops.                                  *)
Fairness == /\ WF_vars(Dispatch) /\ WF_vars(Return)
            /\ WF_vars(TickerIsr) /\ WF_vars(Tick)

Spec == Init /\ [][Next]_vars
FairSpec == Spec /\ Fairness

-----------------------------------------------------------------------------
(* The values the variables take; a node out of the queue is normalised.   *)
TypeOK ==
    /\ queue \in Seq(Nodes)
    /\ remaining \in [Nodes -> Nat]
    /\ period \in [Nodes -> Nat]
    /\ due \in [Nodes -> Nat]
    /\ pending \in BOOLEAN /\ timerOn \in BOOLEAN /\ armed \in BOOLEAN
    /\ elapsed \in Nat /\ alarm \in Int
    /\ busy \in BOOLEAN /\ hung \in BOOLEAN

(* The list stays sorted by remaining time and never holds a node twice,   *)
(* although remaining times are rewritten in place by updateTime and by    *)
(* reschedule_event: dispatch and update_ticker only look at the front.    *)
Sorted ==
    \A i, j \in DOMAIN queue :
        i < j => /\ queue[i] # queue[j]
                 /\ remaining[queue[i]] <= remaining[queue[j]]

(* No event is ready, hence none runs, a millisecond or more before the    *)
(* instant its poster asked for, however posts, cancels and late ticker    *)
(* interrupts interleave (do_post truncates the timer, updateTime too).    *)
NeverEarly == \A n \in Ready : due[n] < TicksPerMs

(* While events wait for their time the ticker is attached, and it fires   *)
(* soon enough for the first of them: no event is forgotten when an event  *)
(* before it is cancelled or rescheduled, or when a shorter one is posted. *)
(* It does not fire for nothing either: what it finds has become ready.    *)
TickerCovers ==
    /\ pending = (Timed # {}) /\ armed = pending /\ timerOn = pending
    /\ \A n \in Timed : alarm < Ticks(remaining[n]) + TicksPerMs - elapsed
    /\ pending => \E n \in Timed : Ticks(remaining[n]) - elapsed <= alarm

(* Posting never delays the others: while the timer goes on counting from  *)
(* where it did and what waits goes on waiting, the ticker is never set    *)
(* later than it was (do_post, reschedule_event; also a dispatch, and a    *)
(* cancel of a ready event when no time has been counted).                 *)
PostNeverDelays ==
    [][pending /\ pending' /\ elapsed' = elapsed /\ Timed \subseteq Range(queue')
        => alarm' <= alarm]_vars

(* By how many ticks an event is to be late: what the queue counts until   *)
(* it is ready, less what its poster asked for.                            *)
Lag(n) == Ticks(remaining[n]) - elapsed - due[n]

(* An event that waits gets no later, whatever is posted, dispatched or    *)
(* cancelled in the meantime, but by the fraction of a millisecond that an *)
(* update of time drops when it restarts the timer (get_time truncates,    *)
(* updateTime resets).                                                     *)
OnlyFractionsLost ==
    [][\A n \in Timed : n \in Timed' =>
          Lag(n)' <= Lag(n) + IF elapsed' < elapsed THEN elapsed % TicksPerMs ELSE 0]_vars

(* The abstract queue: the ready events are the front of a list.           *)
ReadyFront(q, left) == SubSeq(q, 1, Cardinality({i \in DOMAIN q : left[q[i]] = 0}))

Abstract == INSTANCE EventQueue WITH
    ready <- ReadyFront(queue, remaining),
    waiting <- Timed,
    due <- due

(* The queue implements its interface: ready events run in the order in    *)
(* which they became ready, once, never early, never after a cancel.       *)
ImplementsEventQueue == Abstract!Spec

(* A ready event eventually leaves the front of the queue: it runs or is   *)
(* cancelled, unless an erase() that does not return stops the board.      *)
ReadyRuns == \A n \in Nodes : (n \in Ready) ~> (n \notin Ready \/ hung)

(* A delayed event eventually becomes ready, unless cancels go on for      *)
(* ever: each of them drops the fraction of a millisecond counted so far.  *)
TimedBecomesReady ==
    <>[][\A n \in Nodes : ~Cancel(n)]_vars
        => \A n \in Nodes : (n \in Timed) ~> (n \notin Timed \/ hung)

=============================================================================
