------------------------------- MODULE SerialRx -------------------------------
(***************************************************************************)
(* The way of a byte from the serial port to the command interpreter       *)
(* (main.cpp): the receive interrupt fills rxBuffer and, when it found it  *)
(* empty, posts consumeSerialBytes, which the main loop runs; it empties   *)
(* rxBuffer by chunks and feeds them to cmd_char_input. The interrupt may  *)
(* come between any two steps of the main loop, except in the critical     *)
(* section that pops a chunk.                                              *)
(***************************************************************************)
EXTENDS CircularBuffer

CONSTANTS Chunk,      \* CONSUMER_BUFFER_LENGTH
          QueueSize,  \* the capacity of the event queue
          MaxOthers,  \* how many slots of it events of others may take
          MaxBytes    \* bound on the bytes sent to the board

ASSUME SerialAssumption == /\ Chunk \in Nat \ {0}
                           /\ QueueSize \in Nat /\ MaxOthers \in Nat
                           /\ MaxOthers < QueueSize
                           /\ MaxBytes \in Nat

VARIABLES received,       \* bytes read from the port; byte i is the number i
          isr,            \* the interrupt runs
          startConsumer,  \* the interrupt found rxBuffer empty
          posted,         \* consumeSerialBytes events in the event queue
          others,         \* other events in the event queue
          thread,         \* what the main loop does
          data,           \* the chunk, less what has been fed
          shouldExit,     \* rxBuffer was empty when the chunk had been taken
          fed,            \* the last byte given to cmd_char_input
          halted          \* error() was called, or "no"

vars == <<buffer, received, isr, startConsumer, posted, others, thread, data,
          shouldExit, fed, halted>>
consumer == <<thread, data, shouldExit, fed>>

Running == halted = "no"

-----------------------------------------------------------------------------
Init ==
    /\ Reset(0)
    /\ received = 0 /\ fed = 0
    /\ isr = FALSE /\ startConsumer = FALSE
    /\ posted = 0 /\ others = 0
    /\ thread = "idle" /\ data = <<>> /\ shouldExit = FALSE
    /\ halted = "no"

(* taskQueue.post(): it fails on a full queue, and the result is ignored.  *)
PostConsumer ==
    posted' = IF posted + others < QueueSize THEN posted + 1 ELSE posted

(* One byte of the loop of whenRxInterrupt.                                *)
ReadByte ==
    /\ received < MaxBytes
    /\ received' = received + 1
    /\ \/ /\ Push(received + 1)
          /\ UNCHANGED halted
       \/ /\ full
          /\ halted' = "full"
          /\ UNCHANGED buffer

(* whenRxInterrupt: the byte it is for, the bytes that come while it runs, *)
(* and its end.                                                            *)
IsrEnter ==
    /\ Running /\ ~isr
    /\ isr' = TRUE
    /\ startConsumer' = Empty
    /\ ReadByte
    /\ UNCHANGED <<posted, others, consumer>>

IsrRead ==
    /\ Running /\ isr
    /\ ReadByte
    /\ UNCHANGED <<isr, startConsumer, posted, others, consumer>>

IsrExit ==
    /\ Running /\ isr
    /\ isr' = FALSE
    /\ IF startConsumer THEN PostConsumer ELSE UNCHANGED posted
    /\ UNCHANGED <<buffer, received, startConsumer, others, consumer, halted>>

(* The main loop takes the consumeSerialBytes event.                       *)
ConsumerStart ==
    /\ Running /\ ~isr
    /\ thread = "idle" /\ posted > 0
    /\ posted' = posted - 1
    /\ thread' = "pop"
    /\ UNCHANGED <<buffer, received, isr, startConsumer, others, data, shouldExit, fed, halted>>

(* Mutated form: whether to exit is looked at before the chunk is popped.  *)
PopChunkStaleExit ==
    /\ Running /\ ~isr
    /\ thread = "pop"
    /\ Pop(Chunk)
    /\ data' = PopData(Chunk)
    /\ shouldExit' = (Count <= 1)
    /\ thread' = "feed"
    /\ halted' = IF Popped(Chunk) = 0 THEN "empty" ELSE "no"
    /\ UNCHANGED <<received, isr, startConsumer, posted, others, fed>>

(* The critical section of consumeSerialBytes.                             *)
PopChunk ==
    /\ Running /\ ~isr
    /\ thread = "pop"
    /\ Pop(Chunk)
    /\ data' = PopData(Chunk)
    /\ shouldExit' = Empty'
    /\ thread' = "feed"
    /\ halted' = IF Popped(Chunk) = 0 THEN "empty" ELSE "no"
    /\ UNCHANGED <<received, isr, startConsumer, posted, others, fed>>

Feed ==
    /\ Running /\ ~isr
    /\ thread = "feed" /\ data # <<>>
    /\ fed' = Head(data)
    /\ data' = Tail(data)
    /\ UNCHANGED <<buffer, received, isr, startConsumer, posted, others, thread, shouldExit, halted>>

(* Mutated form: the consumer looks again, outside of the critical section. *)
LoopOrExitLate ==
    /\ Running /\ ~isr
    /\ thread = "feed" /\ data = <<>>
    /\ thread' = IF Empty THEN "idle" ELSE "pop"
    /\ UNCHANGED <<buffer, received, isr, startConsumer, posted, others, data, shouldExit, fed, halted>>

(* Mutated form: one chunk for each run of the consumer.                   *)
ExitAlways ==
    /\ Running /\ ~isr
    /\ thread = "feed" /\ data = <<>>
    /\ thread' = "idle"
    /\ UNCHANGED <<buffer, received, isr, startConsumer, posted, others, data, shouldExit, fed, halted>>

(* The end of a turn of the loop of consumeSerialBytes.                    *)
LoopOrExit ==
    /\ Running /\ ~isr
    /\ thread = "feed" /\ data = <<>>
    /\ thread' = IF shouldExit THEN "idle" ELSE "pop"
    /\ UNCHANGED <<buffer, received, isr, startConsumer, posted, others, data, shouldExit, fed, halted>>

(* Events of others (the BLE stack, commands, timeouts) come and are run.  *)
OtherPost ==
    /\ Running
    /\ others < MaxOthers
    /\ others' = others + 1
    /\ UNCHANGED <<buffer, received, isr, startConsumer, posted, consumer, halted>>

OtherRun ==
    /\ Running /\ ~isr
    /\ thread = "idle" /\ others > 0
    /\ others' = others - 1
    /\ UNCHANGED <<buffer, received, isr, startConsumer, posted, consumer, halted>>

(* error() never returns.                                                  *)
Halt == ~Running /\ UNCHANGED vars

Next ==
    \/ IsrEnter \/ IsrRead \/ IsrExit
    \/ ConsumerStart \/ PopChunk \/ Feed \/ LoopOrExit
    \/ OtherPost \/ OtherRun
    \/ Halt

(* The interrupt ends, and the main loop, which dispatches in order, goes  *)
(* on.                                                                     *)
Fairness == /\ WF_vars(IsrExit)
            /\ WF_vars(ConsumerStart) /\ WF_vars(PopChunk)
            /\ WF_vars(Feed) /\ WF_vars(LoopOrExit)

Spec == Init /\ [][Next]_vars
FairSpec == Spec /\ Fairness

-----------------------------------------------------------------------------
(* The values the variables take: the indices of rxBuffer stay in it.      *)
TypeOK ==
    /\ slots \in [0..(Size - 1) -> Nat]
    /\ head \in 0..(Size - 1) /\ tail \in 0..(Size - 1)
    /\ full \in BOOLEAN
    /\ received \in 0..MaxBytes /\ fed \in Nat
    /\ isr \in BOOLEAN /\ startConsumer \in BOOLEAN /\ shouldExit \in BOOLEAN
    /\ posted \in Nat /\ others \in 0..MaxOthers
    /\ thread \in {"idle", "pop", "feed"}
    /\ data \in Seq(Nat)
    /\ halted \in {"no", "full", "empty"}

(* "sanity check, this should never happen" (main.cpp:119): the consumer   *)
(* never finds rxBuffer empty, wherever the interrupt comes.               *)
NeverEmpty == halted # "empty"

(* Who is to take the bytes of rxBuffer: the interrupt that is about to    *)
(* post the consumer, a posted consumer, or one that will pop once more.   *)
Wakeups ==
    (IF isr /\ startConsumer THEN 1 ELSE 0) + posted
        + (IF thread = "pop" \/ (thread = "feed" /\ ~shouldExit) THEN 1 ELSE 0)

(* No wakeup is lost or given twice: exactly one is on its way while there *)
(* are bytes in rxBuffer, none while it is empty.                          *)
OneWakeup == Running => Wakeups = IF Empty THEN 0 ELSE 1

(* The command interpreter gets each byte once, in the order of arrival:   *)
(* what is on its way to it is exactly what it has not had yet, however    *)
(* the indices wrap and the chunks split.                                  *)
InOrder ==
    Running => data \o Contents = [i \in 1..(received - fed) |-> fed + i]

(* A byte read by the interrupt eventually reaches the interpreter, unless *)
(* rxBuffer overflows, which stops the board.                              *)
BytesFed == \A i \in 1..MaxBytes : (received >= i) ~> (fed >= i \/ ~Running)
=============================================================================
