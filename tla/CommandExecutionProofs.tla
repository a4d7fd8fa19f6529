----------------------- MODULE CommandExecutionProofs -----------------------
(* Proofs about CommandExecution, for every table of commands: a procedure *)
(* and its timeout live together, cmd_ready comes once for each, and the   *)
(* event queue never has more to hold than it has room for.                *)
EXTENDS CommandExecution, FiniteInduction, SequenceTheorems

-----------------------------------------------------------------------------
(* Sequences of events.                                                    *)

Distinct(q) == \A i, j \in DOMAIN q : q[i] = q[j] => i = j

Slots(q, timed) == Len(q) + (IF timed THEN 1 ELSE 0)

(* A handler is posted at the end of the ready queue.                      *)
LEMMA AppendFacts ==
  ASSUME NEW q \in Seq(Events), NEW e \in Events
  PROVE  /\ Append(q, e) \in Seq(Events)
         /\ Range(Append(q, e)) = Range(q) \union {e}
         /\ Distinct(q) /\ e \notin Range(q) => Distinct(Append(q, e))
<1>1. /\ Append(q, e) \in Seq(Events)
      /\ DOMAIN Append(q, e) = 1..(Len(q) + 1)
      /\ \A i \in 1..Len(q) : Append(q, e)[i] = q[i]
      /\ Append(q, e)[Len(q) + 1] = e
  BY AppendProperties
<1>2. DOMAIN q = 1..Len(q) /\ Len(q) \in Nat
  OBVIOUS
<1> DEFINE p == Append(q, e)
<1> HIDE DEF p
<1>3. Range(p) = Range(q) \union {e}
  <2>1. ASSUME NEW x \in Range(p) PROVE x \in Range(q) \union {e}
    BY <1>1, <1>2 DEF p, Range
  <2>2. ASSUME NEW x \in Range(q) \union {e} PROVE x \in Range(p)
    BY <1>1, <1>2 DEF p, Range
  <2> QED
    BY <2>1, <2>2
<1>4. ASSUME Distinct(q), e \notin Range(q) PROVE Distinct(p)
  BY <1>1, <1>2, <1>4 DEF p, Range, Distinct
<1> QED
  BY <1>1, <1>3, <1>4 DEF p

(* The first handler of the ready queue is taken.                          *)
LEMMA TailFacts ==
  ASSUME NEW q \in Seq(Events), q # <<>>
  PROVE  /\ Tail(q) \in Seq(Events) /\ Head(q) \in Range(q) /\ Head(q) \in Events
         /\ Distinct(q) => /\ Range(Tail(q)) = Range(q) \ {Head(q)}
                           /\ Distinct(Tail(q))
<1>1. /\ Tail(q) \in Seq(Events)
      /\ DOMAIN Tail(q) = 1..(Len(q) - 1)
      /\ \A i \in 1..(Len(q) - 1) : Tail(q)[i] = q[i + 1]
      /\ Head(q) = q[1]
  OBVIOUS
<1>2. DOMAIN q = 1..Len(q) /\ Len(q) \in Nat /\ Len(q) >= 1
  OBVIOUS
<1> DEFINE p == Tail(q)
           h == Head(q)
<1> HIDE DEF p, h
<1>3. h \in Range(q) /\ h \in Events
  BY <1>1, <1>2 DEF h, Range
<1>4. ASSUME Distinct(q) PROVE Range(p) = Range(q) \ {h}
  <2>1. ASSUME NEW x \in Range(p) PROVE x \in Range(q) \ {h}
    BY <1>1, <1>2, <1>4, <2>1 DEF p, h, Range, Distinct
  <2>2. ASSUME NEW x \in Range(q) \ {h} PROVE x \in Range(p)
    <3>1. PICK i \in 1..Len(q) : x = q[i]
      BY <1>2 DEF Range
    <3>2. i # 1
      BY <1>1, <3>1 DEF h
    <3>3. i - 1 \in 1..(Len(q) - 1) /\ p[i - 1] = x
      BY <1>1, <3>1, <3>2 DEF p
    <3> QED
      BY <1>1, <3>3 DEF p, Range
  <2> QED
    BY <2>1, <2>2
<1>5. ASSUME Distinct(q) PROVE Distinct(p)
  BY <1>1, <1>2, <1>5 DEF p, Distinct
<1> QED
  BY <1>1, <1>3, <1>4, <1>5 DEF p, h

(* The timeout is taken out of the ready queue.                            *)
LEMMA WithoutFacts ==
  ASSUME NEW q \in Seq(Events), Distinct(q)
  PROVE  /\ Without(q) \in Seq(Events)
         /\ Range(Without(q)) = Range(q) \ {"timeout"}
         /\ Distinct(Without(q))
<1>0. DOMAIN q = 1..Len(q) /\ Len(q) \in Nat
  OBVIOUS
<1>1. CASE "timeout" \notin Range(q)
  BY <1>1 DEF Without
<1>2. CASE "timeout" \in Range(q)
  <2> DEFINE k == TimeoutAt(q, FALSE)
  <2>1. k \in 1..Len(q) /\ q[k] = "timeout"
    BY <1>0, <1>2 DEF TimeoutAt, Range
  <2> HIDE DEF k
  <2> DEFINE a == SubSeq(q, 1, k - 1)
             b == SubSeq(q, k + 1, Len(q))
             p == a \o b
  <2>2. a \in Seq(Events) /\ Len(a) = k - 1 /\ \A i \in 1..(k - 1) : a[i] = q[i]
    BY <2>1
  <2>3. b \in Seq(Events) /\ Len(b) = Len(q) - k /\ \A i \in 1..(Len(q) - k) : b[i] = q[k + i]
    BY <2>1
  <2> HIDE DEF a, b
  <2>4. /\ p \in Seq(Events)
        /\ DOMAIN p = 1..(Len(q) - 1)
        /\ \A i \in 1..(Len(q) - 1) : p[i] = IF i < k THEN q[i] ELSE q[i + 1]
    <3>1. p \in Seq(Events) /\ Len(p) = Len(a) + Len(b)
      BY <2>2, <2>3
    <3>2. \A i \in 1..Len(p) : p[i] = IF i <= Len(a) THEN a[i] ELSE b[i - Len(a)]
      BY <2>2, <2>3, ConcatProperties
    <3>3. Len(p) = Len(q) - 1 /\ DOMAIN p = 1..(Len(q) - 1)
      <4> HIDE DEF p
      <4>1. Len(p) = (k - 1) + (Len(q) - k)
        BY <2>2, <2>3, <3>1
      <4>2. Len(p) = Len(q) - 1
        BY <1>0, <2>1, <4>1
      <4> QED
        BY <3>1, <4>2
    <3>4. ASSUME NEW i \in 1..(Len(q) - 1)
          PROVE  p[i] = IF i < k THEN q[i] ELSE q[i + 1]
      <4> HIDE DEF p
      <4>1. p[i] = IF i <= k - 1 THEN a[i] ELSE b[i - (k - 1)]
        BY <2>2, <3>2, <3>3
      <4>2. CASE i < k
        BY <1>0, <2>1, <2>2, <4>1, <4>2
      <4>3. CASE ~(i < k)
        <5>1. i - (k - 1) \in 1..(Len(q) - k) /\ k + (i - (k - 1)) = i + 1
          BY <1>0, <2>1, <4>3
        <5>2. b[i - (k - 1)] = q[i + 1]
          BY <2>3, <5>1
        <5> QED
          BY <1>0, <2>1, <4>1, <4>3, <5>2
      <4> QED
        BY <4>2, <4>3
    <3> QED
      BY <3>1, <3>3, <3>4
  <2> HIDE DEF p
  <2>5. Range(p) = Range(q) \ {"timeout"}
    <3>1. ASSUME NEW x \in Range(p) PROVE x \in Range(q) \ {"timeout"}
      BY <1>0, <2>1, <2>4, <3>1 DEF Range, Distinct
    <3>2. ASSUME NEW x \in Range(q) \ {"timeout"} PROVE x \in Range(p)
      <4>1. PICK i \in 1..Len(q) : x = q[i]
        BY <1>0 DEF Range
      <4>2. i # k
        BY <2>1, <4>1
      <4>3. CASE i < k
        <5>1. i \in 1..(Len(q) - 1) /\ p[i] = x
          BY <1>0, <2>1, <2>4, <4>1, <4>3
        <5> QED
          BY <2>4, <5>1 DEF Range
      <4>4. CASE i > k
        <5>1. i - 1 \in 1..(Len(q) - 1) /\ p[i - 1] = x
          BY <1>0, <2>1, <2>4, <4>1, <4>4
        <5> QED
          BY <2>4, <5>1 DEF Range
      <4> QED
        BY <2>1, <4>1, <4>2, <4>3, <4>4
    <3> QED
      BY <3>1, <3>2
  <2>6. Distinct(p)
    <3> SUFFICES ASSUME NEW i \in 1..(Len(q) - 1), NEW j \in 1..(Len(q) - 1), p[i] = p[j]
                 PROVE  i = j
      BY <2>4 DEF Distinct
    <3> DEFINE Old(n) == IF n < k THEN n ELSE n + 1
    <3>1. Old(i) \in 1..Len(q) /\ Old(j) \in 1..Len(q)
      BY <1>0, <2>1
    <3>2. p[i] = q[Old(i)] /\ p[j] = q[Old(j)]
      BY <2>4
    <3>3. Old(i) = Old(j)
      BY <1>0, <3>1, <3>2 DEF Distinct
    <3> QED
      BY <1>0, <2>1, <3>3
  <2>7. Without(q) = p
    BY <1>2 DEF Without, RemoveAt, p, a, b, k
  <2> QED
    BY <2>4, <2>5, <2>6, <2>7
<1> QED
  BY <1>1, <1>2

(* Distinct events are no more than there are to choose from.              *)
LEMMA LenFacts ==
  ASSUME NEW q \in Seq(Events), Distinct(q),
         \/ "timeout" \notin Range(q)
         \/ "cmd_ready" \notin Range(q)
  PROVE  /\ Len(q) <= 3
         /\ "timeout" \notin Range(q) /\ "cmd_ready" \notin Range(q) => Len(q) <= 2
         /\ "consume" \notin Range(q) \/ "ble" \notin Range(q) => Len(q) <= 2
         /\ "timeout" \notin Range(q) /\ "cmd_ready" \notin Range(q)
              => ("consume" \notin Range(q) \/ "ble" \notin Range(q) => Len(q) <= 1)
<1>1. DOMAIN q = 1..Len(q) /\ Len(q) \in Nat
  OBVIOUS
<1>2. \A i \in 1..Len(q) : q[i] \in Range(q) /\ q[i] \in Events
  BY <1>1 DEF Range
<1>3. \A i, j \in 1..Len(q) : q[i] = q[j] => i = j
  BY <1>1 DEF Distinct
<1>4. Len(q) <= 3
  <2> SUFFICES ASSUME Len(q) >= 4 PROVE FALSE
    BY <1>1
  <2>1. 1 \in 1..Len(q) /\ 2 \in 1..Len(q) /\ 3 \in 1..Len(q) /\ 4 \in 1..Len(q)
    BY <1>1
  <2> QED
    BY <1>2, <1>3, <2>1 DEF Events
<1>5. ASSUME \/ "timeout" \notin Range(q) /\ "cmd_ready" \notin Range(q)
             \/ "consume" \notin Range(q) \/ "ble" \notin Range(q)
      PROVE  Len(q) <= 2
  <2> SUFFICES ASSUME Len(q) >= 3 PROVE FALSE
    BY <1>1
  <2>1. 1 \in 1..Len(q) /\ 2 \in 1..Len(q) /\ 3 \in 1..Len(q)
    BY <1>1
  <2> QED
    BY <1>2, <1>3, <1>5, <2>1 DEF Events
<1>6. ASSUME "timeout" \notin Range(q), "cmd_ready" \notin Range(q),
             "consume" \notin Range(q) \/ "ble" \notin Range(q)
      PROVE  Len(q) <= 1
  <2> SUFFICES ASSUME Len(q) >= 2 PROVE FALSE
    BY <1>1
  <2>1. 1 \in 1..Len(q) /\ 2 \in 1..Len(q)
    BY <1>1
  <2> QED
    BY <1>2, <1>3, <1>6, <2>1 DEF Events
<1> QED
  BY <1>4, <1>5, <1>6

-----------------------------------------------------------------------------
(* The invariant. The control part of TypeOK; the consumer is in the queue *)
(* exactly when there are lines and it does not run; a procedure is alive, *)
(* or cmd_ready is on its way, or the interpreter is free.                 *)
ControlOK ==
    /\ inbox \in 0..MaxLines /\ lines \in 0..MaxLines
    /\ running \in BOOLEAN /\ waiting \in BOOLEAN /\ dangling \in BOOLEAN
    /\ command \in DOMAIN Table \union {NoCommand}
    /\ phase \in Phases
    /\ ready \in Seq(Events)
    /\ thread \in {"idle", "consume", "consumed", "ble", "cmd_ready"}
    /\ fault \in {"none", "hung", "freed", "twice"}

ConsumerPosted ==
    /\ Posted("consume") <=> inbox > 0 /\ thread # "consume"
    /\ thread = "consume" => inbox > 0
    /\ inbox + lines <= MaxLines

Alive == phase # "none"

OneTimeout ==
    /\ Alive <=> waiting \/ TimedOut
    /\ ~(waiting /\ TimedOut)
    /\ Alive => command \in DOMAIN Table

OneReady ==
    /\ running <=> Alive \/ Posted("cmd_ready")
    /\ ~(Alive /\ Posted("cmd_ready"))

(* What holds until the model ends.                                        *)
Parts == Distinct(ready) /\ ConsumerPosted /\ OneTimeout /\ OneReady

IInv == ControlOK /\ (Good => Parts)

(* There is room for each event that may be posted.                        *)
LEMMA Room ==
  ASSUME IInv, Good
  PROVE  /\ Slots(ready, waiting) <= 3
         /\ ~Posted("consume") \/ ~Posted("ble") => Slots(ready, waiting) < Capacity
         /\ ~running => Len(ready) < Capacity
<1> USE CommandsAssumption
<1>1. ready \in Seq(Events) /\ Distinct(ready) /\ waiting \in BOOLEAN /\ Len(ready) \in Nat
  BY DEF IInv, ControlOK, Parts
<1>2. /\ Alive <=> waiting \/ TimedOut
      /\ ~(waiting /\ TimedOut)
      /\ running <=> Alive \/ Posted("cmd_ready")
      /\ ~(Alive /\ Posted("cmd_ready"))
  BY DEF IInv, Parts, OneTimeout, OneReady
<1>3. ~TimedOut \/ ~Posted("cmd_ready")
  BY <1>2
<1>4. /\ Len(ready) <= 3
      /\ ~TimedOut /\ ~Posted("cmd_ready") => Len(ready) <= 2
      /\ ~Posted("consume") \/ ~Posted("ble") => Len(ready) <= 2
      /\ ~TimedOut /\ ~Posted("cmd_ready")
            => (~Posted("consume") \/ ~Posted("ble") => Len(ready) <= 1)
  BY <1>1, <1>3, LenFacts DEF TimedOut, Posted
<1>5. CASE waiting
  BY <1>1, <1>2, <1>4, <1>5 DEF Slots
<1>6. CASE ~waiting
  BY <1>1, <1>2, <1>4, <1>6 DEF Slots
<1> QED
  BY <1>5, <1>6

(* A post that finds room.                                                 *)
LEMMA PostFacts ==
  ASSUME NEW q \in Seq(Events), Distinct(q), NEW timed \in BOOLEAN, NEW e \in Events,
         e \notin Range(q), Slots(q, timed) < Capacity
  PROVE  /\ Post(q, timed, e) \in Seq(Events)
         /\ Range(Post(q, timed, e)) = Range(q) \union {e}
         /\ Distinct(Post(q, timed, e))
<1>1. Post(q, timed, e) = Append(q, e)
  BY DEF Post, Slots
<1> QED
  BY <1>1, AppendFacts

(* The end of a procedure whose timeout is q's or waits: cmd_ready takes   *)
(* its place.                                                              *)
LEMMA DeleteFacts ==
  ASSUME NEW q \in Seq(Events), Distinct(q), NEW timed \in BOOLEAN,
         "cmd_ready" \notin Range(q), Delete(q, timed), fault' = "none", fault = "none"
  PROVE  /\ phase' = "none" /\ ~waiting' /\ waiting' \in BOOLEAN
         /\ ready' \in Seq(Events)
         /\ Range(ready') = (Range(q) \ {"timeout"}) \union {"cmd_ready"}
         /\ Distinct(ready')
<1> USE CommandsAssumption
<1> DEFINE p == Without(q)
<1>1. p \in Seq(Events) /\ Distinct(p) /\ Range(p) = Range(q) \ {"timeout"}
  BY WithoutFacts
<1>2. phase' = "none" /\ waiting' = FALSE /\ ready' = Post(p, FALSE, "cmd_ready")
  BY DEF Delete
<1> HIDE DEF p
<1>3. Len(p) <= 2 /\ Len(p) \in Nat
  BY <1>1, LenFacts
<1>4. Slots(p, FALSE) < Capacity
  BY <1>3 DEF Slots
<1> QED
  BY <1>1, <1>2, <1>4, PostFacts DEF Events

-----------------------------------------------------------------------------

(* At first nothing is posted and no command runs.                         *)
LEMMA InitInv == Init => IInv
<1> SUFFICES ASSUME Init PROVE IInv
  OBVIOUS
<1> USE CommandsAssumption
<1>1. Range(ready) = {} /\ Distinct(ready) /\ ready \in Seq(Events)
  BY DEF Init, Range, Distinct
<1>2. ControlOK
  <2>1. 0 \in 0..MaxLines
    OBVIOUS
  <2>2. "none" \in Phases
    BY DEF Phases
  <2> QED
    BY <1>1, <2>1, <2>2, Zenon DEF Init, ControlOK
<1> QED
  BY <1>1, <1>2 DEF Init, IInv, Parts, ConsumerPosted, OneTimeout, OneReady, Alive, Posted, TimedOut

(* A line arrives: the consumer is posted if it was the only one.          *)
LEMMA LineArrivesInv ==
  ASSUME IInv, LineArrives
  PROVE  IInv'
<1> USE CommandsAssumption
<1>1. Good /\ ControlOK /\ Parts
  BY DEF LineArrives, IInv
<1>2. inbox' = inbox + 1 /\ inbox + lines < MaxLines
  BY DEF LineArrives
<1>3. /\ ready' \in Seq(Events) /\ Distinct(ready')
      /\ Range(ready') = Range(ready) \union (IF inbox = 0 THEN {"consume"} ELSE {})
  <2>1. CASE inbox = 0
    <3>1. "consume" \notin Range(ready)
      BY <1>1, <2>1 DEF Parts, ConsumerPosted, Posted
    <3>2. Slots(ready, waiting) < Capacity
      BY <1>1, <3>1, Room DEF Posted
    <3>3. ready' = Post(ready, waiting, "consume")
      BY <2>1 DEF LineArrives
    <3>4. ready \in Seq(Events) /\ waiting \in BOOLEAN /\ Distinct(ready)
      BY <1>1 DEF ControlOK, Parts
    <3>5. "consume" \in Events
      BY DEF Events
    <3> QED
      BY <2>1, <3>1, <3>2, <3>3, <3>4, <3>5, PostFacts
  <2>2. CASE inbox # 0
    BY <1>1, <2>2 DEF LineArrives, ControlOK, Parts
  <2> QED
    BY <2>1, <2>2
<1>4. ControlOK'
  BY <1>1, <1>2, <1>3 DEF LineArrives, ControlOK
<1>5. (ConsumerPosted /\ OneTimeout /\ OneReady)'
  BY <1>1, <1>2, <1>3
     DEF LineArrives, ControlOK, Parts, ConsumerPosted, OneTimeout, OneReady, Alive, Posted,
         TimedOut
<1> QED
  BY <1>3, <1>4, <1>5 DEF IInv, Parts

(* The stack signals the running procedure.                                *)
LEMMA StackSignalsInv ==
  ASSUME IInv, StackSignals
  PROVE  IInv'
<1>1. Good /\ ControlOK /\ Parts
  BY DEF StackSignals, IInv
<1>2. "ble" \notin Range(ready) /\ "ble" \in Events
  BY DEF StackSignals, Posted, Events
<1>3. ready' \in Seq(Events) /\ Distinct(ready') /\ Range(ready') = Range(ready) \union {"ble"}
  <2>1. Slots(ready, waiting) < Capacity
    BY <1>1, <1>2, Room DEF Posted
  <2>2. ready \in Seq(Events) /\ waiting \in BOOLEAN /\ Distinct(ready)
    BY <1>1 DEF ControlOK, Parts
  <2>3. ready' = Post(ready, waiting, "ble")
    BY DEF StackSignals
  <2> QED
    BY <1>2, <2>1, <2>2, <2>3, PostFacts
<1>4. ControlOK'
  BY <1>1, <1>3 DEF StackSignals, ControlOK
<1>5. (ConsumerPosted /\ OneTimeout /\ OneReady)'
  BY <1>1, <1>3
     DEF StackSignals, Parts, ConsumerPosted, OneTimeout, OneReady, Alive, Posted, TimedOut
<1> QED
  BY <1>3, <1>4, <1>5 DEF IInv, Parts

(* The timeout of the running procedure is due.                            *)
LEMMA TimeoutRipensInv ==
  ASSUME IInv, TimeoutRipens
  PROVE  IInv'
<1>1. Good /\ ControlOK /\ Parts
  BY DEF TimeoutRipens, IInv
<1>2. "timeout" \notin Range(ready) /\ "timeout" \in Events
  BY <1>1 DEF TimeoutRipens, Parts, OneTimeout, TimedOut, Events
<1>3. ready' \in Seq(Events) /\ Distinct(ready') /\ Range(ready') = Range(ready) \union {"timeout"}
  <2>1. ready \in Seq(Events) /\ Distinct(ready)
    BY <1>1 DEF ControlOK, Parts
  <2>2. ready' = Append(ready, "timeout")
    BY DEF TimeoutRipens
  <2> QED
    BY <1>2, <2>1, <2>2, AppendFacts
<1>4. ControlOK'
  BY <1>1, <1>3 DEF TimeoutRipens, ControlOK
<1>5. (ConsumerPosted /\ OneTimeout /\ OneReady)'
  BY <1>1, <1>3
     DEF TimeoutRipens, Parts, ConsumerPosted, OneTimeout, OneReady, Alive, Posted, TimedOut
<1> QED
  BY <1>3, <1>4, <1>5 DEF IInv, Parts

(* A handler leaves the ready queue and begins.                            *)
LEMMA DispatchInv ==
  ASSUME IInv, Dispatch
  PROVE  IInv'
<1>1. Good /\ ControlOK /\ Parts
  BY DEF Dispatch, IInv
<1> DEFINE e == Head(ready)
<1>2. /\ e \in Range(ready) /\ e \in Events /\ e # "timeout"
      /\ ready' \in Seq(Events) /\ Distinct(ready') /\ Range(ready') = Range(ready) \ {e}
  <2>1. ready \in Seq(Events) /\ ready # <<>> /\ Distinct(ready)
    BY <1>1 DEF Dispatch, ControlOK, Parts
  <2>2. ready' = Tail(ready) /\ Head(ready) # "timeout"
    BY DEF Dispatch
  <2> QED
    BY <2>1, <2>2, TailFacts
<1>3. thread' = e /\ (running' <=> running /\ e # "cmd_ready")
  BY Zenon DEF Dispatch
<1>4. thread = "idle" /\ running' \in BOOLEAN
  BY Zenon DEF Dispatch
<1> HIDE DEF e
<1>5. ControlOK'
  BY <1>1, <1>2, <1>3, <1>4 DEF Dispatch, ControlOK, Events
<1>6. ConsumerPosted'
  BY <1>1, <1>2, <1>3, <1>4 DEF Dispatch, Parts, ConsumerPosted, Posted
<1>7. (OneTimeout /\ OneReady)'
  BY <1>1, <1>2, <1>3 DEF Dispatch, Parts, OneTimeout, OneReady, Alive, Posted, TimedOut
<1> QED
  BY <1>2, <1>5, <1>6, <1>7 DEF IInv, Parts

(* A line is taken out of the input.                                       *)
LEMMA TakeLineInv ==
  ASSUME IInv, TakeLine
  PROVE  IInv'
<1> USE CommandsAssumption
<1>1. Good /\ ControlOK /\ Parts
  BY DEF TakeLine, IInv
<1>2. /\ inbox' = inbox - 1 /\ inbox > 0
      /\ thread' = IF inbox = 1 THEN "consumed" ELSE "consume"
  BY DEF TakeLine
<1>3. lines' \in 0..MaxLines
  BY <1>1 DEF TakeLine, ControlOK, Parts, ConsumerPosted
<1>4. ControlOK'
  BY <1>1, <1>2, <1>3 DEF TakeLine, ControlOK
<1>5. ConsumerPosted'
  <2>1. inbox' + lines' <= MaxLines
    BY <1>1, <1>2 DEF TakeLine, ControlOK, Parts, ConsumerPosted
  <2>2. inbox' > 0 <=> inbox # 1
    BY <1>1, <1>2 DEF ControlOK
  <2> QED
    BY <1>1, <1>2, <2>1, <2>2 DEF TakeLine, Parts, ConsumerPosted, Posted
<1>6. (OneTimeout /\ OneReady)' /\ Distinct(ready)'
  BY <1>1 DEF TakeLine, Parts, OneTimeout, OneReady, Alive, Posted, TimedOut, Distinct
<1> QED
  BY <1>4, <1>5, <1>6 DEF IInv, Parts

(* A handler returns.                                                      *)
LEMMA ReturnInv ==
  ASSUME IInv, Return
  PROVE  IInv'
<1>1. Good /\ ControlOK /\ Parts
  BY DEF Return, IInv
<1>2. ControlOK'
  BY <1>1 DEF Return, ControlOK
<1>3. Parts'
  BY <1>1 DEF Return, Parts, ConsumerPosted, OneTimeout, OneReady, Alive, Posted, TimedOut, Distinct
<1> QED
  BY <1>2, <1>3 DEF IInv

-----------------------------------------------------------------------------
(* A line is begun: no procedure is alive and cmd_ready is not posted.     *)
LEMMA BeginFacts ==
  ASSUME IInv, NEW c \in DOMAIN Table, Begin(c)
  PROVE  /\ Good /\ ControlOK /\ Parts
         /\ ~running /\ ~Alive /\ ~waiting /\ ~TimedOut /\ ~Posted("cmd_ready")
         /\ lines' \in 0..MaxLines /\ lines' = lines - 1
         /\ inbox' = inbox /\ thread' = thread /\ dangling' = dangling
         /\ command' = c
<1>1. Good /\ ControlOK /\ Parts /\ ~running /\ lines > 0
  BY DEF Begin, IInv
<1>2. ~Alive /\ ~waiting /\ ~TimedOut /\ ~Posted("cmd_ready")
  BY <1>1 DEF Parts, OneTimeout, OneReady
<1>3. /\ lines' = lines - 1 /\ inbox' = inbox /\ thread' = thread /\ dangling' = dangling
      /\ command' = c
  BY DEF Begin
<1>4. lines' \in 0..MaxLines
  BY <1>1, <1>3, CommandsAssumption DEF ControlOK
<1> QED
  BY <1>1, <1>2, <1>3, <1>4

(* A line is begun that changes nothing else but, it may be, the fault.    *)
LEMMA BeginAnswered ==
  ASSUME IInv, NEW c \in DOMAIN Table, Begin(c),
         UNCHANGED <<running, phase, ready, waiting>>,
         fault' \in {"none", "hung", "freed", "twice"}
  PROVE  IInv'
<1>1. /\ Good /\ ControlOK /\ Parts /\ lines' \in 0..MaxLines /\ lines' = lines - 1
      /\ inbox' = inbox /\ thread' = thread /\ dangling' = dangling /\ command' = c
  BY BeginFacts
<1>2. ControlOK'
  BY <1>1 DEF ControlOK
<1>3. inbox' + lines' <= MaxLines
  BY <1>1, CommandsAssumption DEF ControlOK, Parts, ConsumerPosted
<1>4. Parts'
  BY <1>1, <1>3 DEF Parts, ConsumerPosted, OneTimeout, OneReady, Alive, Posted, TimedOut, Distinct
<1> QED
  BY <1>2, <1>4 DEF IInv

(* A command is executed: it answers, or its procedure starts.             *)
LEMMA ExecuteInv ==
  ASSUME IInv, NEW c \in DOMAIN Table, Execute(c)
  PROVE  IInv'
<1>1. CASE HandlerAnswers(c)
  <2>1. Begin(c) /\ fault' = fault /\ UNCHANGED <<running, phase, ready, waiting>>
    BY <1>1 DEF HandlerAnswers
  <2>2. fault \in {"none", "hung", "freed", "twice"}
    BY DEF IInv, ControlOK
  <2> QED
    BY <2>1, <2>2, BeginAnswered
<1>2. CASE ProcedureStarts(c)
  <2>1. Begin(c)
    BY <1>2 DEF ProcedureStarts
  <2>2. /\ Good /\ ControlOK /\ Parts /\ lines' \in 0..MaxLines /\ lines' = lines - 1
        /\ inbox' = inbox /\ thread' = thread /\ dangling' = dangling /\ command' = c
        /\ ~running /\ ~TimedOut /\ ~Posted("cmd_ready")
    BY <2>1, BeginFacts
  <2>3. phase' \in Lives
    <3>1. PICK s \in Table[c].steps :
            s.event = "start" /\ s.to \notin {"end", "freed"} /\ phase' = s.to
      BY <1>2 DEF ProcedureStarts
    <3>2. s.to \in Lives \union {"end", "freed"}
      BY <3>1, TableAssumption
    <3> QED
      BY <3>1, <3>2
  <2>4. waiting' = TRUE /\ running' = TRUE /\ ready' = ready /\ fault' = fault
    <3>1. Len(ready) < Capacity
      BY <2>2, Room
    <3> QED
      BY <1>2, <3>1 DEF ProcedureStarts
  <2>5. phase' \in Phases /\ Alive'
    BY <2>3 DEF Phases, Lives, Alive
  <2>6. ControlOK'
    BY <2>2, <2>4, <2>5 DEF ControlOK
  <2>7. inbox' + lines' <= MaxLines
    BY <2>2, CommandsAssumption DEF ControlOK, Parts, ConsumerPosted
  <2>8. ConsumerPosted' /\ Distinct(ready')
    BY <2>2, <2>4, <2>7 DEF Parts, ConsumerPosted, Posted
  <2>9. OneTimeout' /\ OneReady'
    BY <2>2, <2>4, <2>5 DEF OneTimeout, OneReady, Posted, TimedOut
  <2> QED
    BY <2>6, <2>8, <2>9 DEF IInv, Parts
<1>3. CASE ProcedureFails(c)
  <2>1. Begin(c) /\ fault' \in {"none", "hung"} /\ UNCHANGED <<running, phase, ready, waiting>>
    BY <1>3 DEF ProcedureFails
  <2> QED
    BY <2>1, BeginAnswered
<1>4. CASE ProcedureFreed(c)
  <2>1. Begin(c) /\ fault' = "freed" /\ UNCHANGED <<running, phase, ready, waiting>>
    BY <1>4 DEF ProcedureFreed
  <2> QED
    BY <2>1, BeginAnswered
<1> QED
  BY <1>1, <1>2, <1>3, <1>4 DEF Execute

-----------------------------------------------------------------------------

(* A callback keeps the procedure going.                                   *)
LEMMA ProcedureGoesOnInv ==
  ASSUME IInv, ProcedureGoesOn
  PROVE  IInv'
<1>1. Good /\ ControlOK /\ Parts /\ Alive
  BY DEF ProcedureGoesOn, IInv, Alive
<1>2. phase' \in Lives
  <2>1. PICK s \in Table[command].steps :
          s.event = "callback" /\ s.to # "end" /\ phase' = s.to
    BY DEF ProcedureGoesOn
  <2>2. command \in DOMAIN Table
    BY <1>1 DEF Parts, OneTimeout
  <2>3. s.to \in Lives \union {"end"}
    BY <2>1, <2>2, TableAssumption
  <2> QED
    BY <2>1, <2>3
<1>3. phase' \in Phases /\ Alive'
  BY <1>2 DEF Phases, Lives, Alive
<1>4. ControlOK'
  BY <1>1, <1>3 DEF ProcedureGoesOn, ControlOK
<1>5. Parts'
  BY <1>1, <1>3
     DEF ProcedureGoesOn, Parts, ConsumerPosted, OneTimeout, OneReady, Posted, TimedOut, Distinct
<1> QED
  BY <1>4, <1>5 DEF IInv

(* A callback ends the procedure.                                          *)
LEMMA ProcedureEndsInv ==
  ASSUME IInv, ProcedureEnds
  PROVE  IInv'
<1>1. Good /\ ControlOK /\ Parts /\ Alive
  BY DEF ProcedureEnds, IInv, Alive
<1>2. /\ UNCHANGED <<inbox, lines, running, command, thread, dangling>>
      /\ Delete(ready, waiting)
  BY DEF ProcedureEnds
<1>3. CASE fault' = "none"
  <2>1. /\ phase' = "none" /\ ~waiting' /\ waiting' \in BOOLEAN
        /\ ready' \in Seq(Events)
        /\ Range(ready') = (Range(ready) \ {"timeout"}) \union {"cmd_ready"}
        /\ Distinct(ready')
    <3>1. ready \in Seq(Events) /\ Distinct(ready) /\ waiting \in BOOLEAN
      BY <1>1 DEF ControlOK, Parts
    <3>2. "cmd_ready" \notin Range(ready) /\ fault = "none"
      BY <1>1 DEF Parts, OneReady, Posted, Good
    <3> QED
      BY <1>2, <1>3, <3>1, <3>2, DeleteFacts
  <2>2. ControlOK'
    BY <1>1, <1>2, <1>3, <2>1 DEF ControlOK, Phases
  <2>3. (ConsumerPosted /\ OneTimeout /\ OneReady)'
    BY <1>1, <1>2, <2>1
       DEF Parts, ConsumerPosted, OneTimeout, OneReady, Alive, Posted, TimedOut
  <2> QED
    BY <2>1, <2>2, <2>3 DEF IInv, Parts
<1>4. CASE fault' # "none"
  <2>1. fault' = "hung" /\ UNCHANGED <<phase, ready, waiting>>
    BY <1>1, <1>2, <1>4 DEF Delete, Good
  <2>2. ControlOK' /\ ~Good'
    BY <1>1, <1>2, <2>1 DEF ControlOK, Good
  <2> QED
    BY <2>2 DEF IInv
<1> QED
  BY <1>3, <1>4

(* The timeout ends the procedure.                                         *)
LEMMA ProcedureTimesOutInv ==
  ASSUME IInv, ProcedureTimesOut
  PROVE  IInv'
<1>1. Good /\ ControlOK /\ Parts
  BY DEF ProcedureTimesOut, IInv
<1> DEFINE q == Tail(ready)
<1>2. /\ q \in Seq(Events) /\ Distinct(q) /\ Range(q) = Range(ready) \ {"timeout"}
      /\ TimedOut
  <2>1. ready \in Seq(Events) /\ Distinct(ready) /\ ready # <<>> /\ Head(ready) = "timeout"
    BY <1>1 DEF ControlOK, Parts, ProcedureTimesOut
  <2> QED
    BY <2>1, TailFacts DEF TimedOut
<1>3. ready' = Post(q, waiting, "cmd_ready") /\ phase' = "none"
  BY DEF ProcedureTimesOut
<1> HIDE DEF q
<1>4. Alive /\ ~waiting /\ "cmd_ready" \notin Range(ready) /\ waiting \in BOOLEAN
  BY <1>1, <1>2 DEF ControlOK, Parts, OneTimeout, OneReady, Posted
<1>5. Slots(q, waiting) < Capacity
  <2>1. Len(q) <= 2 /\ Len(q) \in Nat
    BY <1>2, <1>4, LenFacts
  <2> QED
    BY <1>4, <2>1, CommandsAssumption DEF Slots
<1>6. /\ ready' \in Seq(Events) /\ Distinct(ready')
      /\ Range(ready') = (Range(ready) \ {"timeout"}) \union {"cmd_ready"}
  BY <1>2, <1>3, <1>4, <1>5, PostFacts DEF Events
<1>7. /\ UNCHANGED <<inbox, lines, running, command, waiting, thread>>
      /\ fault' \in {"none", "twice"}
  BY DEF ProcedureTimesOut
<1>8. dangling' \in BOOLEAN
  BY Zenon DEF ProcedureTimesOut
<1>9. ControlOK'
  BY <1>1, <1>3, <1>6, <1>7, <1>8 DEF ControlOK, Phases
<1>10. (ConsumerPosted /\ OneTimeout /\ OneReady)'
  BY <1>1, <1>3, <1>4, <1>6, <1>7
     DEF Parts, ConsumerPosted, OneTimeout, OneReady, Alive, Posted, TimedOut
<1> QED
  BY <1>6, <1>9, <1>10 DEF IInv, Parts

-----------------------------------------------------------------------------

(* Every step preserves the invariant.                                     *)
LEMMA NextInv == IInv /\ [Next]_vars => IInv'
<1> SUFFICES ASSUME IInv, [Next]_vars PROVE IInv'
  OBVIOUS
<1>1. CASE LineArrives
  BY <1>1, LineArrivesInv
<1>2. CASE StackSignals
  BY <1>2, StackSignalsInv
<1>3. CASE TimeoutRipens
  BY <1>3, TimeoutRipensInv
<1>4. CASE Dispatch
  BY <1>4, DispatchInv
<1>5. CASE TakeLine
  BY <1>5, TakeLineInv
<1>6. CASE Return
  BY <1>6, ReturnInv
<1>7. CASE \E c \in DOMAIN Table : Execute(c)
  BY <1>7, ExecuteInv
<1>8. CASE ProcedureGoesOn
  BY <1>8, ProcedureGoesOnInv
<1>9. CASE ProcedureEnds
  BY <1>9, ProcedureEndsInv
<1>10. CASE ProcedureTimesOut
  BY <1>10, ProcedureTimesOutInv
<1>11. CASE CallbackDangles
  <2>1. ControlOK' /\ ~Good'
    BY <1>11 DEF CallbackDangles, IInv, ControlOK, Good
  <2> QED
    BY <2>1 DEF IInv
<1>12. CASE Stopped \/ UNCHANGED vars
  <2>1. UNCHANGED vars
    BY <1>12 DEF Stopped
  <2> QED
    BY <2>1 DEF vars, IInv, ControlOK, Good, Parts, ConsumerPosted, OneTimeout, OneReady,
                Alive, Posted, TimedOut, Distinct
<1> QED
  BY <1>1, <1>2, <1>3, <1>4, <1>5, <1>6, <1>7, <1>8, <1>9, <1>10, <1>11, <1>12 DEF Next

(* The invariant, of which the theorems below are parts.                   *)
THEOREM Invariance == Spec => []IInv
  BY InitInv, NextInv, PTL DEF Spec

(* A procedure has exactly one timeout (AsyncProcedure::start, its         *)
(* destructor, whenTimeout), and no timeout outlives it.                   *)
THEOREM TimeoutOwnedAlways == Spec => []TimeoutOwned
<1>1. IInv => TimeoutOwned
  BY Zenon DEF TimeoutOwned, IInv, Parts, OneTimeout, Alive
<1> QED
  BY <1>1, Invariance, PTL

(* The interpreter waits exactly for a procedure that is alive or for      *)
(* cmd_ready, which whenAsyncCommandEnd posts once for each.               *)
THEOREM ReadyOnceAlways == Spec => []ReadyOnce
<1>1. IInv => ReadyOnce
  BY Zenon DEF ReadyOnce, IInv, Parts, OneReady, Alive
<1> QED
  BY <1>1, Invariance, PTL

(* No event is posted twice, and three places of the event queue are       *)
(* enough: no post of main.cpp, of a response or of a procedure is refused. *)
THEOREM NeverFullAlways == Spec => []NeverFull
<1>1. IInv => NeverFull
  <2> SUFFICES ASSUME IInv, Good
               PROVE  Distinct(ready) /\ Slots(ready, waiting) <= 3
    BY Zenon DEF NeverFull, Distinct, Slots
  <2> QED
    BY Room DEF IInv, Parts
<1> QED
  BY <1>1, Invariance, PTL

-----------------------------------------------------------------------------
(* The response.                                                           *)

(* What is said of a response leaves it one.                               *)
LEMMA ValueKeyType ==
  ASSUME NEW r \in Responses
  PROVE  Value(r) \in Responses /\ Key(r) \in Responses
<1>1. \A b : Open(r, b) \in BOOLEAN
  BY DEF Open
<1> QED
  BY <1>1 DEF Value, Key, Responses

(* A sequence without its last element.                                    *)
LEMMA FrontType ==
  ASSUME NEW S, NEW q \in Seq(S), q # <<>>
  PROVE  Front(q) \in Seq(S)
<1>1. Len(q) \in Nat /\ Len(q) >= 1 /\ \A i \in 1..Len(q) : q[i] \in S
  OBVIOUS
<1>2. Len(q) - 1 \in Nat /\ \A i \in 1..(Len(q) - 1) : q[i] \in S
  BY <1>1
<1> QED
  BY <1>1, <1>2 DEF Front

(* Opening and closing an object or an array.                              *)
LEMMA StartEndType ==
  ASSUME NEW r \in Responses, NEW b \in {"{", "["}
  PROVE  Start(r, b) \in Responses /\ End(r, b) \in Responses
<1>1. Open(r, b) \in BOOLEAN
  BY DEF Open
<1>2. Value(r) \in Responses
  BY ValueKeyType
<1>3. Append(Value(r).nest, b) \in Seq({"{", "["})
  <2>1. Value(r).nest \in Seq({"{", "["})
    BY <1>2 DEF Responses
  <2> QED
    BY <2>1, AppendProperties
<1>4. Start(r, b) \in Responses
  BY <1>2, <1>3 DEF Start, Responses
<1>5. r.nest \in Seq({"{", "["})
  BY DEF Responses
<1>6. r.nest # <<>> => Front(r.nest) \in Seq({"{", "["})
  BY <1>5, FrontType
<1>7. End(r, b) \in Responses
  BY <1>1, <1>5, <1>6 DEF End, Responses
<1> QED
  BY <1>4, <1>7

(* What sets the status and what goes to the result.                       *)
LEMMA StatusType ==
  ASSUME NEW r \in Responses, NEW code \in {"ok", "err"}
  PROVE  /\ SetStatusCode(r, code) \in Responses
         /\ GetResultStream(r) \in Responses
         /\ SetStatusCodeAndMessage(r, code) \in Responses
<1>1. ASSUME NEW q \in Responses PROVE GetResultStream(q) \in Responses
  <2>1. Key(q) \in Responses
    BY ValueKeyType
  <2> QED
    BY <1>1, <2>1 DEF GetResultStream, Responses
<1>2. SetStatusCode(r, code) \in Responses
  <2>1. Value(Key(r)) \in Responses
    BY ValueKeyType
  <2> QED
    BY <2>1 DEF SetStatusCode, Responses
<1>3. SetStatusCodeAndMessage(r, code) \in Responses
  BY <1>1, <1>2, ValueKeyType DEF SetStatusCodeAndMessage
<1> QED
  BY <1>1, <1>2, <1>3

(* Anything a handler says.                                                *)
LEMMA PutType ==
  ASSUME NEW r \in Responses, NEW s \in Says
  PROVE  Put(r, s) \in Responses
<1>1. CASE s \in {"ok", "err"}
  BY <1>1, StatusType DEF Put
<1>2. CASE s = "ok+"
  BY <1>2, StatusType DEF Put
<1>3. CASE s = "err+"
  BY <1>3, StatusType DEF Put
<1>4. CASE s = "result"
  BY <1>4, StatusType DEF Put
<1>5. CASE s = "v"
  BY <1>5, ValueKeyType DEF Put
<1>6. CASE s = "k"
  BY <1>6, ValueKeyType DEF Put
<1>7. CASE s \in {"{", "["}
  BY <1>7, StartEndType DEF Put
<1>8. CASE s = "}"
  BY <1>8, StartEndType DEF Put
<1>9. CASE s = "]"
  BY <1>9, StartEndType DEF Put
<1> QED
  BY <1>1, <1>2, <1>3, <1>4, <1>5, <1>6, <1>7, <1>8, <1>9 DEF Says

(* What is said of a response, one call after the other.                   *)
Saying(h, m, r, says) ==
    h = [i \in 0..m |-> IF i = 0 THEN r ELSE Put(h[i - 1], says[i])]

(* There is a function that Say describes.                                 *)
LEMMA SayingExists ==
  ASSUME NEW r, NEW says \in Seq(Says)
  PROVE  \E h : Saying(h, Len(says), r, says)
<1> DEFINE n == Len(says)
           I == {m \in 0..n : \E h : Saying(h, m, r, says)}
<1>1. n \in Nat
  OBVIOUS
<1>2. 0 \in I
  <2> DEFINE h == [i \in 0..0 |-> r]
  <2>1. Saying(h, 0, r, says)
    BY DEF Saying
  <2> QED
    BY <1>1, <2>1
<1>3. ASSUME NEW m \in 0..n, m \in I, m + 1 <= n PROVE m + 1 \in I
  <2>1. PICK h : Saying(h, m, r, says)
    BY <1>3
  <2> DEFINE g == [i \in 0..(m + 1) |-> IF i <= m THEN h[i] ELSE Put(h[m], says[m + 1])]
  <2>2. DOMAIN g = 0..(m + 1)
    OBVIOUS
  <2>3. \A i \in 0..m : h[i] = IF i = 0 THEN r ELSE Put(h[i - 1], says[i])
    BY <2>1 DEF Saying
  <2>4. ASSUME NEW i \in 0..(m + 1)
        PROVE  g[i] = IF i = 0 THEN r ELSE Put(g[i - 1], says[i])
    <3>1. CASE i = 0
      BY <1>3, <2>3, <3>1
    <3>2. CASE i # 0 /\ i <= m
      <4>1. i \in 0..m /\ i - 1 \in 0..m /\ i - 1 \in 0..(m + 1)
        BY <1>1, <1>3, <3>2
      <4>2. g[i] = h[i] /\ g[i - 1] = h[i - 1]
        BY <3>2, <4>1
      <4> QED
        BY <2>3, <3>2, <4>1, <4>2
    <3>3. CASE i = m + 1
      <4>1. i - 1 = m /\ m \in 0..(m + 1) /\ i # 0 /\ ~(i <= m)
        BY <1>1, <1>3, <3>3
      <4>2. g[m] = h[m]
        BY <4>1
      <4>3. g[i] = Put(h[m], says[m + 1])
        BY <4>1
      <4> QED
        BY <3>3, <4>1, <4>2, <4>3
    <3> QED
      BY <1>1, <1>3, <3>1, <3>2, <3>3
  <2> HIDE DEF g
  <2>5. g = [i \in 0..(m + 1) |-> IF i = 0 THEN r ELSE Put(g[i - 1], says[i])]
    <3>1. g = [i \in DOMAIN g |-> g[i]]
      BY DEF g
    <3> QED
      BY <2>2, <2>4, <3>1
  <2>6. Saying(g, m + 1, r, says)
    BY <2>5 DEF Saying
  <2>7. m + 1 \in 0..n
    BY <1>1, <1>3
  <2> QED
    BY <2>6, <2>7
<1> HIDE DEF I
<1>4. \A m \in 0..n : m \in I
  BY <1>1, <1>2, <1>3, CountInduction
<1>5. n \in I
  BY <1>1, <1>4
<1> QED
  BY <1>5 DEF I

(* Say gives a response, whatever a handler says.                          *)
LEMMA SayType ==
  ASSUME NEW r \in Responses, NEW says \in Seq(Says)
  PROVE  Say(r, says) \in Responses
<1> DEFINE n == Len(says)
           said == CHOOSE h : Saying(h, n, r, says)
           I == {i \in 0..n : said[i] \in Responses}
<1>1. n \in Nat /\ \A i \in 1..n : says[i] \in Says
  OBVIOUS
<1>2. Say(r, says) = said[n]
  BY DEF Say, Saying
<1>3. Saying(said, n, r, says)
  BY SayingExists
<1> HIDE DEF said
<1>4. \A i \in 0..n : said[i] = IF i = 0 THEN r ELSE Put(said[i - 1], says[i])
  BY <1>3 DEF Saying
<1>5. 0 \in I
  BY <1>1, <1>4
<1>6. ASSUME NEW i \in 0..n, i \in I, i + 1 <= n PROVE i + 1 \in I
  <2>1. i + 1 \in 0..n /\ i + 1 \in 1..n /\ i + 1 # 0 /\ (i + 1) - 1 = i
    BY <1>1, <1>6
  <2>2. said[i + 1] = Put(said[i], says[i + 1])
    BY <1>4, <2>1
  <2> QED
    BY <1>1, <1>6, <2>1, <2>2, PutType
<1> HIDE DEF I
<1>7. \A i \in 0..n : i \in I
  BY <1>1, <1>5, <1>6, CountInduction
<1>8. n \in I
  BY <1>1, <1>7
<1> QED
  BY <1>2, <1>8 DEF I

(* The response a command is given.                                        *)
LEMMA NewResponseType == NewResponse \in Responses
BY DEF NewResponse, Responses

(* The commands of the callbacks and timeouts are the table's.             *)
LEMMA CommandOfProcedure ==
  ASSUME IInv, Good
  PROVE  /\ phase # "none" => command \in DOMAIN Table /\ phase \in Lives
         /\ ready # <<>> /\ Head(ready) = "timeout" => phase # "none"
<1>1. ControlOK /\ Parts
  BY DEF IInv
<1>2. Alive => command \in DOMAIN Table
  BY <1>1 DEF Parts, OneTimeout
<1>3. phase # "none" => Alive /\ phase \in Lives
  BY <1>1 DEF ControlOK, Phases, Lives, Alive
<1>4. ASSUME ready # <<>>, Head(ready) = "timeout" PROVE phase # "none"
  <2>1. Head(ready) \in Range(ready)
    BY <1>1, <1>4, TailFacts DEF ControlOK
  <2>2. Alive
    BY <1>1, <1>4, <2>1 DEF Parts, OneTimeout, TimedOut
  <2> QED
    BY <2>2 DEF Alive
<1> QED
  BY <1>2, <1>3, <1>4

(* What a step says: an answer of the handler of c; or what step s of its  *)
(* procedure adds to the response there was in the state it starts from.   *)
Replies(c, says) ==
    /\ command' = c /\ c \in DOMAIN Table /\ says \in Table[c].answers \union {<<"err+">>}
    /\ response' = Say(NewResponse, says)
    /\ phase' = "none"

Speaks(c, s, r) ==
    /\ command' = c /\ c \in DOMAIN Table /\ s \in Table[c].steps
    /\ \/ s.from = "new" /\ r = NewResponse
       \/ s.from = phase /\ phase \in Lives /\ c = command /\ r = response /\ Good
    /\ response' = Say(r, s.say)
    /\ Good' => \/ s.to \in Lives /\ phase' = s.to
                \/ s.to = "end" /\ phase' = "none"

(* A step leaves the response, or a handler begins and says something, or  *)
(* the handler of a running procedure goes on.                             *)
LEMMA ResponseStep ==
  ASSUME IInv, [Next]_vars
  PROVE  \/ UNCHANGED <<response, command, phase>> /\ (Good' => Good)
         \/ \E c, says : Replies(c, says)
         \/ \E c, s, r : Speaks(c, s, r)
<1>1. CASE LineArrives \/ StackSignals \/ TimeoutRipens \/ Dispatch \/ TakeLine \/ Return
  BY <1>1 DEF LineArrives, StackSignals, TimeoutRipens, Dispatch, TakeLine, Return
<1>2. ASSUME NEW c \in DOMAIN Table, Execute(c)
      PROVE  (\E d, says : Replies(d, says)) \/ (\E d, s, r : Speaks(d, s, r))
  <2>1. Begin(c)
    BY <1>2 DEF Execute, HandlerAnswers, ProcedureStarts, ProcedureFails, ProcedureFreed
  <2>2. phase = "none" /\ command' = c
    BY <2>1, BeginFacts DEF Alive
  <2>3. CASE HandlerAnswers(c)
    <3>1. PICK says \in Table[c].answers \union {<<"err+">>} :
            response' = Say(NewResponse, says)
      BY <2>3 DEF HandlerAnswers
    <3>2. Replies(c, says)
      BY <2>2, <2>3, <3>1 DEF HandlerAnswers, Replies
    <3> QED
      BY <3>2
  <2>4. CASE ProcedureStarts(c)
    <3>1. PICK s \in Table[c].steps :
            /\ s.event = "start" /\ s.to \notin {"end", "freed"}
            /\ response' = Say(NewResponse, s.say)
            /\ phase' = s.to
      BY <2>4 DEF ProcedureStarts
    <3>2. s.from = "new" /\ s.to \in Lives
      BY <3>1, TableAssumption
    <3>3. Speaks(c, s, NewResponse)
      BY <2>2, <3>1, <3>2 DEF Speaks
    <3> QED
      BY <3>3
  <2>5. CASE ProcedureFails(c)
    <3>1. PICK s \in Table[c].steps :
            /\ s.event = "start" /\ s.to = "end"
            /\ response' = Say(NewResponse, s.say)
      BY <2>5 DEF ProcedureFails
    <3>2. s.from = "new" /\ phase' = "none"
      BY <2>2, <2>5, <3>1, TableAssumption DEF ProcedureFails
    <3>3. Speaks(c, s, NewResponse)
      BY <2>2, <3>1, <3>2 DEF Speaks
    <3> QED
      BY <3>3
  <2>6. CASE ProcedureFreed(c)
    <3>1. PICK s \in Table[c].steps :
            /\ s.event = "start" /\ s.to = "freed"
            /\ response' = Say(NewResponse, s.say)
      BY <2>6 DEF ProcedureFreed
    <3>2. s.from = "new" /\ ~Good'
      BY <2>6, <3>1, TableAssumption DEF ProcedureFreed, Good
    <3>3. Speaks(c, s, NewResponse)
      BY <2>2, <3>1, <3>2 DEF Speaks
    <3> QED
      BY <3>3
  <2> QED
    BY <1>2, <2>3, <2>4, <2>5, <2>6 DEF Execute
<1>3. CASE ProcedureGoesOn
  <2>1. Good /\ phase \in Lives /\ command \in DOMAIN Table /\ command' = command
    BY <1>3, CommandOfProcedure DEF ProcedureGoesOn
  <2>2. PICK s \in Table[command].steps :
          /\ s.event = "callback" /\ s.from = phase /\ s.to # "end"
          /\ response' = Say(response, s.say)
          /\ phase' = s.to
    BY <1>3 DEF ProcedureGoesOn
  <2>3. s.to \in Lives
    BY <2>1, <2>2, TableAssumption
  <2>4. Speaks(command, s, response)
    BY <2>1, <2>2, <2>3 DEF Speaks
  <2> QED
    BY <2>4
<1>4. CASE ProcedureEnds
  <2>1. Good /\ phase \in Lives /\ command \in DOMAIN Table /\ command' = command
    BY <1>4, CommandOfProcedure DEF ProcedureEnds
  <2>2. PICK s \in Table[command].steps :
          /\ s.event = "callback" /\ s.from = phase /\ s.to = "end"
          /\ response' = Say(response, s.say)
    BY <1>4 DEF ProcedureEnds
  <2>3. Good' => phase' = "none"
    BY <1>4 DEF ProcedureEnds, Delete, Good
  <2>4. Speaks(command, s, response)
    BY <2>1, <2>2, <2>3 DEF Speaks
  <2> QED
    BY <2>4
<1>5. CASE ProcedureTimesOut
  <2>1. Good /\ phase \in Lives /\ command \in DOMAIN Table /\ command' = command
    BY <1>5, CommandOfProcedure DEF ProcedureTimesOut
  <2>2. PICK s \in Table[command].steps :
          Timeout(s) /\ fault' = IF s.to = "twice" THEN "twice" ELSE "none"
    BY <1>5 DEF ProcedureTimesOut
  <2>3. phase' = "none" /\ s.event = "timeout" /\ s.from = phase /\ response' = Say(response, s.say)
    BY <1>5, <2>2 DEF ProcedureTimesOut, Timeout
  <2>4. Good' => s.to = "end"
    BY <2>1, <2>2, <2>3, TableAssumption DEF Good
  <2>5. Speaks(command, s, response)
    BY <2>1, <2>2, <2>3, <2>4 DEF Speaks
  <2> QED
    BY <2>5
<1>6. CASE CallbackDangles \/ Stopped \/ UNCHANGED vars
  BY <1>6 DEF CallbackDangles, Stopped, vars, Good
<1> QED
  BY <1>1, <1>2, <1>3, <1>4, <1>5, <1>6 DEF Next

(* The response is one, whatever is said of it.                            *)
LEMMA ResponseTypeStep ==
  ASSUME IInv, response \in Responses, [Next]_vars
  PROVE  response' \in Responses
<1>1. CASE UNCHANGED response
  BY <1>1
<1>2. ASSUME NEW c, NEW says, Replies(c, says) PROVE response' \in Responses
  <2>1. <<"err+">> \in Seq(Says)
    BY DEF Says
  <2>2. says \in Seq(Says)
    BY <1>2, <2>1, TableAssumption DEF Replies
  <2> QED
    BY <1>2, <2>2, NewResponseType, SayType DEF Replies
<1>3. ASSUME NEW c, NEW s, NEW r, Speaks(c, s, r) PROVE response' \in Responses
  <2>1. s.say \in Seq(Says) /\ r \in Responses
    BY <1>3, NewResponseType, TableAssumption DEF Speaks
  <2> QED
    BY <1>3, <2>1, SayType DEF Speaks
<1> QED
  BY <1>1, <1>2, <1>3, ResponseStep

(* The variables have the values TypeOK gives them, for every table whose  *)
(* handlers and procedures make the calls of CommandResponse.              *)
THEOREM TypeCorrect == Spec => []TypeOK
<1>1. Init => response \in Responses
  BY NewResponseType DEF Init
<1>2. IInv /\ response \in Responses /\ [Next]_vars => (response \in Responses)'
  BY ResponseTypeStep
<1>3. IInv /\ response \in Responses => TypeOK
  BY DEF IInv, ControlOK, TypeOK
<1> QED
  BY <1>1, <1>2, <1>3, Invariance, PTL DEF Spec

(* What the handlers and the procedures answer when nothing else happens.  *)
Alone(P) == \A c \in DOMAIN Table \ Malformed : AnswersAlone(c, P[c])

(* The response of the last command, if it is not one of Malformed: while  *)
(* its procedure is alive, one that this procedure may have alone.         *)
Answered(P) ==
    Good /\ command # NoCommand /\ command \notin Malformed =>
        IF phase = "none" THEN Complete(response) ELSE response \in P[command][phase]

(* The response stays one that its procedure may have written by then, and *)
(* is complete when the procedure is over.                                 *)
LEMMA AnsweredStep ==
  ASSUME NEW P, Alone(P), IInv, Answered(P), [Next]_vars
  PROVE  Answered(P)'
<1> SUFFICES ASSUME Good', command' # NoCommand, command' \notin Malformed
             PROVE  IF phase' = "none" THEN Complete(response')
                    ELSE response' \in P[command'][phase']
  BY DEF Answered, Complete
<1>1. CASE UNCHANGED <<response, command, phase>> /\ (Good' => Good)
  BY <1>1 DEF Answered
<1>2. ASSUME NEW c, NEW says, Replies(c, says)
      PROVE  phase' = "none" /\ Complete(response')
  <2>1. AnswersAlone(c, P[c])
    BY <1>2 DEF Alone, Replies
  <2> QED
    BY <1>2, <2>1 DEF AnswersAlone, Replies
<1>3. ASSUME NEW c, NEW s, NEW r, Speaks(c, s, r)
      PROVE  IF phase' = "none" THEN Complete(response')
             ELSE response' \in P[command'][phase']
  <2>1. AnswersAlone(c, P[c]) /\ command' = c /\ s \in Table[c].steps
    BY <1>3 DEF Alone, Speaks
  <2>2. r \in P[c][s.from]
    <3>1. CASE s.from = "new" /\ r = NewResponse
      BY <2>1, <3>1 DEF AnswersAlone
    <3>2. CASE s.from = phase /\ phase \in Lives /\ c = command /\ r = response /\ Good
      BY <2>1, <3>2 DEF Answered, Lives
    <3> QED
      BY <1>3, <3>1, <3>2 DEF Speaks
  <2>3. CASE s.to \in Lives /\ phase' = s.to
    <3>1. Say(r, s.say) \in P[c][s.to]
      BY <2>1, <2>2, <2>3 DEF AnswersAlone
    <3> QED
      BY <1>3, <2>1, <2>3, <3>1 DEF Speaks, Lives
  <2>4. CASE s.to = "end" /\ phase' = "none"
    <3>1. Complete(Say(r, s.say))
      BY <2>1, <2>2, <2>4 DEF AnswersAlone
    <3> QED
      BY <1>3, <2>4, <3>1 DEF Speaks
  <2> QED
    BY <1>3, <2>3, <2>4 DEF Speaks
<1> QED
  BY <1>1, <1>2, <1>3, ResponseStep

(* A command whose answers parse when nothing else happens is answered so  *)
(* whatever happens: no event, late timeout or other command adds to its   *)
(* response or closes it early (AsyncProcedure, CommandResponse::close).   *)
THEOREM AnswersAlwaysParse ==
  ASSUME \A c \in DOMAIN Table \ Malformed : \E P : AnswersAlone(c, P)
  PROVE  Spec => []AnswersParse
<1> DEFINE P == [c \in DOMAIN Table \ Malformed |-> CHOOSE Q : AnswersAlone(c, Q)]
<1>1. Alone(P)
  BY DEF Alone
<1> HIDE DEF P
<1>2. Init => Answered(P)
  BY DEF Init, Answered
<1>3. IInv /\ Answered(P) /\ [Next]_vars => Answered(P)'
  BY <1>1, AnsweredStep
<1>4. IInv /\ Answered(P) => AnswersParse
  BY DEF Answered, AnswersParse
<1> QED
  BY <1>2, <1>3, <1>4, Invariance, PTL DEF Spec

-----------------------------------------------------------------------------
(* The refinement of CommandLine, without its fairness.                    *)

Pending == inbox + lines

LineState == IF Alive THEN "executing" ELSE IF running THEN "answered" ELSE "idle"

(* The state of the line that is executed, and what the flags say of it.   *)
LEMMA StateFacts ==
  ASSUME IInv, Good
  PROVE  /\ Alive => LineState = "executing" /\ running
         /\ ~Alive /\ running => LineState = "answered"
         /\ ~running => LineState = "idle" /\ ~Alive
         /\ Pending \in Nat
<1>1. (running <=> Alive \/ Posted("cmd_ready")) /\ ~(Alive /\ Posted("cmd_ready"))
  BY DEF IInv, Parts, OneReady
<1>2. Pending \in Nat
  BY CommandsAssumption DEF IInv, ControlOK, Pending
<1> QED
  BY <1>1, <1>2 DEF LineState

(* How steps of the board that neither begin nor end a line are seen.      *)
LEMMA Stutters ==
  ASSUME Pending' = Pending, LineState' = LineState, Good' <=> Good
  PROVE  UNCHANGED Line!vars
BY DEF Pending, LineState, Alive, Line!vars

(* How a step with which the board stops is seen.                          *)
LEMMA Stops ==
  ASSUME IInv, Good, ~Good', Pending' \in {Pending, Pending - 1}, Pending' \in Nat
  PROVE  Line!Next
<1>1. LineState' \in {"idle", "executing", "answered"}
  BY DEF LineState
<1> QED
  BY <1>1 DEF Pending, LineState, Alive, Line!Next, Line!Stop

(* How the end of a procedure is seen.                                     *)
LEMMA Answers ==
  ASSUME IInv, Good, Good', Alive, phase' = "none", running' = running, Pending' = Pending
  PROVE  Line!Next
<1>1. LineState = "executing" /\ running
  BY StateFacts
<1>2. LineState' = "answered"
  BY <1>1 DEF LineState, Alive
<1> QED
  BY <1>1, <1>2 DEF Pending, LineState, Alive, Line!Next, Line!Answer

(* The execution of a command begins that of a line.                       *)
LEMMA BeginSteps ==
  ASSUME IInv, IInv', NEW c \in DOMAIN Table, Execute(c)
  PROVE  Line!Next
<1>1. Begin(c)
  BY DEF Execute, HandlerAnswers, ProcedureStarts, ProcedureFails, ProcedureFreed
<1>2. /\ Good /\ LineState = "idle"
      /\ Pending > 0 /\ Pending' = Pending - 1 /\ Pending' \in Nat
  <2>1. /\ Good /\ ControlOK /\ ~running /\ inbox' = inbox
        /\ lines' = lines - 1 /\ lines' \in 0..MaxLines
    BY <1>1, BeginFacts
  <2>2. LineState = "idle"
    BY <2>1, StateFacts
  <2> QED
    BY <2>1, <2>2, CommandsAssumption DEF ControlOK, Pending
<1>3. CASE Good'
  <2>1. LineState' \in {"idle", "executing"}
    <3>1. CASE ProcedureStarts(c)
      <4>1. running'
        BY <3>1 DEF ProcedureStarts
      <4>2. phase' # "none"
        <5>1. PICK s \in Table[c].steps :
                s.event = "start" /\ s.to \notin {"end", "freed"} /\ phase' = s.to
          BY <3>1 DEF ProcedureStarts
        <5> QED
          BY <5>1, TableAssumption DEF Lives
      <4> QED
        BY <4>2 DEF LineState, Alive
    <3>2. CASE ~ProcedureStarts(c)
      <4>1. running' = running /\ phase' = phase
        BY <3>2 DEF Execute, HandlerAnswers, ProcedureFails, ProcedureFreed
      <4> QED
        BY <1>2, <4>1 DEF LineState, Alive
    <3> QED
      BY <3>1, <3>2
  <2> QED
    BY <1>2, <1>3, <2>1 DEF Pending, LineState, Alive, Line!Next, Line!Begin
<1>4. CASE ~Good'
  BY <1>2, <1>4, Stops
<1> QED
  BY <1>3, <1>4

(* Every step is one of the abstract command line, or none.                *)
LEMMA LineStep ==
  ASSUME IInv, IInv', [Next]_vars
  PROVE  [Line!Next]_(Line!vars)
<1>1. CASE LineArrives
  <2>1. Good /\ Good' /\ inbox' = inbox + 1 /\ lines' = lines /\ Pending < MaxLines
    BY <1>1 DEF LineArrives, Good, Pending
  <2>2. Pending' = Pending + 1
    BY <2>1, CommandsAssumption DEF Pending, IInv, ControlOK
  <2>3. LineState' = LineState
    BY <1>1 DEF LineArrives, LineState, Alive
  <2> QED
    BY <2>1, <2>2, <2>3 DEF Pending, LineState, Alive, Line!Next, Line!Send
<1>2. CASE StackSignals \/ TimeoutRipens \/ Return
  <2>1. Pending' = Pending /\ LineState' = LineState /\ (Good' <=> Good)
    BY <1>2 DEF StackSignals, TimeoutRipens, Return, Pending, LineState, Alive, Good
  <2> QED
    BY <2>1, Stutters
<1>3. CASE TakeLine
  <2>1. Pending' = Pending
    <3>1. inbox' = inbox - 1 /\ lines' = lines + 1
      BY <1>3 DEF TakeLine
    <3> QED
      BY <3>1, CommandsAssumption DEF Pending, IInv, ControlOK
  <2>2. LineState' = LineState /\ (Good' <=> Good)
    BY <1>3 DEF TakeLine, LineState, Alive, Good
  <2> QED
    BY <2>1, <2>2, Stutters
<1>4. CASE Dispatch
  <2>1. /\ Good /\ Good' /\ phase' = phase /\ Pending' = Pending
        /\ ready \in Seq(Events) /\ ready # <<>>
    BY <1>4 DEF Dispatch, Good, Pending, IInv, ControlOK
  <2>2. CASE Head(ready) # "cmd_ready"
    <3>1. LineState' = LineState
      BY <1>4, <2>2 DEF Dispatch, LineState, Alive
    <3> QED
      BY <2>1, <3>1, Stutters
  <2>3. CASE Head(ready) = "cmd_ready"
    <3>1. Posted("cmd_ready")
      BY <2>1, <2>3, TailFacts DEF Posted
    <3>2. ~Alive /\ running
      BY <2>1, <3>1 DEF IInv, Parts, OneReady
    <3>3. ~running'
      BY <1>4, <2>3, Zenon DEF Dispatch
    <3>4. LineState = "answered" /\ LineState' = "idle"
      BY <2>1, <3>2, <3>3 DEF LineState, Alive
    <3> QED
      BY <2>1, <3>4 DEF Pending, LineState, Alive, Line!Next, Line!Report
  <2> QED
    BY <2>2, <2>3
<1>5. CASE \E c \in DOMAIN Table : Execute(c)
  BY <1>5, BeginSteps
<1>6. CASE ProcedureGoesOn
  <2>1. Alive /\ phase' # "none"
    <3>1. PICK s \in Table[command].steps :
            s.event = "callback" /\ s.to # "end" /\ phase' = s.to
      BY <1>6 DEF ProcedureGoesOn
    <3>2. Alive /\ command \in DOMAIN Table
      BY <1>6 DEF ProcedureGoesOn, Alive, IInv, Parts, OneTimeout
    <3> QED
      BY <3>1, <3>2, TableAssumption DEF Lives
  <2>2. Pending' = Pending /\ LineState' = LineState /\ (Good' <=> Good)
    BY <1>6, <2>1 DEF ProcedureGoesOn, Pending, LineState, Alive, Good
  <2> QED
    BY <2>2, Stutters
<1>7. CASE ProcedureEnds
  <2>1. Good /\ Alive /\ running' = running /\ Pending' = Pending
    BY <1>7 DEF ProcedureEnds, Alive, Pending
  <2>2. CASE Good'
    <3>1. phase' = "none"
      BY <1>7, <2>2 DEF ProcedureEnds, Delete, Good
    <3> QED
      BY <2>1, <2>2, <3>1, Answers
  <2>3. CASE ~Good'
    BY <2>1, <2>3, Stops, StateFacts
  <2> QED
    BY <2>2, <2>3
<1>8. CASE ProcedureTimesOut
  <2>1. Good /\ phase' = "none" /\ running' = running /\ Pending' = Pending
    BY <1>8 DEF ProcedureTimesOut, Pending
  <2>2. Alive
    <3>1. TimedOut
      <4>1. ready \in Seq(Events) /\ ready # <<>> /\ Head(ready) = "timeout"
        BY <1>8 DEF ProcedureTimesOut, IInv, ControlOK
      <4> QED
        BY <4>1, TailFacts DEF TimedOut
    <3> QED
      BY <2>1, <3>1 DEF IInv, Parts, OneTimeout
  <2>3. CASE Good'
    BY <2>1, <2>2, <2>3, Answers
  <2>4. CASE ~Good'
    BY <2>1, <2>4, Stops, StateFacts
  <2> QED
    BY <2>3, <2>4
<1>9. CASE CallbackDangles
  <2>1. Good /\ ~Good' /\ Pending' = Pending
    BY <1>9 DEF CallbackDangles, Good, Pending
  <2> QED
    BY <2>1, Stops, StateFacts
<1>10. CASE Stopped \/ UNCHANGED vars
  <2>1. Pending' = Pending /\ LineState' = LineState /\ (Good' <=> Good)
    BY <1>10 DEF Stopped, vars, Pending, LineState, Alive, Good
  <2> QED
    BY <2>1, Stutters
<1> QED
  BY <1>1, <1>2, <1>3, <1>4, <1>5, <1>6, <1>7, <1>8, <1>9, <1>10 DEF Next

(* Whatever the BLE stack calls back or does not, whatever its timeouts:   *)
(* lines are run one at a time, each is answered once and then reported    *)
(* before the next one begins, or the board has stopped.                   *)
THEOREM CommandLineSafe == Spec => Line!Safety
<1>1. Init => Line!Init
  BY DEF Init, Line!Init, Good
<1>2. IInv /\ IInv' /\ [Next]_vars => [Line!Next]_(Line!vars)
  BY LineStep
<1> QED
  BY <1>1, <1>2, Invariance, PTL DEF Spec, Line!Safety
=============================================================================
