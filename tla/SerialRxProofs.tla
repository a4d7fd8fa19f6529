---------------------------- MODULE SerialRxProofs ----------------------------
(* Proofs about SerialRx, for every size of the buffer, of the chunk and   *)
(* of the event queue: the consumer is woken exactly when it has to be, it *)
(* never finds the buffer empty, and bytes reach it in order.              *)
EXTENDS SerialRx, SequenceTheorems, TLAPS

-----------------------------------------------------------------------------
(* The buffer.                                                             *)

(* An index taken modulo the size is an index of the buffer, and what is   *)
(* at most one turn further on is one size less.                           *)
LEMMA ModWrap ==
    \A n \in 0..(Size + Size - 1) : n % Size = IF n < Size THEN n ELSE n - Size
  BY SizeAssumption, Z3

(* The indices are within the array; a full buffer has them equal.         *)
GoodBuffer ==
    /\ head \in 0..(Size - 1) /\ tail \in 0..(Size - 1)
    /\ full \in BOOLEAN
    /\ full => head = tail

(* The number of elements, without the modulo.                             *)
LEMMA CountFacts ==
  ASSUME GoodBuffer
  PROVE  /\ Count = IF full THEN Size ELSE IF head >= tail THEN head - tail ELSE head - tail + Size
         /\ Count \in 0..Size
         /\ Count = 0 <=> Empty
         /\ Count = Size <=> full
<1> USE SizeAssumption DEF GoodBuffer
<1>1. head - tail + Size \in 0..(Size + Size - 1)
  OBVIOUS
<1>2. (head - tail + Size) % Size
        = IF head - tail + Size < Size THEN head - tail + Size ELSE head - tail
  BY <1>1, ModWrap
<1> QED
  BY <1>2 DEF Count, Empty

(* Where the element i places from the oldest is.                          *)
LEMMA PlaceFacts ==
  ASSUME GoodBuffer, NEW i \in 0..Size
  PROVE  /\ (tail + i) % Size = IF tail + i < Size THEN tail + i ELSE tail + i - Size
         /\ (tail + i) % Size \in 0..(Size - 1)
<1>1. tail + i \in 0..(Size + Size - 1)
  BY SizeAssumption DEF GoodBuffer
<1> QED
  BY <1>1, ModWrap, SizeAssumption DEF GoodBuffer

(* push: the buffer holds one element more, behind the others, which stay  *)
(* where they are.                                                         *)
LEMMA PushFacts ==
  ASSUME GoodBuffer, NEW d, Push(d), slots \in [0..(Size - 1) -> Nat]
  PROVE  /\ GoodBuffer'
         /\ ~Empty'
         /\ Count' = Count + 1
         /\ \A i \in 0..(Count - 1) : slots'[(tail' + i) % Size] = slots[(tail + i) % Size]
         /\ slots'[(tail' + Count) % Size] = d
<1> USE SizeAssumption
<1>1. head + 1 \in 0..(Size + Size - 1)
  BY DEF GoodBuffer
<1>2. head' = IF head + 1 < Size THEN head + 1 ELSE 0
  <2>1. head' = (head + 1) % Size
    BY DEF Push
  <2>2. (head + 1) % Size = IF head + 1 < Size THEN head + 1 ELSE 0
    <3>1. (head + 1) % Size = IF head + 1 < Size THEN head + 1 ELSE (head + 1) - Size
      BY <1>1, ModWrap, Zenon
    <3> QED
      BY <3>1 DEF GoodBuffer
  <2> QED
    BY <2>1, <2>2
<1>14. tail' = tail /\ ~full /\ (full' <=> head' = tail) /\ full' \in BOOLEAN
  BY Zenon DEF Push
<1>15. head' \in 0..(Size - 1) /\ tail' \in 0..(Size - 1)
  BY <1>2, <1>14 DEF GoodBuffer
<1>3. GoodBuffer'
  BY <1>14, <1>15 DEF GoodBuffer
<1>4. ~Empty'
  BY DEF Empty, Push
<1>5. Count = IF head >= tail THEN head - tail ELSE head - tail + Size
  BY CountFacts DEF Push
<1>6. Count' = IF full' THEN Size ELSE IF head' >= tail' THEN head' - tail' ELSE head' - tail' + Size
  <2>1. Count' = IF full' THEN Size ELSE (head' - tail' + Size) % Size
    BY DEF Count
  <2>2. head' - tail' + Size \in 0..(Size + Size - 1)
    BY <1>2, <1>14 DEF GoodBuffer
  <2>3. (head' - tail' + Size) % Size
          = IF head' - tail' + Size < Size THEN head' - tail' + Size ELSE (head' - tail' + Size) - Size
    BY <2>2, ModWrap, Zenon
  <2> QED
    BY <2>1, <2>3, <1>2, <1>14 DEF GoodBuffer
<1>7. Count' = Count + 1
  BY <1>2, <1>5, <1>6, <1>14 DEF GoodBuffer
<1>8. Count \in 0..(Size - 1)
  BY CountFacts DEF Push
<1>9. \A i \in 0..Size : (tail + i) % Size = IF tail + i < Size THEN tail + i ELSE tail + i - Size
  BY PlaceFacts
<1>10. (tail + Count) % Size = head
  BY <1>8, <1>9, <1>5 DEF GoodBuffer
<1>11. ASSUME NEW i \in 0..(Count - 1) PROVE (tail + i) % Size # head
  BY <1>8, <1>9, <1>5 DEF GoodBuffer
<1>12. \A i \in 0..(Count - 1) : slots'[(tail' + i) % Size] = slots[(tail + i) % Size]
  <2> TAKE i \in 0..(Count - 1)
  <2>1. i \in 0..Size
    BY <1>8
  <2>2. (tail + i) % Size \in 0..(Size - 1)
    BY <2>1, PlaceFacts
  <2> QED
    BY <1>11, <2>2 DEF Push
<1>13. slots'[(tail' + Count) % Size] = d
  BY <1>10 DEF Push, GoodBuffer
<1> QED
  BY <1>3, <1>4, <1>7, <1>12, <1>13

(* pop: what is left is what was behind the elements taken, and a pop of a *)
(* buffer that is not empty takes at least one.                            *)
LEMMA PopFacts ==
  ASSUME GoodBuffer, NEW len \in Nat \ {0}, Pop(len)
  PROVE  /\ GoodBuffer'
         /\ Popped(len) \in 0..Count
         /\ Popped(len) = 0 <=> Empty
         /\ Count' = Count - Popped(len)
         /\ \A i \in 0..(Count' - 1) :
              slots'[(tail' + i) % Size] = slots[(tail + Popped(len) + i) % Size]
<1> USE SizeAssumption
<1>1. Count = IF full THEN Size ELSE IF head >= tail THEN head - tail ELSE head - tail + Size
  BY CountFacts
<1>2. Popped(len) \in 0..Count /\ (Popped(len) = 0 <=> Empty)
  BY <1>1 DEF Popped, LesserOf, GoodBuffer, Empty
<1>3. Count \in 0..Size
  BY CountFacts
<1>4. tail' = IF tail + Popped(len) < Size THEN tail + Popped(len) ELSE tail + Popped(len) - Size
  BY <1>2, <1>3, PlaceFacts DEF Pop
<1>5. ~full' /\ full' \in BOOLEAN
  <2>1. full' = (full /\ tail < head)
    BY DEF Pop
  <2>2. ~(full /\ tail < head)
    BY DEF GoodBuffer
  <2> QED
    BY <2>1, <2>2, Zenon
<1>10. head' \in 0..(Size - 1) /\ tail' \in 0..(Size - 1)
  BY <1>2, <1>3, <1>4 DEF GoodBuffer, Pop
<1>11. head' = head
  BY DEF Pop
<1>6. GoodBuffer'
  BY <1>5, <1>10 DEF GoodBuffer
<1>7. Count' = IF head' >= tail' THEN head' - tail' ELSE head' - tail' + Size
  <2>1. Count' = (head' - tail' + Size) % Size
    BY <1>5 DEF Count
  <2>2. head' - tail' + Size \in 0..(Size + Size - 1)
    BY <1>2, <1>3, <1>4, <1>11 DEF GoodBuffer
  <2>3. (head' - tail' + Size) % Size
          = IF head' - tail' + Size < Size THEN head' - tail' + Size ELSE (head' - tail' + Size) - Size
    BY <2>2, ModWrap, Zenon
  <2> QED
    BY <2>1, <2>3, <1>2, <1>3, <1>4, <1>11 DEF GoodBuffer
<1>8. Count' = Count - Popped(len)
  <2>1. head' = head
    BY DEF Pop
  <2>2. CASE Empty
    BY <2>1, <2>2, <1>1, <1>2, <1>4, <1>7 DEF GoodBuffer, Empty
  <2>3. CASE ~Empty
    <3>1. Popped(len) >= 1
      BY <2>3, <1>2, <1>3
    <3>2. CASE full
      BY <3>1, <3>2, <2>1, <1>1, <1>2, <1>4, <1>7 DEF GoodBuffer
    <3>3. CASE ~full
      BY <3>1, <3>3, <2>1, <1>1, <1>2, <1>4, <1>7 DEF GoodBuffer
    <3> QED
      BY <3>2, <3>3 DEF GoodBuffer
  <2> QED
    BY <2>2, <2>3
<1>9. ASSUME NEW i \in 0..(Count' - 1)
      PROVE  slots'[(tail' + i) % Size] = slots[(tail + Popped(len) + i) % Size]
  <2>1. Popped(len) + i \in 0..Size
    BY <1>2, <1>3, <1>8
  <2>2. (tail + (Popped(len) + i)) % Size
          = IF tail + (Popped(len) + i) < Size THEN tail + (Popped(len) + i)
            ELSE tail + (Popped(len) + i) - Size
    BY <2>1, PlaceFacts
  <2>3. tail' + i \in 0..(Size + Size - 1)
    <3>1. i \in 0..(Count - Popped(len) - 1)
      BY <1>8
    <3> QED
      BY <3>1, <1>2, <1>3, <1>4 DEF GoodBuffer
  <2>4. (tail' + i) % Size = IF tail' + i < Size THEN tail' + i ELSE (tail' + i) - Size
    BY <2>3, ModWrap, Zenon
  <2>5. (tail' + i) % Size = (tail + (Popped(len) + i)) % Size
    BY <2>1, <2>2, <2>4, <1>2, <1>3, <1>4, <1>8 DEF GoodBuffer
  <2>6. tail + (Popped(len) + i) = tail + Popped(len) + i
    BY <1>2, <1>3 DEF GoodBuffer
  <2> QED
    BY <2>5, <2>6 DEF Pop
<1> QED
  BY <1>2, <1>6, <1>8, <1>9

-----------------------------------------------------------------------------
(* The inductive invariant. OneWakeup and NeverEmpty are inductive with    *)
(* the types; the order of bytes is stated byte by byte.                   *)
InPlace ==
    Running =>
      /\ thread # "feed" => data = <<>>
      /\ received = fed + Len(data) + Count
      /\ \A i \in 1..Len(data) : data[i] = fed + i
      /\ \A i \in 0..(Count - 1) : slots[(tail + i) % Size] = fed + Len(data) + i + 1

(* The main loop does not run, hence does not pop, while the interrupt does. *)
IsrHasRead == Running /\ isr => ~Empty

IInv == TypeOK /\ GoodBuffer /\ NeverEmpty /\ OneWakeup /\ InPlace /\ IsrHasRead

(* The board starts with an empty buffer and nothing on its way.           *)
LEMMA InitIInv == Init => IInv
<1> SUFFICES ASSUME Init PROVE IInv
  OBVIOUS
<1>7. ~full /\ ~isr /\ ~startConsumer /\ ~shouldExit
      /\ full \in BOOLEAN /\ isr \in BOOLEAN /\ startConsumer \in BOOLEAN /\ shouldExit \in BOOLEAN
  BY Zenon DEF Init, Reset
<1>8. head = 0 /\ tail = 0 /\ received = 0 /\ fed = 0 /\ posted = 0 /\ others = 0
      /\ thread = "idle" /\ data = <<>> /\ halted = "no"
      /\ slots = [i \in 0..(Size - 1) |-> 0]
  BY DEF Init, Reset
<1> USE SizeAssumption, SerialAssumption, <1>7, <1>8
<1>1. TypeOK
  BY DEF TypeOK
<1>2. GoodBuffer
  BY DEF GoodBuffer
<1>3. Empty
  BY DEF Empty
<1>4. Count = 0
  BY <1>2, <1>3, CountFacts
<1>5. NeverEmpty /\ OneWakeup /\ IsrHasRead
  BY <1>3 DEF NeverEmpty, OneWakeup, Wakeups, IsrHasRead
<1>6. InPlace
  BY <1>4 DEF InPlace
<1> QED
  BY <1>1, <1>2, <1>5, <1>6 DEF IInv

(* A byte read by the interrupt keeps the types and the order, and leaves  *)
(* the buffer not empty unless it stops the board.                         *)
LEMMA ReadByteFacts ==
  ASSUME IInv, Running, ReadByte, UNCHANGED <<fed, data, thread>>
  PROVE  /\ slots' \in [0..(Size - 1) -> Nat]
         /\ received' \in 0..MaxBytes
         /\ halted' \in {"no", "full"}
         /\ GoodBuffer'
         /\ Running' => ~Empty'
         /\ InPlace'
<1> USE SizeAssumption, SerialAssumption
<1>1. received' = received + 1 /\ received' \in 0..MaxBytes
  BY DEF ReadByte, IInv, TypeOK
<1>2. CASE Push(received + 1) /\ UNCHANGED halted
  <2>1. slots \in [0..(Size - 1) -> Nat] /\ received + 1 \in Nat /\ received \in Nat
    BY DEF IInv, TypeOK
  <2>2. slots' \in [0..(Size - 1) -> Nat]
    BY <1>2, <2>1 DEF Push
  <2>3. /\ GoodBuffer' /\ ~Empty' /\ Count' = Count + 1
        /\ \A i \in 0..(Count - 1) : slots'[(tail' + i) % Size] = slots[(tail + i) % Size]
        /\ slots'[(tail' + Count) % Size] = received + 1
    BY <1>2, <2>1, PushFacts DEF IInv
  <2>4. fed \in Nat /\ Len(data) \in Nat /\ Count \in Nat
    BY CountFacts DEF IInv, TypeOK
  <2>5. InPlace'
    <3>1. received = fed + Len(data) + Count
      BY DEF IInv, InPlace
    <3>2. received' = fed + Len(data) + Count'
      BY <1>1, <2>3, <2>4, <3>1
    <3>3. ASSUME NEW i \in 0..(Count' - 1)
          PROVE  slots'[(tail' + i) % Size] = fed + Len(data) + i + 1
      <4>1. i \in 0..Count
        BY <2>3, <2>4
      <4>2. CASE i = Count
        BY <4>2, <2>3, <3>1
      <4>3. CASE i # Count
        <5>1. i \in 0..(Count - 1)
          BY <4>1, <4>3, <2>4
        <5>2. slots[(tail + i) % Size] = fed + Len(data) + i + 1
          BY <5>1 DEF IInv, InPlace
        <5> QED
          BY <5>1, <5>2, <2>3
      <4> QED
        BY <4>2, <4>3
    <3> QED
      BY <3>2, <3>3 DEF IInv, InPlace, Running
  <2> QED
    BY <1>1, <1>2, <2>2, <2>3, <2>5 DEF Running
<1>3. CASE full /\ halted' = "full" /\ UNCHANGED buffer
  <2>1. slots' = slots /\ head' = head /\ tail' = tail /\ full' = full
    BY <1>3 DEF buffer
  <2>2. ~Running'
    BY <1>3 DEF Running
  <2>3. GoodBuffer'
    BY <2>1 DEF IInv, GoodBuffer
  <2> QED
    BY <1>1, <1>3, <2>1, <2>2, <2>3 DEF IInv, TypeOK, InPlace
<1> QED
  BY <1>2, <1>3 DEF ReadByte

(* Steps that touch neither the buffer nor the bytes keep their order.     *)
LEMMA BufferUnchanged ==
  ASSUME UNCHANGED buffer
  PROVE  /\ Count' = Count
         /\ Empty' <=> Empty
         /\ GoodBuffer' <=> GoodBuffer
         /\ slots' = slots /\ tail' = tail /\ head' = head
  BY DEF buffer, Count, Empty, GoodBuffer

(* The interrupt: its first byte.                                          *)
LEMMA IsrEnterIInv == IInv /\ IsrEnter => IInv'
<1> SUFFICES ASSUME IInv, IsrEnter PROVE IInv'
  OBVIOUS
<1>1. Running /\ ~isr /\ ReadByte /\ UNCHANGED <<fed, data, thread>>
  BY DEF IsrEnter, consumer
<1>2. /\ slots' \in [0..(Size - 1) -> Nat] /\ received' \in 0..MaxBytes
      /\ halted' \in {"no", "full"} /\ GoodBuffer' /\ (Running' => ~Empty') /\ InPlace'
  BY <1>1, ReadByteFacts
<1>3. isr' /\ (startConsumer' <=> Empty) /\ startConsumer' \in BOOLEAN /\ isr' \in BOOLEAN
  BY DEF IsrEnter, Empty
<1>4. UNCHANGED <<posted, others, thread, data, shouldExit, fed>>
  BY DEF IsrEnter, consumer
<1>5. TypeOK'
  BY <1>2, <1>3, <1>4 DEF IInv, TypeOK, GoodBuffer
<1>6. NeverEmpty'
  BY <1>2 DEF NeverEmpty
<1>7. OneWakeup'
  BY <1>1, <1>2, <1>3, <1>4 DEF OneWakeup, Wakeups, IInv, TypeOK
<1> QED
  BY <1>2, <1>5, <1>6, <1>7 DEF IInv, IsrHasRead

(* The interrupt: the bytes that come while it runs.                       *)
LEMMA IsrReadIInv == IInv /\ IsrRead => IInv'
<1> SUFFICES ASSUME IInv, IsrRead PROVE IInv'
  OBVIOUS
<1>1. Running /\ isr /\ ReadByte /\ UNCHANGED <<fed, data, thread>>
  BY DEF IsrRead, consumer
<1>2. /\ slots' \in [0..(Size - 1) -> Nat] /\ received' \in 0..MaxBytes
      /\ halted' \in {"no", "full"} /\ GoodBuffer' /\ (Running' => ~Empty') /\ InPlace'
  BY <1>1, ReadByteFacts
<1>3. UNCHANGED <<isr, startConsumer, posted, others, thread, data, shouldExit, fed>>
  BY DEF IsrRead, consumer
<1>4. TypeOK'
  BY <1>2, <1>3 DEF IInv, TypeOK, GoodBuffer
<1>5. NeverEmpty'
  BY <1>2 DEF NeverEmpty
<1>6. ~Empty
  BY <1>1 DEF IInv, IsrHasRead
<1>7. OneWakeup'
  BY <1>1, <1>2, <1>3, <1>6 DEF OneWakeup, Wakeups, IInv, TypeOK
<1> QED
  BY <1>2, <1>4, <1>5, <1>7 DEF IInv, IsrHasRead

(* The interrupt: its end, with the post of the consumer, for which there  *)
(* is room because it is not posted yet.                                   *)
LEMMA IsrExitIInv == IInv /\ IsrExit => IInv'
<1> SUFFICES ASSUME IInv, IsrExit PROVE IInv'
  OBVIOUS
<1> USE SizeAssumption, SerialAssumption
<1>1. /\ Running /\ isr /\ ~isr' /\ isr' \in BOOLEAN
      /\ posted' = IF startConsumer
                   THEN IF posted + others < QueueSize THEN posted + 1 ELSE posted
                   ELSE posted
  BY DEF IsrExit, PostConsumer
<1>2. UNCHANGED <<slots, head, tail, full, received, startConsumer, others, thread,
                  data, shouldExit, fed, halted>>
  BY DEF IsrExit, consumer, buffer
<1>3. UNCHANGED buffer
  BY <1>2 DEF buffer
<1>4. TypeOK'
  BY <1>1, <1>2 DEF IInv, TypeOK
<1>5. ~Empty
  BY <1>1 DEF IInv, IsrHasRead
<1>6. Wakeups = 1 /\ posted \in Nat
  BY <1>1, <1>5 DEF IInv, OneWakeup, TypeOK
<1>7. Wakeups' = 1
  BY <1>1, <1>2, <1>6 DEF Wakeups, IInv, TypeOK
<1>8. OneWakeup'
  BY <1>3, <1>5, <1>7, BufferUnchanged DEF OneWakeup
<1>9. NeverEmpty' /\ IsrHasRead'
  BY <1>1, <1>2 DEF NeverEmpty, IsrHasRead, IInv
<1>10. InPlace'
  BY <1>2, <1>3, BufferUnchanged DEF InPlace, IInv, Running
<1> QED
  BY <1>3, <1>4, <1>8, <1>9, <1>10, BufferUnchanged DEF IInv

(* The consumer is dispatched: the wakeup becomes the pop it will do.      *)
LEMMA ConsumerStartIInv == IInv /\ ConsumerStart => IInv'
<1> SUFFICES ASSUME IInv, ConsumerStart PROVE IInv'
  OBVIOUS
<1>1. /\ Running /\ ~isr /\ thread = "idle" /\ posted > 0
      /\ posted' = posted - 1 /\ thread' = "pop"
  BY DEF ConsumerStart
<1>2. UNCHANGED <<slots, head, tail, full, received, isr, startConsumer, others,
                  data, shouldExit, fed, halted>>
  BY DEF ConsumerStart, buffer
<1>3. UNCHANGED buffer
  BY <1>2 DEF buffer
<1>4. TypeOK'
  BY <1>1, <1>2 DEF IInv, TypeOK
<1>5. Wakeups' = Wakeups
  BY <1>1, <1>2 DEF Wakeups, IInv, TypeOK
<1>6. OneWakeup'
  BY <1>1, <1>3, <1>5, BufferUnchanged DEF OneWakeup, IInv
<1>7. NeverEmpty' /\ IsrHasRead'
  BY <1>1, <1>2 DEF NeverEmpty, IsrHasRead, IInv
<1>8. InPlace'
  BY <1>1, <1>2, <1>3, BufferUnchanged DEF InPlace, IInv, Running
<1> QED
  BY <1>3, <1>4, <1>6, <1>7, <1>8, BufferUnchanged DEF IInv

(* A chunk is popped: the buffer was not empty, the chunk is its front, and *)
(* the consumer goes on exactly when some is left.                         *)
LEMMA PopChunkIInv == IInv /\ PopChunk => IInv'
<1> SUFFICES ASSUME IInv, PopChunk PROVE IInv'
  OBVIOUS
<1> USE SizeAssumption, SerialAssumption
<1>1. /\ Running /\ ~isr /\ thread = "pop" /\ thread' = "feed"
      /\ Pop(Chunk) /\ data' = PopData(Chunk)
      /\ halted' = IF Popped(Chunk) = 0 THEN "empty" ELSE "no"
  BY DEF PopChunk
<1>2. (shouldExit' <=> Empty') /\ shouldExit' \in BOOLEAN
  BY DEF PopChunk, Empty
<1>3. UNCHANGED <<received, isr, startConsumer, posted, others, fed>>
  BY DEF PopChunk
<1>4. /\ GoodBuffer' /\ Popped(Chunk) \in 0..Count /\ (Popped(Chunk) = 0 <=> Empty)
      /\ Count' = Count - Popped(Chunk)
      /\ \A i \in 0..(Count' - 1) :
           slots'[(tail' + i) % Size] = slots[(tail + Popped(Chunk) + i) % Size]
  BY <1>1, PopFacts DEF IInv
<1>5. posted = 0 /\ ~Empty
  BY <1>1 DEF IInv, OneWakeup, Wakeups, TypeOK
<1>6. halted' = "no"
  BY <1>1, <1>4, <1>5
<1>7. Count \in Nat /\ Popped(Chunk) \in Nat /\ fed \in Nat /\ data = <<>>
  BY <1>1, <1>4, CountFacts DEF IInv, TypeOK, InPlace
<1>8. \A i \in 0..(Count - 1) : slots[(tail + i) % Size] = fed + i + 1
  BY <1>1, <1>7 DEF IInv, InPlace
<1>9. received = fed + Count
  BY <1>1, <1>7 DEF IInv, InPlace
<1>10. data' = [i \in 1..Popped(Chunk) |-> fed + i]
  <2>1. ASSUME NEW i \in 1..Popped(Chunk) PROVE slots[(tail + i - 1) % Size] = fed + i
    <3>1. i - 1 \in 0..(Count - 1)
      BY <1>4, <1>7
    <3>2. slots[(tail + (i - 1)) % Size] = fed + (i - 1) + 1
      BY <3>1, <1>8
    <3> QED
      BY <3>2, <1>7
  <2> QED
    BY <2>1, <1>1 DEF PopData
<1>11. data' \in Seq(Nat) /\ Len(data') = Popped(Chunk)
       /\ \A i \in 1..Len(data') : data'[i] = fed + i
  BY <1>7, <1>10
<1>12. TypeOK'
  <2>1. slots' = slots
    BY <1>1 DEF Pop
  <2> QED
    BY <2>1, <1>1, <1>2, <1>3, <1>4, <1>6, <1>11 DEF IInv, TypeOK, GoodBuffer
<1>13. NeverEmpty' /\ IsrHasRead'
  BY <1>1, <1>3, <1>6 DEF NeverEmpty, IsrHasRead
<1>14. OneWakeup'
  BY <1>1, <1>2, <1>3, <1>5 DEF OneWakeup, Wakeups
<1>15. InPlace'
  <2>1. received' = fed' + Len(data') + Count'
    BY <1>3, <1>4, <1>7, <1>9, <1>11
  <2>2. ASSUME NEW i \in 0..(Count' - 1)
        PROVE  slots'[(tail' + i) % Size] = fed' + Len(data') + i + 1
    <3>1. Popped(Chunk) + i \in 0..(Count - 1)
      BY <1>4, <1>7
    <3>2. slots[(tail + (Popped(Chunk) + i)) % Size] = fed + (Popped(Chunk) + i) + 1
      BY <3>1, <1>8
    <3>3. tail + (Popped(Chunk) + i) = tail + Popped(Chunk) + i
      BY <3>1, <1>7 DEF IInv, GoodBuffer
    <3> QED
      BY <3>1, <3>2, <3>3, <1>3, <1>4, <1>7, <1>11
  <2> QED
    BY <2>1, <2>2, <1>1, <1>3, <1>11 DEF InPlace
<1> QED
  BY <1>4, <1>12, <1>13, <1>14, <1>15 DEF IInv

(* A byte is given to the interpreter.                                     *)
LEMMA FeedIInv == IInv /\ Feed => IInv'
<1> SUFFICES ASSUME IInv, Feed PROVE IInv'
  OBVIOUS
<1>1. /\ Running /\ ~isr /\ thread = "feed" /\ data # <<>>
      /\ fed' = Head(data) /\ data' = Tail(data)
  BY DEF Feed
<1>2. UNCHANGED <<slots, head, tail, full, received, isr, startConsumer, posted,
                  others, thread, shouldExit, halted>>
  BY DEF Feed, buffer
<1>3. UNCHANGED buffer
  BY <1>2 DEF buffer
<1>4. data \in Seq(Nat) /\ fed \in Nat /\ Len(data) \in Nat \ {0} /\ Count \in Nat
  BY <1>1, CountFacts DEF IInv, TypeOK
<1>5. fed' = fed + 1
  BY <1>1, <1>4 DEF IInv, InPlace
<1>6. data' \in Seq(Nat) /\ Len(data') = Len(data) - 1
      /\ \A i \in 1..Len(data') : data'[i] = data[i + 1]
  BY <1>1, <1>4
<1>7. TypeOK'
  BY <1>2, <1>4, <1>5, <1>6 DEF IInv, TypeOK
<1>8. OneWakeup' /\ NeverEmpty' /\ IsrHasRead'
  BY <1>2, <1>3, BufferUnchanged DEF OneWakeup, Wakeups, NeverEmpty, IsrHasRead, IInv, Running
<1>9. InPlace'
  <2>1. received' = fed' + Len(data') + Count'
    BY <1>1, <1>2, <1>3, <1>4, <1>5, <1>6, BufferUnchanged DEF IInv, InPlace
  <2>2. ASSUME NEW i \in 1..Len(data') PROVE data'[i] = fed' + i
    BY <1>1, <1>4, <1>5, <1>6 DEF IInv, InPlace
  <2>3. ASSUME NEW i \in 0..(Count' - 1)
        PROVE  slots'[(tail' + i) % Size] = fed' + Len(data') + i + 1
    <3>1. i \in 0..(Count - 1)
      BY <1>3, BufferUnchanged
    <3>2. slots[(tail + i) % Size] = fed + Len(data) + i + 1
      BY <3>1, <1>1 DEF IInv, InPlace
    <3> QED
      BY <3>1, <3>2, <1>2, <1>4, <1>5, <1>6
  <2> QED
    BY <2>1, <2>2, <2>3, <1>1, <1>2 DEF InPlace
<1> QED
  BY <1>3, <1>7, <1>8, <1>9, BufferUnchanged DEF IInv

(* The consumer goes on or ends, as it has seen in the critical section;   *)
(* what the interrupt has added since then has its own wakeup.             *)
LEMMA LoopOrExitIInv == IInv /\ LoopOrExit => IInv'
<1> SUFFICES ASSUME IInv, LoopOrExit PROVE IInv'
  OBVIOUS
<1>1. /\ Running /\ ~isr /\ thread = "feed" /\ data = <<>>
      /\ thread' = IF shouldExit THEN "idle" ELSE "pop"
  BY DEF LoopOrExit
<1>2. UNCHANGED <<slots, head, tail, full, received, isr, startConsumer, posted,
                  others, data, shouldExit, fed, halted>>
  BY DEF LoopOrExit, buffer
<1>3. UNCHANGED buffer
  BY <1>2 DEF buffer
<1>4. TypeOK'
  BY <1>1, <1>2 DEF IInv, TypeOK
<1>5. Wakeups' = Wakeups
  BY <1>1, <1>2 DEF Wakeups
<1>6. OneWakeup' /\ NeverEmpty' /\ IsrHasRead'
  BY <1>1, <1>2, <1>3, <1>5, BufferUnchanged DEF OneWakeup, NeverEmpty, IsrHasRead, IInv
<1>7. InPlace'
  BY <1>1, <1>2, <1>3, BufferUnchanged DEF InPlace, IInv, Running
<1> QED
  BY <1>3, <1>4, <1>6, <1>7, BufferUnchanged DEF IInv

(* The events of others, and the steps that change nothing.                *)
LEMMA OthersIInv == IInv /\ (OtherPost \/ OtherRun \/ UNCHANGED vars) => IInv'
<1> SUFFICES ASSUME IInv, OtherPost \/ OtherRun \/ UNCHANGED vars PROVE IInv'
  OBVIOUS
<1>1. UNCHANGED <<slots, head, tail, full, received, isr, startConsumer, posted,
                  thread, data, shouldExit, fed, halted>>
  BY DEF OtherPost, OtherRun, vars, consumer, buffer
<1>2. UNCHANGED buffer
  BY <1>1 DEF buffer
<1>3. others' \in 0..MaxOthers
  BY SerialAssumption DEF OtherPost, OtherRun, vars, IInv, TypeOK
<1>4. TypeOK'
  BY <1>1, <1>3 DEF IInv, TypeOK
<1>5. OneWakeup' /\ NeverEmpty' /\ IsrHasRead'
  BY <1>1, <1>2, BufferUnchanged DEF OneWakeup, Wakeups, NeverEmpty, IsrHasRead, IInv, Running
<1>6. InPlace'
  BY <1>1, <1>2, BufferUnchanged DEF InPlace, IInv, Running
<1> QED
  BY <1>2, <1>4, <1>5, <1>6, BufferUnchanged DEF IInv

-----------------------------------------------------------------------------
(* The invariant holds in every reachable state, wherever the receive      *)
(* interrupt of main.cpp comes between the steps of the main loop.         *)
THEOREM Invariance == Spec => []IInv
<1>1. Init => IInv
  BY InitIInv
<1>2. IInv /\ [Next]_vars => IInv'
  BY IsrEnterIInv, IsrReadIInv, IsrExitIInv, ConsumerStartIInv, PopChunkIInv,
     FeedIInv, LoopOrExitIInv, OthersIInv DEF Next, Halt
<1> QED
  BY <1>1, <1>2, PTL DEF Spec

(* The variables of the receive path keep their types and ranges, the      *)
(* indices of rxBuffer stay within the array.                              *)
THEOREM TypeCorrectness == Spec => []TypeOK
<1>1. IInv => TypeOK
  BY DEF IInv
<1> QED
  BY <1>1, Invariance, PTL

(* The sanity check of consumeSerialBytes (main.cpp:118) never fires, for  *)
(* any size of the buffer and of the chunk.                                *)
THEOREM ConsumerNeverFindsEmpty == Spec => []NeverEmpty
<1>1. IInv => NeverEmpty
  BY DEF IInv
<1> QED
  BY <1>1, Invariance, PTL

(* The consumer is woken exactly once for the bytes in rxBuffer, provided  *)
(* others leave a slot of the event queue to it.                           *)
THEOREM WakeupExact == Spec => []OneWakeup
<1>1. IInv => OneWakeup
  BY DEF IInv
<1> QED
  BY <1>1, Invariance, PTL

(* Bytes reach the interpreter once and in order, for any size of the      *)
(* buffer and of the chunk.                                                *)
THEOREM BytesInOrder == Spec => []InOrder
<1>1. IInv => InOrder
  <2> SUFFICES ASSUME IInv, Running
               PROVE  data \o Contents = [i \in 1..(received - fed) |-> fed + i]
    BY DEF InOrder
  <2>1. data \in Seq(Nat) /\ Count \in Nat /\ fed \in Nat /\ Len(data) \in Nat /\ received \in Nat
        /\ tail \in Nat
    BY CountFacts DEF IInv, TypeOK
  <2>2. received - fed = Len(data) + Count
    BY <2>1 DEF IInv, InPlace
  <2>3. Contents = [i \in 1..Count |-> fed + Len(data) + i]
    <3>1. ASSUME NEW i \in 1..Count
          PROVE  slots[(tail + i - 1) % Size] = fed + Len(data) + i
      <4>1. i - 1 \in 0..(Count - 1)
        BY <2>1
      <4>2. slots[(tail + (i - 1)) % Size] = fed + Len(data) + (i - 1) + 1
        BY <4>1 DEF IInv, InPlace
      <4> QED
        BY <4>2, <2>1
    <3> QED
      BY <3>1 DEF Contents
  <2>4. Contents \in Seq(Nat) /\ Len(Contents) = Count
    BY <2>1, <2>3
  <2>5. \A i \in 1..Len(data) : data[i] = fed + i
    BY DEF IInv, InPlace
  <2>6. /\ Len(data \o Contents) = Len(data) + Count
        /\ DOMAIN (data \o Contents) = 1..(Len(data) + Count)
        /\ \A i \in 1..(Len(data) + Count) :
             (data \o Contents)[i] = IF i <= Len(data) THEN data[i] ELSE Contents[i - Len(data)]
    <3> DEFINE c == Contents
    <3>1. data \in Seq(Nat) /\ c \in Seq(Nat) /\ Len(c) = Count
      BY <2>1, <2>4
    <3> HIDE DEF c
    <3>2. /\ Len(data \o c) = Len(data) + Len(c)
          /\ \A i \in 1..(Len(data) + Len(c)) :
               (data \o c)[i] = IF i <= Len(data) THEN data[i] ELSE c[i - Len(data)]
      BY <3>1, ConcatProperties
    <3>3. data \o c \in Seq(Nat)
      BY <3>1, ConcatProperties
    <3>4. DOMAIN (data \o c) = 1..(Len(data) + Len(c))
      BY <3>2, <3>3, LenProperties
    <3> QED
      BY <3>1, <3>2, <3>4 DEF c
  <2>7. ASSUME NEW i \in 1..(Len(data) + Count) PROVE (data \o Contents)[i] = fed + i
    <3>1. CASE i <= Len(data)
      BY <3>1, <2>1, <2>5, <2>6
    <3>2. CASE i > Len(data)
      <4>1. i - Len(data) \in 1..Count
        BY <3>2, <2>1
      <4>2. Contents[i - Len(data)] = fed + Len(data) + (i - Len(data))
        BY <4>1, <2>3
      <4> QED
        BY <4>2, <3>2, <2>1, <2>6
    <3>3. i \in Nat /\ (i <= Len(data) \/ i > Len(data))
      BY <2>1
    <3> QED
      BY <3>1, <3>2, <3>3
  <2>8. data \o Contents \in Seq(Nat)
    BY <2>1, <2>4, ConcatProperties
  <2>9. data \o Contents = [i \in DOMAIN (data \o Contents) |-> (data \o Contents)[i]]
    <3> DEFINE s == data \o Contents
    <3>1. s \in [1..Len(s) -> Nat]
      BY <2>8, LenProperties
    <3> HIDE DEF s
    <3>2. s = [i \in DOMAIN s |-> s[i]]
      BY <3>1
    <3> QED
      BY <3>2 DEF s
  <2>10. [i \in 1..(Len(data) + Count) |-> (data \o Contents)[i]]
           = [i \in 1..(Len(data) + Count) |-> fed + i]
    BY <2>7
  <2> QED
    BY <2>2, <2>6, <2>9, <2>10
<1> QED
  BY <1>1, Invariance, PTL
=============================================================================
