-------------------------- MODULE SerialDeviceProofs --------------------------
(***************************************************************************)
(* Proofs about SerialDevice, for any number of retries, commands and      *)
(* events: the result of a command is what the board answered to it, and   *)
(* no event written meanwhile is lost, in any interleaving of the threads  *)
(* and the board.                                                          *)
(***************************************************************************)
EXTENDS SerialDevice, FiniteInduction, SequenceTheorems

-----------------------------------------------------------------------------
(* What Only makes of a sequence of lines.                                 *)

(* h has, for each i, the lines of those kinds among the i first ones.     *)
Filtering(h, m, s, kinds) ==
    h = [i \in 0..m |->
           IF i = 0 THEN <<>>
           ELSE IF s[i].kind \in kinds THEN Append(h[i - 1], s[i]) ELSE h[i - 1]]

(* There is a function that Only describes.                                *)
LEMMA FilteringExists ==
    ASSUME NEW s \in Seq(Lines), NEW kinds
    PROVE  \E h : Filtering(h, Len(s), s, kinds)
<1> DEFINE n == Len(s)
           Body(h, i) == IF i = 0 THEN <<>>
                         ELSE IF s[i].kind \in kinds THEN Append(h[i - 1], s[i]) ELSE h[i - 1]
           I == {m \in 0..n : \E h : Filtering(h, m, s, kinds)}
<1>1. n \in Nat
  OBVIOUS
<1>2. 0 \in I
  <2> DEFINE h == [i \in 0..0 |-> <<>>]
  <2>1. Filtering(h, 0, s, kinds)
    BY DEF Filtering
  <2> QED
    BY <1>1, <2>1
<1>3. ASSUME NEW m \in 0..n, m \in I, m + 1 <= n PROVE m + 1 \in I
  <2>1. PICK h : Filtering(h, m, s, kinds)
    BY <1>3
  <2> DEFINE g == [i \in 0..(m + 1) |-> IF i <= m THEN h[i] ELSE Body(h, m + 1)]
  <2>2. DOMAIN g = 0..(m + 1) /\ g = [i \in DOMAIN g |-> g[i]]
    OBVIOUS
  <2>3. \A i \in 0..m : h[i] = Body(h, i)
    BY <2>1 DEF Filtering
  <2>4. ASSUME NEW i \in 0..(m + 1) PROVE g[i] = Body(g, i)
    <3>1. CASE i = 0
      BY <1>3, <2>3, <3>1
    <3>2. CASE i # 0 /\ i <= m
      <4>1. i \in 0..m /\ i - 1 \in 0..m /\ i - 1 \in 0..(m + 1) /\ i - 1 <= m
        BY <1>1, <1>3, <3>2
      <4>2. g[i] = h[i] /\ g[i - 1] = h[i - 1]
        BY <3>2, <4>1
      <4> QED
        BY <2>3, <3>2, <4>1, <4>2
    <3>3. CASE i = m + 1
      <4>1. i - 1 = m /\ m \in 0..(m + 1) /\ i # 0 /\ ~(i <= m) /\ m <= m
        BY <1>1, <1>3, <3>3
      <4>2. g[m] = h[m]
        BY <4>1
      <4>3. g[i] = Body(h, m + 1)
        BY <4>1
      <4> HIDE DEF g
      <4>4. Body(h, m + 1) = Body(g, i)
        BY <3>3, <4>1, <4>2
      <4> QED
        BY <4>3, <4>4
    <3> QED
      BY <1>1, <1>3, <3>1, <3>2, <3>3
  <2> HIDE DEF g
  <2>5. Filtering(g, m + 1, s, kinds)
    BY <2>2, <2>4 DEF Filtering
  <2>6. m + 1 \in 0..n
    BY <1>1, <1>3
  <2> QED
    BY <2>5, <2>6
<1> HIDE DEF I
<1>4. \A m \in 0..n : m \in I
  BY <1>1, <1>2, <1>3, CountInduction
<1>5. n \in I
  BY <1>1, <1>4
<1> QED
  BY <1>5 DEF I

Agree(s, t, k) == k <= Len(t) /\ \A i \in 1..k : s[i] = t[i]

(* Only is the last value of any such function.                            *)
LEMMA FilteringIsUnique ==
    ASSUME NEW s \in Seq(Lines), NEW t \in Seq(Lines), NEW kinds,
           NEW k \in 0..Len(s), Agree(s, t, k),
           NEW g, Filtering(g, Len(s), s, kinds),
           NEW h, Filtering(h, Len(t), t, kinds)
    PROVE  g[k] = h[k]
<1> DEFINE I == {i \in 0..k : g[i] = h[i]}
<1>1. /\ k \in Nat /\ Len(s) \in Nat /\ Len(t) \in Nat /\ k <= Len(s)
      /\ k <= Len(t) /\ \A i \in 1..k : s[i] = t[i]
  BY DEF Agree
<1>2. /\ \A i \in 0..Len(s) :
           g[i] = IF i = 0 THEN <<>>
                  ELSE IF s[i].kind \in kinds THEN Append(g[i - 1], s[i]) ELSE g[i - 1]
      /\ \A i \in 0..Len(t) :
           h[i] = IF i = 0 THEN <<>>
                  ELSE IF t[i].kind \in kinds THEN Append(h[i - 1], t[i]) ELSE h[i - 1]
  BY DEF Filtering
<1>3. 0 \in I
  BY <1>1, <1>2
<1>4. ASSUME NEW i \in 0..k, i \in I, i + 1 <= k PROVE i + 1 \in I
  <2>1. /\ i + 1 \in 0..Len(s) /\ i + 1 \in 0..Len(t) /\ i + 1 \in 1..k /\ i + 1 \in 0..k
        /\ i + 1 # 0 /\ (i + 1) - 1 = i
    BY <1>1, <1>4
  <2>2. t[i + 1] = s[i + 1] /\ g[i] = h[i]
    BY <1>1, <1>4, <2>1
  <2>3. g[i + 1] = h[i + 1]
    BY <1>2, <2>1, <2>2
  <2> QED
    BY <2>1, <2>3
<1> HIDE DEF I
<1>5. \A i \in 0..k : i \in I
  BY <1>1, <1>3, <1>4, CountInduction
<1> QED
  BY <1>1, <1>5 DEF I

(* Only is the last value of the function it describes.                    *)
LEMMA OnlyIs ==
    ASSUME NEW s \in Seq(Lines), NEW kinds, NEW h, Filtering(h, Len(s), s, kinds)
    PROVE  Only(s, kinds) = h[Len(s)]
<1> DEFINE g == CHOOSE f : Filtering(f, Len(s), s, kinds)
<1>1. Only(s, kinds) = g[Len(s)]
  BY DEF Only, Filtering
<1>2. Filtering(g, Len(s), s, kinds)
  OBVIOUS
<1> HIDE DEF g
<1>3. Len(s) \in 0..Len(s) /\ Agree(s, s, Len(s))
  BY DEF Agree
<1>4. g[Len(s)] = h[Len(s)]
  BY <1>2, <1>3, FilteringIsUnique
<1> QED
  BY <1>1, <1>4

(* Of no line.                                                             *)
LEMMA OnlyEmpty == \A kinds : Only(<<>>, kinds) = <<>>
<1> TAKE kinds
<1>1. <<>> \in Seq(Lines) /\ Len(<<>>) = 0
  OBVIOUS
<1>2. PICK h : Filtering(h, 0, <<>>, kinds)
  BY <1>1, FilteringExists
<1>3. h[0] = <<>>
  BY <1>2 DEF Filtering
<1> QED
  BY <1>1, <1>2, <1>3, OnlyIs

(* One line more.                                                          *)
LEMMA OnlyAppend ==
    ASSUME NEW s \in Seq(Lines), NEW x \in Lines, NEW kinds
    PROVE  Only(Append(s, x), kinds) =
             IF x.kind \in kinds THEN Append(Only(s, kinds), x) ELSE Only(s, kinds)
<1> DEFINE t == Append(s, x)
           n == Len(s)
<1>1. /\ t \in Seq(Lines) /\ Len(t) = n + 1 /\ n \in Nat
      /\ \A i \in 1..n : t[i] = s[i]
      /\ t[n + 1] = x
  BY AppendProperties
<1> HIDE DEF t
<1>2. PICK g : Filtering(g, n, s, kinds)
  BY FilteringExists
<1>3. PICK h : Filtering(h, n + 1, t, kinds)
  BY <1>1, FilteringExists
<1>4. Only(s, kinds) = g[n] /\ Only(t, kinds) = h[n + 1]
  BY <1>1, <1>2, <1>3, OnlyIs
<1>5. g[n] = h[n]
  <2>1. n \in 0..Len(s) /\ Agree(s, t, n)
    BY <1>1 DEF Agree
  <2>2. Filtering(h, Len(t), t, kinds)
    BY <1>1, <1>3
  <2>3. t \in Seq(Lines) /\ Filtering(g, Len(s), s, kinds)
    BY <1>1, <1>2
  <2>4. \A k \in 0..Len(s) : Agree(s, t, k) => g[k] = h[k]
    BY <2>2, <2>3, FilteringIsUnique
  <2> QED
    BY <2>1, <2>4
<1>6. h[n + 1] = IF t[n + 1].kind \in kinds THEN Append(h[n], t[n + 1]) ELSE h[n]
  <2>1. n + 1 \in 0..(n + 1) /\ n + 1 # 0 /\ (n + 1) - 1 = n
    BY <1>1
  <2> QED
    BY <1>3, <2>1 DEF Filtering
<1> QED
  BY <1>1, <1>4, <1>5, <1>6 DEF t

(* The first i lines of a sequence, and one line more.                     *)
LEMMA FirstLines ==
    ASSUME NEW s \in Seq(Lines)
    PROVE  /\ SubSeq(s, 1, 0) = <<>> /\ SubSeq(s, 1, Len(s)) = s
           /\ \A i \in 0..Len(s) : SubSeq(s, 1, i) \in Seq(Lines)
           /\ \A i \in 0..Len(s) : i + 1 <= Len(s) =>
                /\ SubSeq(s, 1, i + 1) = Append(SubSeq(s, 1, i), s[i + 1])
                /\ s[i + 1] \in Lines
<1>1. Len(s) \in Nat /\ \A j \in 1..Len(s) : s[j] \in Lines
  OBVIOUS
<1>2. ASSUME NEW i \in 0..Len(s)
      PROVE  /\ SubSeq(s, 1, i) \in Seq(Lines) /\ Len(SubSeq(s, 1, i)) = i
             /\ \A j \in 1..i : SubSeq(s, 1, i)[j] = s[j]
  BY <1>1
<1>3. SubSeq(s, 1, 0) = <<>>
  BY <1>1
<1>4. SubSeq(s, 1, Len(s)) = s
  <2> DEFINE t == SubSeq(s, 1, Len(s))
  <2>1. t \in Seq(Lines) /\ Len(t) = Len(s) /\ \A j \in 1..Len(s) : t[j] = s[j]
    BY <1>1, <1>2
  <2> HIDE DEF t
  <2>2. t = s
    BY <2>1, SeqEqual
  <2> QED
    BY <2>2 DEF t
<1>5. ASSUME NEW i \in 0..Len(s), i + 1 <= Len(s)
      PROVE  /\ SubSeq(s, 1, i + 1) = Append(SubSeq(s, 1, i), s[i + 1])
             /\ s[i + 1] \in Lines
  <2> DEFINE t == SubSeq(s, 1, i + 1)
             u == SubSeq(s, 1, i)
             x == s[i + 1]
             v == Append(u, x)
  <2>1. i + 1 \in 0..Len(s) /\ i + 1 \in 1..Len(s) /\ i \in Nat
    BY <1>1, <1>5
  <2>2. t \in Seq(Lines) /\ Len(t) = i + 1 /\ \A j \in 1..(i + 1) : t[j] = s[j]
    BY <1>2, <2>1
  <2>3. u \in Seq(Lines) /\ Len(u) = i /\ \A j \in 1..i : u[j] = s[j]
    BY <1>2
  <2>4. x \in Lines
    BY <1>1, <2>1
  <2> HIDE DEF t, u
  <2>5. /\ v \in Seq(Lines) /\ Len(v) = i + 1 /\ v[i + 1] = x
        /\ \A j \in 1..i : v[j] = s[j]
    BY <2>3, <2>4, AppendProperties
  <2> HIDE DEF v
  <2>6. \A j \in 1..(i + 1) : t[j] = v[j]
    BY <2>1, <2>2, <2>5
  <2>7. t = v
    BY <2>2, <2>5, <2>6, SeqEqual
  <2> QED
    BY <2>4, <2>7 DEF t, u, v
<1> QED
  BY <1>2, <1>3, <1>4, <1>5

(* The lines that are left are lines, of those kinds.                      *)
LEMMA OnlyType ==
    ASSUME NEW s \in Seq(Lines), NEW kinds
    PROVE  Only(s, kinds) \in Seq(Lines)
<1> DEFINE I == {i \in 0..Len(s) : Only(SubSeq(s, 1, i), kinds) \in Seq(Lines)}
<1>1. 0 \in I
  <2>1. 0 \in 0..Len(s) /\ <<>> \in Seq(Lines)
    OBVIOUS
  <2>2. Only(SubSeq(s, 1, 0), kinds) = <<>>
    BY FirstLines, OnlyEmpty
  <2> QED
    BY <2>1, <2>2
<1>2. ASSUME NEW i \in 0..Len(s), i \in I, i + 1 <= Len(s) PROVE i + 1 \in I
  <2> DEFINE u == SubSeq(s, 1, i)
             x == s[i + 1]
  <2>1. /\ u \in Seq(Lines) /\ x \in Lines /\ i + 1 \in 0..Len(s)
        /\ SubSeq(s, 1, i + 1) = Append(u, x)
        /\ Only(u, kinds) \in Seq(Lines)
    BY <1>2, FirstLines
  <2> HIDE DEF u, x
  <2>2. Only(Append(u, x), kinds) \in Seq(Lines)
    <3>1. Append(Only(u, kinds), x) \in Seq(Lines)
      BY <2>1
    <3> QED
      BY <2>1, <3>1, OnlyAppend
  <2> QED
    BY <2>1, <2>2
<1> HIDE DEF I
<1>3. Len(s) \in Nat
  OBVIOUS
<1>4. \A i \in 0..Len(s) : i \in I
  BY <1>1, <1>2, <1>3, CountInduction
<1>5. Len(s) \in I
  BY <1>3, <1>4
<1> QED
  BY <1>5, FirstLines DEF I

(* One line more at the end of two sequences.                              *)
LEMMA ConcatAppend ==
    ASSUME NEW s \in Seq(Lines), NEW t \in Seq(Lines), NEW x \in Lines
    PROVE  s \o t \in Seq(Lines) /\ s \o Append(t, x) = Append(s \o t, x)
<1> DEFINE u == <<x>>
<1>1. s \o t \in Seq(Lines) /\ u \in Seq(Lines)
  OBVIOUS
<1>2. Append(t, x) = t \o u /\ Append(s \o t, x) = (s \o t) \o u
  BY <1>1, AppendIsConcat
<1> HIDE DEF u
<1>3. (s \o t) \o u = s \o (t \o u)
  BY <1>1, ConcatAssociative
<1> QED
  BY <1>1, <1>2, <1>3

(* Of two sequences one after the other.                                   *)
LEMMA OnlyConcat ==
    ASSUME NEW s \in Seq(Lines), NEW t \in Seq(Lines), NEW kinds
    PROVE  Only(s \o t, kinds) = Only(s, kinds) \o Only(t, kinds)
<1> DEFINE Split(u) == Only(s \o u, kinds) = Only(s, kinds) \o Only(u, kinds)
           I == {i \in 0..Len(t) : Split(SubSeq(t, 1, i))}
<1>1. 0 \in I
  <2>1. Only(s, kinds) \in Seq(Lines)
    BY OnlyType
  <2>2. Only(s, kinds) \o <<>> = Only(s, kinds) /\ s \o <<>> = s
    BY <2>1, ConcatEmptySeq
  <2>3. Split(<<>>)
    BY <2>2, OnlyEmpty
  <2> HIDE DEF Split
  <2> QED
    <3>1. 0 \in 0..Len(t) /\ SubSeq(t, 1, 0) = <<>>
      BY FirstLines
    <3> QED
      BY <2>3, <3>1
<1>2. ASSUME NEW i \in 0..Len(t), i \in I, i + 1 <= Len(t) PROVE i + 1 \in I
  <2> DEFINE u == SubSeq(t, 1, i)
             x == t[i + 1]
  <2>1. /\ u \in Seq(Lines) /\ x \in Lines /\ i + 1 \in 0..Len(t)
        /\ SubSeq(t, 1, i + 1) = Append(u, x)
        /\ Split(u)
    BY <1>2, FirstLines
  <2> HIDE DEF u, x
  <2>2. s \o Append(u, x) = Append(s \o u, x) /\ s \o u \in Seq(Lines)
    BY <2>1, ConcatAppend
  <2> DEFINE a == Only(s, kinds)
             b == Only(u, kinds)
  <2>3. a \in Seq(Lines) /\ b \in Seq(Lines)
    BY <2>1, OnlyType
  <2>4. a \o Append(b, x) = Append(a \o b, x)
    <3> HIDE DEF a, b
    <3> QED
      BY <2>1, <2>3, ConcatAppend
  <2>5. Only(Append(s \o u, x), kinds) =
          IF x.kind \in kinds THEN Append(Only(s \o u, kinds), x) ELSE Only(s \o u, kinds)
    BY <2>1, <2>2, OnlyAppend
  <2>6. Only(Append(u, x), kinds) = IF x.kind \in kinds THEN Append(b, x) ELSE b
    BY <2>1, OnlyAppend
  <2>7. Split(Append(u, x))
    BY <2>1, <2>2, <2>4, <2>5, <2>6
  <2> HIDE DEF Split
  <2> QED
    BY <2>1, <2>7
<1> HIDE DEF I
<1>3. Len(t) \in Nat
  OBVIOUS
<1>4. \A i \in 0..Len(t) : i \in I
  BY <1>1, <1>2, <1>3, CountInduction
<1>5. Len(t) \in I
  BY <1>3, <1>4
<1> QED
  BY <1>5, FirstLines DEF I

-----------------------------------------------------------------------------
(* The types.                                                              *)

(* There is a device but before the first one is created, and while there  *)
(* is a retry there may be another one.                                    *)
Placed ==
    /\ place = "create" => task = "allocate" /\ device < MaxDevices
    /\ place # "create" => device \in Devices
    /\ place = "flush" => task = "allocate"

TInv == TypeOK /\ Placed

(* What the board writes are lines.                                        *)
LEMMA LineTypes ==
    /\ \A n \in Nat, p \in {"whole", "first", "second"} : Answer(n, p) \in Lines
    /\ \A n \in Nat, c \in {"expected", "other"} : Retcode(n, c) \in Lines
    /\ \A n \in Nat : Event(n) \in Lines
BY DEF Answer, Retcode, Event, Lines

(* The bounds and counters are numbers.                                    *)
LEMMA HostTypes ==
    ASSUME TInv
    PROVE  /\ MaxDevices \in Nat \ {0} /\ SetupCommands \in Nat \ {0}
           /\ RestoreCommands \in Nat /\ MaxCommands \in Nat /\ MaxEvents \in Nat
           /\ Commands \in Nat
           /\ device \in Nat /\ step \in Nat /\ sent \in Nat /\ emitted \in Nat
           /\ awaited \in 0..sent /\ pending \in 0..sent /\ executing \in 0..sent
<1>1. /\ MaxDevices \in Nat \ {0} /\ SetupCommands \in Nat \ {0}
      /\ RestoreCommands \in Nat /\ MaxCommands \in Nat /\ MaxEvents \in Nat
  BY HostAssumption
<1>2. Commands \in Nat
  BY <1>1 DEF Commands
<1>3. /\ device \in 0..MaxDevices /\ step \in 0..Commands /\ sent \in Nat
      /\ emitted \in 0..MaxEvents /\ {awaited, pending, executing} \subseteq 0..sent
  BY DEF TInv, TypeOK
<1> QED
  BY <1>1, <1>2, <1>3

(* The types hold at first.                                                *)
LEMMA InitTyped == Init => TInv
<1> SUFFICES ASSUME Init PROVE TInv
  OBVIOUS
<1>1. SetupCommands \in Nat /\ 0 \in 0..Commands /\ 0 \in 0..MaxEvents /\ 0 \in 0..MaxDevices
  BY HostAssumption DEF Init, Commands
<1>2. 0 < MaxDevices
  BY HostAssumption
<1>3. \A S : <<>> \in Seq(S)
  OBVIOUS
<1> QED
  <2>1. Placed
    BY <1>2 DEF Init, Placed
  <2>2. TypeOK
    <3>1. /\ iq \in [Devices -> Seq(Lines)] /\ oq \in [Devices -> Seq(1..sent)]
          /\ run \in [Devices -> BOOLEAN] /\ lineRead \in [Devices -> BOOLEAN]
          /\ reader \in [Devices -> {"none", "reads", "ended"}]
          /\ writer \in [Devices -> {"none", "gets", "ended"}]
      BY <1>3 DEF Init
    <3>2. /\ lines \in Seq(Lines) /\ events \in Seq(Lines) /\ toHost \in Seq(Lines)
          /\ toBoard \in Seq(1..sent) /\ {awaited, pending, executing} \subseteq 0..sent
      BY <1>3 DEF Init
    <3>3. /\ task \in {"allocate", "test", "release"} /\ place = "create"
          /\ device \in 0..MaxDevices /\ step \in 0..Commands /\ sent \in Nat
          /\ {clean, up, split} \subseteq BOOLEAN
          /\ emitted \in 0..MaxEvents /\ heard \subseteq 1..emitted
      BY <1>1 DEF Init
    <3> QED
      BY <3>1, <3>2, <3>3 DEF TypeOK
  <2> QED
    BY <2>1, <2>2 DEF TInv

(* The first element of a queue, and the others.                           *)
LEMMA HeadAndTail ==
    ASSUME NEW S, NEW q \in Seq(S), q # <<>>
    PROVE  Head(q) \in S /\ Tail(q) \in Seq(S)
OBVIOUS

(* The threads and the board.                                              *)
LEMMA ReaderTyped ==
    ASSUME TInv, NEW d \in Devices, Reader(d) \/ WriterWrites(d)
    PROVE  TInv'
<1>1. CASE ReaderReads(d)
  <2>1. toHost' \in Seq(Lines) /\ Head(toHost) \in Lines
    <3>1. toHost \in Seq(Lines) /\ toHost # <<>> /\ toHost' = Tail(toHost)
      BY <1>1 DEF ReaderReads, TInv, TypeOK
    <3> QED
      BY <3>1, HeadAndTail
  <2>2. iq' \in [Devices -> Seq(Lines)]
    <3>1. iq \in [Devices -> Seq(Lines)]
      BY DEF TInv, TypeOK
    <3>2. Append(iq[d], Head(toHost)) \in Seq(Lines)
      BY <2>1, <3>1
    <3> QED
      BY <1>1, <3>1, <3>2 DEF ReaderReads
  <2>3. reader' \in [Devices -> {"none", "reads", "ended"}]
    BY <1>1 DEF ReaderReads, TInv, TypeOK
  <2> QED
    BY <1>1, <2>1, <2>2, <2>3
       DEF ReaderReads, TInv, TypeOK, Placed, Commands, progress, command, board
<1>2. CASE ReaderEnds(d)
  <2>1. reader' \in [Devices -> {"none", "reads", "ended"}]
    BY <1>2 DEF ReaderEnds, TInv, TypeOK
  <2> QED
    BY <1>2, <2>1 DEF ReaderEnds, TInv, TypeOK, Placed, Commands, progress, command, queues, board
<1>3. CASE WriterWrites(d)
  <2>1. oq[d] \in Seq(1..sent) /\ oq[d] # <<>>
    BY <1>3 DEF WriterWrites, TInv, TypeOK
  <2>2. Head(oq[d]) \in 1..sent /\ Tail(oq[d]) \in Seq(1..sent)
    BY <2>1, HeadAndTail
  <2>3. oq' \in [Devices -> Seq(1..sent)]
    BY <1>3, <2>2 DEF WriterWrites, TInv, TypeOK
  <2>4. toBoard' \in Seq(1..sent)
    <3>1. toBoard \in Seq(1..sent)
      BY DEF TInv, TypeOK
    <3>2. Append(toBoard, Head(oq[d])) \in Seq(1..sent)
      BY <2>2, <3>1
    <3> QED
      BY <1>3, <3>1, <3>2 DEF WriterWrites
  <2>5. writer' \in [Devices -> {"none", "gets", "ended"}]
    BY <1>3 DEF WriterWrites, TInv, TypeOK
  <2> QED
    BY <1>3, <2>3, <2>4, <2>5
       DEF WriterWrites, TInv, TypeOK, Placed, Commands, progress, command, board
<1> QED
  BY <1>1, <1>2, <1>3 DEF Reader

(* The board.                                                              *)
LEMMA BoardTyped ==
    ASSUME TInv, Board
    PROVE  TInv'
<1>0. executing \in Nat /\ emitted \in Nat /\ MaxEvents \in Nat /\ sent \in Nat
  BY HostTypes
<1>1. CASE BoardBoots
  BY <1>1 DEF BoardBoots, TInv, TypeOK, Placed, Commands, progress, command, queues
<1>2. CASE BoardExecutes
  <2>1. Head(toBoard) \in 0..sent /\ Tail(toBoard) \in Seq(1..sent)
    <3>1. toBoard \in Seq(1..sent) /\ toBoard # <<>>
      BY <1>2 DEF BoardExecutes, TInv, TypeOK
    <3>2. Head(toBoard) \in 1..sent /\ Tail(toBoard) \in Seq(1..sent)
      BY <3>1, HeadAndTail
    <3> QED
      BY <1>0, <3>2
  <2> QED
    BY <1>2, <2>1 DEF BoardExecutes, TInv, TypeOK, Placed, Commands, progress, command, queues
<1>3. CASE BoardEvent
  <2> DEFINE e == Event(emitted + 1)
             a == Answer(executing, "first")
  <2>1. e \in Lines /\ a \in Lines
    BY <1>0, LineTypes
  <2> HIDE DEF e, a
  <2>2. <<a, e>> \in Seq(Lines)
    BY <2>1
  <2>3. toHost' \in Seq(Lines)
    <3>1. toHost \in Seq(Lines)
      BY DEF TInv, TypeOK
    <3>2. toHost \o <<a, e>> \in Seq(Lines) /\ Append(toHost, e) \in Seq(Lines)
      BY <2>1, <2>2, <3>1
    <3> QED
      BY <1>3, <3>2 DEF BoardEvent, a, e
  <2>4. emitted' \in 0..MaxEvents /\ heard' \subseteq 1..emitted'
    <3>1. /\ emitted < MaxEvents /\ emitted' = emitted + 1
          /\ heard' \subseteq heard \union {emitted + 1}
      BY <1>3 DEF BoardEvent
    <3>2. heard \subseteq 1..emitted
      BY DEF TInv, TypeOK
    <3> QED
      BY <1>0, <3>1, <3>2
  <2>5. split' \in BOOLEAN
    BY <1>3 DEF BoardEvent, TInv, TypeOK
  <2> QED
    BY <1>3, <2>3, <2>4, <2>5
       DEF BoardEvent, TInv, TypeOK, Placed, Commands, progress, command, queues
<1>4. CASE BoardAnswers
  <2>1. PICK code \in {"expected", "other"} :
          toHost' = toHost \o <<Answer(executing, IF split THEN "second" ELSE "whole"),
                                Retcode(executing, code)>>
    BY <1>4 DEF BoardAnswers
  <2> DEFINE a == Answer(executing, IF split THEN "second" ELSE "whole")
             r == Retcode(executing, code)
  <2>2. a \in Lines /\ r \in Lines
    BY <1>0, LineTypes
  <2> HIDE DEF a, r
  <2>3. <<a, r>> \in Seq(Lines)
    BY <2>2
  <2>4. toHost' \in Seq(Lines)
    <3>1. toHost \in Seq(Lines)
      BY DEF TInv, TypeOK
    <3>2. toHost \o <<a, r>> \in Seq(Lines)
      BY <2>3, <3>1
    <3> QED
      BY <2>1, <3>2 DEF a, r
  <2> QED
    <3>1. {awaited', pending', executing'} \subseteq 0..sent'
      <4>1. {awaited, pending, executing} \subseteq 0..sent
        BY DEF TInv, TypeOK
      <4>2. awaited' = awaited /\ pending' = pending /\ sent' = sent /\ executing' = 0
        BY <1>4 DEF BoardAnswers, command
      <4> QED
        BY <1>0, <4>1, <4>2
    <3> QED
      BY <1>4, <2>4, <3>1
         DEF BoardAnswers, TInv, TypeOK, Placed, Commands, progress, command, queues
<1> QED
  BY <1>1, <1>2, <1>3, <1>4 DEF Board

(* The main thread: allocation.                                            *)
LEMMA AllocateTyped ==
    ASSUME TInv, CreateDevice \/ FlushAfterReset
    PROVE  TInv'
<1>0. /\ MaxDevices \in Nat /\ device \in 0..MaxDevices /\ Commands \in Nat
      /\ sent \in Nat /\ SetupCommands \in Nat
  BY HostTypes DEF TInv, TypeOK
<1>1. CASE CreateDevice
  <2>1. device' = device + 1 /\ device' \in Devices /\ device' \in 0..MaxDevices
    BY <1>0, <1>1 DEF CreateDevice, TInv, Placed, Devices
  <2>2. /\ run' \in [Devices -> BOOLEAN]
        /\ reader' \in [Devices -> {"none", "reads", "ended"}]
        /\ writer' \in [Devices -> {"none", "gets", "ended"}]
    BY <1>1, <2>1 DEF CreateDevice, TInv, TypeOK
  <2>3. iq' \in [Devices -> Seq(Lines)]
    <3>1. <<>> \in Seq(Lines)
      OBVIOUS
    <3> QED
      BY <1>1, <3>1 DEF CreateDevice
  <2>4. toBoard' \in Seq(1..sent')
    BY <1>1 DEF CreateDevice
  <2>5. place' = "flush" /\ task' = "allocate" /\ step' \in 0..Commands'
    BY <1>1 DEF CreateDevice, TInv, TypeOK, Placed, Commands
  <2> QED
    <3>1. {awaited', pending', executing'} \subseteq 0..sent'
      BY <1>0, <1>1 DEF CreateDevice, TInv, TypeOK, command
    <3>2. Placed'
      BY <2>1, <2>5 DEF Placed, Devices
    <3> QED
      BY <1>1, <2>1, <2>2, <2>3, <2>4, <2>5, <3>1, <3>2 DEF CreateDevice, TInv, TypeOK, command
<1>2. CASE FlushAfterReset
  <2>1. iq' \in [Devices -> Seq(Lines)]
    <3>1. <<>> \in Seq(Lines)
      OBVIOUS
    <3> QED
      BY <1>2, <3>1 DEF FlushAfterReset, TInv, TypeOK
  <2>2. step' \in 0..Commands' /\ place' = "send" /\ task' = task
    BY <1>0, <1>2 DEF FlushAfterReset, Commands
  <2>3. events' \in Seq(Lines)
    BY <1>2 DEF FlushAfterReset
  <2>4. device \in Devices
    BY <1>2 DEF FlushAfterReset, TInv, Placed
  <2> QED
    BY <1>2, <2>1, <2>2, <2>3, <2>4 DEF FlushAfterReset, TInv, TypeOK, Placed, command, board
<1> QED
  BY <1>1, <1>2

(* Sending.                                                                *)
LEMMA SendTyped ==
    ASSUME TInv, SendSync \/ SendAsync \/ SendLast
    PROVE  TInv'
<1>0. /\ Commands \in Nat /\ sent \in Nat /\ step \in 0..Commands /\ device \in Devices
      /\ {awaited, pending, executing} \subseteq 0..sent
      /\ Send
  BY HostTypes DEF TInv, TypeOK, Placed, SendSync, SendAsync, SendLast, Send
<1>1. /\ sent' = sent + 1 /\ task' = task /\ device' = device /\ executing' = executing
      /\ step' \in 0..Commands'
  BY <1>0 DEF Send, MaySend, Commands, board
<1>2. {awaited', pending', executing'} \subseteq 0..sent'
  BY <1>0, <1>1 DEF SendSync, SendAsync, SendLast
<1>3. iq' \in [Devices -> Seq(Lines)] /\ lines' \in Seq(Lines)
  <2>1. <<>> \in Seq(Lines)
    OBVIOUS
  <2> QED
    BY <1>0, <2>1 DEF Send, TInv, TypeOK
<1>4. Seq(1..sent) \subseteq Seq(1..(sent + 1))
  BY <1>0
<1>5. oq' \in [Devices -> Seq(1..sent')]
  <2>1. \A d \in Devices : oq[d] \in Seq(1..(sent + 1))
    BY <1>4 DEF TInv, TypeOK
  <2>2. Append(oq[device], sent + 1) \in Seq(1..(sent + 1))
    <3>1. sent + 1 \in 1..(sent + 1)
      BY <1>0
    <3> QED
      BY <1>0, <2>1, <3>1
  <2>3. oq' = [d \in Devices |-> IF d = device THEN Append(oq[device], sent + 1) ELSE oq[d]]
    BY <1>0 DEF Send, TInv, TypeOK
  <2>4. oq' \in [Devices -> Seq(1..(sent + 1))]
    BY <2>1, <2>2, <2>3
  <2> QED
    BY <1>1, <2>4
<1>6. toBoard' \in Seq(1..sent')
  BY <1>0, <1>1, <1>4 DEF Send, TInv, TypeOK
<1>7. clean' \in BOOLEAN
  BY <1>0 DEF Send
<1>8. place' \in {"send", "wait", "stop"}
  BY <1>0 DEF SendSync, SendAsync, SendLast, Send
<1>9. sent' \in Nat /\ Placed'
  BY <1>0, <1>1, <1>8 DEF Placed
<1> QED
  BY <1>0, <1>1, <1>2, <1>3, <1>5, <1>6, <1>7, <1>8, <1>9 DEF Send, TInv, TypeOK, board

(* Waiting, and what comes of it.                                          *)
LEMMA GoOnTyped ==
    ASSUME TInv, GoOn
    PROVE  place' = "send" /\ task' \in {"allocate", "test", "release"} /\ step' \in 0..Commands'
<1>1. SetupCommands \in Nat /\ RestoreCommands \in Nat /\ step \in 0..Commands
  BY HostTypes DEF TInv, TypeOK
<1>2. task \in {"allocate", "test", "release"}
  BY DEF TInv, TypeOK
<1> QED
  BY <1>1, <1>2 DEF GoOn, Commands

(* A result is asked for, a line is read, or a wait or the test ends.      *)
LEMMA WaitTyped ==
    ASSUME TInv, AccessResult \/ ReadLine \/ WaitRunsOut \/ WaitTimesOut \/ TestEnds
    PROVE  TInv'
<1>0. /\ Commands \in Nat /\ sent \in Nat /\ device \in Devices
      /\ {awaited, pending, executing} \subseteq 0..sent
  BY HostTypes DEF TInv, TypeOK, Placed, AccessResult, ReadLine, WaitRunsOut, WaitTimesOut, TestEnds
<1>1. CASE AccessResult
  <2>1. {awaited', pending', executing'} \subseteq 0..sent' /\ lines' \in Seq(Lines)
    BY <1>0, <1>1 DEF AccessResult, board
  <2> QED
    BY <1>0, <1>1, <2>1 DEF AccessResult, TInv, TypeOK, Placed, Commands, queues, board
<1>2. CASE ReadLine
  <2>1. iq[device] \in Seq(Lines) /\ iq[device] # <<>>
    BY <1>0, <1>2 DEF ReadLine, TInv, TypeOK
  <2>2. Head(iq[device]) \in Lines /\ Tail(iq[device]) \in Seq(Lines)
    BY <2>1
  <2>3. lines' \in Seq(Lines)
    BY <1>2, <2>2 DEF ReadLine, TInv, TypeOK
  <2>4. iq' \in [Devices -> Seq(Lines)] /\ lineRead' \in [Devices -> BOOLEAN]
    BY <1>2, <2>2 DEF ReadLine, TInv, TypeOK
  <2>5. events' \in Seq(Lines)
    <3>1. Only(lines', EventKind) \in Seq(Lines)
      BY <2>3, OnlyType
    <3>2. events \in Seq(Lines)
      BY DEF TInv, TypeOK
    <3>3. events \o Only(lines', EventKind) \in Seq(Lines)
      BY <3>1, <3>2
    <3> QED
      BY <1>2, <3>2, <3>3 DEF ReadLine
  <2>6. /\ place' \in {"send", "wait"} /\ task' \in {"allocate", "test", "release"}
        /\ step' \in 0..Commands'
    BY <1>2, GoOnTyped DEF ReadLine, TInv, TypeOK, progress, Commands
  <2> QED
    BY <1>0, <1>2, <2>3, <2>4, <2>5, <2>6 DEF ReadLine, TInv, TypeOK, Placed, command, board
<1>3. CASE WaitRunsOut
  <2>1. /\ place' = "send" /\ task' \in {"allocate", "test", "release"}
        /\ step' \in 0..Commands'
    BY <1>3, GoOnTyped DEF WaitRunsOut
  <2>2. {awaited', pending', executing'} \subseteq 0..sent' /\ lines' \in Seq(Lines)
    BY <1>0, <1>3 DEF WaitRunsOut, board
  <2> QED
    BY <1>0, <1>3, <2>1, <2>2 DEF WaitRunsOut, TInv, TypeOK, Placed, queues, board
<1>4. CASE WaitTimesOut
  <2>1. /\ task' \in {"allocate", "test", "release"} /\ step' \in 0..Commands'
        /\ place' \in {"send", "create", "failed"}
    <3>1. RestoreCommands \in Nat /\ step \in 0..Commands
          /\ task \in {"allocate", "test", "release"}
      BY HostTypes DEF TInv, TypeOK
    <3> QED
      BY <1>4, <3>1 DEF WaitTimesOut, Commands
  <2>2. Placed'
    BY <1>0, <1>4 DEF WaitTimesOut, Placed, Retries
  <2>3. {awaited', pending', executing'} \subseteq 0..sent' /\ lines' \in Seq(Lines)
    BY <1>0, <1>4 DEF WaitTimesOut, board
  <2> QED
    BY <1>0, <1>4, <2>1, <2>2, <2>3 DEF WaitTimesOut, TInv, TypeOK, queues, board
<1>5. CASE TestEnds
  <2>1. task' = "release" /\ step' \in 0..Commands' /\ place' = "send"
    BY <1>5, HostTypes DEF TestEnds, TInv, TypeOK, Commands
  <2>2. {awaited', pending', executing'} \subseteq 0..sent' /\ lines' \in Seq(Lines)
    BY <1>0, <1>5 DEF TestEnds, board
  <2> QED
    BY <1>0, <1>5, <2>1, <2>2 DEF TestEnds, TInv, TypeOK, Placed, queues, board
<1> QED
  BY <1>1, <1>2, <1>3, <1>4, <1>5

(* stop().                                                                 *)
LEMMA StopTyped ==
    ASSUME TInv, Stop \/ JoinReader \/ JoinWriter
    PROVE  TInv'
<1>1. run' \in [Devices -> BOOLEAN]
  BY DEF Stop, JoinReader, JoinWriter, TInv, TypeOK
<1>2. place' \in {"join reader", "join writer", "released"} /\ place # "create"
  BY DEF Stop, JoinReader, JoinWriter, stopMoves
<1>3. UNCHANGED <<task, step, command, device, lines, events, iq, oq, lineRead, reader, writer,
                  toBoard, toHost, board>>
  BY DEF Stop, JoinReader, JoinWriter, stopMoves
<1> QED
  BY <1>1, <1>2, <1>3 DEF TInv, TypeOK, Placed, Commands, command, board

(* Every step preserves the types.                                         *)
LEMMA NextTyped == TInv /\ [Next]_vars => TInv'
<1> SUFFICES ASSUME TInv, [Next]_vars PROVE TInv'
  OBVIOUS
<1>1. CASE Main
  BY <1>1, AllocateTyped, SendTyped, WaitTyped, StopTyped DEF Main
<1>2. CASE \E d \in Devices : Reader(d) \/ WriterWrites(d)
  BY <1>2, ReaderTyped
<1>3. CASE Board
  BY <1>3, BoardTyped
<1>4. CASE UNCHANGED vars
  BY <1>4 DEF vars, progress, command, queues, board, TInv, TypeOK, Placed, Commands
<1> QED
  BY <1>1, <1>2, <1>3, <1>4 DEF Next

(* The variables have the values TypeOK gives them, for any number of      *)
(* retries, commands and events; no more devices are created than the      *)
(* retries of allocate() allow.                                            *)
THEOREM TypeCorrect == Spec => []TypeOK
<1>1. Spec => []TInv
  BY InitTyped, NextTyped, PTL DEF Spec
<1>2. TInv => TypeOK
  BY DEF TInv
<1> QED
  BY <1>1, <1>2, PTL

-----------------------------------------------------------------------------
(* Events, in the order they were written.                                 *)

IdOf(line) == IF line.kind = "event" THEN {line.of} ELSE {}
Ids(s) == {s[i].of : i \in {j \in DOMAIN s : s[j].kind = "event"}}

AllBelow(S, T) == \A m \in S, n \in T : m < n

Rising(s) ==
    \A i, j \in DOMAIN s :
        i < j /\ s[i].kind = "event" /\ s[j].kind = "event" => s[i].of < s[j].of

(* What is on its way from the board to BleDevice.events: a has arrived, b *)
(* was read by wait_for_output, c and d wait; n events were written.       *)
InOrder(a, b, c, d, n) ==
    /\ Rising(a) /\ Rising(b) /\ Rising(c) /\ Rising(d)
    /\ AllBelow(Ids(a), Ids(b)) /\ AllBelow(Ids(a), Ids(c)) /\ AllBelow(Ids(a), Ids(d))
    /\ AllBelow(Ids(b), Ids(c)) /\ AllBelow(Ids(b), Ids(d)) /\ AllBelow(Ids(c), Ids(d))
    /\ Ids(a) \union Ids(b) \union Ids(c) \union Ids(d) \subseteq 1..n

Read == IF place = "wait" THEN lines ELSE <<>>
Queued == IF place = "create" THEN <<>> ELSE iq[device]

OInv ==
    /\ InOrder(events, Read, Queued, toHost, emitted)
    /\ \A i \in DOMAIN events : events[i].kind = "event"

(* The events of one line more.                                            *)
LEMMA IdsAppend ==
    ASSUME NEW s \in Seq(Lines), NEW x \in Lines
    PROVE  /\ Append(s, x) \in Seq(Lines)
           /\ Ids(Append(s, x)) = Ids(s) \union IdOf(x)
           /\ Rising(s) /\ AllBelow(Ids(s), IdOf(x)) => Rising(Append(s, x))
<1> DEFINE t == Append(s, x)
           n == Len(s)
<1>1. /\ t \in Seq(Lines) /\ DOMAIN t = 1..(n + 1) /\ DOMAIN s = 1..n /\ n \in Nat
      /\ t[n + 1] = x /\ \A i \in 1..n : t[i] = s[i]
  BY AppendProperties
<1> HIDE DEF t, n
<1>2. Ids(t) = Ids(s) \union IdOf(x)
  <2>1. ASSUME NEW m \in Ids(t) PROVE m \in Ids(s) \union IdOf(x)
    <3>1. PICK i \in 1..(n + 1) : t[i].kind = "event" /\ m = t[i].of
      BY <1>1, <2>1 DEF Ids
    <3>2. CASE i = n + 1
      BY <1>1, <3>1, <3>2 DEF IdOf
    <3>3. CASE i # n + 1
      <4>1. i \in 1..n
        BY <1>1, <3>3
      <4> QED
        BY <1>1, <3>1, <4>1 DEF Ids
    <3> QED
      BY <3>2, <3>3
  <2>2. ASSUME NEW m \in Ids(s) PROVE m \in Ids(t)
    <3>1. PICK i \in 1..n : s[i].kind = "event" /\ m = s[i].of
      BY <1>1, <2>2 DEF Ids
    <3>2. i \in 1..(n + 1) /\ t[i] = s[i]
      BY <1>1
    <3> QED
      BY <1>1, <3>1, <3>2 DEF Ids
  <2>3. ASSUME NEW m \in IdOf(x) PROVE m \in Ids(t)
    <3>1. x.kind = "event" /\ m = x.of
      BY <2>3 DEF IdOf
    <3>2. n + 1 \in 1..(n + 1)
      BY <1>1
    <3> QED
      BY <1>1, <3>1, <3>2 DEF Ids
  <2> QED
    BY <2>1, <2>2, <2>3
<1>3. ASSUME Rising(s), AllBelow(Ids(s), IdOf(x)) PROVE Rising(t)
  <2> SUFFICES ASSUME NEW i \in 1..(n + 1), NEW j \in 1..(n + 1), i < j,
                      t[i].kind = "event", t[j].kind = "event"
               PROVE  t[i].of < t[j].of
    BY <1>1 DEF Rising
  <2>1. i \in 1..n /\ t[i] = s[i]
    BY <1>1
  <2>2. CASE j = n + 1
    <3>1. s[i].of \in Ids(s) /\ x.of \in IdOf(x)
      BY <1>1, <2>1, <2>2 DEF Ids, IdOf
    <3> QED
      BY <1>1, <1>3, <2>1, <2>2, <3>1 DEF AllBelow
  <2>3. CASE j # n + 1
    <3>1. j \in 1..n /\ t[j] = s[j]
      BY <1>1, <2>3
    <3> QED
      BY <1>1, <1>3, <2>1, <3>1 DEF Rising
  <2> QED
    BY <2>2, <2>3
<1> QED
  BY <1>1, <1>2, <1>3 DEF t

(* The events of the first line and of the others.                         *)
LEMMA IdsTail ==
    ASSUME NEW s \in Seq(Lines), s # <<>>
    PROVE  /\ Tail(s) \in Seq(Lines) /\ Head(s) \in Lines
           /\ Ids(s) = IdOf(Head(s)) \union Ids(Tail(s))
           /\ Rising(s) => Rising(Tail(s)) /\ AllBelow(IdOf(Head(s)), Ids(Tail(s)))
<1> DEFINE t == Tail(s)
           x == Head(s)
           n == Len(s)
<1>1. /\ t \in Seq(Lines) /\ x \in Lines /\ n \in Nat /\ n >= 1
      /\ DOMAIN t = 1..(n - 1) /\ DOMAIN s = 1..n
      /\ x = s[1] /\ \A i \in 1..(n - 1) : t[i] = s[i + 1]
  OBVIOUS
<1> HIDE DEF t, x, n
<1>2. Ids(s) = IdOf(x) \union Ids(t)
  <2>1. ASSUME NEW m \in Ids(s) PROVE m \in IdOf(x) \union Ids(t)
    <3>1. PICK i \in 1..n : s[i].kind = "event" /\ m = s[i].of
      BY <1>1, <2>1 DEF Ids
    <3>2. CASE i = 1
      BY <1>1, <3>1, <3>2 DEF IdOf
    <3>3. CASE i # 1
      <4>1. i - 1 \in 1..(n - 1) /\ (i - 1) + 1 = i
        BY <1>1, <3>3
      <4>2. t[i - 1] = s[i]
        BY <1>1, <4>1
      <4> QED
        BY <1>1, <3>1, <4>1, <4>2 DEF Ids
    <3> QED
      BY <3>2, <3>3
  <2>2. ASSUME NEW m \in Ids(t) PROVE m \in Ids(s)
    <3>1. PICK i \in 1..(n - 1) : t[i].kind = "event" /\ m = t[i].of
      BY <1>1, <2>2 DEF Ids
    <3>2. i + 1 \in 1..n /\ t[i] = s[i + 1]
      BY <1>1
    <3> QED
      BY <1>1, <3>1, <3>2 DEF Ids
  <2>3. ASSUME NEW m \in IdOf(x) PROVE m \in Ids(s)
    <3>1. x.kind = "event" /\ m = x.of
      BY <2>3 DEF IdOf
    <3>2. 1 \in 1..n
      BY <1>1
    <3> QED
      BY <1>1, <3>1, <3>2 DEF Ids
  <2> QED
    BY <2>1, <2>2, <2>3
<1>3. ASSUME Rising(s) PROVE Rising(t)
  <2> SUFFICES ASSUME NEW i \in 1..(n - 1), NEW j \in 1..(n - 1), i < j,
                      t[i].kind = "event", t[j].kind = "event"
               PROVE  t[i].of < t[j].of
    BY <1>1 DEF Rising
  <2>1. i + 1 \in 1..n /\ j + 1 \in 1..n /\ i + 1 < j + 1 /\ t[i] = s[i + 1] /\ t[j] = s[j + 1]
    BY <1>1
  <2> QED
    BY <1>1, <1>3, <2>1 DEF Rising
<1>4. ASSUME Rising(s) PROVE AllBelow(IdOf(x), Ids(t))
  <2> SUFFICES ASSUME NEW i \in 1..(n - 1), t[i].kind = "event", x.kind = "event"
               PROVE  x.of < t[i].of
    BY <1>1 DEF AllBelow, Ids, IdOf
  <2>1. i + 1 \in 1..n /\ 1 \in 1..n /\ 1 < i + 1 /\ t[i] = s[i + 1]
    BY <1>1
  <2> QED
    BY <1>1, <1>4, <2>1 DEF Rising
<1> QED
  BY <1>1, <1>2, <1>3, <1>4 DEF t, x

(* The events of two sequences one after the other.                        *)
LEMMA IdsConcat ==
    ASSUME NEW s \in Seq(Lines), NEW t \in Seq(Lines)
    PROVE  /\ s \o t \in Seq(Lines)
           /\ Ids(s \o t) = Ids(s) \union Ids(t)
           /\ Rising(s) /\ Rising(t) /\ AllBelow(Ids(s), Ids(t)) => Rising(s \o t)
<1> DEFINE u == s \o t
           n == Len(s)
           m == Len(t)
<1>1. /\ u \in Seq(Lines) /\ n \in Nat /\ m \in Nat
      /\ DOMAIN s = 1..n /\ DOMAIN t = 1..m /\ DOMAIN u = 1..(n + m)
      /\ \A i \in 1..n : i \in 1..(n + m) /\ u[i] = s[i]
      /\ \A i \in 1..m : n + i \in 1..(n + m) /\ u[n + i] = t[i]
  OBVIOUS
<1> HIDE DEF u, n, m
<1>2. ASSUME NEW i \in 1..(n + m), i \notin 1..n
      PROVE  i - n \in 1..m /\ n + (i - n) = i /\ u[i] = t[i - n]
  <2>1. i - n \in 1..m /\ n + (i - n) = i
    BY <1>1, <1>2
  <2> QED
    BY <1>1, <2>1
<1>3. Ids(u) = Ids(s) \union Ids(t)
  <2>1. ASSUME NEW k \in Ids(u) PROVE k \in Ids(s) \union Ids(t)
    <3>1. PICK i \in 1..(n + m) : u[i].kind = "event" /\ k = u[i].of
      BY <1>1, <2>1 DEF Ids
    <3>2. CASE i \in 1..n
      BY <1>1, <3>1, <3>2 DEF Ids
    <3>3. CASE i \notin 1..n
      <4>1. i - n \in 1..m /\ u[i] = t[i - n]
        BY <1>2, <3>3
      <4> QED
        BY <1>1, <3>1, <4>1 DEF Ids
    <3> QED
      BY <3>2, <3>3
  <2>2. ASSUME NEW k \in Ids(s) PROVE k \in Ids(u)
    <3>1. PICK i \in 1..n : s[i].kind = "event" /\ k = s[i].of
      BY <1>1, <2>2 DEF Ids
    <3> QED
      BY <1>1, <3>1 DEF Ids
  <2>3. ASSUME NEW k \in Ids(t) PROVE k \in Ids(u)
    <3>1. PICK i \in 1..m : t[i].kind = "event" /\ k = t[i].of
      BY <1>1, <2>3 DEF Ids
    <3> QED
      BY <1>1, <3>1 DEF Ids
  <2> QED
    BY <2>1, <2>2, <2>3
<1>4. ASSUME Rising(s), Rising(t), AllBelow(Ids(s), Ids(t)) PROVE Rising(u)
  <2> SUFFICES ASSUME NEW i \in 1..(n + m), NEW j \in 1..(n + m), i < j,
                      u[i].kind = "event", u[j].kind = "event"
               PROVE  u[i].of < u[j].of
    BY <1>1 DEF Rising
  <2>1. CASE j \in 1..n
    <3>1. i \in 1..n
      BY <1>1, <2>1
    <3> QED
      BY <1>1, <1>4, <2>1, <3>1 DEF Rising
  <2>2. CASE i \in 1..n /\ j \notin 1..n
    <3>1. j - n \in 1..m /\ u[j] = t[j - n] /\ u[i] = s[i]
      BY <1>1, <1>2, <2>2
    <3>2. u[i].of \in Ids(s) /\ u[j].of \in Ids(t)
      BY <1>1, <2>2, <3>1 DEF Ids
    <3> QED
      BY <1>4, <3>2 DEF AllBelow
  <2>3. CASE i \notin 1..n /\ j \notin 1..n
    <3>1. i - n \in 1..m /\ u[i] = t[i - n] /\ j - n \in 1..m /\ u[j] = t[j - n]
      BY <1>2, <2>3
    <3>2. i - n < j - n
      BY <1>1
    <3> QED
      BY <1>1, <1>4, <3>1, <3>2 DEF Rising
  <2> QED
    BY <2>1, <2>2, <2>3
<1> QED
  BY <1>1, <1>3, <1>4 DEF u

(* Without lines there are no events.                                      *)
LEMMA IdsEmpty == Ids(<<>>) = {} /\ Rising(<<>>)
BY DEF Ids, Rising

(* The events among lines are these events, in their order.                *)
LEMMA IdsOnly ==
    ASSUME NEW s \in Seq(Lines), Rising(s)
    PROVE  LET r == Only(s, EventKind)
           IN  /\ r \in Seq(Lines) /\ Rising(r) /\ Ids(r) = Ids(s)
               /\ \A i \in DOMAIN r : r[i].kind = "event"
<1> DEFINE All(r) == \A i \in DOMAIN r : r[i].kind = "event"
           Same(u) == LET r == Only(u, EventKind)
                      IN  r \in Seq(Lines) /\ Ids(r) = Ids(u) /\ All(r)
                          /\ (Rising(u) => Rising(r))
           I == {i \in 0..Len(s) : Rising(SubSeq(s, 1, i)) /\ Same(SubSeq(s, 1, i))}
<1>1. 0 \in I
  <2>1. 0 \in 0..Len(s) /\ SubSeq(s, 1, 0) = <<>>
    BY FirstLines
  <2>2. Rising(<<>>) /\ Same(<<>>)
    <3>1. <<>> \in Seq(Lines) /\ DOMAIN <<>> = {} /\ Only(<<>>, EventKind) = <<>>
      BY OnlyEmpty
    <3> HIDE DEF Only
    <3> QED
      BY <3>1, IdsEmpty
  <2> HIDE DEF Same
  <2> QED
    BY <2>1, <2>2
<1>2. ASSUME NEW i \in 0..Len(s), i \in I, i + 1 <= Len(s) PROVE i + 1 \in I
  <2> DEFINE u == SubSeq(s, 1, i)
             x == s[i + 1]
             r == Only(u, EventKind)
  <2>1. /\ u \in Seq(Lines) /\ x \in Lines /\ i + 1 \in 0..Len(s)
        /\ SubSeq(s, 1, i + 1) = Append(u, x)
        /\ r \in Seq(Lines) /\ Ids(r) = Ids(u) /\ All(r) /\ Rising(r) /\ Rising(u)
    BY <1>2, FirstLines
  <2>2. Rising(Append(u, x))
    <3>1. Len(s) \in Nat /\ \A j \in 1..(i + 1) : j \in 1..Len(s) /\ SubSeq(s, 1, i + 1)[j] = s[j]
      BY <1>2
    <3>2. DOMAIN SubSeq(s, 1, i + 1) = 1..(i + 1) /\ DOMAIN s = 1..Len(s)
      BY <1>2
    <3> QED
      BY <2>1, <3>1, <3>2 DEF Rising
  <2>3. Only(Append(u, x), EventKind) = IF x.kind \in EventKind THEN Append(r, x) ELSE r
    BY <2>1, OnlyAppend
  <2> HIDE DEF u, x, r
  <2>4. CASE x.kind \in EventKind
    <3>1. Append(r, x) \in Seq(Lines) /\ Ids(Append(r, x)) = Ids(Append(u, x))
      BY <2>1, IdsAppend
    <3>2. All(Append(r, x))
      <4>1. Len(r) \in Nat /\ DOMAIN r = 1..Len(r) /\ DOMAIN Append(r, x) = 1..(Len(r) + 1)
            /\ Append(r, x)[Len(r) + 1] = x /\ \A j \in 1..Len(r) : Append(r, x)[j] = r[j]
        BY <2>1, AppendProperties
      <4> QED
        BY <2>1, <2>4, <4>1 DEF EventKind
    <3>3. Rising(Append(r, x))
      <4>1. AllBelow(Ids(u), IdOf(x))
        <5> SUFFICES ASSUME NEW m \in Ids(u), x.kind = "event" PROVE m < x.of
          BY DEF AllBelow, IdOf
        <5>1. PICK j \in DOMAIN u : u[j].kind = "event" /\ m = u[j].of
          BY DEF Ids
        <5>2. /\ Len(u) \in Nat /\ DOMAIN u = 1..Len(u) /\ Append(u, x)[j] = u[j]
              /\ DOMAIN Append(u, x) = 1..(Len(u) + 1) /\ Append(u, x)[Len(u) + 1] = x
          BY <2>1, <5>1, AppendProperties
        <5>3. j \in 1..(Len(u) + 1) /\ Len(u) + 1 \in 1..(Len(u) + 1) /\ j < Len(u) + 1
          BY <5>1, <5>2
        <5> QED
          BY <2>2, <5>1, <5>2, <5>3 DEF Rising
      <4> QED
        BY <2>1, <4>1, IdsAppend
    <3>4. Same(Append(u, x))
      BY <2>3, <2>4, <3>1, <3>2, <3>3
    <3> HIDE DEF Same
    <3> QED
      BY <2>1, <2>2, <3>4
  <2>5. CASE x.kind \notin EventKind
    <3>1. Ids(Append(u, x)) = Ids(u)
      <4>1. IdOf(x) = {}
        BY <2>5 DEF IdOf, EventKind
      <4>2. Ids(Append(u, x)) = Ids(u) \union IdOf(x)
        BY <2>1, IdsAppend
      <4> QED
        BY <4>1, <4>2
    <3>2. Same(Append(u, x))
      BY <2>1, <2>3, <2>5, <3>1
    <3> HIDE DEF Same
    <3> QED
      BY <2>1, <2>2, <3>2
  <2> QED
    BY <2>4, <2>5
<1> HIDE DEF I
<1>3. Len(s) \in Nat
  OBVIOUS
<1>4. \A i \in 0..Len(s) : i \in I
  BY <1>1, <1>2, <1>3, CountInduction
<1>5. Len(s) \in I
  BY <1>3, <1>4
<1>6. Same(s)
  <2>1. SubSeq(s, 1, Len(s)) = s
    BY FirstLines
  <2> HIDE DEF Same
  <2> QED
    BY <1>5, <2>1 DEF I
<1> QED
  BY <1>6

(* Some of what is on its way is dropped.                                  *)
LEMMA OrderWeakens ==
    ASSUME NEW a, NEW b, NEW c, NEW d, NEW n \in Nat, InOrder(a, b, c, d, n),
           NEW e, NEW f, NEW g, NEW h, NEW m \in Nat, n <= m,
           Ids(e) \subseteq Ids(a), Ids(f) \subseteq Ids(b), Ids(g) \subseteq Ids(c),
           Ids(h) \subseteq Ids(d), Rising(e), Rising(f), Rising(g), Rising(h)
    PROVE  InOrder(e, f, g, h, m)
<1>1. Ids(e) \union Ids(f) \union Ids(g) \union Ids(h) \subseteq 1..n /\ 1..n \subseteq 1..m
  BY DEF InOrder
<1>2. \A S, T, U, V : AllBelow(S, T) /\ U \subseteq S /\ V \subseteq T => AllBelow(U, V)
  BY DEF AllBelow
<1>3. /\ AllBelow(Ids(e), Ids(f)) /\ AllBelow(Ids(e), Ids(g)) /\ AllBelow(Ids(e), Ids(h))
      /\ AllBelow(Ids(f), Ids(g)) /\ AllBelow(Ids(f), Ids(h)) /\ AllBelow(Ids(g), Ids(h))
  <2> HIDE DEF Ids, AllBelow
  <2> QED
    BY <1>2 DEF InOrder
<1> HIDE DEF Ids, AllBelow, Rising
<1> QED
  BY <1>1, <1>3 DEF InOrder

(* A line is read from the connection.                                     *)
LEMMA OrderReceived ==
    ASSUME NEW a \in Seq(Lines), NEW b \in Seq(Lines), NEW c \in Seq(Lines),
           NEW d \in Seq(Lines), NEW n \in Nat, InOrder(a, b, c, d, n), d # <<>>
    PROVE  InOrder(a, b, c, Tail(d), n) /\ InOrder(a, b, Append(c, Head(d)), Tail(d), n)
<1> DEFINE x == Head(d)
           t == Tail(d)
           u == Append(c, x)
<1>1. /\ x \in Lines /\ Ids(d) = IdOf(x) \union Ids(t)
      /\ Rising(t) /\ AllBelow(IdOf(x), Ids(t))
  BY IdsTail DEF InOrder
<1> HIDE DEF x, t
<1>2. AllBelow(Ids(c), IdOf(x)) /\ AllBelow(Ids(c), Ids(t))
  BY <1>1 DEF InOrder, AllBelow
<1>3. Ids(u) = Ids(c) \union IdOf(x) /\ Rising(u)
  BY <1>1, <1>2, IdsAppend DEF InOrder
<1> HIDE DEF u
<1>4. InOrder(a, b, c, t, n)
  BY <1>1, <1>2 DEF InOrder, AllBelow
<1>5. InOrder(a, b, u, t, n)
  BY <1>1, <1>2, <1>3 DEF InOrder, AllBelow
<1> QED
  BY <1>4, <1>5 DEF x, t, u

(* wait_for_output reads a line.                                           *)
LEMMA OrderRead ==
    ASSUME NEW a \in Seq(Lines), NEW b \in Seq(Lines), NEW c \in Seq(Lines),
           NEW d \in Seq(Lines), NEW n \in Nat, InOrder(a, b, c, d, n), c # <<>>
    PROVE  InOrder(a, Append(b, Head(c)), Tail(c), d, n)
<1> DEFINE x == Head(c)
           t == Tail(c)
           u == Append(b, x)
<1>1. /\ x \in Lines /\ Ids(c) = IdOf(x) \union Ids(t)
      /\ Rising(t) /\ AllBelow(IdOf(x), Ids(t))
  BY IdsTail DEF InOrder
<1> HIDE DEF x, t
<1>2. AllBelow(Ids(b), IdOf(x)) /\ AllBelow(Ids(b), Ids(t))
  BY <1>1 DEF InOrder, AllBelow
<1>3. Ids(u) = Ids(b) \union IdOf(x) /\ Rising(u)
  BY <1>1, <1>2, IdsAppend DEF InOrder
<1> HIDE DEF u
<1>4. InOrder(a, u, t, d, n)
  BY <1>1, <1>2, <1>3 DEF InOrder, AllBelow
<1> QED
  BY <1>4 DEF x, t, u

(* _filter_events puts what was read where it belongs.                     *)
LEMMA OrderFiltered ==
    ASSUME NEW a \in Seq(Lines), NEW b \in Seq(Lines), NEW c \in Seq(Lines),
           NEW d \in Seq(Lines), NEW n \in Nat, InOrder(a, b, c, d, n),
           \A i \in DOMAIN a : a[i].kind = "event"
    PROVE  LET r == a \o Only(b, EventKind)
           IN  /\ InOrder(r, <<>>, c, d, n) /\ Ids(r) = Ids(a) \union Ids(b)
               /\ \A i \in DOMAIN r : r[i].kind = "event"
<1> DEFINE o == Only(b, EventKind)
           r == a \o o
<1>1. /\ o \in Seq(Lines) /\ Rising(o) /\ Ids(o) = Ids(b)
      /\ \A i \in DOMAIN o : o[i].kind = "event"
  BY IdsOnly DEF InOrder
<1> HIDE DEF o
<1>2. Ids(r) = Ids(a) \union Ids(o) /\ Rising(r)
  BY <1>1, IdsConcat DEF InOrder
<1>3. \A i \in DOMAIN r : r[i].kind = "event"
  <2>1. /\ Len(a) \in Nat /\ Len(o) \in Nat /\ DOMAIN a = 1..Len(a) /\ DOMAIN o = 1..Len(o)
        /\ DOMAIN r = 1..(Len(a) + Len(o))
        /\ \A i \in 1..Len(a) : r[i] = a[i]
        /\ \A i \in 1..Len(o) : r[Len(a) + i] = o[i]
    BY <1>1
  <2> HIDE DEF r
  <2> TAKE i \in DOMAIN r
  <2>2. CASE i \in 1..Len(a)
    BY <2>1, <2>2
  <2>3. CASE i \notin 1..Len(a)
    <3>1. i - Len(a) \in 1..Len(o) /\ Len(a) + (i - Len(a)) = i
      BY <2>1, <2>3
    <3> QED
      BY <1>1, <2>1, <3>1
  <2> QED
    BY <2>2, <2>3
<1> HIDE DEF r
<1>4. InOrder(r, <<>>, c, d, n)
  BY <1>1, <1>2, IdsEmpty DEF InOrder, AllBelow
<1> QED
  BY <1>1, <1>2, <1>3, <1>4 DEF r, o

(* The board writes a line.                                                *)
LEMMA OrderWritten ==
    ASSUME NEW a \in Seq(Lines), NEW b \in Seq(Lines), NEW c \in Seq(Lines),
           NEW d \in Seq(Lines), NEW n \in Nat, InOrder(a, b, c, d, n),
           NEW x \in Lines, NEW m \in Nat, n <= m,
           IdOf(x) \subseteq (n + 1)..m
    PROVE  InOrder(a, b, c, Append(d, x), m)
<1> DEFINE u == Append(d, x)
<1>1. /\ Ids(a) \subseteq 1..n /\ Ids(b) \subseteq 1..n
      /\ Ids(c) \subseteq 1..n /\ Ids(d) \subseteq 1..n
  BY DEF InOrder
<1>2. \A S : S \subseteq 1..n => AllBelow(S, IdOf(x))
  BY DEF AllBelow
<1>3. AllBelow(Ids(a), IdOf(x)) /\ AllBelow(Ids(b), IdOf(x)) /\ AllBelow(Ids(c), IdOf(x))
      /\ AllBelow(Ids(d), IdOf(x))
  BY <1>1, <1>2
<1>4. Ids(u) = Ids(d) \union IdOf(x) /\ Rising(u)
  BY <1>3, IdsAppend DEF InOrder
<1> HIDE DEF u
<1>5. 1..n \subseteq 1..m /\ (n + 1)..m \subseteq 1..m
  OBVIOUS
<1>6. \A S, T, U : AllBelow(S, T) /\ AllBelow(S, U) => AllBelow(S, T \union U)
  BY DEF AllBelow
<1>7. AllBelow(Ids(a), Ids(u)) /\ AllBelow(Ids(b), Ids(u)) /\ AllBelow(Ids(c), Ids(u))
  BY <1>3, <1>4, <1>6 DEF InOrder
<1>8. Ids(a) \union Ids(b) \union Ids(c) \union Ids(u) \subseteq 1..m
  BY <1>1, <1>4, <1>5
<1>9. InOrder(a, b, c, u, m)
  BY <1>4, <1>7, <1>8 DEF InOrder
<1> QED
  BY <1>9 DEF u

(* At first nothing was written.                                           *)
LEMMA InitOrdered == Init => OInv
<1> SUFFICES ASSUME Init PROVE OInv
  OBVIOUS
<1>1. events = <<>> /\ Read = <<>> /\ Queued = <<>> /\ toHost = <<>> /\ emitted = 0
  BY DEF Init, Read, Queued
<1>2. InOrder(<<>>, <<>>, <<>>, <<>>, 0)
  BY IdsEmpty DEF InOrder, AllBelow
<1>3. DOMAIN events = {}
  BY <1>1
<1> QED
  BY <1>1, <1>2, <1>3 DEF OInv

(* The types of the queues between the board and BleDevice.events.         *)
LEMMA QueueTypes ==
    ASSUME TInv
    PROVE  /\ events \in Seq(Lines) /\ Read \in Seq(Lines) /\ Queued \in Seq(Lines)
           /\ toHost \in Seq(Lines) /\ emitted \in Nat
<1>1. <<>> \in Seq(Lines)
  OBVIOUS
<1> QED
  BY <1>1, HostTypes DEF TInv, TypeOK, Placed, Read, Queued

(* The parts of OInv that an action leaves or empties.                     *)
LEMMA OrderKept ==
    ASSUME TInv, OInv,
           events' = events \/ events' = <<>>, Read' = Read \/ Read' = <<>>,
           Queued' = Queued \/ Queued' = <<>>, toHost' = toHost, emitted' = emitted
    PROVE  OInv'
<1>1. emitted \in Nat
  BY HostTypes
<1>2. InOrder(events, Read, Queued, toHost, emitted)
  BY DEF OInv
<1>3. /\ Ids(events') \subseteq Ids(events) /\ Rising(events')
      /\ Ids(Read') \subseteq Ids(Read) /\ Rising(Read')
      /\ Ids(Queued') \subseteq Ids(Queued) /\ Rising(Queued')
      /\ Ids(toHost') \subseteq Ids(toHost) /\ Rising(toHost')
  <2> HIDE DEF Ids, Rising, Read, Queued
  <2> QED
    BY <1>2, IdsEmpty DEF InOrder
<1>4. InOrder(events', Read', Queued', toHost', emitted')
  <2> HIDE DEF InOrder, Ids, Rising, Read, Queued
  <2> QED
    BY <1>1, <1>2, <1>3, OrderWeakens
<1>5. \A i \in DOMAIN events' : events'[i].kind = "event"
  <2>1. DOMAIN <<>> = {}
    OBVIOUS
  <2> QED
    BY <2>1 DEF OInv
<1> QED
  BY <1>4, <1>5 DEF OInv

(* The threads and the board.                                              *)
LEMMA ReaderOrdered ==
    ASSUME TInv, OInv, NEW d \in Devices, Reader(d) \/ WriterWrites(d)
    PROVE  OInv'
<1>0. iq \in [Devices -> Seq(Lines)]
  BY DEF TInv, TypeOK
<1>1. CASE ReaderReads(d)
  <2>1. /\ toHost # <<>> /\ toHost' = Tail(toHost) /\ events' = events /\ emitted' = emitted
        /\ Read' = Read /\ place' = place /\ device' = device
    BY <1>1 DEF ReaderReads, Read, progress, board
  <2>2. Queued' = Queued \/ Queued' = Append(Queued, Head(toHost))
    BY <1>0, <1>1, <2>1 DEF ReaderReads, Queued, Used
  <2>3. /\ InOrder(events, Read, Queued, Tail(toHost), emitted)
        /\ InOrder(events, Read, Append(Queued, Head(toHost)), Tail(toHost), emitted)
    <3>1. InOrder(events, Read, Queued, toHost, emitted)
      BY DEF OInv
    <3> HIDE DEF InOrder, Read, Queued
    <3> QED
      BY <2>1, <3>1, QueueTypes, OrderReceived
  <2> HIDE DEF InOrder, Read, Queued
  <2> QED
    BY <2>1, <2>2, <2>3 DEF OInv
<1>2. CASE ReaderEnds(d)
  BY <1>2, OrderKept DEF ReaderEnds, progress, board, queues, Read, Queued
<1>3. CASE WriterWrites(d)
  BY <1>3, OrderKept DEF WriterWrites, progress, board, Read, Queued
<1> QED
  BY <1>1, <1>2, <1>3 DEF Reader

(* What the board writes comes last.                                       *)
LEMMA BoardOrdered ==
    ASSUME TInv, OInv, Board
    PROVE  OInv'
<1>0. executing \in Nat /\ emitted \in Nat
  BY HostTypes
<1>1. events' = events /\ Read' = Read /\ Queued' = Queued
  BY DEF Board, BoardBoots, BoardExecutes, BoardEvent, BoardAnswers, Read, Queued, progress, queues
<1>2. InOrder(events, Read, Queued, toHost, emitted)
  BY DEF OInv
<1>3. CASE BoardBoots \/ BoardExecutes
  BY <1>1, <1>3, OrderKept DEF BoardBoots, BoardExecutes
<1> SUFFICES ASSUME BoardEvent \/ BoardAnswers
             PROVE  InOrder(events, Read, Queued, toHost', emitted')
  BY <1>1, <1>3 DEF OInv, Board
<1>4. \A s \in Seq(Lines), x, y \in Lines : s \o <<x, y>> = Append(Append(s, x), y)
  OBVIOUS
<1>5. CASE BoardEvent
  <2> DEFINE e == Event(emitted + 1)
             a == Answer(executing, "first")
             m == emitted + 1
  <2>1. e \in Lines /\ a \in Lines /\ emitted' = m /\ m \in Nat /\ emitted <= m
    BY <1>0, <1>5, LineTypes DEF BoardEvent
  <2>2. IdOf(e) \subseteq (emitted + 1)..m /\ IdOf(a) \subseteq (emitted + 1)..emitted
    BY <1>0 DEF IdOf, Event, Answer
  <2>3. toHost' = Append(Append(toHost, a), e) \/ toHost' = Append(toHost, e)
    <3>1. toHost' = toHost \o <<a, e>> \/ toHost' = Append(toHost, e)
      BY <1>5 DEF BoardEvent
    <3>2. toHost \in Seq(Lines)
      BY QueueTypes
    <3> HIDE DEF a, e
    <3> QED
      BY <1>4, <2>1, <3>1, <3>2
  <2> HIDE DEF e, a, m, InOrder, Read, Queued
  <2>4. InOrder(events, Read, Queued, Append(toHost, a), emitted)
    BY <1>0, <1>2, <2>1, <2>2, QueueTypes, OrderWritten
  <2>5. Append(toHost, a) \in Seq(Lines)
    BY <2>1, QueueTypes
  <2>6. InOrder(events, Read, Queued, Append(Append(toHost, a), e), m)
    BY <1>0, <2>1, <2>2, <2>4, <2>5, QueueTypes, OrderWritten
  <2>7. InOrder(events, Read, Queued, Append(toHost, e), m)
    BY <1>0, <1>2, <2>1, <2>2, QueueTypes, OrderWritten
  <2> QED
    BY <2>1, <2>3, <2>6, <2>7
<1>6. CASE BoardAnswers
  <2>1. PICK code \in {"expected", "other"} :
          toHost' = toHost \o <<Answer(executing, IF split THEN "second" ELSE "whole"),
                                Retcode(executing, code)>>
    BY <1>6 DEF BoardAnswers
  <2> DEFINE a == Answer(executing, IF split THEN "second" ELSE "whole")
             r == Retcode(executing, code)
  <2>2. a \in Lines /\ r \in Lines /\ emitted' = emitted /\ emitted <= emitted
    BY <1>0, <1>6, LineTypes DEF BoardAnswers
  <2>3. IdOf(a) \subseteq (emitted + 1)..emitted /\ IdOf(r) \subseteq (emitted + 1)..emitted
    BY DEF IdOf, Answer, Retcode
  <2>4. toHost' = toHost \o <<a, r>>
    BY <2>1
  <2>5. toHost' = Append(Append(toHost, a), r)
    <3>1. toHost \in Seq(Lines)
      BY QueueTypes
    <3> HIDE DEF a, r
    <3> QED
      BY <1>4, <2>2, <2>4, <3>1
  <2> HIDE DEF a, r, InOrder, Read, Queued
  <2>6. InOrder(events, Read, Queued, Append(toHost, a), emitted)
    BY <1>0, <1>2, <2>2, <2>3, QueueTypes, OrderWritten
  <2>7. Append(toHost, a) \in Seq(Lines)
    BY <2>2, QueueTypes
  <2>8. InOrder(events, Read, Queued, Append(Append(toHost, a), r), emitted)
    BY <1>0, <2>2, <2>3, <2>6, <2>7, QueueTypes, OrderWritten
  <2> QED
    BY <2>2, <2>5, <2>8
<1> QED
  BY <1>5, <1>6

(* The main thread.                                                        *)
LEMMA ReadLineOrdered ==
    ASSUME TInv, OInv, ReadLine
    PROVE  OInv'
<1> DEFINE x == Head(Queued)
           b == Append(Read, x)
           c == Tail(Queued)
<1>0. iq \in [Devices -> Seq(Lines)] /\ device \in Devices
  BY DEF TInv, TypeOK, Placed, ReadLine
<1>1. /\ Read = lines /\ Queued = iq[device] /\ Queued # <<>> /\ iq'[device] = c /\ lines' = b
      /\ toHost' = toHost /\ emitted' = emitted /\ device' = device
  BY <1>0 DEF ReadLine, Read, Queued, board
<1>2. InOrder(events, b, c, toHost, emitted)
  <2>1. InOrder(events, Read, Queued, toHost, emitted)
    BY DEF OInv
  <2> HIDE DEF InOrder, Read, Queued
  <2> QED
    BY <1>1, <2>1, QueueTypes, OrderRead
<1>3. \A i \in DOMAIN events : events[i].kind = "event"
  BY DEF OInv
<1>4. b \in Seq(Lines) /\ c \in Seq(Lines)
  <2>1. x \in Lines /\ c \in Seq(Lines)
    <3> HIDE DEF Queued
    <3> QED
      BY <1>1, QueueTypes, HeadAndTail
  <2> HIDE DEF x, c
  <2> QED
    BY <2>1, QueueTypes
<1>5. CASE Found(x)
  <2> DEFINE r == events \o Only(b, EventKind)
  <2>1. InOrder(r, <<>>, c, toHost, emitted) /\ \A i \in DOMAIN r : r[i].kind = "event"
    <3> HIDE DEF b, c, InOrder
    <3> QED
      BY <1>2, <1>3, <1>4, QueueTypes, OrderFiltered
  <2>2. events' = r /\ place' = "send"
    BY <1>1, <1>5 DEF ReadLine, GoOn
  <2>3. Read' = <<>> /\ Queued' = c
    BY <1>1, <2>2 DEF Read, Queued
  <2> HIDE DEF r, c, InOrder, Read, Queued
  <2> QED
    BY <1>1, <2>1, <2>2, <2>3 DEF OInv
<1>6. CASE ~Found(x)
  <2>1. events' = events /\ place' = place /\ place = "wait"
    BY <1>1, <1>6 DEF ReadLine, progress
  <2>2. Read' = b /\ Queued' = c
    BY <1>1, <2>1 DEF Read, Queued
  <2> HIDE DEF b, c, InOrder, Read, Queued
  <2> QED
    BY <1>1, <1>2, <1>3, <2>1, <2>2 DEF OInv
<1> QED
  BY <1>5, <1>6

(* The main thread keeps the order.                                        *)
LEMMA MainOrdered ==
    ASSUME TInv, OInv, Main
    PROVE  OInv'
<1>0. iq \in [Devices -> Seq(Lines)]
  BY DEF TInv, TypeOK
<1>1. CASE CreateDevice
  <2>1. device' \in Devices
    BY <1>1, AllocateTyped DEF CreateDevice, TInv, Placed
  <2>2. Queued' = <<>> /\ Read' = <<>>
    BY <1>1, <2>1 DEF CreateDevice, Queued, Read
  <2> QED
    BY <1>1, <2>2, OrderKept DEF CreateDevice
<1>2. CASE FlushAfterReset
  <2>1. device \in Devices
    BY <1>2 DEF FlushAfterReset, TInv, Placed
  <2>2. Queued' = <<>> /\ Read' = <<>>
    BY <1>0, <1>2, <2>1 DEF FlushAfterReset, Queued, Read
  <2> QED
    BY <1>2, <2>2, OrderKept DEF FlushAfterReset, board
<1>3. CASE SendSync \/ SendAsync \/ SendLast
  <2>1. Send
    BY <1>3 DEF SendSync, SendAsync, SendLast
  <2>2. device \in Devices
    BY <2>1 DEF Send, TInv, Placed
  <2>3. Queued' = <<>> /\ Read' = <<>>
    BY <1>0, <2>1, <2>2 DEF Send, Queued, Read
  <2> QED
    BY <2>1, <2>3, OrderKept DEF Send, board
<1>4. CASE AccessResult
  <2>1. Queued' = Queued /\ Read' = <<>>
    BY <1>4 DEF AccessResult, Queued, Read, queues
  <2> QED
    BY <1>4, <2>1, OrderKept DEF AccessResult, board
<1>5. CASE ReadLine
  BY <1>5, ReadLineOrdered
<1>6. CASE WaitRunsOut \/ WaitTimesOut \/ TestEnds
  <2>1. (Queued' = Queued \/ Queued' = <<>>) /\ Read' = <<>>
    BY <1>6 DEF WaitRunsOut, WaitTimesOut, TestEnds, GoOn, Queued, Read, queues
  <2> QED
    BY <1>6, <2>1, OrderKept DEF WaitRunsOut, WaitTimesOut, TestEnds, board
<1>7. CASE Stop \/ JoinReader \/ JoinWriter
  <2>1. Queued' = Queued /\ Read' = Read
    BY <1>7 DEF Stop, JoinReader, JoinWriter, stopMoves, Queued, Read
  <2> QED
    BY <1>7, <2>1, OrderKept DEF Stop, JoinReader, JoinWriter, stopMoves, board
<1> QED
  BY <1>1, <1>2, <1>3, <1>4, <1>5, <1>6, <1>7 DEF Main

(* Every step keeps the order.                                             *)
LEMMA NextOrdered == TInv /\ OInv /\ [Next]_vars => OInv'
<1> SUFFICES ASSUME TInv, OInv, [Next]_vars PROVE OInv'
  OBVIOUS
<1>1. CASE UNCHANGED vars
  BY <1>1 DEF vars, progress, queues, board, OInv, Read, Queued
<1> QED
  BY <1>1, MainOrdered, ReaderOrdered, BoardOrdered DEF Next

-----------------------------------------------------------------------------
(* What the board answered, wherever its lines are.                        *)

Elems(s) == {s[i] : i \in DOMAIN s}

(* One line more.                                                          *)
LEMMA ElemsAppend ==
    ASSUME NEW s \in Seq(Lines), NEW x \in Lines
    PROVE  Elems(Append(s, x)) = Elems(s) \union {x}
<1>1. /\ Len(s) \in Nat /\ DOMAIN s = 1..Len(s) /\ DOMAIN Append(s, x) = 1..(Len(s) + 1)
      /\ Append(s, x)[Len(s) + 1] = x /\ \A i \in 1..Len(s) : Append(s, x)[i] = s[i]
  BY AppendProperties
<1>2. 1..(Len(s) + 1) = 1..Len(s) \union {Len(s) + 1}
  BY <1>1
<1> QED
  BY <1>1, <1>2 DEF Elems

(* The lines that are left are those of these kinds.                       *)
LEMMA OnlyElems ==
    ASSUME NEW s \in Seq(Lines), NEW kinds
    PROVE  Elems(Only(s, kinds)) = {x \in Elems(s) : x.kind \in kinds}
<1> DEFINE Right(u) == Elems(Only(u, kinds)) = {x \in Elems(u) : x.kind \in kinds}
           I == {i \in 0..Len(s) : Right(SubSeq(s, 1, i))}
<1>1. 0 \in I
  <2>1. Elems(<<>>) = {}
    BY DEF Elems
  <2>2. Only(<<>>, kinds) = <<>>
    BY OnlyEmpty
  <2>3. Right(<<>>)
    BY <2>1, <2>2
  <2>4. 0 \in 0..Len(s) /\ SubSeq(s, 1, 0) = <<>>
    BY FirstLines
  <2> HIDE DEF Right
  <2> QED
    BY <2>3, <2>4
<1>2. ASSUME NEW i \in 0..Len(s), i \in I, i + 1 <= Len(s) PROVE i + 1 \in I
  <2> DEFINE u == SubSeq(s, 1, i)
             x == s[i + 1]
             r == Only(u, kinds)
  <2>1. /\ u \in Seq(Lines) /\ x \in Lines /\ i + 1 \in 0..Len(s)
        /\ SubSeq(s, 1, i + 1) = Append(u, x) /\ Right(u)
    BY <1>2, FirstLines
  <2> HIDE DEF u, x
  <2>2. r \in Seq(Lines) /\ Elems(r) = {y \in Elems(u) : y.kind \in kinds}
    BY <2>1, OnlyType
  <2>3. Only(Append(u, x), kinds) = IF x.kind \in kinds THEN Append(r, x) ELSE r
    BY <2>1, OnlyAppend
  <2> HIDE DEF r
  <2>4. Elems(Append(u, x)) = Elems(u) \union {x} /\ Elems(Append(r, x)) = Elems(r) \union {x}
    BY <2>1, <2>2, ElemsAppend
  <2>5. Right(Append(u, x))
    BY <2>2, <2>3, <2>4
  <2> HIDE DEF Right
  <2> QED
    BY <2>1, <2>5
<1> HIDE DEF I
<1>3. Len(s) \in Nat
  OBVIOUS
<1>4. \A i \in 0..Len(s) : i \in I
  BY <1>1, <1>2, <1>3, CountInduction
<1>5. Len(s) \in I
  BY <1>3, <1>4
<1>6. Right(s)
  <2>1. SubSeq(s, 1, Len(s)) = s
    BY FirstLines
  <2> HIDE DEF Right
  <2> QED
    BY <1>5, <2>1 DEF I
<1> QED
  BY <1>6

(* Without such a line nothing is left.                                    *)
LEMMA OnlyNone ==
    ASSUME NEW s \in Seq(Lines), NEW kinds, \A i \in DOMAIN s : s[i].kind \notin kinds
    PROVE  Only(s, kinds) = <<>>
<1> DEFINE r == Only(s, kinds)
<1>1. r \in Seq(Lines)
  BY OnlyType
<1>2. \A x \in Elems(s) : x.kind \notin kinds
  BY DEF Elems
<1>3. Elems(r) = {}
  <2>1. Elems(r) = {x \in Elems(s) : x.kind \in kinds}
    BY OnlyElems
  <2> HIDE DEF r
  <2> QED
    BY <1>2, <2>1
<1> HIDE DEF r
<1>7. DOMAIN r = 1..Len(r) /\ Len(r) \in Nat
  BY <1>1
<1>8. \A i \in DOMAIN r : r[i] \in Elems(r)
  BY DEF Elems
<1>4. Len(r) = 0
  <2> SUFFICES ASSUME Len(r) # 0 PROVE FALSE
    OBVIOUS
  <2>1. 1 \in DOMAIN r
    BY <1>7
  <2> QED
    BY <1>3, <1>8, <2>1
<1>5. r = <<>>
  BY <1>1, <1>4
<1> QED
  BY <1>5 DEF r

(* A line goes from the head of a sequence to the end of the one before.   *)
LEMMA MoveHead ==
    ASSUME NEW s \in Seq(Lines), NEW t \in Seq(Lines), t # <<>>
    PROVE  /\ Head(t) \in Lines /\ Tail(t) \in Seq(Lines) /\ Append(s, Head(t)) \in Seq(Lines)
           /\ Append(s, Head(t)) \o Tail(t) = s \o t
<1> DEFINE x == Head(t)
           v == Tail(t)
           u == <<x>>
<1>1. x \in Lines /\ v \in Seq(Lines)
  BY HeadAndTail
<1>2. t = u \o v
  <2>1. Len(u \o v) = Len(t) /\ u \o v \in Seq(Lines)
    BY <1>1
  <2>2. \A i \in 1..Len(t) : (u \o v)[i] = t[i]
    BY <1>1
  <2> QED
    BY <2>1, <2>2, SeqEqual
<1> HIDE DEF x, v
<1>3. u \in Seq(Lines) /\ Append(s, x) \in Seq(Lines)
  BY <1>1
<1>4. Append(s, x) = s \o u
  BY <1>1, AppendIsConcat
<1> HIDE DEF u
<1>5. (s \o u) \o v = s \o (u \o v)
  BY <1>1, <1>3, ConcatAssociative
<1>6. Append(s, x) \o v = s \o t
  BY <1>2, <1>4, <1>5
<1> QED
  BY <1>1, <1>3, <1>6 DEF x, v

(* What tuples one after the other give.                                   *)
LEMMA TupleConcat ==
    ASSUME NEW x, NEW y, NEW z
    PROVE  <<x>> \o <<z>> = <<x, z>> /\ <<x, y>> \o <<z>> = <<x, y, z>>
<1> DEFINE S == {x, y, z}
           p == <<x, y>>
           q == <<z>>
           r == <<x>>
<1>1. p \in Seq(S) /\ q \in Seq(S) /\ r \in Seq(S)
  OBVIOUS
<1>2. p \o q = <<x, y, z>>
  <2> DEFINE u == p \o q
             w == <<x, y, z>>
  <2>1. /\ Len(u) = 3 /\ Len(w) = 3 /\ u \in Seq(S) /\ w \in Seq(S)
        /\ u[1] = w[1] /\ u[2] = w[2] /\ u[3] = w[3]
    BY <1>1
  <2> HIDE DEF u, w
  <2>2. \A i \in 1..3 : u[i] = w[i]
    BY <2>1
  <2>3. u = w
    BY <2>1, <2>2, SeqEqual
  <2> QED
    BY <2>3 DEF u, w
<1>3. r \o q = <<x, z>>
  <2> DEFINE u == r \o q
             w == <<x, z>>
  <2>1. /\ Len(u) = 2 /\ Len(w) = 2 /\ u \in Seq(S) /\ w \in Seq(S)
        /\ u[1] = w[1] /\ u[2] = w[2]
    BY <1>1
  <2> HIDE DEF u, w
  <2>2. \A i \in 1..2 : u[i] = w[i]
    BY <2>1
  <2>3. u = w
    BY <2>1, <2>2, SeqEqual
  <2> QED
    BY <2>3 DEF u, w
<1> QED
  BY <1>2, <1>3

(* The answers of the board: two or three lines, the last of which, and no *)
(* other, is a return code.                                                *)
LEMMA AnswerShapes ==
    ASSUME NEW n \in Nat
    PROVE  /\ \A c \in {"expected", "other"} :
                /\ <<Answer(n, "whole"), Retcode(n, c)>> \in AnswersTo(n)
                /\ <<Answer(n, "first"), Answer(n, "second"), Retcode(n, c)>> \in AnswersTo(n)
           /\ \A t \in AnswersTo(n) :
                /\ t \in Seq(Lines) /\ Len(t) \in {2, 3}
                /\ \A i \in DOMAIN t : t[i].kind = "retcode" <=> i = Len(t)
<1>1. \A c \in {"expected", "other"} : Retcode(n, c) \in Lines /\ Retcode(n, c).kind = "retcode"
  BY LineTypes DEF Retcode
<1>2. \A p \in {"whole", "first", "second"} :
        Answer(n, p) \in Lines /\ Answer(n, p).kind # "retcode"
  BY LineTypes DEF Answer
<1>4. ASSUME NEW c \in {"expected", "other"}
      PROVE  /\ <<Answer(n, "whole"), Retcode(n, c)>> \in AnswersTo(n)
             /\ <<Answer(n, "first"), Answer(n, "second"), Retcode(n, c)>> \in AnswersTo(n)
  BY TupleConcat DEF AnswersTo
<1>5. ASSUME NEW t \in AnswersTo(n)
      PROVE  /\ t \in Seq(Lines) /\ Len(t) \in {2, 3}
             /\ \A i \in DOMAIN t : t[i].kind = "retcode" <=> i = Len(t)
  <2>1. PICK c \in {"expected", "other"} :
          \/ t = <<Answer(n, "whole"), Retcode(n, c)>>
          \/ t = <<Answer(n, "first"), Answer(n, "second"), Retcode(n, c)>>
    BY TupleConcat DEF AnswersTo
  <2>2. CASE t = <<Answer(n, "whole"), Retcode(n, c)>>
    BY <1>1, <1>2, <2>2
  <2>3. CASE t = <<Answer(n, "first"), Answer(n, "second"), Retcode(n, c)>>
    BY <1>1, <1>2, <2>3
  <2> QED
    BY <2>1, <2>2, <2>3
<1> QED
  BY <1>4, <1>5

(* The first of two sequences is a prefix of both together.                *)
LEMMA PrefixOfConcat ==
    ASSUME NEW s \in Seq(Lines), NEW t \in Seq(Lines)
    PROVE  IsPrefix(s, s \o t)
<1>1. Len(s) \in Nat /\ Len(t) \in Nat /\ Len(s \o t) = Len(s) + Len(t) /\ s \o t \in Seq(Lines)
  OBVIOUS
<1>2. SubSeq(s, 1, Len(s)) = SubSeq(s \o t, 1, Len(s))
  OBVIOUS
<1> QED
  BY <1>1, <1>2 DEF IsPrefix

(* The answer to the last command, when it was sent to a device that is    *)
(* alone, with nothing on its way, and its result is or may be asked for.  *)
Live == clean /\ (awaited = sent \/ pending = sent)

(* What the board has written since, in order.                             *)
Stream == (lines \o iq[1]) \o toHost
Told == Only(Stream, AnswerKinds)

(* The command is in oq; with the board; executed; answered; or it was     *)
(* lost while the board booted.                                            *)
ToBeWritten ==
    oq[1] = <<sent>> /\ toBoard = <<>> /\ executing = 0 /\ Told = <<>>
ToBeExecuted ==
    oq[1] = <<>> /\ toBoard = <<sent>> /\ executing = 0 /\ Told = <<>>
Executed ==
    /\ oq[1] = <<>> /\ toBoard = <<>> /\ executing = sent
    /\ Told = IF split THEN <<Answer(sent, "first")>> ELSE <<>>
Answered ==
    oq[1] = <<>> /\ toBoard = <<>> /\ executing = 0 /\ Told \in AnswersTo(sent)
NeverHeard ==
    oq[1] = <<>> /\ toBoard = <<>> /\ executing = 0 /\ Told = <<>>

Course == ToBeWritten \/ ToBeExecuted \/ Executed \/ Answered \/ NeverHeard

(* Event k is in s, ahead of any return code.                              *)
Ahead(k, s) ==
    \E i \in DOMAIN s : s[i] = Event(k) /\ \A j \in DOMAIN s : s[j].kind = "retcode" => i < j

(* Where the events are that the board wrote meanwhile.                    *)
EventsHeard ==
    IF HasResult THEN heard \subseteq Ids(events)
    ELSE Executed \/ Answered => \A k \in heard : Ahead(k, Stream)

(* What wait_for_output has read.                                          *)
Waiting ==
    /\ place = "wait" => \A i \in DOMAIN lines : ~Found(lines[i])
    /\ HasResult => Found(Last(lines))

Alone ==
    /\ clean => device = 1 /\ sent > 0 /\ place \notin {"create", "flush"}
    /\ executing = 0 => ~split
    /\ \A d \in Devices : d > device => reader[d] = "none" /\ writer[d] = "none"
    /\ Live => place \in {"send", "wait"}
    /\ pending # 0 /\ pending = sent => place = "send" /\ lines = <<>>

AInv == Alone /\ (Live => Course /\ EventsHeard /\ Waiting)

(* The types of what holds the answer.                                     *)
LEMMA StreamTypes ==
    ASSUME TInv
    PROVE  /\ 1 \in Devices /\ lines \in Seq(Lines) /\ iq[1] \in Seq(Lines)
           /\ toHost \in Seq(Lines) /\ lines \o iq[1] \in Seq(Lines)
           /\ Stream \in Seq(Lines) /\ Told \in Seq(Lines)
<1>1. 1 \in Devices
  BY HostTypes DEF Devices
<1>2. lines \in Seq(Lines) /\ iq[1] \in Seq(Lines) /\ toHost \in Seq(Lines)
  BY <1>1 DEF TInv, TypeOK
<1>3. lines \o iq[1] \in Seq(Lines)
  BY <1>2
<1>4. Stream \in Seq(Lines)
  BY <1>2, <1>3 DEF Stream
<1>5. Told \in Seq(Lines)
  BY <1>4, OnlyType DEF Told
<1> QED
  BY <1>1, <1>2, <1>3, <1>4, <1>5

(* The lines of two sequences one after the other.                         *)
LEMMA ElemsConcat ==
    ASSUME NEW s \in Seq(Lines), NEW t \in Seq(Lines)
    PROVE  Elems(s) \subseteq Elems(s \o t) /\ Elems(t) \subseteq Elems(s \o t)
<1>1. /\ Len(s) \in Nat /\ Len(t) \in Nat /\ DOMAIN s = 1..Len(s) /\ DOMAIN t = 1..Len(t)
      /\ DOMAIN (s \o t) = 1..(Len(s) + Len(t))
      /\ \A i \in 1..Len(s) : i \in 1..(Len(s) + Len(t)) /\ (s \o t)[i] = s[i]
      /\ \A i \in 1..Len(t) : Len(s) + i \in 1..(Len(s) + Len(t)) /\ (s \o t)[Len(s) + i] = t[i]
  OBVIOUS
<1> QED
  BY <1>1 DEF Elems

(* An event that is ahead of the return codes stays there.                 *)
LEMMA AheadAppend ==
    ASSUME NEW s \in Seq(Lines), NEW x \in Lines, NEW k, Ahead(k, s)
    PROVE  Ahead(k, Append(s, x))
<1> DEFINE t == Append(s, x)
<1>1. /\ Len(s) \in Nat /\ DOMAIN s = 1..Len(s) /\ DOMAIN t = 1..(Len(s) + 1)
      /\ \A i \in 1..Len(s) : t[i] = s[i]
  BY AppendProperties
<1> HIDE DEF t
<1>2. PICK i \in DOMAIN s : s[i] = Event(k) /\ \A j \in DOMAIN s : s[j].kind = "retcode" => i < j
  BY DEF Ahead
<1>3. i \in DOMAIN t /\ t[i] = Event(k)
  BY <1>1, <1>2
<1>4. ASSUME NEW j \in DOMAIN t, t[j].kind = "retcode" PROVE i < j
  <2>1. CASE j \in 1..Len(s)
    BY <1>1, <1>2, <1>4, <2>1
  <2>2. CASE j \notin 1..Len(s)
    BY <1>1, <1>2, <2>2
  <2> QED
    BY <2>1, <2>2
<1>5. Ahead(k, t)
  BY <1>3, <1>4 DEF Ahead
<1> QED
  BY <1>5 DEF t

(* So is one that is written before there is a return code.                *)
LEMMA AheadNew ==
    ASSUME NEW s \in Seq(Lines), NEW k \in Nat, \A x \in Elems(s) : x.kind # "retcode"
    PROVE  Ahead(k, Append(s, Event(k)))
<1> DEFINE e == Event(k)
           t == Append(s, e)
<1>1. e \in Lines /\ e.kind # "retcode"
  BY LineTypes DEF Event
<1> HIDE DEF e
<1>2. /\ Len(s) \in Nat /\ DOMAIN s = 1..Len(s) /\ DOMAIN t = 1..(Len(s) + 1)
      /\ t[Len(s) + 1] = e /\ \A i \in 1..Len(s) : t[i] = s[i]
  BY <1>1, AppendProperties
<1> HIDE DEF t
<1>3. Len(s) + 1 \in DOMAIN t
  BY <1>2
<1>4. ASSUME NEW j \in DOMAIN t PROVE t[j].kind # "retcode"
  <2>1. CASE j \in 1..Len(s)
    BY <1>2, <2>1 DEF Elems
  <2>2. CASE j \notin 1..Len(s)
    <3>1. j = Len(s) + 1
      BY <1>2, <2>2
    <3> QED
      BY <1>1, <1>2, <3>1
  <2> QED
    BY <2>1, <2>2
<1>5. Ahead(k, t)
  BY <1>2, <1>3, <1>4 DEF Ahead, e
<1> QED
  BY <1>5 DEF t, e

(* When a return code is read, the events ahead of it have been.           *)
LEMMA AheadRead ==
    ASSUME NEW s \in Seq(Lines), NEW x \in Lines, NEW t \in Seq(Lines),
           x.kind = "retcode", NEW k, Ahead(k, Append(s, x) \o t)
    PROVE  k \in Ids(s)
<1> DEFINE v == Append(s, x)
           u == v \o t
<1>1. /\ v \in Seq(Lines) /\ Len(s) \in Nat /\ DOMAIN s = 1..Len(s)
      /\ Len(v) = Len(s) + 1 /\ v[Len(s) + 1] = x /\ \A i \in 1..Len(s) : v[i] = s[i]
  BY AppendProperties
<1> HIDE DEF v
<1>2. /\ Len(t) \in Nat /\ DOMAIN u = 1..(Len(v) + Len(t)) /\ \A i \in 1..Len(v) : u[i] = v[i]
  BY <1>1
<1> HIDE DEF u
<1>3. PICK i \in DOMAIN u : u[i] = Event(k) /\ \A j \in DOMAIN u : u[j].kind = "retcode" => i < j
  BY DEF Ahead, u, v
<1>4. Len(s) + 1 \in DOMAIN u /\ u[Len(s) + 1] = x
  BY <1>1, <1>2
<1>5. i < Len(s) + 1
  BY <1>3, <1>4
<1>6. i \in 1..Len(s) /\ s[i] = Event(k)
  BY <1>1, <1>2, <1>3, <1>5
<1> QED
  BY <1>1, <1>6 DEF Ids, Event

(* The last command is answered, and only then, when its return code was   *)
(* written.                                                                *)
LEMMA AnsweredWhenTold ==
    ASSUME TInv, AInv, Live, NEW x \in Elems(Stream), x.kind = "retcode"
    PROVE  Answered
<1>1. Stream \in Seq(Lines)
  BY StreamTypes
<1>2. x \in Elems(Told)
  <2>1. Elems(Told) = {y \in Elems(Stream) : y.kind \in AnswerKinds}
    BY <1>1, OnlyElems DEF Told
  <2> QED
    BY <2>1 DEF AnswerKinds
<1>3. CASE Told = <<>>
  <2>1. Elems(Told) = {}
    BY <1>3 DEF Elems
  <2> QED
    BY <1>2, <2>1
<1>4. CASE Told = <<Answer(sent, "first")>>
  <2>1. Elems(Told) = {Answer(sent, "first")}
    BY <1>4 DEF Elems
  <2> QED
    BY <1>2, <2>1 DEF Answer
<1>5. Answered \/ Told = <<>> \/ Told = <<Answer(sent, "first")>>
  <2>1. Course
    BY DEF AInv
  <2> QED
    BY <2>1 DEF Course, ToBeWritten, ToBeExecuted, Executed, NeverHeard
<1> QED
  BY <1>3, <1>4, <1>5

(* A result is returned with the return code.                              *)
LEMMA ResultAnswered ==
    ASSUME TInv, AInv, Live, HasResult
    PROVE  Answered /\ Found(Last(lines)) /\ executing = 0
<1>1. Found(Last(lines))
  BY DEF AInv, Waiting
<1>2. /\ Len(lines) \in DOMAIN lines /\ Last(lines) = lines[Len(lines)]
  <2>1. lines \in Seq(Lines) /\ lines # <<>>
    BY StreamTypes DEF HasResult
  <2>2. Len(lines) \in Nat /\ DOMAIN lines = 1..Len(lines) /\ Len(lines) # 0
    BY <2>1
  <2> QED
    BY <2>2 DEF Last
<1>3. Last(lines) \in Elems(lines)
  BY <1>2 DEF Elems
<1>4. Elems(lines) \subseteq Elems(Stream)
  <2>1. Elems(lines) \subseteq Elems(lines \o iq[1])
    BY StreamTypes, ElemsConcat
  <2>2. Elems(lines \o iq[1]) \subseteq Elems(Stream)
    BY StreamTypes, ElemsConcat DEF Stream
  <2> QED
    BY <2>1, <2>2
<1>5. Answered
  BY <1>1, <1>3, <1>4, AnsweredWhenTold DEF Found
<1> QED
  BY <1>1, <1>5 DEF Answered

(* A step that leaves the answer as it was.                                *)
LEMMA StillLive ==
    ASSUME AInv, Live, UNCHANGED <<command, place, lines, events, heard, toBoard,
                                   executing, split>>,
           oq'[1] = oq[1], Stream' = Stream
    PROVE  Live' /\ Course' /\ EventsHeard' /\ Waiting'
<1>1. Told' = Told
  BY DEF Told
<1>2. /\ sent' = sent /\ awaited' = awaited /\ pending' = pending /\ clean' = clean
      /\ place' = place /\ lines' = lines /\ events' = events /\ heard' = heard
      /\ toBoard' = toBoard /\ executing' = executing /\ split' = split
  BY DEF command
<1>3. (Course <=> Course') /\ (Executed <=> Executed') /\ (Answered <=> Answered')
  BY <1>1, <1>2 DEF Course, ToBeWritten, ToBeExecuted, Executed, Answered, NeverHeard
<1>4. EventsHeard' <=> EventsHeard
  BY <1>2, <1>3 DEF EventsHeard, HasResult, Ahead, Ids
<1>5. Waiting' <=> Waiting
  BY <1>2 DEF Waiting, HasResult
<1>6. Live'
  BY <1>2 DEF Live
<1> QED
  BY <1>3, <1>4, <1>5, <1>6 DEF AInv

(* At first nothing was sent.                                              *)
LEMMA InitAnswered == Init => AInv
BY DEF Init, AInv, Alone, Live

(* The threads.                                                            *)
LEMMA ReaderReadsAnswered ==
    ASSUME TInv, AInv, NEW d \in Devices, ReaderReads(d)
    PROVE  AInv'
<1>1. /\ UNCHANGED <<command, place, lines, events, heard, toBoard, executing, split>>
      /\ device' = device /\ oq' = oq /\ sent' = sent /\ awaited' = awaited
      /\ pending' = pending /\ clean' = clean /\ writer' = writer
  BY DEF ReaderReads, progress, command, board
<1>2. Alone'
  <2>1. \A c \in Devices : reader[c] = "none" => reader'[c] = "none"
    BY DEF ReaderReads, TInv, TypeOK
  <2> QED
    BY <1>1, <2>1 DEF AInv, Alone, Live
<1>3. ASSUME Live' PROVE Course' /\ EventsHeard' /\ Waiting'
  <2>1. Live
    BY <1>1, <1>3 DEF Live
  <2>2. device = 1 /\ d = 1 /\ place \in {"send", "wait"}
    <3>1. device = 1 /\ place \in {"send", "wait"}
      BY <2>1 DEF AInv, Alone, Live
    <3>2. ~(d > 1)
      BY <3>1 DEF AInv, Alone, ReaderReads
    <3>3. d \in Nat /\ d >= 1
      BY HostTypes DEF Devices
    <3> QED
      BY <3>1, <3>2, <3>3
  <2>3. /\ toHost # <<>> /\ toHost' = Tail(toHost) /\ lines' = lines
        /\ iq'[1] = Append(iq[1], Head(toHost))
    <3>1. 1 \in Devices /\ iq \in [Devices -> Seq(Lines)]
      BY StreamTypes DEF TInv, TypeOK
    <3>2. Used(d)
      BY <2>2 DEF Used
    <3> QED
      BY <1>1, <2>2, <3>1, <3>2 DEF ReaderReads
  <2>4. Stream' = Stream
    <3> DEFINE x == Head(toHost)
               t == Tail(toHost)
               q == iq[1]
               u == lines \o q
    <3>1. lines \in Seq(Lines) /\ q \in Seq(Lines) /\ u \in Seq(Lines) /\ toHost \in Seq(Lines)
      BY StreamTypes
    <3>2. x \in Lines /\ Append(u, x) \o t = u \o toHost
      <4> HIDE DEF u
      <4> QED
        BY <2>3, <3>1, MoveHead
    <3>3. lines \o Append(q, x) = Append(u, x)
      <4> HIDE DEF q, x
      <4> QED
        BY <3>1, <3>2, ConcatAppend
    <3>4. Stream' = (lines \o Append(q, x)) \o t
      BY <2>3 DEF Stream
    <3>5. Stream = u \o toHost
      BY DEF Stream
    <3> HIDE DEF u, x, t, q
    <3> QED
      BY <3>2, <3>3, <3>4, <3>5
  <2>5. oq'[1] = oq[1]
    BY <1>1
  <2> QED
    BY <1>1, <2>1, <2>4, <2>5, StillLive
<1> QED
  BY <1>2, <1>3 DEF AInv

(* The input thread ends.                                                  *)
LEMMA ReaderEndsAnswered ==
    ASSUME TInv, AInv, NEW d \in Devices, ReaderEnds(d)
    PROVE  AInv'
<1>1. /\ UNCHANGED <<command, place, lines, events, heard, toBoard, executing, split>>
      /\ device' = device /\ oq' = oq /\ sent' = sent /\ awaited' = awaited
      /\ pending' = pending /\ clean' = clean /\ writer' = writer
      /\ iq' = iq /\ toHost' = toHost /\ lines' = lines
  BY DEF ReaderEnds, progress, command, queues, board
<1>2. Alone'
  <2>1. \A c \in Devices : reader[c] = "none" => reader'[c] = "none"
    BY DEF ReaderEnds, TInv, TypeOK
  <2> QED
    BY <1>1, <2>1 DEF AInv, Alone, Live
<1>3. Stream' = Stream /\ oq'[1] = oq[1]
  BY <1>1 DEF Stream
<1>4. Live' => Live
  BY <1>1 DEF Live
<1> QED
  BY <1>1, <1>2, <1>3, <1>4, StillLive DEF AInv

(* The output thread writes a command: it reaches the board, or is lost.   *)
LEMMA WriterAnswered ==
    ASSUME TInv, AInv, NEW d \in Devices, WriterWrites(d)
    PROVE  AInv'
<1>1. /\ device' = device /\ sent' = sent /\ awaited' = awaited /\ place' = place
      /\ pending' = pending /\ clean' = clean /\ reader' = reader /\ lines' = lines
      /\ iq' = iq /\ toHost' = toHost /\ executing' = executing /\ split' = split
      /\ events' = events /\ heard' = heard
  BY DEF WriterWrites, progress, command, board
<1>2. Alone'
  <2>1. \A c \in Devices : writer[c] = "none" => writer'[c] = "none"
    BY DEF WriterWrites, TInv, TypeOK
  <2> QED
    BY <1>1, <2>1 DEF AInv, Alone, Live
<1>3. ASSUME Live' PROVE Course' /\ EventsHeard' /\ Waiting'
  <2>1. Live
    BY <1>1, <1>3 DEF Live
  <2>2. d = 1
    <3>1. device = 1
      BY <2>1 DEF AInv, Alone, Live
    <3>2. ~(d > 1)
      BY <3>1 DEF AInv, Alone, WriterWrites
    <3>3. d \in Nat /\ d >= 1
      BY HostTypes DEF Devices
    <3> QED
      BY <3>1, <3>2, <3>3
  <2>3. ToBeWritten
    <3>1. oq[1] # <<>>
      BY <2>2 DEF WriterWrites
    <3> QED
      BY <2>1, <3>1 DEF AInv, Course, ToBeExecuted, Executed, Answered, NeverHeard
  <2>4. oq'[1] = <<>> /\ (toBoard' = <<sent>> \/ toBoard' = <<>>)
    <3>1. 1 \in Devices /\ oq \in [Devices -> Seq(1..sent)]
      BY StreamTypes DEF TInv, TypeOK
    <3>2. Head(<<sent>>) = sent /\ Tail(<<sent>>) = <<>> /\ Append(<<>>, sent) = <<sent>>
      OBVIOUS
    <3> QED
      BY <2>2, <2>3, <3>1, <3>2 DEF WriterWrites, ToBeWritten
  <2>5. Told' = Told
    BY <1>1 DEF Told, Stream
  <2>6. Course'
    BY <1>1, <2>3, <2>4, <2>5 DEF ToBeWritten, Course, ToBeExecuted, NeverHeard
  <2>7. ~HasResult
    <3>1. ASSUME HasResult PROVE FALSE
      <4>1. Answered
        BY <2>1, <3>1, ResultAnswered
      <4>2. oq[1] = <<sent>> /\ oq[1] = <<>>
        BY <2>3, <4>1 DEF ToBeWritten, Answered
      <4>3. <<sent>> # <<>>
        OBVIOUS
      <4> QED
        BY <4>2, <4>3
    <3> QED
      BY <3>1
  <2>8. EventsHeard'
    <3>1. sent > 0
      BY <2>1 DEF AInv, Alone, Live
    <3>2. ~Executed'
      BY <1>1, <2>3, <3>1, HostTypes DEF Executed, ToBeWritten
    <3>3. ~Answered'
      <4>1. Told' = <<>>
        BY <2>3, <2>5 DEF ToBeWritten
      <4>2. \A t \in AnswersTo(sent) : Len(t) \in {2, 3}
        BY HostTypes, AnswerShapes
      <4>3. Len(<<>>) = 0
        OBVIOUS
      <4> QED
        BY <1>1, <4>1, <4>2, <4>3 DEF Answered
    <3> QED
      BY <1>1, <2>7, <3>2, <3>3 DEF EventsHeard, HasResult
  <2>9. Waiting'
    BY <1>1, <2>1 DEF AInv, Waiting, HasResult
  <2> QED
    BY <2>6, <2>8, <2>9
<1> QED
  BY <1>2, <1>3 DEF AInv

(* Allocation, and the end of a test or of a wait without a result: there  *)
(* is no last command then.                                                *)
LEMMA NoLongerLive ==
    ASSUME TInv, AInv,
           \/ CreateDevice \/ FlushAfterReset \/ WaitRunsOut \/ WaitTimesOut \/ TestEnds
           \/ Stop \/ JoinReader \/ JoinWriter
    PROVE  AInv'
<1>0. device \in Nat /\ sent \in Nat /\ device \in 0..MaxDevices
  BY HostTypes DEF TInv, TypeOK
<1>1. CASE CreateDevice
  <2>1. ~clean' /\ device' = device + 1 /\ executing' = 0 /\ ~split'
    BY <1>1 DEF CreateDevice, AInv, Alone, command
  <2>2. \A d \in Devices : d > device' => reader'[d] = "none" /\ writer'[d] = "none"
    <3> TAKE d \in Devices
    <3>1. d > device + 1 => d > device /\ d # device + 1
      BY <1>0, HostTypes DEF Devices
    <3> QED
      BY <1>1, <2>1, <3>1 DEF CreateDevice, AInv, Alone, TInv, TypeOK
  <2>3. ~(pending' # 0 /\ pending' = sent')
    BY <1>1 DEF CreateDevice, AInv, Alone, command
  <2> QED
    BY <2>1, <2>2, <2>3 DEF AInv, Alone, Live
<1>2. CASE FlushAfterReset
  BY <1>2 DEF FlushAfterReset, AInv, Alone, Live, command, board
<1>3. CASE WaitRunsOut \/ WaitTimesOut \/ TestEnds
  <2>1. /\ ~clean' /\ executing' = executing /\ split' = split /\ device' = device
        /\ reader' = reader /\ writer' = writer /\ sent' = sent
    BY <1>3 DEF WaitRunsOut, WaitTimesOut, TestEnds, board
  <2>2. ~(pending' # 0 /\ pending' = sent')
    BY <1>3 DEF WaitRunsOut, WaitTimesOut, TestEnds, AInv, Alone
  <2> QED
    BY <2>1, <2>2 DEF AInv, Alone, Live
<1>4. CASE Stop \/ JoinReader \/ JoinWriter
  <2>1. /\ UNCHANGED <<device, sent, awaited, pending, clean, executing, split, reader,
                       writer, lines>>
        /\ place \notin {"send", "wait"} /\ place' \notin {"create", "flush"}
    BY <1>4 DEF Stop, JoinReader, JoinWriter, stopMoves, command, board
  <2>2. ~Live /\ ~(pending # 0 /\ pending = sent)
    BY <2>1 DEF AInv, Alone
  <2>3. ~Live'
    BY <2>1, <2>2 DEF Live
  <2>4. Alone'
    BY <2>1, <2>2, <2>3 DEF AInv, Alone
  <2> QED
    BY <2>3, <2>4 DEF AInv
<1> QED
  BY <1>1, <1>2, <1>3, <1>4

(* A command is sent: nothing was answered to it yet.                      *)
LEMMA SendAnswered ==
    ASSUME TInv, AInv, SendSync \/ SendAsync \/ SendLast
    PROVE  AInv'
<1>0. /\ Send /\ sent \in Nat /\ awaited \in 0..sent /\ pending \in 0..sent
      /\ iq \in [Devices -> Seq(Lines)] /\ oq \in [Devices -> Seq(1..sent)]
      /\ device \in Devices /\ 1 \in Devices
  BY HostTypes, StreamTypes DEF SendSync, SendAsync, SendLast, Send, TInv, TypeOK, Placed
<1>1. /\ sent' = sent + 1 /\ device' = device /\ reader' = reader /\ writer' = writer
      /\ executing' = executing /\ split' = split /\ toBoard' = toBoard /\ toHost' = toHost
      /\ lines' = <<>> /\ iq' = [iq EXCEPT ![device] = <<>>]
      /\ oq' = [oq EXCEPT ![device] = Append(oq[device], sent + 1)]
      /\ clean' = (device = 1 /\ ~Outstanding)
  BY <1>0 DEF Send, board
<1>2. /\ sent' # 0 /\ sent' # awaited /\ sent' # pending /\ sent' > 0
  BY <1>0, <1>1
<1>3. /\ place' \in {"send", "wait", "stop"}
      /\ Live' => place' \in {"send", "wait"}
      /\ pending' # 0 /\ pending' = sent' => place' = "send"
  <2>1. CASE SendSync
    BY <1>2, <2>1 DEF SendSync
  <2>2. CASE SendAsync
    BY <1>2, <2>2 DEF SendAsync, Send
  <2>3. CASE SendLast
    BY <1>2, <2>3 DEF SendLast, Live
  <2> QED
    BY <2>1, <2>2, <2>3
<1>4. Alone'
  BY <1>1, <1>2, <1>3 DEF AInv, Alone
<1>5. ASSUME Live' PROVE Course' /\ EventsHeard' /\ Waiting'
  <2>1. device = 1 /\ ~Outstanding
    BY <1>1, <1>5 DEF Live
  <2>2. toBoard = <<>> /\ executing = 0 /\ oq[1] = <<>>
    BY <1>0, <2>1 DEF Outstanding
  <2>3. Told' = <<>>
    <3>1. toHost \in Seq(Lines)
      BY StreamTypes
    <3>2. Only(toHost, AnswerKinds) = <<>>
      <4>1. \A i \in DOMAIN toHost : toHost[i].kind \notin AnswerKinds
        BY <2>1 DEF Outstanding
      <4> QED
        BY <3>1, <4>1, OnlyNone
    <3>3. Stream' = (<<>> \o <<>>) \o toHost
      BY <1>0, <1>1, <2>1 DEF Stream
    <3>4. Stream' = toHost
      BY <3>1, <3>3, ConcatEmptySeq
    <3> QED
      BY <3>2, <3>4 DEF Told
  <2>4. oq'[1] = <<sent'>>
    <3>1. Append(<<>>, sent + 1) = <<sent + 1>>
      OBVIOUS
    <3> QED
      BY <1>0, <1>1, <2>1, <2>2, <3>1
  <2>5. Course'
    BY <1>1, <2>2, <2>3, <2>4 DEF Course, ToBeWritten
  <2>6. EventsHeard'
    <3>1. ~HasResult'
      BY <1>1 DEF HasResult
    <3>2. ~Executed'
      BY <1>1, <1>2, <2>2 DEF Executed
    <3>3. ~Answered'
      BY <2>4 DEF Answered
    <3> QED
      BY <3>1, <3>2, <3>3 DEF EventsHeard
  <2>7. Waiting'
    <3>1. DOMAIN <<>> = {}
      OBVIOUS
    <3> QED
      BY <1>1, <3>1 DEF Waiting, HasResult
  <2> QED
    BY <2>5, <2>6, <2>7
<1> QED
  BY <1>4, <1>5 DEF AInv

(* The result of an asynchronous command is asked for: if it is the last   *)
(* one, no line was read since it was sent.                                *)
LEMMA AccessAnswered ==
    ASSUME TInv, AInv, AccessResult
    PROVE  AInv'
<1>1. /\ UNCHANGED <<device, sent, clean, events, reader, writer, executing, split, toBoard,
                     toHost, iq, oq, heard>>
      /\ place = "send" /\ place' = "wait" /\ pending # 0 /\ awaited' = pending /\ pending' = 0
      /\ lines' = <<>>
  BY DEF AccessResult, queues, board
<1>2. Alone'
  BY <1>1 DEF AInv, Alone
<1>3. ASSUME Live' PROVE Course' /\ EventsHeard' /\ Waiting'
  <2>1. Live /\ lines = <<>>
    <3>1. clean /\ sent > 0 /\ sent \in Nat
      BY <1>1, <1>3, HostTypes DEF AInv, Alone, Live
    <3>2. pending = sent
      BY <1>1, <1>3, <3>1 DEF Live
    <3> QED
      BY <1>1, <3>1, <3>2 DEF AInv, Alone, Live
  <2>2. Told' = Told
    BY <1>1, <2>1 DEF Told, Stream
  <2>3. (Course <=> Course') /\ (Executed <=> Executed') /\ (Answered <=> Answered')
    BY <1>1, <2>2 DEF Course, ToBeWritten, ToBeExecuted, Executed, Answered, NeverHeard
  <2>4. EventsHeard'
    <3>1. Stream' = Stream
      BY <1>1, <2>1 DEF Stream
    <3>2. ~HasResult /\ ~HasResult'
      BY <1>1, <2>1 DEF HasResult
    <3> QED
      BY <1>1, <2>1, <2>3, <3>1, <3>2 DEF AInv, EventsHeard, Ahead
  <2>5. Waiting'
    <3>1. DOMAIN <<>> = {}
      OBVIOUS
    <3> QED
      BY <1>1, <3>1 DEF Waiting, HasResult
  <2> QED
    BY <2>1, <2>3, <2>4, <2>5 DEF AInv
<1> QED
  BY <1>2, <1>3 DEF AInv

(* wait_for_output reads a line. With the return code every event ahead of *)
(* it has been read.                                                       *)
LEMMA ReadLineAnswered ==
    ASSUME TInv, OInv, AInv, ReadLine
    PROVE  AInv'
<1> DEFINE x == Head(iq[device])
<1>1. /\ UNCHANGED <<device, sent, awaited, pending, clean, reader, writer, executing, split,
                     toBoard, toHost, oq, heard>>
      /\ place = "wait" /\ place' \in {"send", "wait"}
      /\ lines' = Append(lines, x)
  BY DEF ReadLine, GoOn, command, board, progress
<1>2. Alone'
  <2>1. ~(pending # 0 /\ pending = sent)
    BY <1>1 DEF AInv, Alone
  <2> QED
    BY <1>1, <2>1 DEF AInv, Alone, Live
<1>3. ASSUME Live' PROVE Course' /\ EventsHeard' /\ Waiting'
  <2>1. Live /\ device = 1
    BY <1>1, <1>3 DEF AInv, Alone, Live
  <2> DEFINE q == iq[1]
             t == Tail(q)
  <2>2. /\ lines \in Seq(Lines) /\ q \in Seq(Lines) /\ q # <<>> /\ x = Head(q) /\ iq'[1] = t
        /\ toHost \in Seq(Lines)
    <3>1. 1 \in Devices /\ iq \in [Devices -> Seq(Lines)]
      BY StreamTypes DEF TInv, TypeOK
    <3> QED
      BY <2>1, <3>1, StreamTypes DEF ReadLine
  <2>3. /\ x \in Lines /\ t \in Seq(Lines) /\ Append(lines, x) \in Seq(Lines)
        /\ Append(lines, x) \o t = lines \o q
    <3> HIDE DEF q, x
    <3> QED
      BY <2>2, MoveHead
  <2>4. Stream' = Stream
    BY <1>1, <2>2, <2>3 DEF Stream
  <2>5. Told' = Told
    BY <2>4 DEF Told
  <2>6. (Course <=> Course') /\ (Executed <=> Executed') /\ (Answered <=> Answered')
    BY <1>1, <2>5 DEF Course, ToBeWritten, ToBeExecuted, Executed, Answered, NeverHeard
  <2>7. ~HasResult
    BY <1>1 DEF HasResult
  <2>8. Executed \/ Answered => \A k \in heard : Ahead(k, Stream)
    BY <2>1, <2>7 DEF AInv, EventsHeard
  <2>9. /\ Len(lines) \in Nat /\ lines' # <<>> /\ Last(lines') = x
        /\ \A i \in DOMAIN lines' : lines'[i] = x \/ (i \in DOMAIN lines /\ lines'[i] = lines[i])
    <3>1. /\ Len(lines) \in Nat /\ DOMAIN lines = 1..Len(lines)
          /\ Len(lines') = Len(lines) + 1 /\ DOMAIN lines' = 1..(Len(lines) + 1)
          /\ lines'[Len(lines) + 1] = x /\ \A i \in 1..Len(lines) : lines'[i] = lines[i]
          /\ lines' \in Seq(Lines)
      BY <1>1, <2>2, <2>3, AppendProperties
    <3>2. 1..(Len(lines) + 1) = 1..Len(lines) \union {Len(lines) + 1}
      BY <3>1
    <3>3. Len(<<>>) = 0
      OBVIOUS
    <3> HIDE DEF x
    <3> QED
      BY <3>1, <3>2, <3>3 DEF Last
  <2>10. CASE Found(x)
    <3>1. place' = "send" /\ events' = events \o Only(lines', EventKind)
      BY <2>10 DEF ReadLine, GoOn
    <3>2. HasResult'
      BY <2>9, <3>1 DEF HasResult
    <3>3. Waiting'
      BY <2>9, <2>10, <3>1 DEF Waiting
    <3>4. Answered
      <4>1. x \in Elems(lines')
        <5>1. Len(lines) + 1 \in DOMAIN lines' /\ lines'[Len(lines) + 1] = x
          BY <1>1, <2>2, <2>3, AppendProperties
        <5> QED
          BY <5>1 DEF Elems
      <4>2. Elems(lines') \subseteq Elems(Stream)
        <5>1. Elems(lines') \subseteq Elems(lines \o q)
          BY <1>1, <2>3, ElemsConcat
        <5>2. Elems(lines \o q) \subseteq Elems(Stream)
          BY StreamTypes, ElemsConcat DEF Stream
        <5> QED
          BY <5>1, <5>2
      <4> QED
        BY <2>1, <2>10, <4>1, <4>2, AnsweredWhenTold DEF Found
    <3>5. heard \subseteq Ids(lines)
      <4> SUFFICES ASSUME NEW k \in heard PROVE k \in Ids(lines)
        OBVIOUS
      <4> DEFINE v == Append(lines, x)
      <4>1. Ahead(k, Stream)
        BY <2>8, <3>4
      <4>2. Stream = v \o (t \o toHost) /\ t \o toHost \in Seq(Lines)
        <5>1. Stream = (v \o t) \o toHost
          BY <2>3 DEF Stream
        <5>2. t \o toHost \in Seq(Lines) /\ v \in Seq(Lines) /\ t \in Seq(Lines)
          BY <2>2, <2>3
        <5>3. toHost \in Seq(Lines)
          BY <2>2
        <5> HIDE DEF v, t
        <5>4. (v \o t) \o toHost = v \o (t \o toHost)
          BY <5>2, <5>3, ConcatAssociative
        <5> QED
          BY <5>1, <5>2, <5>4
      <4>3. x.kind = "retcode"
        BY <2>10 DEF Found
      <4>4. Ahead(k, v \o (t \o toHost))
        BY <4>1, <4>2
      <4>5. lines \in Seq(Lines) /\ x \in Lines
        BY <2>2, <2>3
      <4> DEFINE w == t \o toHost
      <4>6. w \in Seq(Lines) /\ Ahead(k, Append(lines, x) \o w)
        BY <4>2, <4>4
      <4> HIDE DEF x, w
      <4> QED
        BY <4>3, <4>5, <4>6, AheadRead
    <3>6. Ids(events') = Ids(events) \union Ids(lines')
      <4> DEFINE r == Only(lines', EventKind)
      <4>1. Rising(lines') /\ lines' \in Seq(Lines)
        <5>1. Rising(Read) /\ Rising(Queued) /\ AllBelow(Ids(Read), Ids(Queued))
          BY DEF OInv, InOrder
        <5>2. Read = lines /\ Queued = q
          BY <1>1, <2>1 DEF Read, Queued
        <5>3. AllBelow(IdOf(x), Ids(t)) /\ Ids(q) = IdOf(x) \union Ids(t)
          BY <2>2, <5>1, <5>2, IdsTail
        <5>4. AllBelow(Ids(lines), IdOf(x))
          BY <5>1, <5>2, <5>3 DEF AllBelow
        <5> QED
          BY <1>1, <2>2, <2>3, <5>1, <5>2, <5>4, IdsAppend
      <4>2. r \in Seq(Lines) /\ Ids(r) = Ids(lines')
        BY <4>1, IdsOnly
      <4>3. events \in Seq(Lines)
        BY QueueTypes
      <4> HIDE DEF r
      <4>4. Ids(events \o r) = Ids(events) \union Ids(r)
        BY <4>2, <4>3, IdsConcat
      <4> QED
        BY <3>1, <4>2, <4>4 DEF r
    <3>7. Ids(lines) \subseteq Ids(lines')
      <4>1. Ids(lines') = Ids(lines) \union IdOf(x)
        BY <1>1, <2>2, <2>3, IdsAppend
      <4> QED
        BY <4>1
    <3>8. heard' \subseteq Ids(events')
      <4>1. heard' = heard
        BY <1>1
      <4> QED
        BY <3>5, <3>6, <3>7, <4>1
    <3>9. EventsHeard'
      BY <3>2, <3>8 DEF EventsHeard, Ids
    <3> QED
      BY <2>1, <2>6, <3>3, <3>9 DEF AInv
  <2>11. CASE ~Found(x)
    <3>1. place' = "wait" /\ ~HasResult'
      BY <1>1, <2>11 DEF ReadLine, HasResult, progress
    <3>2. Waiting'
      BY <1>1, <2>1, <2>9, <2>11, <3>1 DEF AInv, Waiting
    <3>3. EventsHeard'
      BY <1>1, <2>4, <2>6, <2>8, <3>1 DEF EventsHeard, Ahead
    <3> QED
      BY <2>1, <2>6, <3>2, <3>3 DEF AInv
  <2> QED
    BY <2>10, <2>11
<1> QED
  BY <1>2, <1>3 DEF AInv

(* What appending to a tuple gives.                                        *)
LEMMA AppendTuple ==
    ASSUME NEW x, NEW y, NEW z
    PROVE  /\ Append(Append(<<>>, x), z) = <<x, z>>
           /\ Append(Append(<<y>>, x), z) = <<y, x, z>>
<1> DEFINE S == {x, y, z}
           a == <<x>>
           b == <<y, x>>
<1>1. a \in Seq(S) /\ b \in Seq(S) /\ <<>> \in Seq(S) /\ <<y>> \in Seq(S)
  OBVIOUS
<1>2. Append(<<>>, x) = a
  BY <1>1
<1>3. Append(<<y>>, x) = b
  <2>1. Append(<<y>>, x) = <<y>> \o <<x>>
    BY <1>1, AppendIsConcat
  <2> QED
    BY <1>1, <2>1, TupleConcat
<1>4. Append(a, z) = <<x, z>>
  <2>1. Append(a, z) = a \o <<z>>
    BY <1>1, AppendIsConcat
  <2> QED
    BY <2>1, TupleConcat
<1>5. Append(b, z) = <<y, x, z>>
  <2>1. Append(b, z) = b \o <<z>>
    BY <1>1, AppendIsConcat
  <2> QED
    BY <2>1, TupleConcat
<1> QED
  BY <1>2, <1>3, <1>4, <1>5

(* Three sequences of lines one after the other.                           *)
LEMMA ThreeConcat ==
    ASSUME NEW s \in Seq(Lines), NEW t \in Seq(Lines), NEW u \in Seq(Lines)
    PROVE  (s \o t) \o u = s \o (t \o u) /\ t \o u \in Seq(Lines)
<1>1. t \o u \in Seq(Lines)
  OBVIOUS
<1> QED
  BY <1>1, ConcatAssociative

(* Two lines are written.                                                  *)
LEMMA TwoMore ==
    ASSUME NEW u \in Seq(Lines), NEW h \in Seq(Lines), NEW x \in Lines, NEW y \in Lines
    PROVE  /\ h \o <<x, y>> = Append(Append(h, x), y)
           /\ u \o (h \o <<x, y>>) = Append(Append(u \o h, x), y)
           /\ u \o h \in Seq(Lines) /\ Append(u \o h, x) \in Seq(Lines)
<1>1. h \o <<x, y>> = Append(Append(h, x), y) /\ Append(h, x) \in Seq(Lines)
  OBVIOUS
<1>2. u \o Append(h, x) = Append(u \o h, x) /\ u \o h \in Seq(Lines)
  BY ConcatAppend
<1> DEFINE v == Append(h, x)
<1>3. u \o Append(v, y) = Append(u \o v, y)
  <2>1. v \in Seq(Lines)
    BY <1>1
  <2> HIDE DEF v
  <2> QED
    BY <2>1, ConcatAppend
<1>4. Append(u \o h, x) \in Seq(Lines)
  BY <1>2
<1> QED
  BY <1>1, <1>2, <1>3, <1>4

(* The board answers: a return code comes last.                            *)
LEMMA BoardAnswersAnswered ==
    ASSUME TInv, AInv, BoardAnswers
    PROVE  AInv'
<1>1. /\ UNCHANGED <<device, sent, awaited, pending, clean, place, lines, events, reader,
                     writer, toBoard, oq, iq, heard>>
      /\ executing # 0 /\ executing' = 0 /\ split' = FALSE
  BY DEF BoardAnswers, progress, command, queues
<1>2. Alone'
  BY <1>1 DEF AInv, Alone, Live
<1>3. ASSUME Live' PROVE Course' /\ EventsHeard' /\ Waiting'
  <2>1. Live
    BY <1>1, <1>3 DEF Live
  <2>2. Executed
    BY <1>1, <2>1 DEF AInv, Course, ToBeWritten, ToBeExecuted, Answered, NeverHeard
  <2>3. PICK code \in {"expected", "other"} :
          toHost' = toHost \o <<Answer(sent, IF split THEN "second" ELSE "whole"),
                                Retcode(sent, code)>>
    BY <2>2 DEF BoardAnswers, Executed
  <2> DEFINE a == Answer(sent, IF split THEN "second" ELSE "whole")
             r == Retcode(sent, code)
             u == lines \o iq[1]
  <2>4. /\ a \in Lines /\ r \in Lines /\ a.kind \in AnswerKinds /\ r.kind \in AnswerKinds
        /\ u \in Seq(Lines) /\ toHost \in Seq(Lines) /\ toHost' = toHost \o <<a, r>>
        /\ Stream = u \o toHost /\ Stream' = u \o toHost' /\ Stream \in Seq(Lines)
    <3>1. sent \in Nat
      BY HostTypes
    <3>2. a \in Lines /\ r \in Lines
      BY <3>1, LineTypes
    <3>3. a.kind \in AnswerKinds /\ r.kind \in AnswerKinds
      BY DEF AnswerKinds, Answer, Retcode
    <3> QED
      BY <1>1, <2>3, <3>2, <3>3, StreamTypes DEF Stream
  <2>5. Stream' = Append(Append(Stream, a), r) /\ Append(Stream, a) \in Seq(Lines)
    <3> HIDE DEF a, r, u
    <3> QED
      BY <2>4, TwoMore
  <2>6. Told' = Append(Append(Told, a), r)
    <3>1. Only(Append(Stream, a), AnswerKinds) = Append(Told, a)
      <4> HIDE DEF a
      <4> QED
        BY <2>4, OnlyAppend DEF Told
    <3>2. Only(Append(Append(Stream, a), r), AnswerKinds)
            = Append(Only(Append(Stream, a), AnswerKinds), r)
      <4> DEFINE v == Append(Stream, a)
      <4>1. v \in Seq(Lines) /\ r \in Lines /\ r.kind \in AnswerKinds
        BY <2>4, <2>5
      <4> HIDE DEF v, r
      <4>2. Only(Append(v, r), AnswerKinds) = Append(Only(v, AnswerKinds), r)
        BY <4>1, OnlyAppend
      <4> QED
        BY <4>2 DEF v
    <3> HIDE DEF a, r
    <3> QED
      BY <2>5, <3>1, <3>2 DEF Told
  <2>7. Told' \in AnswersTo(sent)
    <3>1. \A x, y, z : /\ Append(Append(<<>>, x), z) = <<x, z>>
                       /\ Append(Append(<<y>>, x), z) = <<y, x, z>>
      BY AppendTuple
    <3>2. /\ <<Answer(sent, "whole"), Retcode(sent, code)>> \in AnswersTo(sent)
          /\ <<Answer(sent, "first"), Answer(sent, "second"), Retcode(sent, code)>>
               \in AnswersTo(sent)
      BY HostTypes, AnswerShapes
    <3> QED
      BY <2>2, <2>6, <3>1, <3>2 DEF Executed
  <2>8. Course'
    BY <1>1, <2>2, <2>7 DEF Course, Answered, Executed
  <2>9. ~HasResult
    <3>1. ASSUME HasResult PROVE FALSE
      BY <1>1, <2>1, <3>1, ResultAnswered
    <3> QED
      BY <3>1
  <2>10. EventsHeard'
    <3>1. \A k \in heard : Ahead(k, Stream)
      BY <2>1, <2>2, <2>9 DEF AInv, EventsHeard
    <3>2. ASSUME NEW k \in heard PROVE Ahead(k, Stream')
      <4>1. Ahead(k, Append(Stream, a))
        <5> HIDE DEF a
        <5> QED
          BY <2>4, <3>1, AheadAppend
      <4>2. Ahead(k, Append(Append(Stream, a), r))
        <5> HIDE DEF a, r
        <5> QED
          BY <2>4, <2>5, <4>1, AheadAppend
      <4> HIDE DEF a, r
      <4> QED
        BY <2>5, <4>2
    <3> QED
      BY <1>1, <2>9, <3>2 DEF EventsHeard, HasResult, Ahead
  <2>11. Waiting'
    BY <1>1, <2>1 DEF AInv, Waiting, HasResult
  <2> QED
    BY <2>8, <2>10, <2>11
<1> QED
  BY <1>2, <1>3 DEF AInv

(* The board writes an event, in the middle of an answer also: if it is    *)
(* written while the last command is executed, no return code has been.    *)
LEMMA BoardEventAnswered ==
    ASSUME TInv, AInv, BoardEvent
    PROVE  AInv'
<1> DEFINE k == emitted + 1
           e == Event(k)
           a == Answer(executing, "first")
           u == lines \o iq[1]
<1>1. /\ UNCHANGED <<device, sent, awaited, pending, clean, place, lines, events, reader,
                     writer, toBoard, oq, iq, executing>>
      /\ heard' = IF clean /\ executing = sent THEN heard \union {k} ELSE heard
      /\ \/ executing # 0 /\ ~split /\ split' = TRUE /\ toHost' = toHost \o <<a, e>>
         \/ split' = split /\ toHost' = Append(toHost, e)
  BY DEF BoardEvent, progress, command, queues
<1>2. Alone'
  BY <1>1 DEF AInv, Alone, Live
<1>3. ASSUME Live' PROVE Course' /\ EventsHeard' /\ Waiting'
  <2>1. Live /\ clean
    BY <1>1, <1>3 DEF Live
  <2>2. /\ a \in Lines /\ e \in Lines /\ a.kind \in AnswerKinds /\ e.kind \notin AnswerKinds
        /\ u \in Seq(Lines) /\ toHost \in Seq(Lines) /\ k \in Nat
        /\ Stream = u \o toHost /\ Stream' = u \o toHost' /\ Stream \in Seq(Lines)
    <3>1. executing \in Nat /\ k \in Nat
      BY HostTypes
    <3>2. a \in Lines /\ e \in Lines
      BY <3>1, LineTypes
    <3>3. a.kind \in AnswerKinds /\ e.kind \notin AnswerKinds
      BY DEF AnswerKinds, Answer, Event
    <3> QED
      BY <1>1, <3>1, <3>2, <3>3, StreamTypes DEF Stream
  <2>3. executing # 0 => Executed
    BY <2>1 DEF AInv, Course, ToBeWritten, ToBeExecuted, Answered, NeverHeard
  <2>4. Executed => executing = sent /\ sent # 0 /\ ~HasResult
    <3>1. Executed => executing = sent /\ sent # 0
      BY <2>1, HostTypes DEF Executed, AInv, Alone
    <3>2. ASSUME Executed, HasResult PROVE FALSE
      BY <2>1, <3>1, <3>2, ResultAnswered
    <3> QED
      BY <3>1, <3>2
  <2>5. Executed => \A x \in Elems(Stream) : x.kind # "retcode"
    <3> SUFFICES ASSUME Executed, NEW x \in Elems(Stream), x.kind = "retcode" PROVE FALSE
      OBVIOUS
    <3>1. Answered
      BY <2>1, AnsweredWhenTold
    <3> QED
      BY <2>4, <3>1 DEF Answered
  <2>6. ~Executed => heard' = heard
    <3>1. ASSUME ~Executed PROVE executing # sent
      BY <2>1, <2>3, <3>1, HostTypes DEF AInv, Alone
    <3> QED
      BY <1>1, <3>1
  <2>7. CASE toHost' = toHost \o <<a, e>> /\ executing # 0 /\ ~split /\ split' = TRUE
    <3>1. Stream' = Append(Append(Stream, a), e) /\ Append(Stream, a) \in Seq(Lines)
      <4>1. /\ u \o (toHost \o <<a, e>>) = Append(Append(u \o toHost, a), e)
            /\ Append(u \o toHost, a) \in Seq(Lines)
        <5> HIDE DEF a, e, u
        <5> QED
          BY <2>2, TwoMore
      <4> HIDE DEF a, e, u
      <4> QED
        BY <2>2, <2>7, <4>1
    <3>2. Executed /\ Told = <<>>
      BY <2>3, <2>7 DEF Executed
    <3> DEFINE v == Append(Stream, a)
    <3>3. Told' = <<a>>
      <4>1. Only(v, AnswerKinds) = Append(Told, a)
        <5> HIDE DEF a
        <5> QED
          BY <2>2, OnlyAppend DEF Told
      <4>2. Only(Append(v, e), AnswerKinds) = Only(v, AnswerKinds)
        <5>1. v \in Seq(Lines)
          BY <3>1
        <5> HIDE DEF v, e
        <5> QED
          BY <2>2, <5>1, OnlyAppend
      <4>3. Append(<<>>, a) = <<a>>
        OBVIOUS
      <4> HIDE DEF a, e
      <4> QED
        BY <3>1, <3>2, <4>1, <4>2, <4>3 DEF Told
    <3>4. Executed'
      <4>1. executing = sent
        BY <2>4, <3>2
      <4> QED
        BY <1>1, <2>7, <3>2, <3>3, <4>1 DEF Executed
    <3>5. \A m \in heard' : Ahead(m, Stream')
      <4>1. heard' \subseteq heard \union {k}
        BY <1>1
      <4>2. \A m \in heard : Ahead(m, Stream)
        BY <2>1, <2>4, <3>2 DEF AInv, EventsHeard
      <4>3. ASSUME NEW m \in heard PROVE Ahead(m, Stream')
        <5>1. Ahead(m, Stream)
          BY <4>2
        <5>2. Ahead(m, v)
          <6> HIDE DEF a
          <6> QED
            BY <2>2, <5>1, AheadAppend
        <5>3. v \in Seq(Lines)
          BY <3>1
        <5> HIDE DEF v, e
        <5>4. Ahead(m, Append(v, e))
          BY <2>2, <5>2, <5>3, AheadAppend
        <5> QED
          BY <3>1, <5>4 DEF v
      <4>4. Ahead(k, Stream')
        <5>1. \A x \in Elems(v) : x.kind # "retcode"
          <6>1. Elems(v) = Elems(Stream) \union {a}
            <7> HIDE DEF a
            <7> QED
              BY <2>2, ElemsAppend
          <6>2. a.kind # "retcode"
            BY DEF Answer
          <6> QED
            BY <2>5, <3>2, <6>1, <6>2
        <5>2. v \in Seq(Lines)
          BY <3>1
        <5> HIDE DEF v, k
        <5>3. Ahead(k, Append(v, Event(k)))
          BY <2>2, <5>1, <5>2, AheadNew
        <5> QED
          BY <3>1, <5>3 DEF v
      <4> QED
        BY <4>1, <4>3, <4>4
    <3>6. EventsHeard'
      <4>1. ~HasResult'
        BY <1>1, <2>4, <3>2 DEF HasResult
      <4> QED
        BY <3>5, <4>1 DEF EventsHeard, Ahead
    <3>7. Course'
      BY <3>4 DEF Course
    <3>8. Waiting'
      BY <1>1, <2>1 DEF AInv, Waiting, HasResult
    <3> QED
      BY <3>6, <3>7, <3>8
  <2>8. CASE toHost' = Append(toHost, e) /\ split' = split
    <3>1. Stream' = Append(Stream, e)
      <4> HIDE DEF e, u
      <4> QED
        BY <2>2, <2>8, ConcatAppend
    <3>2. Told' = Told
      <4>1. Only(Append(Stream, e), AnswerKinds) = Only(Stream, AnswerKinds)
        <5>1. Stream \in Seq(Lines) /\ e \in Lines /\ e.kind \notin AnswerKinds
          BY <2>2
        <5> HIDE DEF e
        <5> QED
          BY <5>1, OnlyAppend
      <4> HIDE DEF e
      <4> QED
        BY <3>1, <4>1 DEF Told
    <3>3. (Course <=> Course') /\ (Executed <=> Executed') /\ (Answered <=> Answered')
      BY <1>1, <2>8, <3>2 DEF Course, ToBeWritten, ToBeExecuted, Executed, Answered, NeverHeard
    <3>4. ASSUME NEW m, Ahead(m, Stream) PROVE Ahead(m, Stream')
      <4> HIDE DEF e
      <4> QED
        BY <2>2, <3>1, <3>4, AheadAppend
    <3>5. EventsHeard'
      <4>1. CASE Executed
        <5>1. Ahead(k, Stream')
          <6> HIDE DEF k
          <6> QED
            BY <2>2, <2>5, <3>1, <4>1, AheadNew DEF e
        <5>2. \A m \in heard : Ahead(m, Stream)
          BY <2>1, <2>4, <4>1 DEF AInv, EventsHeard
        <5>3. heard' \subseteq heard \union {k} /\ ~HasResult'
          BY <1>1, <2>4, <4>1 DEF HasResult
        <5>4. \A m \in heard' : Ahead(m, Stream')
          BY <3>4, <5>1, <5>2, <5>3
        <5> QED
          BY <5>3, <5>4 DEF EventsHeard, Ahead
      <4>2. CASE ~Executed
        <5>1. heard' = heard /\ events' = events /\ (HasResult' <=> HasResult)
          BY <1>1, <2>6, <4>2 DEF HasResult
        <5> QED
          BY <2>1, <3>3, <3>4, <5>1 DEF AInv, EventsHeard, Ahead, Ids
      <4> QED
        BY <4>1, <4>2
    <3>6. Waiting'
      BY <1>1, <2>1 DEF AInv, Waiting, HasResult
    <3> QED
      BY <2>1, <3>3, <3>5, <3>6 DEF AInv
  <2> QED
    BY <1>1, <2>7, <2>8
<1> QED
  BY <1>2, <1>3 DEF AInv

(* The board boots, or begins to execute a command.                        *)
LEMMA BoardExecutesAnswered ==
    ASSUME TInv, AInv, BoardBoots \/ BoardExecutes
    PROVE  AInv'
<1>1. CASE BoardBoots
  <2>1. /\ UNCHANGED <<command, place, lines, events, heard, toBoard, executing, split,
                       device, sent, awaited, pending, clean, reader, writer, oq, iq, toHost>>
    BY <1>1 DEF BoardBoots, progress, command, queues
  <2>2. Alone' /\ (Live' => Live)
    BY <2>1 DEF AInv, Alone, Live
  <2>3. Stream' = Stream /\ oq'[1] = oq[1]
    BY <2>1 DEF Stream
  <2>4. UNCHANGED <<command, place, lines, events, heard, toBoard, executing, split>>
    BY <2>1
  <2> QED
    BY <2>2, <2>3, <2>4, StillLive DEF AInv
<1>2. CASE BoardExecutes
  <2>1. /\ UNCHANGED <<device, sent, awaited, pending, clean, place, lines, events, reader,
                       writer, oq, iq, toHost, split>>
        /\ executing = 0 /\ toBoard # <<>> /\ executing' = Head(toBoard)
        /\ toBoard' = Tail(toBoard) /\ heard' = {}
    BY <1>2 DEF BoardExecutes, progress, command, queues
  <2>2. Alone'
    BY <2>1 DEF AInv, Alone, Live
  <2>3. ASSUME Live' PROVE Course' /\ EventsHeard' /\ Waiting'
    <3>1. Live
      BY <2>1, <2>3 DEF Live
    <3>2. ToBeExecuted /\ ~split
      BY <2>1, <3>1 DEF AInv, Alone, Course, ToBeWritten, Executed, Answered, NeverHeard
    <3>3. executing' = sent /\ toBoard' = <<>>
      BY <2>1, <3>2 DEF ToBeExecuted
    <3>4. Told' = Told
      BY <2>1 DEF Told, Stream
    <3>5. Course'
      BY <2>1, <3>2, <3>3, <3>4 DEF Course, Executed, ToBeExecuted
    <3>6. EventsHeard'
      BY <2>1 DEF EventsHeard
    <3>7. Waiting'
      BY <2>1, <3>1 DEF AInv, Waiting, HasResult
    <3> QED
      BY <3>5, <3>6, <3>7
  <2> QED
    BY <2>2, <2>3 DEF AInv
<1> QED
  BY <1>1, <1>2

(* Every step preserves the invariant of the last command.                 *)
LEMMA NextAnswered == TInv /\ OInv /\ AInv /\ [Next]_vars => AInv'
<1> SUFFICES ASSUME TInv, OInv, AInv, [Next]_vars PROVE AInv'
  OBVIOUS
<1>1. CASE Main
  BY <1>1, NoLongerLive, SendAnswered, AccessAnswered, ReadLineAnswered DEF Main
<1>2. CASE \E d \in Devices : Reader(d) \/ WriterWrites(d)
  BY <1>2, ReaderReadsAnswered, ReaderEndsAnswered, WriterAnswered DEF Reader
<1>3. CASE Board
  BY <1>3, BoardAnswersAnswered, BoardEventAnswered, BoardExecutesAnswered DEF Board
<1>4. CASE UNCHANGED vars
  <2>1. /\ UNCHANGED <<command, place, lines, events, heard, toBoard, executing, split,
                       device, sent, awaited, pending, clean, reader, writer, oq, iq, toHost>>
    BY <1>4 DEF vars, progress, command, queues, board
  <2>2. Alone' /\ (Live' => Live)
    BY <2>1 DEF AInv, Alone, Live
  <2>3. Stream' = Stream /\ oq'[1] = oq[1]
    BY <2>1 DEF Stream
  <2>4. UNCHANGED <<command, place, lines, events, heard, toBoard, executing, split>>
    BY <2>1
  <2> QED
    BY <2>2, <2>3, <2>4, StillLive DEF AInv
<1> QED
  BY <1>1, <1>2, <1>3, <1>4 DEF Next

(* Any prefix of what the board told is a prefix of an answer of it; with  *)
(* the return code it is all of the answer.                                *)
LEMMA AnswerToLast ==
    ASSUME TInv, AInv, OfLastCommand
    PROVE  \E answer \in AnswersTo(sent) :
             /\ IsPrefix(Only(lines, AnswerKinds), answer)
             /\ HasResult => Only(lines, AnswerKinds) = answer /\ Found(Last(answer))
<1> DEFINE p == Only(lines, AnswerKinds)
           w == iq[1] \o toHost
           q == Only(w, AnswerKinds)
           full == <<Answer(sent, "first"), Answer(sent, "second"), Retcode(sent, "expected")>>
<1>1. Live /\ Course
  BY DEF AInv, OfLastCommand, Live
<1>2. lines \in Seq(Lines) /\ w \in Seq(Lines) /\ p \in Seq(Lines) /\ q \in Seq(Lines)
  <2>1. lines \in Seq(Lines) /\ w \in Seq(Lines)
    BY StreamTypes
  <2> HIDE DEF w
  <2> QED
    BY <2>1, OnlyType
<1>3. Told = p \o q
  <2>1. Stream = lines \o w
    <3> DEFINE i == iq[1]
    <3>1. lines \in Seq(Lines) /\ i \in Seq(Lines) /\ toHost \in Seq(Lines)
      BY StreamTypes
    <3> HIDE DEF i
    <3>2. (lines \o i) \o toHost = lines \o (i \o toHost)
      BY <3>1, ThreeConcat
    <3> QED
      BY <3>2 DEF Stream, i
  <2> HIDE DEF w
  <2> QED
    BY <1>2, <2>1, OnlyConcat DEF Told
<1>4. full \in AnswersTo(sent) /\ full \in Seq(Lines)
  <2>1. \A t \in AnswersTo(sent) : t \in Seq(Lines)
    BY HostTypes, AnswerShapes
  <2>2. full \in AnswersTo(sent)
    BY HostTypes, AnswerShapes
  <2> HIDE DEF full
  <2> QED
    BY <2>1, <2>2
<1>5. CASE Answered
  <2>1. Told \in AnswersTo(sent) /\ IsPrefix(p, Told)
    <3> HIDE DEF p, q
    <3> QED
      BY <1>2, <1>3, <1>5, PrefixOfConcat DEF Answered
  <2>2. ASSUME HasResult PROVE p = Told /\ Found(Last(Told))
    <3> DEFINE n == Len(lines)
               x == lines[n]
               f == SubSeq(lines, 1, n - 1)
    <3>1. Found(x)
      BY <1>1, <2>2, ResultAnswered DEF Last
    <3>2. n \in Nat /\ n >= 1
      <4>1. lines # <<>>
        BY <2>2 DEF HasResult
      <4> QED
        BY <1>2, <4>1
    <3>3. f \in Seq(Lines) /\ x \in Lines /\ lines = Append(f, x)
      <4>1. n - 1 \in 0..n /\ (n - 1) + 1 = n /\ (n - 1) + 1 <= n
        BY <3>2
      <4> QED
        BY <1>2, <4>1, FirstLines
    <3> HIDE DEF f, x
    <3> DEFINE g == Only(f, AnswerKinds)
    <3>4. p = Append(g, x) /\ g \in Seq(Lines)
      <4>1. x.kind \in AnswerKinds
        BY <3>1 DEF Found, AnswerKinds
      <4>2. Only(Append(f, x), AnswerKinds) = Append(g, x)
        BY <3>3, <4>1, OnlyAppend
      <4> QED
        BY <3>3, <4>2, OnlyType
    <3> HIDE DEF p, g, q
    <3>5. /\ Len(p) \in Nat /\ Len(p) >= 1 /\ p[Len(p)] = x
      BY <3>3, <3>4, AppendProperties
    <3>6. /\ Len(q) \in Nat /\ Len(Told) = Len(p) + Len(q)
          /\ Len(p) \in DOMAIN Told /\ Told[Len(p)] = x
      BY <1>2, <1>3, <3>5
    <3>7. Len(p) = Len(Told)
      <4>1. \A t \in AnswersTo(sent) : \A i \in DOMAIN t : t[i].kind = "retcode" <=> i = Len(t)
        BY HostTypes, AnswerShapes
      <4> QED
        BY <2>1, <3>1, <3>6, <4>1 DEF Found
    <3>8. q = <<>>
      BY <1>2, <3>5, <3>6, <3>7
    <3>9. p = Told
      BY <1>2, <1>3, <3>8, ConcatEmptySeq
    <3> QED
      BY <3>1, <3>6, <3>7, <3>9 DEF Last
  <2> QED
    BY <2>1, <2>2
<1>6. CASE ~Answered
  <2>1. ~HasResult
    <3>1. ASSUME HasResult PROVE FALSE
      BY <1>1, <1>6, <3>1, ResultAnswered
    <3> QED
      BY <3>1
  <2>2. \E r \in Seq(Lines) : full = Told \o r
    <3>1. Told = <<>> \/ Told = <<Answer(sent, "first")>>
      BY <1>1, <1>6 DEF Course, ToBeWritten, ToBeExecuted, Executed, NeverHeard
    <3>2. CASE Told = <<>>
      BY <1>4, <3>2, ConcatEmptySeq
    <3>3. CASE Told = <<Answer(sent, "first")>>
      <4> DEFINE x == Answer(sent, "first")
                 s == <<x>>
                 r == Tail(full)
      <4>1. full # <<>> /\ Head(full) = x
        OBVIOUS
      <4>2. /\ r \in Seq(Lines) /\ Append(<<>>, x) = s
            /\ Append(<<>>, Head(full)) \o r = <<>> \o full /\ <<>> \o full = full
        <5>1. <<>> \in Seq(Lines)
          OBVIOUS
        <5>2. Append(<<>>, x) = s
          OBVIOUS
        <5> HIDE DEF full, x
        <5> QED
          BY <1>4, <4>1, <5>1, <5>2, MoveHead, ConcatEmptySeq
      <4>3. full = Told \o r
        <5> HIDE DEF full, x, r
        <5> QED
          BY <3>3, <4>1, <4>2 DEF x
      <4> QED
        BY <4>2, <4>3
    <3> QED
      BY <3>1, <3>2, <3>3
  <2>3. PICK r \in Seq(Lines) : full = Told \o r
    BY <2>2
  <2>4. IsPrefix(p, full)
    <3> HIDE DEF p, q, full
    <3>1. full = p \o (q \o r) /\ q \o r \in Seq(Lines)
      <4>1. p \in Seq(Lines) /\ q \in Seq(Lines) /\ r \in Seq(Lines)
        BY <1>2
      <4>2. (p \o q) \o r = p \o (q \o r) /\ q \o r \in Seq(Lines)
        BY <4>1, ThreeConcat
      <4> QED
        BY <1>3, <2>3, <4>2
    <3> QED
      BY <1>2, <3>1, PrefixOfConcat
  <2> HIDE DEF full
  <2> QED
    BY <1>4, <2>1, <2>4
<1> QED
  BY <1>5, <1>6

(* TInv, OInv and AInv together are inductive.                             *)
LEMMA AlwaysAnswered == Spec => [](TInv /\ OInv /\ AInv)
<1>1. Init => TInv /\ OInv /\ AInv
  BY InitTyped, InitOrdered, InitAnswered
<1>2. (TInv /\ OInv /\ AInv) /\ [Next]_vars => (TInv /\ OInv /\ AInv)'
  BY NextTyped, NextOrdered, NextAnswered
<1> QED
  BY <1>1, <1>2, PTL DEF Spec

(* The result of the last command sent, if no answer was on its way when   *)
(* it was sent and its device is the only one created (OfLastCommand), is  *)
(* the answer of the board to that command, from its first line, in order  *)
(* and without a gap, whatever the threads of the device and the events do *)
(* meanwhile and whatever earlier answers were left unread (device.py      *)
(* send, flush and wait_for_output, ble_device.py command).                *)
THEOREM OwnAnswers == Spec => []AnswersOwn
<1>1. TInv /\ OInv /\ AInv => AnswersOwn
  BY AnswerToLast DEF AnswersOwn
<1> QED
  BY <1>1, AlwaysAnswered, PTL

(* No event that the board writes while it executes such a command is      *)
(* lost, and events are kept in the order they were written                *)
(* (ble_device.py _filter_events).                                         *)
THEOREM KeptEvents == Spec => []EventsKept
<1>1. ASSUME TInv, OInv, AInv, OfLastCommand, HasResult
      PROVE  /\ heard \subseteq {events[i].of : i \in DOMAIN events}
             /\ \A i, j \in DOMAIN events : i < j => events[i].of < events[j].of
  <2>1. heard \subseteq Ids(events)
    BY <1>1 DEF AInv, OfLastCommand, Live, EventsHeard
  <2>2. Ids(events) \subseteq {events[i].of : i \in DOMAIN events}
    BY DEF Ids
  <2>3. \A i, j \in DOMAIN events : i < j => events[i].of < events[j].of
    BY <1>1 DEF OInv, InOrder, Rising
  <2> QED
    BY <2>1, <2>2, <2>3
<1>2. TInv /\ OInv /\ AInv => EventsKept
  BY <1>1 DEF EventsKept
<1> QED
  BY <1>2, AlwaysAnswered, PTL
=============================================================================
