---------------------- MODULE EventQueueClassicProofs ----------------------
(***************************************************************************)
(* Proofs about EventQueueClassic, for any set of nodes, any bound on the  *)
(* delays, any resolution of the clock and any interrupt latency.          *)
(***************************************************************************)
EXTENDS EventQueueClassic, FiniteInduction, SequenceTheorems

(* A sorted list of distinct nodes.                                        *)
GoodList(q) ==
    /\ q \in Seq(Nodes)
    /\ \A i, j \in 1..Len(q) :
          i < j => q[i] # q[j] /\ remaining[q[i]] <= remaining[q[j]]

(* No node of S is ready, or will be found ready by the next update of     *)
(* time, a millisecond or more before its poster asked for it.             *)
GoodTimes(S) ==
    \A m \in S :
        /\ remaining[m] = 0 => due[m] < TicksPerMs
        /\ remaining[m] > 0 =>
              \/ due[m] = 0
              \/ due[m] < Ticks(remaining[m]) + TicksPerMs - elapsed

(* The ticker is set for the first of the nodes of S that wait.            *)
GoodTicker(S) ==
    /\ pending <=> \E m \in S : remaining[m] > 0
    /\ armed <=> pending
    /\ timerOn <=> pending
    /\ ~pending => elapsed = 0
    /\ \A m \in S : remaining[m] > 0 =>
          alarm < Ticks(remaining[m]) + TicksPerMs - elapsed
    /\ pending => \E m \in S :
          remaining[m] > 0 /\ Ticks(remaining[m]) - elapsed <= alarm

Good(q) == GoodList(q) /\ GoodTimes(Range(q)) /\ GoodTicker(Range(q))

(* The inductive invariant.                                                *)
IInv == TypeOK /\ Good(queue)

-----------------------------------------------------------------------------
(* Arithmetic of milliseconds and ticks.                                   *)
LEMMA TicksNat == \A a \in Nat : Ticks(a) \in Nat
BY ClockAssumption, SMT DEF Ticks

(* No time is no ticks.                                                    *)
LEMMA TicksZero == Ticks(0) = 0
BY ClockAssumption DEF Ticks

(* The ticks of a sum.                                                     *)
LEMMA TicksPlus == \A a, b \in Nat : Ticks(a + b) = Ticks(a) + Ticks(b)
BY ClockAssumption, SMT DEF Ticks

(* The ticks of a difference.                                              *)
LEMMA TicksMinus == \A a, b \in Nat : b <= a => Ticks(a - b) = Ticks(a) - Ticks(b)
BY ClockAssumption, SMT DEF Ticks

(* Later is no fewer ticks.                                                *)
LEMMA TicksMonotone == \A a, b \in Nat : a <= b => Ticks(a) <= Ticks(b)
BY ClockAssumption, SMT DEF Ticks

(* What the timer reads, in whole milliseconds.                            *)
LEMMA TicksTimer ==
    ASSUME elapsed \in Nat
    PROVE  /\ TimerMs \in Nat
           /\ Ticks(TimerMs) <= elapsed
           /\ elapsed < Ticks(TimerMs) + TicksPerMs
BY ClockAssumption, SMT DEF Ticks, TimerMs

(* A count is that many wholes and a rest.                                 *)
LEMMA DivisionWithRest ==
    ASSUME NEW a \in Nat, NEW b \in Nat \ {0}
    PROVE  a % b \in Nat /\ a = (b * (a \div b)) + (a % b)
<1>1. a % b \in Nat
  BY SMT
<1>2. a = (b * (a \div b)) + (a % b)
  BY SMT
<1>3. QED
  BY <1>1, <1>2

(* Inserting in a sequence.                                                *)
LEMMA InsertAtProperties ==
    ASSUME NEW S, NEW s \in Seq(S), NEW i \in 1..(Len(s) + 1), NEW e \in S
    PROVE  /\ InsertAt(s, i, e) \in Seq(S)
           /\ Len(InsertAt(s, i, e)) = Len(s) + 1
           /\ \A j \in 1..(Len(s) + 1) :
                InsertAt(s, i, e)[j] = IF j < i THEN s[j]
                                       ELSE IF j = i THEN e ELSE s[j - 1]
<1> DEFINE front == SubSeq(s, 1, i - 1)
           back  == SubSeq(s, i, Len(s))
<1>0. Len(s) \in Nat /\ \A j \in 1..Len(s) : s[j] \in S
  BY LenProperties, ElementOfSeq
<1>1. /\ front \in Seq(S) /\ Len(front) = i - 1
      /\ \A j \in 1..(i - 1) : front[j] = s[j]
  <2>1. \A j \in 1..(i - 1) : s[j] \in S
    BY <1>0
  <2>2. QED
    BY <1>0, <2>1, SubSeqProperties
<1>2. /\ back \in Seq(S) /\ Len(back) = Len(s) - i + 1
      /\ \A j \in 1..(Len(s) - i + 1) : back[j] = s[i + j - 1]
  <2>1. \A j \in i..Len(s) : s[j] \in S
    BY <1>0
  <2>2. QED
    BY <1>0, <2>1, SubSeqProperties
<1>3. <<e>> \in Seq(S) /\ Len(<<e>>) = 1 /\ <<e>>[1] = e
  OBVIOUS
<1> HIDE DEF front, back
<1>4. /\ front \o <<e>> \in Seq(S) /\ Len(front \o <<e>>) = i
      /\ \A j \in 1..i : (front \o <<e>>)[j] = IF j < i THEN s[j] ELSE e
  BY <1>0, <1>1, <1>3, ConcatProperties
<1> DEFINE left == front \o <<e>>
<1>5. InsertAt(s, i, e) = left \o back
  BY DEF InsertAt, front, back
<1> HIDE DEF left
<1>6. /\ left \in Seq(S) /\ Len(left) = i
      /\ \A j \in 1..i : left[j] = IF j < i THEN s[j] ELSE e
  BY <1>4 DEF left
<1>7. /\ left \o back \in Seq(S)
      /\ Len(left \o back) = Len(s) + 1
      /\ \A j \in 1..(Len(s) + 1) :
           (left \o back)[j] = IF j <= i THEN left[j] ELSE back[j - i]
  <2>1. Len(left) + Len(back) = Len(s) + 1
    BY <1>0, <1>2, <1>6
  <2>2. left \in Seq(S) /\ back \in Seq(S) /\ Len(left) = i
    BY <1>2, <1>6
  <2>3. QED
    BY <2>1, <2>2, ConcatProperties
<1>8. QED
  BY <1>0, <1>2, <1>5, <1>6, <1>7

(* Removing from a sequence.                                               *)
LEMMA RemoveAtProperties ==
    ASSUME NEW S, NEW s \in Seq(S), NEW i \in 1..Len(s)
    PROVE  /\ RemoveAt(s, i) \in Seq(S)
           /\ Len(RemoveAt(s, i)) = Len(s) - 1
           /\ \A j \in 1..(Len(s) - 1) :
                RemoveAt(s, i)[j] = IF j < i THEN s[j] ELSE s[j + 1]
<1> DEFINE front == SubSeq(s, 1, i - 1)
           back  == SubSeq(s, i + 1, Len(s))
<1>0. Len(s) \in Nat /\ \A j \in 1..Len(s) : s[j] \in S
  BY LenProperties, ElementOfSeq
<1>1. /\ front \in Seq(S) /\ Len(front) = i - 1
      /\ \A j \in 1..(i - 1) : front[j] = s[j]
  <2>1. \A j \in 1..(i - 1) : s[j] \in S
    BY <1>0
  <2>2. QED
    BY <1>0, <2>1, SubSeqProperties
<1>2. /\ back \in Seq(S) /\ Len(back) = Len(s) - i
      /\ \A j \in 1..(Len(s) - i) : back[j] = s[i + j]
  <2>1. \A j \in (i + 1)..Len(s) : s[j] \in S
    BY <1>0
  <2>2. QED
    BY <1>0, <2>1, SubSeqProperties
<1>3. RemoveAt(s, i) = front \o back
  BY DEF RemoveAt
<1> HIDE DEF front, back
<1>4. /\ front \o back \in Seq(S)
      /\ Len(front \o back) = Len(s) - 1
      /\ \A j \in 1..(Len(s) - 1) :
           (front \o back)[j] = IF j <= i - 1 THEN front[j] ELSE back[j - (i - 1)]
  <2>1. Len(front) + Len(back) = Len(s) - 1
    BY <1>0, <1>1, <1>2
  <2>2. front \in Seq(S) /\ back \in Seq(S)
    BY <1>1, <1>2
  <2>3. /\ front \o back \in Seq(S)
        /\ Len(front \o back) = Len(front) + Len(back)
        /\ \A j \in 1..(Len(front) + Len(back)) :
             (front \o back)[j] = IF j <= Len(front) THEN front[j] ELSE back[j - Len(front)]
    BY <2>2, ConcatProperties
  <2>4. Len(front) = i - 1
    BY <1>1
  <2>5. QED
    BY <2>1, <2>3, <2>4
<1>5. QED
  BY <1>0, <1>1, <1>2, <1>3, <1>4

(* The nodes of a list after an insertion, and after a removal.            *)
LEMMA InsertAtRange ==
    ASSUME NEW S, NEW s \in Seq(S), NEW i \in 1..(Len(s) + 1), NEW e \in S
    PROVE  Range(InsertAt(s, i, e)) = Range(s) \union {e}
<1> DEFINE t == InsertAt(s, i, e)
<1>1. /\ t \in Seq(S) /\ Len(t) = Len(s) + 1
      /\ \A j \in 1..(Len(s) + 1) :
           t[j] = IF j < i THEN s[j] ELSE IF j = i THEN e ELSE s[j - 1]
  BY InsertAtProperties
<1>2. Len(s) \in Nat /\ DOMAIN s = 1..Len(s) /\ DOMAIN t = 1..(Len(s) + 1)
  BY <1>1, LenProperties
<1> HIDE DEF t
<1>3. \A x \in Range(t) : x \in Range(s) \union {e}
  BY <1>1, <1>2 DEF Range
<1>4. ASSUME NEW k \in 1..Len(s) PROVE s[k] \in Range(t)
  <2>1. CASE k < i
    BY <1>1, <1>2, <2>1, SMTT(30) DEF Range
  <2>2. CASE ~(k < i)
    <3>1. k + 1 \in 1..(Len(s) + 1) /\ t[k + 1] = s[k]
      BY <1>1, <1>2, <2>2
    <3>2. QED
      BY <1>2, <3>1 DEF Range
  <2>3. QED
    BY <2>1, <2>2
<1>5. e \in Range(t)
  BY <1>1, <1>2 DEF Range
<1>6. Range(s) \subseteq Range(t)
  BY <1>2, <1>4 DEF Range
<1>7. QED
  BY <1>3, <1>5, <1>6 DEF t

(* Taking an element out adds none.                                        *)
LEMMA RemoveAtRange ==
    ASSUME NEW S, NEW s \in Seq(S), NEW i \in 1..Len(s)
    PROVE  Range(RemoveAt(s, i)) \subseteq Range(s)
<1> DEFINE t == RemoveAt(s, i)
<1>1. /\ t \in Seq(S) /\ Len(t) = Len(s) - 1
      /\ \A j \in 1..(Len(s) - 1) : t[j] = IF j < i THEN s[j] ELSE s[j + 1]
  BY RemoveAtProperties
<1>2. Len(s) \in Nat /\ DOMAIN s = 1..Len(s) /\ DOMAIN t = 1..(Len(s) - 1)
  BY <1>1, LenProperties
<1> HIDE DEF t
<1>3. ASSUME NEW j \in 1..(Len(s) - 1) PROVE t[j] \in Range(s)
  BY <1>1, <1>2, SMTT(30) DEF Range
<1>4. Range(t) \subseteq Range(s)
  BY <1>2, <1>3 DEF Range
<1>5. QED
  BY <1>4 DEF t

(* The nodes of a list are where its positions say.                        *)
LEMMA RangeElements ==
    ASSUME NEW S, NEW s \in Seq(S)
    PROVE  /\ Range(s) \subseteq S
           /\ \A i \in 1..Len(s) : s[i] \in Range(s)
           /\ \A x \in Range(s) : \E i \in 1..Len(s) : s[i] = x
           /\ DOMAIN s = 1..Len(s)
           /\ Len(s) \in Nat
BY LenProperties, ElementOfSeq DEF Range

-----------------------------------------------------------------------------
(* do_post and reschedule_event: entering node n for ms milliseconds in a  *)
(* good list keeps it good.                                                *)
LEMMA EnterGood ==
    ASSUME TypeOK,
           NEW q \in Seq(Nodes), NEW n \in Nodes, NEW ms \in Nat,
           n \notin Range(q), Good(q),
           Enter(q, n, ms), elapsed' = elapsed
    PROVE  /\ Good(queue)'
           /\ remaining' \in [Nodes -> Nat]
           /\ due' \in [Nodes -> Nat]
           /\ pending' \in BOOLEAN /\ timerOn' \in BOOLEAN /\ armed' \in BOOLEAN
           /\ alarm' \in Int
<1> DEFINE r == IF ms > 0 /\ pending THEN ms + TimerMs ELSE ms
<1> USE ClockAssumption
<1>1. PICK i \in 1..(Len(q) + 1) :
        /\ IsSlot(q, i, r)
        /\ queue' = InsertAt(q, i, n)
        /\ remaining' = [remaining EXCEPT ![n] = r]
        /\ due' = [due EXCEPT ![n] = Ticks(ms)]
        /\ IF ms > 0 /\ (~pending \/ \A j \in 1..(i - 1) : remaining[q[j]] = 0)
           THEN Arm(ms)
           ELSE UNCHANGED clock
  BY DEF Enter
<1>2. /\ TimerMs \in Nat
      /\ Ticks(TimerMs) <= elapsed
      /\ elapsed < Ticks(TimerMs) + TicksPerMs
  BY TicksTimer DEF TypeOK
<1>3. /\ r \in Nat /\ (r > 0 <=> ms > 0)
      /\ Ticks(ms) \in Nat /\ Ticks(r) \in Nat
      /\ Ticks(r) - elapsed <= Ticks(ms)
      /\ ms > 0 => Ticks(ms) < Ticks(r) + TicksPerMs - elapsed
  <2>0. elapsed \in Nat /\ Ticks(ms) \in Nat
    BY TicksNat DEF TypeOK
  <2>1. CASE ms > 0 /\ pending
    <3>1. r = ms + TimerMs
      BY <2>1
    <3>2. Ticks(r) = Ticks(ms) + Ticks(TimerMs)
      BY <1>2, <3>1, TicksPlus
    <3>3. Ticks(TimerMs) \in Nat
      BY <1>2, TicksNat
    <3>4. QED
      BY <1>2, <2>0, <2>1, <3>1, <3>2, <3>3
  <2>2. CASE ms > 0 /\ ~pending
    <3>1. elapsed = 0 /\ r = ms
      BY <2>2 DEF Good, GoodTicker
    <3>2. QED
      BY <2>0, <2>2, <3>1
  <2>3. CASE ms = 0
    BY <2>0, <2>3
  <2>4. QED
    BY <2>1, <2>2, <2>3
<1>4. /\ queue' \in Seq(Nodes) /\ Len(queue') = Len(q) + 1
      /\ \A j \in 1..(Len(q) + 1) :
           queue'[j] = IF j < i THEN q[j] ELSE IF j = i THEN n ELSE q[j - 1]
      /\ Range(queue') = Range(q) \union {n}
  <2>1. queue' = InsertAt(q, i, n)
    BY <1>1
  <2>2. Range(queue') = Range(q) \union {n}
    BY <2>1, InsertAtRange
  <2>3. InsertAt(q, i, n) \in Seq(Nodes)
    BY InsertAtProperties
  <2>4. Len(InsertAt(q, i, n)) = Len(q) + 1
    BY InsertAtProperties
  <2>5. ASSUME NEW j \in 1..(Len(q) + 1)
        PROVE  InsertAt(q, i, n)[j] = IF j < i THEN q[j] ELSE IF j = i THEN n ELSE q[j - 1]
    BY InsertAtProperties
  <2>6. QED
    BY <2>1, <2>2, <2>3, <2>4, <2>5
<1>5. /\ Range(q) \subseteq Nodes
      /\ \A j \in 1..Len(q) : q[j] \in Range(q)
      /\ \A m \in Range(q) : \E j \in 1..Len(q) : q[j] = m
      /\ Len(q) \in Nat
  BY RangeElements
<1>0. /\ elapsed \in Nat /\ elapsed' \in Nat /\ alarm \in Int
      /\ pending \in BOOLEAN /\ armed \in BOOLEAN /\ timerOn \in BOOLEAN
      /\ \A m \in Range(q) : /\ m \in Nodes /\ remaining[m] \in Nat /\ due[m] \in Nat
                             /\ Ticks(remaining[m]) \in Nat
  BY <1>5, TicksNat DEF TypeOK
<1> HIDE DEF r
<1>6. /\ remaining' \in [Nodes -> Nat] /\ remaining'[n] = r
      /\ due' \in [Nodes -> Nat] /\ due'[n] = Ticks(ms)
      /\ \A m \in Range(q) : remaining'[m] = remaining[m] /\ due'[m] = due[m]
  BY <1>1, <1>3, <1>5 DEF TypeOK
<1>7. /\ \A j \in 1..(i - 1) : remaining[q[j]] <= r
      /\ \A j \in i..Len(q) : r < remaining[q[j]]
  <2>1. ASSUME NEW j \in i..Len(q) PROVE r < remaining[q[j]]
    <3>1. i \in 1..Len(q) /\ j \in 1..Len(q) /\ r < remaining[q[i]]
      BY <1>1, <1>5 DEF IsSlot
    <3>2. remaining[q[i]] <= remaining[q[j]]
      <4>1. CASE i = j
        BY <3>1, <4>1, <1>5, SMTT(30) DEF TypeOK
      <4>2. CASE i < j
        BY <3>1, <4>2 DEF Good, GoodList
      <4>3. QED
        BY <4>1, <4>2, <1>5
    <3>3. remaining[q[i]] \in Nat /\ remaining[q[j]] \in Nat
      BY <3>1, <1>5 DEF TypeOK
    <3>4. QED
      BY <3>1, <3>2, <3>3, <1>3
  <2>2. QED
    BY <1>1, <2>1 DEF IsSlot
<1>8. GoodList(queue)'
  <2>1. SUFFICES ASSUME NEW a \in 1..(Len(q) + 1), NEW b \in 1..(Len(q) + 1), a < b
                 PROVE  /\ queue'[a] # queue'[b]
                        /\ remaining'[queue'[a]] <= remaining'[queue'[b]]
    BY <1>4 DEF GoodList
  <2>2. \A j \in 1..Len(q) : /\ q[j] # n /\ q[j] \in Nodes
                             /\ remaining'[q[j]] = remaining[q[j]]
                             /\ remaining[q[j]] \in Nat
    BY <1>5, <1>6 DEF TypeOK
  <2>3. \A j, k \in 1..Len(q) : j < k => q[j] # q[k] /\ remaining[q[j]] <= remaining[q[k]]
    BY DEF Good, GoodList
  <2>4. CASE a < i /\ b < i
    BY <1>4, <1>5, <2>1, <2>2, <2>3, <2>4
  <2>5. CASE a < i /\ b = i
    <3>1. a \in 1..(i - 1) /\ a \in 1..Len(q) /\ queue'[a] = q[a] /\ queue'[b] = n
      BY <1>4, <1>5, <2>1, <2>5
    <3>2. remaining[q[a]] <= r /\ remaining'[n] = r
      BY <1>6, <1>7, <3>1
    <3>3. q[a] # n /\ remaining'[q[a]] = remaining[q[a]]
      BY <2>2, <3>1
    <3>4. QED
      BY <3>1, <3>2, <3>3
  <2>6. CASE a < i /\ b > i
    <3>1. b - 1 \in 1..Len(q) /\ a \in 1..Len(q) /\ a < b - 1
          /\ queue'[a] = q[a] /\ queue'[b] = q[b - 1]
      BY <1>4, <1>5, <2>1, <2>6
    <3>2. QED
      BY <2>2, <2>3, <3>1
  <2>7. CASE a = i /\ b > i
    <3>1. b - 1 \in i..Len(q) /\ b - 1 \in 1..Len(q)
          /\ queue'[a] = n /\ queue'[b] = q[b - 1]
      BY <1>4, <1>5, <2>1, <2>7
    <3>2. r < remaining[q[b - 1]] /\ r \in Nat
      BY <1>3, <1>7, <3>1
    <3>3. /\ q[b - 1] # n /\ remaining'[q[b - 1]] = remaining[q[b - 1]]
          /\ remaining[q[b - 1]] \in Nat
      BY <2>2, <3>1
    <3>4. remaining'[n] = r
      BY <1>6
    <3>5. QED
      BY <3>1, <3>2, <3>3, <3>4
  <2>8. CASE a > i
    <3>1. a - 1 \in 1..Len(q) /\ b - 1 \in 1..Len(q) /\ a - 1 < b - 1
          /\ queue'[a] = q[a - 1] /\ queue'[b] = q[b - 1]
      BY <1>4, <1>5, <2>1, <2>8
    <3>2. QED
      BY <2>2, <2>3, <3>1
  <2>9. QED
    BY <2>1, <2>4, <2>5, <2>6, <2>7, <2>8
<1>9. GoodTimes(Range(queue))'
  <2>1. ASSUME NEW m \in Range(q)
        PROVE  /\ remaining'[m] = 0 => due'[m] < TicksPerMs
               /\ remaining'[m] > 0 =>
                    \/ due'[m] = 0
                    \/ due'[m] < Ticks(remaining'[m]) + TicksPerMs - elapsed'
    BY <1>6 DEF Good, GoodTimes
  <2>2. /\ remaining'[n] = 0 => due'[n] < TicksPerMs
        /\ remaining'[n] > 0 =>
             due'[n] < Ticks(remaining'[n]) + TicksPerMs - elapsed'
    <3>1. CASE ms = 0
      BY <1>3, <1>6, <3>1, TicksZero
    <3>2. CASE ms > 0
      BY <1>3, <1>6, <3>2
    <3>3. QED
      BY <3>1, <3>2
  <2>3. QED
    BY <1>4, <2>1, <2>2 DEF GoodTimes
<1>10. /\ GoodTicker(Range(queue))'
       /\ pending' \in BOOLEAN /\ timerOn' \in BOOLEAN /\ armed' \in BOOLEAN
       /\ alarm' \in Int
  <2>0. /\ pending <=> \E m \in Range(q) : remaining[m] > 0
        /\ armed <=> pending
        /\ timerOn <=> pending
        /\ ~pending => elapsed = 0
        /\ \A m \in Range(q) : remaining[m] > 0 =>
              alarm < Ticks(remaining[m]) + TicksPerMs - elapsed
        /\ pending => \E m \in Range(q) :
              remaining[m] > 0 /\ Ticks(remaining[m]) - elapsed <= alarm
    BY DEF Good, GoodTicker
  <2>1. CASE ms = 0
    <3>1. pending' = pending /\ armed' = armed /\ timerOn' = timerOn /\ alarm' = alarm
      BY <1>1, <2>1 DEF clock
    <3>2. remaining'[n] = 0
      BY <1>3, <1>6, <2>1
    <3>3. \A m \in Range(queue') : remaining'[m] > 0 =>
            m \in Range(q) /\ remaining[m] > 0 /\ remaining'[m] = remaining[m]
      BY <1>4, <1>6, <3>2
    <3>4. \A m \in Range(q) : m \in Range(queue') /\ remaining'[m] = remaining[m]
      BY <1>4, <1>6
    <3>5. pending' <=> \E m \in Range(queue') : remaining'[m] > 0
      BY <2>0, <3>1, <3>3, <3>4
    <3>6. \A m \in Range(queue') : remaining'[m] > 0 =>
            alarm' < Ticks(remaining'[m]) + TicksPerMs - elapsed'
      BY <2>0, <3>1, <3>3
    <3>7. pending' => \E m \in Range(queue') :
            remaining'[m] > 0 /\ Ticks(remaining'[m]) - elapsed' <= alarm'
      BY <2>0, <3>1, <3>4
    <3>8. QED
      BY <1>0, <2>0, <3>1, <3>5, <3>6, <3>7 DEF GoodTicker
  <2>2. CASE ms > 0 /\ (~pending \/ \A j \in 1..(i - 1) : remaining[q[j]] = 0)
    <3>1. /\ pending' = TRUE /\ armed' = TRUE /\ timerOn' = TRUE
          /\ alarm' = Ticks(ms)
      BY <1>1, <2>2 DEF Arm
    <3>2. /\ remaining'[n] > 0
          /\ alarm' < Ticks(remaining'[n]) + TicksPerMs - elapsed'
          /\ Ticks(remaining'[n]) - elapsed' <= alarm'
      BY <1>3, <1>6, <2>2, <3>1
    <3>3. ASSUME NEW m \in Range(q), remaining'[m] > 0
          PROVE  alarm' < Ticks(remaining'[m]) + TicksPerMs - elapsed'
      <4>0. remaining[m] > 0 /\ remaining'[m] = remaining[m] /\ remaining[m] # 0
        BY <1>0, <1>6, <3>3
      <4>1. PICK j \in 1..Len(q) : q[j] = m
        BY <1>5
      <4>2. pending
        BY <2>0, <4>0
      <4>3. j \in i..Len(q)
        BY <1>5, <2>2, <4>0, <4>1, <4>2
      <4>4. r <= remaining[m]
        BY <1>0, <1>3, <1>7, <4>1, <4>3, SMTT(30)
      <4>5. Ticks(r) <= Ticks(remaining[m])
        BY <1>0, <1>3, <4>4, TicksMonotone
      <4>6. Ticks(ms) < Ticks(r) + TicksPerMs - elapsed
        BY <1>3, <2>2
      <4>7. Ticks(ms) < Ticks(remaining[m]) + TicksPerMs - elapsed
        <5>1. Ticks(remaining[m]) \in Nat /\ TicksPerMs \in Nat /\ elapsed \in Nat
          BY <1>0
        <5>2. Ticks(r) \in Nat /\ Ticks(ms) \in Nat
          BY <1>3
        <5>3. QED
          BY <4>5, <4>6, <5>1, <5>2
      <4>8. QED
        BY <3>1, <4>0, <4>7
    <3>4. alarm' \in Int
      BY <1>3, <3>1
    <3>5. n \in Range(queue')
      BY <1>4
    <3>6. QED
      BY <1>4, <3>1, <3>2, <3>3, <3>4, <3>5 DEF GoodTicker
  <2>3. CASE ms > 0 /\ pending /\ \E j \in 1..(i - 1) : remaining[q[j]] # 0
    <3>1. pending' = pending /\ armed' = armed /\ timerOn' = timerOn /\ alarm' = alarm
      BY <1>1, <2>3 DEF clock
    <3>2. PICK j \in 1..(i - 1) : remaining[q[j]] # 0
      BY <2>3
    <3>3. j \in 1..Len(q) /\ remaining[q[j]] <= r
      BY <1>5, <1>7, <3>2
    <3>4. PICK m \in Range(q) : m = q[j]
      BY <1>5, <3>3
    <3>5. remaining[m] > 0 /\ remaining[m] <= r
      BY <1>0, <3>2, <3>3, <3>4
    <3>6. Ticks(remaining[m]) <= Ticks(r)
      BY <1>0, <1>3, <3>5, TicksMonotone
    <3>7. alarm < Ticks(remaining[m]) + TicksPerMs - elapsed
      BY <2>0, <3>5
    <3>8. alarm' < Ticks(remaining'[n]) + TicksPerMs - elapsed'
      BY <1>0, <1>3, <1>6, <3>1, <3>6, <3>7
    <3>9. remaining'[n] > 0 /\ pending'
      BY <1>3, <1>6, <2>3, <3>1
    <3>10. QED
      BY <1>0, <1>4, <1>6, <2>0, <2>3, <3>1, <3>8, <3>9 DEF GoodTicker
  <2>4. ms = 0 \/ ms > 0
    OBVIOUS
  <2>5. QED
    BY <1>0, <2>1, <2>2, <2>3, <2>4
<1>11. QED
  BY <1>6, <1>8, <1>9, <1>10 DEF Good

(* updateTime: whatever part of a good list it is applied to is good.      *)
LEMMA UpdateTimeGood ==
    ASSUME TypeOK,
           NEW q \in Seq(Nodes), GoodList(q), GoodTimes(Range(q)),
           UpdateTime(q), queue' = q,
           due' \in [Nodes -> Nat], \A m \in Range(q) : due'[m] = due[m]
    PROVE  /\ Good(queue)'
           /\ remaining' \in [Nodes -> Nat]
           /\ elapsed' = 0
           /\ pending' \in BOOLEAN /\ timerOn' \in BOOLEAN /\ armed' \in BOOLEAN
           /\ alarm' \in Int
<1> USE ClockAssumption
<1>1. /\ elapsed \in Nat /\ TimerMs \in Nat /\ Ticks(TimerMs) \in Nat
      /\ Ticks(TimerMs) <= elapsed
  BY TicksTimer, TicksNat DEF TypeOK
<1>2. /\ \A j \in 1..Len(q) : q[j] \in Range(q)
      /\ \A m \in Range(q) : \E j \in 1..Len(q) : q[j] = m
      /\ DOMAIN q = 1..Len(q) /\ Len(q) \in Nat
      /\ Range(q) \subseteq Nodes
  BY RangeElements
<1>3. /\ remaining' = [m \in Nodes |-> IF m \in Range(q) THEN Left(m) ELSE 0]
      /\ elapsed' = 0
  BY DEF UpdateTime
<1>4. ASSUME NEW m \in Nodes
      PROVE  /\ remaining[m] \in Nat /\ due[m] \in Nat /\ Left(m) \in Nat
             /\ remaining[m] <= TimerMs => Left(m) = 0
             /\ ~(remaining[m] <= TimerMs) =>
                  Left(m) = remaining[m] - TimerMs /\ Left(m) > 0
  BY <1>1 DEF TypeOK, Left
<1>5. remaining' \in [Nodes -> Nat] /\ \A m \in Range(q) : remaining'[m] = Left(m)
  BY <1>2, <1>3, <1>4
<1>6. ASSUME NEW a \in Nodes, NEW b \in Nodes, remaining[a] <= remaining[b]
      PROVE  Left(a) <= Left(b)
  <2>1. CASE remaining[b] <= TimerMs
    BY <1>1, <1>4, <1>6, <2>1, SMTT(30)
  <2>2. CASE ~(remaining[b] <= TimerMs)
    <3>1. remaining[a] \in Nat /\ remaining[b] \in Nat /\ Left(b) = remaining[b] - TimerMs
          /\ Left(b) > 0
      BY <1>4, <2>2
    <3>2. Left(a) = 0 \/ Left(a) = remaining[a] - TimerMs
      BY <1>4
    <3>3. QED
      BY <1>1, <1>6, <3>1, <3>2
  <2>3. QED
    BY <2>1, <2>2
<1>7. ASSUME NEW m \in Range(q)
      PROVE  /\ Left(m) = 0 => due[m] < TicksPerMs
             /\ Left(m) > 0 => due[m] = 0 \/ due[m] < Ticks(Left(m)) + TicksPerMs
  <2>0. m \in Nodes
    BY <1>2
  <2>1. /\ remaining[m] \in Nat /\ due[m] \in Nat /\ Left(m) \in Nat
        /\ Ticks(remaining[m]) \in Nat
    BY <1>4, <2>0, TicksNat
  <2>2. /\ remaining[m] = 0 => due[m] < TicksPerMs
        /\ remaining[m] > 0 => \/ due[m] = 0
                               \/ due[m] < Ticks(remaining[m]) + TicksPerMs - elapsed
    BY DEF GoodTimes
  <2>3. CASE remaining[m] <= TimerMs
    <3>1. Ticks(remaining[m]) <= Ticks(TimerMs)
      BY <1>1, <2>1, <2>3, TicksMonotone
    <3>2. Left(m) = 0
      BY <1>4, <2>0, <2>3
    <3>3. due[m] < TicksPerMs
      BY <1>1, <2>1, <2>2, <3>1
    <3>4. QED
      BY <3>2, <3>3
  <2>4. CASE ~(remaining[m] <= TimerMs)
    <3>1. Left(m) = remaining[m] - TimerMs /\ Left(m) > 0
      BY <1>4, <2>0, <2>4
    <3>2. Ticks(Left(m)) = Ticks(remaining[m]) - Ticks(TimerMs)
      BY <1>1, <2>1, <2>4, <3>1, TicksMinus
    <3>3. due[m] = 0 \/ due[m] < Ticks(Left(m)) + TicksPerMs
      BY <1>1, <2>1, <2>2, <2>4, <3>2
    <3>4. QED
      BY <3>1, <3>3
  <2>5. QED
    BY <2>3, <2>4
<1>8. GoodList(queue)'
  <2>1. \A i, j \in 1..Len(q) : i < j => q[i] # q[j] /\ remaining[q[i]] <= remaining[q[j]]
    BY DEF GoodList
  <2>2. ASSUME NEW i \in 1..Len(q), NEW j \in 1..Len(q), i < j
        PROVE  q[i] # q[j] /\ remaining'[q[i]] <= remaining'[q[j]]
    <3>1. q[i] \in Range(q) /\ q[j] \in Range(q) /\ q[i] \in Nodes /\ q[j] \in Nodes
      BY <1>2
    <3>2. q[i] # q[j] /\ Left(q[i]) <= Left(q[j])
      BY <1>6, <2>1, <2>2, <3>1
    <3>3. QED
      BY <1>5, <3>1, <3>2
  <2>3. QED
    BY <2>2 DEF GoodList
<1>9. GoodTimes(Range(queue))'
  <2>1. ASSUME NEW m \in Range(q)
        PROVE  /\ remaining'[m] = 0 => due'[m] < TicksPerMs
               /\ remaining'[m] > 0 =>
                    \/ due'[m] = 0
                    \/ due'[m] < Ticks(remaining'[m]) + TicksPerMs - elapsed'
    <3>1. remaining'[m] = Left(m) /\ due'[m] = due[m] /\ elapsed' = 0
      BY <1>3, <1>5
    <3>2. Left(m) > 0 => Ticks(Left(m)) \in Nat
      BY <1>2, <1>4, TicksNat
    <3>3. QED
      BY <1>7, <3>1, <3>2
  <2>2. QED
    BY <2>1 DEF GoodTimes
<1>10. /\ GoodTicker(Range(queue))'
       /\ pending' \in BOOLEAN /\ timerOn' \in BOOLEAN /\ armed' \in BOOLEAN
       /\ alarm' \in Int
  <2>1. CASE /\ \A i \in DOMAIN q : Left(q[i]) = 0
             /\ Disarm
    <3>1. /\ pending' = FALSE /\ armed' = FALSE /\ timerOn' = FALSE
          /\ alarm' = 0
      BY <2>1 DEF Disarm
    <3>2. ASSUME NEW m \in Range(q) PROVE ~(remaining'[m] > 0)
      <4>1. PICK j \in DOMAIN q : q[j] = m
        BY <1>2
      <4>2. remaining'[m] = 0
        BY <1>5, <2>1, <4>1
      <4>3. QED
        BY <4>2
    <3>3. GoodTicker(Range(queue))'
      BY <1>3, <3>1, <3>2, Zenon DEF GoodTicker
    <3>4. alarm' \in Int
      BY <3>1
    <3>5. QED
      BY <3>1, <3>3, <3>4
  <2>2. ASSUME NEW i \in DOMAIN q,
               Left(q[i]) > 0, \A j \in 1..(i - 1) : Left(q[j]) = 0, Arm(Left(q[i]))
        PROVE  /\ GoodTicker(Range(queue))'
               /\ pending' \in BOOLEAN /\ timerOn' \in BOOLEAN /\ armed' \in BOOLEAN
               /\ alarm' \in Int
    <3>1. q[i] \in Range(q) /\ q[i] \in Nodes /\ i \in 1..Len(q)
      BY <1>2
    <3>2. /\ Left(q[i]) \in Nat /\ Ticks(Left(q[i])) \in Nat
          /\ remaining'[q[i]] = Left(q[i])
      BY <1>4, <1>5, <3>1, TicksNat
    <3>3. /\ pending' = TRUE /\ armed' = TRUE /\ timerOn' = TRUE
          /\ alarm' = Ticks(Left(q[i]))
      BY <2>2 DEF Arm
    <3>4. ASSUME NEW m \in Range(q), remaining'[m] > 0
          PROVE  alarm' < Ticks(remaining'[m]) + TicksPerMs - elapsed'
      <4>1. PICK j \in 1..Len(q) : q[j] = m
        BY <1>2
      <4>2. m \in Nodes /\ Left(m) \in Nat /\ remaining'[m] = Left(m) /\ Left(m) > 0
        BY <1>2, <1>4, <1>5, <3>4
      <4>3. i <= j
        BY <1>2, <2>2, <3>1, <4>1, <4>2
      <4>4. Left(q[i]) <= Left(m)
        <5>1. CASE i = j
          BY <3>2, <4>1, <5>1
        <5>2. CASE i < j
          <6>1. remaining[q[i]] <= remaining[m]
            BY <3>1, <4>1, <5>2 DEF GoodList
          <6>2. QED
            BY <1>6, <3>1, <4>2, <6>1
        <5>3. QED
          BY <3>1, <4>3, <5>1, <5>2
      <4>5. Ticks(Left(q[i])) <= Ticks(Left(m)) /\ Ticks(Left(m)) \in Nat
        BY <3>2, <4>2, <4>4, TicksMonotone, TicksNat
      <4>6. QED
        BY <1>3, <3>2, <3>3, <4>2, <4>5
    <3>5. Ticks(remaining'[q[i]]) - elapsed' <= alarm' /\ remaining'[q[i]] > 0
      BY <1>3, <2>2, <3>2, <3>3
    <3>6. alarm' \in Int
      BY <3>2, <3>3
    <3>7. QED
      BY <3>1, <3>3, <3>4, <3>5, <3>6 DEF GoodTicker
  <2>3. QED
    BY <2>1, <2>2 DEF UpdateTime
<1>11. QED
  BY <1>3, <1>5, <1>8, <1>9, <1>10 DEF Good

-----------------------------------------------------------------------------

(* The queue is empty at first.                                            *)
LEMMA InitInvariant == Init => IInv
<1> SUFFICES ASSUME Init PROVE IInv
  OBVIOUS
<1>1. TypeOK
  <2>1. queue \in Seq(Nodes)
    BY EmptySeq DEF Init
  <2>2. /\ remaining \in [Nodes -> Nat] /\ period \in [Nodes -> Nat]
        /\ due \in [Nodes -> Nat]
    BY DEF Init
  <2>3. elapsed \in Nat /\ alarm \in Int
    BY DEF Init
  <2>4. /\ pending \in BOOLEAN /\ timerOn \in BOOLEAN /\ armed \in BOOLEAN
        /\ busy \in BOOLEAN /\ hung \in BOOLEAN
    BY DEF Init
  <2>5. QED
    BY <2>1, <2>2, <2>3, <2>4 DEF TypeOK
<1>2. queue = <<>> /\ Len(queue) = 0 /\ Range(queue) = {}
  BY DEF Init, Range
<1>3. GoodList(queue) /\ GoodTimes(Range(queue))
  BY <1>1, <1>2 DEF GoodList, GoodTimes, TypeOK
<1>4. GoodTicker(Range(queue))
  BY <1>2 DEF GoodTicker, Init
<1>5. QED
  BY <1>1, <1>3, <1>4 DEF IInv, Good

(* An event is posted.                                                     *)
LEMMA PostInvariant ==
    ASSUME IInv, NEW n \in Nodes, NEW ms \in 0..MaxDelay, NEW repeat \in BOOLEAN,
           Post(n, ms, repeat)
    PROVE  IInv'
<1>1. /\ TypeOK /\ Good(queue) /\ queue \in Seq(Nodes) /\ n \notin Range(queue)
      /\ Enter(queue, n, ms) /\ elapsed' = elapsed /\ busy' = busy /\ hung' = hung
  BY DEF IInv, TypeOK, Post, Queued
<1>2. ms \in Nat
  BY ClockAssumption
<1>3. /\ Good(queue)'
      /\ remaining' \in [Nodes -> Nat] /\ due' \in [Nodes -> Nat]
      /\ pending' \in BOOLEAN /\ timerOn' \in BOOLEAN /\ armed' \in BOOLEAN
      /\ alarm' \in Int
  BY <1>1, <1>2, EnterGood
<1>4. period' \in [Nodes -> Nat]
  BY <1>2 DEF IInv, TypeOK, Post
<1>5. TypeOK'
  BY <1>1, <1>3, <1>4 DEF TypeOK, Good, GoodList
<1>6. QED
  BY <1>3, <1>5 DEF IInv

(* The alarm of the ticker rings.                                          *)
LEMMA TickerIsrInvariant == ASSUME IInv, TickerIsr PROVE IInv'
<1>1. /\ TypeOK /\ queue \in Seq(Nodes) /\ GoodList(queue) /\ GoodTimes(Range(queue))
      /\ UpdateTime(queue) /\ queue' = queue /\ due' = due
      /\ period' = period /\ busy' = busy /\ hung' = hung
  BY DEF IInv, Good, TypeOK, TickerIsr
<1>2. due' \in [Nodes -> Nat]
  BY <1>1 DEF TypeOK
<1>3. /\ Good(queue)' /\ remaining' \in [Nodes -> Nat] /\ elapsed' = 0
      /\ pending' \in BOOLEAN /\ timerOn' \in BOOLEAN /\ armed' \in BOOLEAN
      /\ alarm' \in Int
  BY <1>1, <1>2, UpdateTimeGood
<1>4. TypeOK'
  BY <1>1, <1>2, <1>3 DEF TypeOK
<1>5. QED
  BY <1>3, <1>4 DEF IInv

(* What is left of a good list when the node at position i is removed.     *)
LEMMA RemoveGood ==
    ASSUME IInv, NEW i \in 1..Len(queue)
    PROVE  /\ RemoveAt(queue, i) \in Seq(Nodes)
           /\ GoodList(RemoveAt(queue, i))
           /\ Range(RemoveAt(queue, i)) \subseteq Range(queue) \ {queue[i]}
<1> DEFINE q == RemoveAt(queue, i)
<1>1. /\ queue \in Seq(Nodes)
      /\ \A j, k \in 1..Len(queue) :
           j < k => queue[j] # queue[k] /\ remaining[queue[j]] <= remaining[queue[k]]
  BY DEF IInv, Good, GoodList
<1>2. q \in Seq(Nodes)
  BY <1>1, RemoveAtProperties
<1>3. Len(q) = Len(queue) - 1 /\ Len(queue) \in Nat
  BY <1>1, RemoveAtProperties, LenProperties
<1>4. ASSUME NEW j \in 1..(Len(queue) - 1)
      PROVE  q[j] = IF j < i THEN queue[j] ELSE queue[j + 1]
  BY <1>1, RemoveAtProperties
<1> HIDE DEF q
<1>5. ASSUME NEW j \in 1..Len(q)
      PROVE  \E k \in 1..Len(queue) : q[j] = queue[k] /\ k # i
  <2>1. CASE j < i
    BY <1>3, <1>4, <2>1
  <2>2. CASE ~(j < i)
    <3>1. j + 1 \in 1..Len(queue) /\ j + 1 # i /\ q[j] = queue[j + 1]
      BY <1>3, <1>4, <2>2
    <3>2. QED
      BY <3>1
  <2>3. QED
    BY <2>1, <2>2
<1>6. Range(q) \subseteq Range(queue) \ {queue[i]}
  <2>1. ASSUME NEW m \in Range(q) PROVE m \in Range(queue) /\ m # queue[i]
    <3>1. PICK j \in 1..Len(q) : q[j] = m
      BY <1>2, RangeElements
    <3>2. PICK k \in 1..Len(queue) : q[j] = queue[k] /\ k # i
      BY <1>5
    <3>3. queue[k] \in Range(queue)
      BY <1>1, RangeElements
    <3>4. queue[k] # queue[i]
      BY <1>1, <1>3, <3>2
    <3>5. QED
      BY <3>1, <3>2, <3>3, <3>4
  <2>2. QED
    BY <2>1
<1>7. GoodList(q)
  <2>1. ASSUME NEW a \in 1..Len(q), NEW b \in 1..Len(q), a < b
        PROVE  q[a] # q[b] /\ remaining[q[a]] <= remaining[q[b]]
    <3>1. PICK k \in 1..Len(queue) : q[a] = queue[k] /\ k \in {a, a + 1} /\ (k = a <=> a < i)
      <4>1. CASE a < i
        BY <1>3, <1>4, <4>1
      <4>2. CASE ~(a < i)
        BY <1>3, <1>4, <4>2
      <4>3. QED
        BY <4>1, <4>2
    <3>2. PICK l \in 1..Len(queue) : q[b] = queue[l] /\ l \in {b, b + 1} /\ (l = b <=> b < i)
      <4>1. CASE b < i
        BY <1>3, <1>4, <4>1
      <4>2. CASE ~(b < i)
        BY <1>3, <1>4, <4>2
      <4>3. QED
        BY <4>1, <4>2
    <3>3. k < l
      BY <1>3, <2>1, <3>1, <3>2
    <3>4. QED
      BY <1>1, <3>1, <3>2, <3>3
  <2>2. QED
    BY <1>2, <2>1 DEF GoodList
<1>8. QED
  BY <1>2, <1>6, <1>7 DEF q

(* An event is cancelled.                                                  *)
LEMMA CancelInvariant == ASSUME IInv, NEW n \in Nodes, Cancel(n) PROVE IInv'
<1>0. /\ TypeOK /\ GoodTimes(Range(queue)) /\ queue \in Seq(Nodes)
      /\ DOMAIN queue = 1..Len(queue)
  BY LenProperties DEF IInv, Good, TypeOK
<1>1. PICK i \in 1..Len(queue) : IF i <= 2 THEN Unlink(i) ELSE EraseLoops
  BY <1>0 DEF Cancel
<1>2. CASE Unlink(i)
  <2> DEFINE q == RemoveAt(queue, i)
  <2>1. /\ q \in Seq(Nodes) /\ GoodList(q)
        /\ Range(q) \subseteq Range(queue) \ {queue[i]}
    BY RemoveGood
  <2>2. /\ queue' = q /\ UpdateTime(q) /\ busy' = busy /\ hung' = hung
        /\ period' = [period EXCEPT ![queue[i]] = 0]
        /\ due' = [due EXCEPT ![queue[i]] = 0]
    BY <1>2 DEF Unlink
  <2> HIDE DEF q
  <2>3. GoodTimes(Range(q))
    BY <1>0, <2>1 DEF GoodTimes
  <2>4. /\ due' \in [Nodes -> Nat] /\ period' \in [Nodes -> Nat]
        /\ \A m \in Nodes \ {queue[i]} : due'[m] = due[m]
    BY <1>0, <2>2 DEF TypeOK
  <2>5. \A m \in Range(q) : due'[m] = due[m]
    <3>1. Range(q) \subseteq Nodes
      BY <2>1, RangeElements
    <3>2. QED
      BY <2>1, <2>4, <3>1
  <2>6. /\ Good(queue)' /\ remaining' \in [Nodes -> Nat] /\ elapsed' = 0
        /\ pending' \in BOOLEAN /\ timerOn' \in BOOLEAN /\ armed' \in BOOLEAN
        /\ alarm' \in Int
    BY <1>0, <2>1, <2>2, <2>3, <2>4, <2>5, UpdateTimeGood
  <2>7. TypeOK'
    BY <1>0, <2>1, <2>2, <2>4, <2>6 DEF TypeOK
  <2>8. QED
    BY <2>6, <2>7 DEF IInv
<1>3. CASE EraseLoops
  <2>1. /\ queue' = queue /\ remaining' = remaining /\ period' = period
        /\ pending' = pending /\ armed' = armed /\ timerOn' = timerOn /\ alarm' = alarm
        /\ elapsed' = elapsed /\ busy' = busy /\ due' = due /\ hung' = TRUE
    BY <1>3 DEF EraseLoops, clock
  <2>2. TypeOK'
    BY <1>0, <2>1 DEF TypeOK
  <2>3. Good(queue)'
    BY <2>1 DEF IInv, Good, GoodList, GoodTimes, GoodTicker
  <2>4. QED
    BY <2>2, <2>3 DEF IInv
<1>4. QED
  BY <1>1, <1>2, <1>3

(* What is left of a good queue when its ready head is popped: nothing     *)
(* that waits is lost, so the ticker is still set for it.                  *)
LEMMA PopGood ==
    ASSUME IInv, queue # <<>>, remaining[Head(queue)] = 0
    PROVE  /\ Tail(queue) \in Seq(Nodes) /\ Head(queue) \in Nodes
           /\ Head(queue) \notin Range(Tail(queue))
           /\ Range(Tail(queue)) \subseteq Range(queue)
           /\ Good(Tail(queue))
<1> DEFINE q == Tail(queue)
           h == Head(queue)
<1>1. /\ queue \in Seq(Nodes)
      /\ \A j, k \in 1..Len(queue) :
           j < k => queue[j] # queue[k] /\ remaining[queue[j]] <= remaining[queue[k]]
  BY DEF IInv, Good, GoodList
<1>2. /\ q \in Seq(Nodes) /\ h \in Nodes /\ Len(q) = Len(queue) - 1
      /\ \A j \in 1..Len(q) : q[j] = queue[j + 1]
  BY <1>1, HeadTailProperties
<1>3. Len(queue) \in Nat \ {0} /\ h = queue[1]
  BY <1>1, EmptySeq
<1> HIDE DEF q, h
<1>4. ASSUME NEW m \in Range(q) PROVE m \in Range(queue) /\ m # h
  <2>1. PICK j \in 1..Len(q) : q[j] = m
    BY <1>2, RangeElements
  <2>2. j + 1 \in 1..Len(queue) /\ 1 \in 1..Len(queue) /\ 1 < j + 1 /\ m = queue[j + 1]
    BY <1>2, <1>3, <2>1
  <2>3. queue[j + 1] \in Range(queue)
    BY <1>1, <2>2, RangeElements
  <2>4. QED
    BY <1>1, <1>3, <2>2, <2>3
<1>5. ASSUME NEW m \in Range(queue), m # h PROVE m \in Range(q)
  <2>1. PICK j \in 1..Len(queue) : queue[j] = m
    BY <1>1, RangeElements
  <2>2. j - 1 \in 1..Len(q) /\ m = q[j - 1]
    BY <1>2, <1>3, <1>5, <2>1
  <2>3. QED
    BY <1>2, <2>2, RangeElements
<1>6. GoodList(q)
  <2>1. ASSUME NEW a \in 1..Len(q), NEW b \in 1..Len(q), a < b
        PROVE  q[a] # q[b] /\ remaining[q[a]] <= remaining[q[b]]
    <3>1. /\ a + 1 \in 1..Len(queue) /\ b + 1 \in 1..Len(queue) /\ a + 1 < b + 1
          /\ q[a] = queue[a + 1] /\ q[b] = queue[b + 1]
      BY <1>2, <1>3, <2>1
    <3>2. QED
      BY <1>1, <3>1
  <2>2. QED
    BY <1>2, <2>1 DEF GoodList
<1>7. GoodTimes(Range(q))
  BY <1>4 DEF IInv, Good, GoodTimes
<1>8. GoodTicker(Range(q))
  <2>1. remaining[h] = 0
    BY DEF h
  <2>2. \A m \in Range(queue) : remaining[m] > 0 => m \in Range(q)
    BY <1>5, <2>1
  <2>3. GoodTicker(Range(queue))
    BY DEF IInv, Good
  <2>4. QED
    BY <1>4, <2>2, <2>3, Zenon DEF GoodTicker
<1>9. Range(q) \subseteq Range(queue) /\ h \notin Range(q)
  BY <1>4
<1>10. QED
  BY <1>2, <1>6, <1>7, <1>8, <1>9 DEF Good, q, h

(* The first event is taken and called.                                    *)
LEMMA DispatchInvariant == ASSUME IInv, Dispatch PROVE IInv'
<1> DEFINE q == Tail(queue)
           h == Head(queue)
<1>1. /\ TypeOK /\ queue # <<>> /\ remaining[h] = 0
      /\ busy' = TRUE /\ hung' = hung /\ period' = period /\ elapsed' = elapsed
  BY DEF IInv, Dispatch
<1>2. /\ q \in Seq(Nodes) /\ h \in Nodes /\ h \notin Range(q) /\ Good(q)
      /\ Range(q) \subseteq Range(queue)
  BY <1>1, PopGood
<1>3. CASE period[h] > 0
  <2>1. Enter(q, h, period[h])
    BY <1>3 DEF Dispatch
  <2>2. period[h] \in Nat
    BY <1>1, <1>2 DEF TypeOK
  <2> HIDE DEF q, h
  <2>3. /\ Good(queue)'
        /\ remaining' \in [Nodes -> Nat] /\ due' \in [Nodes -> Nat]
        /\ pending' \in BOOLEAN /\ timerOn' \in BOOLEAN /\ armed' \in BOOLEAN
        /\ alarm' \in Int
    BY <1>1, <1>2, <2>1, <2>2, EnterGood
  <2>4. TypeOK'
    BY <1>1, <2>3 DEF TypeOK, Good, GoodList
  <2>5. QED
    BY <2>3, <2>4 DEF IInv
<1>4. CASE ~(period[h] > 0)
  <2>1. /\ queue' = q /\ due' = [due EXCEPT ![h] = 0] /\ remaining' = remaining
        /\ pending' = pending /\ armed' = armed /\ timerOn' = timerOn /\ alarm' = alarm
    BY <1>4 DEF Dispatch, clock
  <2> HIDE DEF q, h
  <2>2. due' \in [Nodes -> Nat]
    BY <1>1, <2>1 DEF TypeOK
  <2>3. \A m \in Range(q) : due'[m] = due[m]
    <3>1. \A m \in Range(q) : m \in Nodes /\ m # h
      BY <1>2, RangeElements
    <3>2. QED
      BY <1>1, <2>1, <3>1 DEF TypeOK
  <2>4. TypeOK'
    BY <1>1, <1>2, <2>1, <2>2 DEF TypeOK
  <2>5. GoodList(queue)' /\ GoodTicker(Range(queue))'
    BY <1>1, <1>2, <2>1 DEF Good, GoodList, GoodTicker
  <2>6. GoodTimes(Range(queue))'
    BY <1>1, <1>2, <2>1, <2>3 DEF Good, GoodTimes
  <2>7. QED
    BY <2>4, <2>5, <2>6 DEF IInv, Good
<1>5. QED
  BY <1>3, <1>4

(* Time goes by.                                                           *)
LEMMA TickInvariant == ASSUME IInv, Tick PROVE IInv'
<1>1. /\ TypeOK /\ GoodList(queue) /\ GoodTimes(Range(queue)) /\ GoodTicker(Range(queue))
      /\ queue \in Seq(Nodes) /\ Range(queue) \subseteq Nodes
  BY RangeElements DEF IInv, Good, TypeOK
<1>2. /\ queue' = queue /\ remaining' = remaining /\ period' = period
      /\ pending' = pending /\ timerOn' = timerOn /\ armed' = armed
      /\ busy' = busy /\ hung' = hung
      /\ due' = [n \in Nodes |-> IF due[n] > 0 THEN due[n] - 1 ELSE 0]
      /\ elapsed' = (IF timerOn THEN elapsed + 1 ELSE elapsed)
      /\ alarm' = (IF armed THEN alarm - 1 ELSE alarm)
  BY DEF Tick
<1>3. /\ elapsed \in Nat /\ alarm \in Int /\ due \in [Nodes -> Nat]
      /\ pending \in BOOLEAN /\ timerOn \in BOOLEAN /\ armed \in BOOLEAN
      /\ remaining \in [Nodes -> Nat]
  BY <1>1 DEF TypeOK
<1>4. due' \in [Nodes -> Nat] /\ elapsed' \in Nat /\ alarm' \in Int
  BY <1>2, <1>3
<1>5. TypeOK'
  BY <1>1, <1>2, <1>4 DEF TypeOK
<1>6. ASSUME NEW m \in Range(queue), remaining[m] > 0
      PROVE  /\ elapsed' = elapsed + 1 /\ alarm' = alarm - 1
             /\ Ticks(remaining[m]) \in Nat
  BY <1>1, <1>2, <1>3, <1>6, TicksNat DEF GoodTicker
<1>7. GoodTimes(Range(queue))'
  <2>1. ASSUME NEW m \in Range(queue)
        PROVE  /\ remaining[m] = 0 => due'[m] < TicksPerMs
               /\ remaining[m] > 0 =>
                    \/ due'[m] = 0
                    \/ due'[m] < Ticks(remaining[m]) + TicksPerMs - elapsed'
    <3>1. /\ remaining[m] = 0 => due[m] < TicksPerMs
          /\ remaining[m] > 0 =>
               \/ due[m] = 0
               \/ due[m] < Ticks(remaining[m]) + TicksPerMs - elapsed
      BY <1>1 DEF GoodTimes
    <3>2. /\ due'[m] = (IF due[m] > 0 THEN due[m] - 1 ELSE 0) /\ due[m] \in Nat
          /\ TicksPerMs \in Nat /\ remaining[m] \in Nat
      BY <1>1, <1>2, <1>3, ClockAssumption
    <3>3. CASE remaining[m] = 0
      BY <3>1, <3>2, <3>3
    <3>4. CASE remaining[m] > 0
      BY <1>3, <1>6, <3>1, <3>2, <3>4
    <3>5. QED
      BY <3>2, <3>3, <3>4
  <2>2. QED
    BY <1>2, <2>1 DEF GoodTimes
<1>8. GoodTicker(Range(queue))'
  <2>1. /\ pending <=> \E m \in Range(queue) : remaining[m] > 0
        /\ armed <=> pending
        /\ timerOn <=> pending
        /\ ~pending => elapsed = 0
        /\ \A m \in Range(queue) : remaining[m] > 0 =>
              alarm < Ticks(remaining[m]) + TicksPerMs - elapsed
        /\ pending => \E m \in Range(queue) :
              remaining[m] > 0 /\ Ticks(remaining[m]) - elapsed <= alarm
    BY <1>1 DEF GoodTicker
  <2>2. ~pending => elapsed' = 0
    BY <1>2, <2>1
  <2>3. ASSUME NEW m \in Range(queue), remaining[m] > 0
        PROVE  alarm' < Ticks(remaining[m]) + TicksPerMs - elapsed'
    <3>1. alarm < Ticks(remaining[m]) + TicksPerMs - elapsed
      BY <2>1, <2>3
    <3>2. QED
      BY <1>3, <1>6, <2>3, <3>1, ClockAssumption
  <2>4. ASSUME pending
        PROVE  \E m \in Range(queue) :
                 remaining[m] > 0 /\ Ticks(remaining[m]) - elapsed' <= alarm'
    <3>1. PICK m \in Range(queue) :
            remaining[m] > 0 /\ Ticks(remaining[m]) - elapsed <= alarm
      BY <2>1, <2>4
    <3>2. Ticks(remaining[m]) - elapsed' <= alarm'
      BY <1>3, <1>6, <3>1
    <3>3. QED
      BY <3>1, <3>2
  <2>5. QED
    BY <1>2, <2>1, <2>2, <2>3, <2>4 DEF GoodTicker
<1>9. QED
  BY <1>1, <1>2, <1>5, <1>7, <1>8 DEF IInv, Good, GoodList

(* Steps that leave the queue and the clock as they are.                   *)
LEMMA QuietInvariant ==
    ASSUME IInv, Return \/ Spin \/ UNCHANGED vars PROVE IInv'
<1>1. /\ queue' = queue /\ remaining' = remaining /\ period' = period
      /\ pending' = pending /\ armed' = armed /\ timerOn' = timerOn /\ alarm' = alarm
      /\ elapsed' = elapsed /\ due' = due /\ hung' = hung /\ busy' \in {busy, FALSE}
  BY DEF Return, Spin, vars, clock
<1>2. TypeOK'
  BY <1>1 DEF IInv, TypeOK
<1>3. Good(queue)'
  BY <1>1 DEF IInv, Good, GoodList, GoodTimes, GoodTicker
<1>4. QED
  BY <1>2, <1>3 DEF IInv

-----------------------------------------------------------------------------
(* The invariant holds throughout: whatever is posted, cancelled or timed  *)
(* out, and whenever interrupts come, the list stays good.                 *)
THEOREM Invariance == Spec => []IInv
<1>1. IInv /\ [Next]_vars => IInv'
  <2> SUFFICES ASSUME IInv, [Next]_vars PROVE IInv'
    OBVIOUS
  <2>1. ASSUME NEW n \in Nodes, NEW ms \in 0..MaxDelay, NEW repeat \in BOOLEAN,
               Post(n, ms, repeat)
        PROVE  IInv'
    BY <2>1, PostInvariant
  <2>2. ASSUME NEW n \in Nodes, Cancel(n) PROVE IInv'
    BY <2>2, CancelInvariant
  <2>3. CASE Dispatch
    BY <2>3, DispatchInvariant
  <2>4. CASE TickerIsr
    BY <2>4, TickerIsrInvariant
  <2>5. CASE Tick
    BY <2>5, TickInvariant
  <2>6. CASE Return \/ Spin \/ UNCHANGED vars
    BY <2>6, QuietInvariant
  <2>7. QED
    BY <2>1, <2>2, <2>3, <2>4, <2>5, <2>6 DEF Next
<1>2. QED
  BY <1>1, InitInvariant, PTL DEF Spec

(* Type correctness, for every set of nodes and every clock.               *)
THEOREM TypeCorrectness == Spec => []TypeOK
<1>1. IInv => TypeOK
  BY DEF IInv
<1>2. QED
  BY <1>1, Invariance, PTL

(* The list of events stays sorted and without duplicates, although the    *)
(* remaining times of queued events are rewritten in place.                *)
THEOREM QueueSorted == Spec => []Sorted
<1>1. IInv => Sorted
  BY LenProperties DEF IInv, Good, GoodList, Sorted
<1>2. QED
  BY <1>1, Invariance, PTL

(* No event becomes ready a millisecond or more before the instant its     *)
(* poster asked for, whatever the resolution of the clock.                 *)
THEOREM NoEarlyEvent == Spec => []NeverEarly
<1>1. IInv => NeverEarly
  BY DEF IInv, Good, GoodTimes, NeverEarly, Ready, Queued
<1>2. QED
  BY <1>1, Invariance, PTL

(* As long as an event waits for its time the ticker is attached, and set  *)
(* to less than a millisecond after the first of those that wait.          *)
THEOREM TickerAlwaysCovers == Spec => []TickerCovers
<1>1. IInv => TickerCovers
  <2> SUFFICES ASSUME IInv PROVE TickerCovers
    OBVIOUS
  <2>1. /\ pending <=> \E m \in Range(queue) : remaining[m] > 0
        /\ armed <=> pending
        /\ timerOn <=> pending
        /\ \A m \in Range(queue) : remaining[m] > 0 =>
              alarm < Ticks(remaining[m]) + TicksPerMs - elapsed
        /\ pending => \E m \in Range(queue) :
              remaining[m] > 0 /\ Ticks(remaining[m]) - elapsed <= alarm
    BY DEF IInv, Good, GoodTicker
  <2>2. pending \in BOOLEAN /\ armed \in BOOLEAN /\ timerOn \in BOOLEAN
    BY DEF IInv, TypeOK
  <2>3. pending = (Timed # {}) /\ armed = pending /\ timerOn = pending
    BY <2>1, <2>2 DEF Timed, Queued
  <2>4. QED
    BY <2>1, <2>3 DEF TickerCovers, Timed, Queued
<1>2. QED
  BY <1>1, Invariance, PTL

-----------------------------------------------------------------------------
(* The ticker is set for the node that enters only when that one comes     *)
(* before those that wait, hence before the alarm.                         *)
LEMMA EnterNeverDelays ==
    ASSUME TypeOK, pending,
           NEW q \in Seq(Nodes), NEW n \in Nodes, NEW ms \in Nat,
           Good(q), Enter(q, n, ms)
    PROVE  alarm' <= alarm
<1> DEFINE r == IF ms > 0 /\ pending THEN ms + TimerMs ELSE ms
<1>1. PICK i \in 1..(Len(q) + 1) :
        /\ IsSlot(q, i, r)
        /\ IF ms > 0 /\ (~pending \/ \A j \in 1..(i - 1) : remaining[q[j]] = 0)
           THEN Arm(ms)
           ELSE UNCHANGED clock
  BY DEF Enter
<1>2. /\ TimerMs \in Nat /\ Ticks(TimerMs) \in Nat /\ Ticks(ms) \in Nat
      /\ elapsed \in Nat /\ alarm \in Int /\ TicksPerMs \in Nat
      /\ elapsed < Ticks(TimerMs) + TicksPerMs
  BY TicksTimer, TicksNat, ClockAssumption DEF TypeOK
<1>3. CASE ms > 0 /\ \A j \in 1..(i - 1) : remaining[q[j]] = 0
  <2>1. PICK m \in Range(q) : remaining[m] > 0 /\ Ticks(remaining[m]) - elapsed <= alarm
    BY DEF Good, GoodTicker
  <2>2. PICK j \in 1..Len(q) : q[j] = m
    BY RangeElements
  <2>3. \A k \in 1..Len(q) : remaining[q[k]] \in Nat
    BY ElementOfSeq DEF TypeOK
  <2>4. Len(q) \in Nat
    BY LenProperties
  <2>5. ~(j \in 1..(i - 1))
    BY <1>3, <2>1, <2>2
  <2>6. i \in 1..Len(q) /\ i <= j
    BY <2>4, <2>5
  <2>7. ms + TimerMs < remaining[q[i]]
    <3>1. r < remaining[q[i]]
      BY <1>1, <2>6 DEF IsSlot
    <3>2. r = ms + TimerMs
      BY <1>3
    <3> HIDE DEF r
    <3>3. QED
      BY <3>1, <3>2
  <2> HIDE DEF r
  <2>8. remaining[q[i]] <= remaining[m]
    <3>1. CASE i = j
      BY <2>2, <2>3, <2>6, <3>1
    <3>2. CASE i < j
      BY <2>2, <2>6, <3>2 DEF Good, GoodList
    <3>3. QED
      BY <2>6, <3>1, <3>2
  <2>9. remaining[m] \in Nat /\ (ms + TimerMs) + 1 \in Nat
        /\ (ms + TimerMs) + 1 <= remaining[m]
    <3>1. remaining[m] \in Nat /\ remaining[q[i]] \in Nat
      BY <2>2, <2>3, <2>6
    <3> DEFINE a == ms + TimerMs
               b == remaining[q[i]]
               c == remaining[m]
    <3>2. a \in Nat /\ a < b
      BY <1>2, <2>7
    <3>3. b \in Nat /\ c \in Nat /\ b <= c
      BY <2>8, <3>1
    <3> HIDE DEF a, b, c
    <3>4. c \in Nat /\ a + 1 \in Nat /\ a + 1 <= c
      BY <3>2, <3>3
    <3>5. QED
      BY <3>4 DEF a, c
  <2>10. Ticks((ms + TimerMs) + 1) <= Ticks(remaining[m]) /\ Ticks(remaining[m]) \in Nat
    BY <2>9, TicksMonotone, TicksNat
  <2>11. Ticks((ms + TimerMs) + 1) = Ticks(ms) + Ticks(TimerMs) + TicksPerMs
    <3>1. Ticks((ms + TimerMs) + 1) = Ticks(ms + TimerMs) + Ticks(1)
      BY <1>2, TicksPlus
    <3>2. Ticks(ms + TimerMs) = Ticks(ms) + Ticks(TimerMs)
      BY <1>2, TicksPlus
    <3>3. Ticks(1) = TicksPerMs
      BY <1>2 DEF Ticks
    <3>4. QED
      BY <3>1, <3>2, <3>3
  <2>12. alarm' = Ticks(ms)
    BY <1>1, <1>3 DEF Arm
  <2>13. Ticks(ms) <= alarm
    <3> DEFINE t == Ticks(ms)
               e == Ticks(TimerMs)
               p == Ticks((ms + TimerMs) + 1)
               c == Ticks(remaining[m])
    <3>1. /\ t \in Nat /\ e \in Nat /\ c \in Nat /\ p <= c /\ p = t + e + TicksPerMs
          /\ elapsed \in Nat /\ alarm \in Int /\ TicksPerMs \in Nat
          /\ elapsed < e + TicksPerMs /\ c - elapsed <= alarm
      BY <1>2, <2>1, <2>10, <2>11
    <3> HIDE DEF t, e, p, c
    <3>2. t <= alarm
      BY <3>1
    <3>3. QED
      BY <3>2 DEF t
  <2>14. QED
    BY <2>12, <2>13
<1>4. CASE ~(ms > 0 /\ \A j \in 1..(i - 1) : remaining[q[j]] = 0)
  <2>1. ~(ms > 0 /\ (~pending \/ \A j \in 1..(i - 1) : remaining[q[j]] = 0))
    BY <1>4, Zenon
  <2>2. UNCHANGED clock
    BY <1>1, <2>1, Zenon
  <2>3. QED
    BY <1>2, <2>2 DEF clock
<1>5. QED
  BY <1>3, <1>4

(* When no time was counted and nothing that waits is removed, an update   *)
(* of time sets the ticker for the event that it was set for, or sooner.   *)
LEMMA UnlinkNeverDelays ==
    ASSUME IInv, NEW i \in 1..Len(queue), Unlink(i),
           pending, pending', elapsed' = elapsed, Timed \subseteq Range(queue')
    PROVE  alarm' <= alarm
<1> DEFINE q == RemoveAt(queue, i)
<1>1. /\ q \in Seq(Nodes) /\ GoodList(q) /\ DOMAIN q = 1..Len(q) /\ Len(q) \in Nat
  BY RemoveGood, LenProperties
<1>2. /\ queue' = q /\ UpdateTime(q)
  BY DEF Unlink
<1> HIDE DEF q
<1>3. /\ TypeOK /\ elapsed = 0 /\ TimerMs = 0 /\ alarm \in Int
  <2>1. elapsed = 0 /\ TypeOK /\ alarm \in Int
    BY <1>2 DEF UpdateTime, IInv, TypeOK
  <2>2. QED
    BY <2>1, ClockAssumption DEF TimerMs
<1>4. \A k \in 1..Len(q) : remaining[q[k]] \in Nat /\ Left(q[k]) = remaining[q[k]]
  <2>1. \A k \in 1..Len(q) : remaining[q[k]] \in Nat
    BY <1>1, <1>3, ElementOfSeq DEF TypeOK
  <2>2. QED
    BY <1>3, <2>1 DEF Left
<1>5. PICK m \in Range(queue) : remaining[m] > 0 /\ Ticks(remaining[m]) - elapsed <= alarm
  BY DEF IInv, Good, GoodTicker
<1>6. PICK j \in 1..Len(q) : q[j] = m
  <2>1. m \in Range(q)
    BY <1>2, <1>5 DEF Timed, Queued
  <2>2. QED
    BY <1>1, <2>1, RangeElements
<1>7. PICK k \in 1..Len(q) :
        /\ \A l \in 1..(k - 1) : Left(q[l]) = 0
        /\ Arm(Left(q[k]))
  BY <1>1, <1>2 DEF UpdateTime, Disarm
<1>8. k <= j
  BY <1>1, <1>4, <1>5, <1>6, <1>7
<1>9. remaining[q[k]] <= remaining[m]
  <2>1. CASE k = j
    BY <1>4, <1>6, <2>1
  <2>2. CASE k < j
    BY <1>1, <1>6, <2>2 DEF GoodList
  <2>3. QED
    BY <1>1, <1>8, <2>1, <2>2
<1>10. /\ Ticks(remaining[q[k]]) <= Ticks(remaining[m])
       /\ Ticks(remaining[q[k]]) \in Nat /\ Ticks(remaining[m]) \in Nat
  BY <1>4, <1>6, <1>9, TicksMonotone, TicksNat
<1>11. alarm' = Ticks(remaining[q[k]])
  BY <1>4, <1>7 DEF Arm
<1>12. QED
  BY <1>3, <1>5, <1>10, <1>11

(* Posting never delays: while the timer goes on and what waits goes on    *)
(* waiting, no step sets the ticker later than it was.                     *)
THEOREM PostsNeverDelay == Spec => PostNeverDelays
<1> DEFINE A == pending /\ pending' /\ elapsed' = elapsed /\ Timed \subseteq Range(queue')
                  => alarm' <= alarm
<1>1. IInv /\ [Next]_vars => [A]_vars
  <2> SUFFICES ASSUME IInv, Next, pending, pending', elapsed' = elapsed,
                      Timed \subseteq Range(queue')
               PROVE  alarm' <= alarm
    OBVIOUS
  <2>0. /\ TypeOK /\ Good(queue) /\ queue \in Seq(Nodes) /\ alarm \in Int
        /\ DOMAIN queue = 1..Len(queue)
    BY LenProperties DEF IInv, TypeOK
  <2>1. ASSUME NEW n \in Nodes, NEW ms \in 0..MaxDelay, NEW repeat \in BOOLEAN,
               Post(n, ms, repeat)
        PROVE  alarm' <= alarm
    <3>1. Enter(queue, n, ms) /\ ms \in Nat
      BY <2>1, ClockAssumption DEF Post
    <3>2. QED
      BY <2>0, <3>1, EnterNeverDelays
  <2>2. ASSUME NEW n \in Nodes, Cancel(n) PROVE alarm' <= alarm
    <3>1. PICK i \in 1..Len(queue) : IF i <= 2 THEN Unlink(i) ELSE EraseLoops
      BY <2>0, <2>2 DEF Cancel
    <3>2. CASE Unlink(i)
      BY <3>2, UnlinkNeverDelays
    <3>3. CASE EraseLoops
      BY <2>0, <3>3 DEF EraseLoops, clock
    <3>4. QED
      BY <3>1, <3>2, <3>3
  <2>3. CASE Dispatch
    <3>1. queue # <<>> /\ remaining[Head(queue)] = 0
      BY <2>3 DEF Dispatch
    <3>2. Tail(queue) \in Seq(Nodes) /\ Head(queue) \in Nodes /\ Good(Tail(queue))
      BY <3>1, PopGood
    <3>3. CASE period[Head(queue)] > 0
      <4>1. Enter(Tail(queue), Head(queue), period[Head(queue)])
        BY <2>3, <3>3 DEF Dispatch
      <4>2. period[Head(queue)] \in Nat
        BY <2>0, <3>2 DEF TypeOK
      <4>3. QED
        BY <2>0, <3>2, <4>1, <4>2, EnterNeverDelays
    <3>4. CASE ~(period[Head(queue)] > 0)
      BY <2>0, <2>3, <3>4 DEF Dispatch, clock
    <3>5. QED
      BY <3>3, <3>4
  <2>4. CASE TickerIsr
    <3>1. elapsed = 0 /\ alarm <= 0
      BY <2>4 DEF TickerIsr, UpdateTime
    <3>2. PICK m \in Range(queue) :
            remaining[m] > 0 /\ Ticks(remaining[m]) - elapsed <= alarm
      BY <2>0 DEF Good, GoodTicker
    <3>3. remaining[m] \in Nat
      BY <2>0, RangeElements DEF TypeOK
    <3>4. Ticks(1) <= Ticks(remaining[m]) /\ Ticks(1) = TicksPerMs
          /\ Ticks(remaining[m]) \in Nat
      BY <3>2, <3>3, TicksMonotone, TicksNat, ClockAssumption DEF Ticks
    <3>5. QED
      BY <2>0, <3>1, <3>2, <3>4, ClockAssumption
  <2>5. CASE Tick
    <3>1. timerOn /\ elapsed' = (IF timerOn THEN elapsed + 1 ELSE elapsed) /\ elapsed \in Nat
      BY <2>0, <2>5 DEF Tick, Good, GoodTicker, TypeOK
    <3>2. QED
      BY <3>1
  <2>6. CASE Return \/ Spin
    BY <2>0, <2>6 DEF Return, Spin, vars, clock
  <2>7. QED
    BY <2>1, <2>2, <2>3, <2>4, <2>5, <2>6 DEF Next
<1>2. QED
  BY <1>1, Invariance, PTL DEF Spec, PostNeverDelays

(* What an update of time takes off an event that goes on waiting is what  *)
(* the timer had counted, but for a fraction of a millisecond.             *)
LEMMA UpdateLosesFraction ==
    ASSUME TypeOK, NEW q \in Seq(Nodes), NEW n \in Range(q),
           UpdateTime(q), remaining'[n] > 0, due'[n] = due[n]
    PROVE  Lag(n)' <= Lag(n) + IF elapsed' < elapsed THEN elapsed % TicksPerMs ELSE 0
<1>1. n \in Nodes
  BY RangeElements
<1>2. /\ elapsed \in Nat /\ TimerMs \in Nat /\ remaining[n] \in Nat /\ due[n] \in Nat
  BY <1>1, TicksTimer DEF TypeOK
<1>3. elapsed' = 0 /\ remaining'[n] = remaining[n] - TimerMs /\ TimerMs <= remaining[n]
  BY <1>1, <1>2 DEF UpdateTime, Left
<1>4. /\ Ticks(remaining[n] - TimerMs) = Ticks(remaining[n]) - Ticks(TimerMs)
      /\ Ticks(remaining[n]) \in Nat /\ Ticks(TimerMs) \in Nat
  BY <1>2, <1>3, TicksMinus, TicksNat
<1>5. elapsed = Ticks(TimerMs) + (elapsed % TicksPerMs) /\ elapsed % TicksPerMs \in Nat
  BY <1>2, ClockAssumption, DivisionWithRest DEF Ticks, TimerMs
<1>6. Lag(n)' = Lag(n) + (elapsed % TicksPerMs) /\ Lag(n) \in Int
  <2>1. Lag(n) = Ticks(remaining[n]) - elapsed - due[n]
    BY DEF Lag
  <2>2. Lag(n)' = Ticks(remaining[n] - TimerMs) - 0 - due[n]
    BY <1>3 DEF Lag
  <2> DEFINE r == elapsed % TicksPerMs
             t == Ticks(TimerMs)
             k == Ticks(remaining[n])
             l == Ticks(remaining[n] - TimerMs)
  <2>3. /\ l = k - t /\ elapsed = t + r
        /\ k \in Nat /\ t \in Nat /\ r \in Nat /\ due[n] \in Nat /\ elapsed \in Nat
    BY <1>2, <1>4, <1>5
  <2>4. Lag(n) = k - elapsed - due[n] /\ Lag(n)' = l - 0 - due[n]
    BY <2>1, <2>2
  <2> HIDE DEF r, t, k, l
  <2>5. Lag(n)' = Lag(n) + r /\ Lag(n) \in Int
    BY <2>3, <2>4
  <2>6. QED
    BY <2>5 DEF r
<1>7. CASE elapsed = 0
  <2>1. elapsed % TicksPerMs = 0
    BY <1>7, ClockAssumption
  <2>2. QED
    BY <1>3, <1>6, <1>7, <2>1
<1>8. CASE elapsed > 0
  <2> DEFINE r == elapsed % TicksPerMs
  <2>1. r \in Nat /\ Lag(n)' = Lag(n) + r /\ Lag(n) \in Int
    BY <1>5, <1>6
  <2>2. elapsed' < elapsed
    BY <1>2, <1>3, <1>8
  <2> HIDE DEF r
  <2>3. Lag(n)' <= Lag(n) + r
    BY <2>1
  <2>4. QED
    BY <2>2, <2>3 DEF r
<1>9. QED
  BY <1>2, <1>7, <1>8

(* An event that waits loses no time but the fraction of a millisecond     *)
(* that each update of time drops.                                         *)
THEOREM LittleTimeLost == Spec => OnlyFractionsLost
<1> DEFINE Bound(n) == Lag(n) + IF elapsed' < elapsed THEN elapsed % TicksPerMs ELSE 0
           A == \A n \in Timed : n \in Timed' => Lag(n)' <= Bound(n)
<1>1. IInv /\ [Next]_vars => [A]_vars
  <2> SUFFICES ASSUME IInv, Next, NEW n \in Range(queue), remaining[n] > 0,
                      n \in Range(queue'), remaining'[n] > 0
               PROVE  Lag(n)' <= Bound(n)
    BY DEF Timed, Queued
  <2>0. /\ TypeOK /\ Good(queue) /\ queue \in Seq(Nodes) /\ n \in Nodes
        /\ DOMAIN queue = 1..Len(queue) /\ pending /\ timerOn
    BY LenProperties, RangeElements DEF IInv, TypeOK, Good, GoodTicker
  <2>1. /\ remaining[n] \in Nat /\ due[n] \in Nat /\ elapsed \in Nat
        /\ Ticks(remaining[n]) \in Nat /\ Lag(n) \in Int
    <3>1. remaining[n] \in Nat /\ due[n] \in Nat /\ elapsed \in Nat
      BY <2>0 DEF TypeOK
    <3>2. QED
      BY <3>1, TicksNat DEF Lag
  <2>2. ASSUME remaining'[n] = remaining[n], elapsed' = elapsed, due'[n] = due[n]
        PROVE  Lag(n)' <= Bound(n)
    <3>1. Lag(n)' = Lag(n)
      BY <2>2 DEF Lag
    <3>2. QED
      BY <2>1, <2>2, <3>1
  <2>3. ASSUME NEW m \in Nodes, NEW ms \in 0..MaxDelay, NEW repeat \in BOOLEAN,
               Post(m, ms, repeat)
        PROVE  Lag(n)' <= Bound(n)
    <3>1. m # n /\ Enter(queue, m, ms) /\ elapsed' = elapsed
      BY <2>3 DEF Post, Queued
    <3>2. QED
      BY <2>0, <2>2, <3>1 DEF Enter, TypeOK
  <2>4. ASSUME NEW m \in Nodes, Cancel(m) PROVE Lag(n)' <= Bound(n)
    <3>1. PICK i \in 1..Len(queue) : IF i <= 2 THEN Unlink(i) ELSE EraseLoops
      BY <2>0, <2>4 DEF Cancel
    <3>2. CASE Unlink(i)
      <4>1. queue' = RemoveAt(queue, i) /\ UpdateTime(RemoveAt(queue, i))
            /\ due' = [due EXCEPT ![queue[i]] = 0]
        BY <3>2 DEF Unlink
      <4>2. n \in Range(RemoveAt(queue, i)) /\ n # queue[i] /\ RemoveAt(queue, i) \in Seq(Nodes)
        BY <4>1, RemoveGood
      <4>3. due'[n] = due[n]
        BY <2>0, <4>1, <4>2 DEF TypeOK
      <4>4. QED
        BY <2>0, <4>1, <4>2, <4>3, UpdateLosesFraction
    <3>3. CASE EraseLoops
      BY <2>2, <3>3 DEF EraseLoops
    <3>4. QED
      BY <3>1, <3>2, <3>3
  <2>5. CASE Dispatch
    <3>1. n # Head(queue) /\ elapsed' = elapsed
      BY <2>5 DEF Dispatch
    <3>2. CASE period[Head(queue)] > 0
      BY <2>0, <2>2, <2>5, <3>1, <3>2 DEF Dispatch, Enter, TypeOK
    <3>3. CASE ~(period[Head(queue)] > 0)
      BY <2>0, <2>2, <2>5, <3>1, <3>3 DEF Dispatch, TypeOK
    <3>4. QED
      BY <3>2, <3>3
  <2>6. CASE TickerIsr
    BY <2>0, <2>6, UpdateLosesFraction DEF TickerIsr
  <2>7. CASE Tick
    <3>1. /\ remaining' = remaining /\ elapsed' = elapsed + 1
          /\ due'[n] = IF due[n] > 0 THEN due[n] - 1 ELSE 0
      BY <2>0, <2>7 DEF Tick
    <3>2. Lag(n)' = Ticks(remaining[n]) - (elapsed + 1) - due'[n]
      BY <3>1 DEF Lag
    <3>3. Lag(n) = Ticks(remaining[n]) - elapsed - due[n]
      BY DEF Lag
    <3>4. Lag(n)' <= Lag(n)
      BY <2>1, <3>1, <3>2, <3>3
    <3>5. QED
      BY <2>1, <3>1, <3>4
  <2>8. CASE Return \/ Spin
    BY <2>2, <2>8 DEF Return, Spin, vars
  <2>9. QED
    BY <2>3, <2>4, <2>5, <2>6, <2>7, <2>8 DEF Next
<1>2. QED
  BY <1>1, Invariance, PTL DEF Spec, OnlyFractionsLost

-----------------------------------------------------------------------------
(***************************************************************************)
(* EventQueueClassic implements EventQueue: with the front of the list as  *)
(* the ready events, each of its steps is a step of EventQueue or changes  *)
(* nothing there.                                                          *)
(***************************************************************************)

(* The front of a list.                                                    *)

(* s is what q has in front of the nodes that have time left.              *)
IsFront(s, q, left) ==
    /\ s \in Seq(Nodes)
    /\ Len(s) <= Len(q)
    /\ \A i \in 1..Len(s) : s[i] = q[i]
    /\ \A i \in 1..Len(q) : left[q[i]] = 0 <=> i <= Len(s)

(* The nodes of q that have time left.                                     *)
Later(q, left) == {m \in Range(q) : left[m] > 0}

(* ReadyFront is that front, and nothing else is.                          *)
LEMMA ReadyFrontIs ==
    ASSUME NEW q \in Seq(Nodes), NEW left, NEW s, IsFront(s, q, left)
    PROVE  ReadyFront(q, left) = s
<1>1. /\ s \in Seq(Nodes) /\ Len(s) <= Len(q)
      /\ \A i \in 1..Len(s) : s[i] = q[i]
      /\ \A i \in 1..Len(q) : left[q[i]] = 0 <=> i <= Len(s)
  BY DEF IsFront
<1>2. Len(q) \in Nat /\ DOMAIN q = 1..Len(q) /\ Len(s) \in Nat
  BY <1>1, LenProperties
<1> DEFINE I == {i \in DOMAIN q : left[q[i]] = 0}
<1>3. I = 1..Len(s)
  BY <1>1, <1>2
<1>4. Cardinality(I) = Len(s)
  <2> HIDE DEF I
  <2>0. \A n \in Nat : Cardinality(1..n) = n
    BY FS_Interval
  <2>1. Cardinality(1..Len(s)) = Len(s)
    BY <1>2, <2>0
  <2>2. QED
    BY <1>3, <2>1
<1>5. ReadyFront(q, left) = SubSeq(q, 1, Len(s))
  BY <1>4 DEF ReadyFront
<1>6. \A i \in 1..Len(s) : q[i] \in Nodes
  BY <1>1, <1>2, ElementOfSeq
<1>7. /\ SubSeq(q, 1, Len(s)) \in Seq(Nodes) /\ Len(SubSeq(q, 1, Len(s))) = Len(s)
      /\ \A i \in 1..Len(s) : SubSeq(q, 1, Len(s))[i] = q[i]
  BY <1>2, <1>6, SubSeqProperties
<1>8. QED
  BY <1>1, <1>5, <1>7, SeqEqual

(* ReadyFront gives the events that are due, which come first.             *)
LEMMA ReadyFrontIsFront ==
    ASSUME NEW q \in Seq(Nodes), NEW left \in [Nodes -> Nat],
           \A i, j \in 1..Len(q) : i < j => left[q[i]] <= left[q[j]]
    PROVE  IsFront(ReadyFront(q, left), q, left)
<1>1. Len(q) \in Nat /\ DOMAIN q = 1..Len(q) /\ \A i \in 1..Len(q) : q[i] \in Nodes
  BY LenProperties, ElementOfSeq
<1> DEFINE I == {i \in DOMAIN q : left[q[i]] = 0}
           c == Cardinality(I)
<1>2. I \in SUBSET (1..Len(q))
  BY <1>1
<1>3. ASSUME NEW i \in I, NEW j \in 1..Len(q), j < i PROVE j \in I
  <2>1. left[q[j]] <= left[q[i]] /\ left[q[i]] = 0 /\ left[q[j]] \in Nat
    BY <1>1, <1>3
  <2>2. left[q[j]] = 0
    BY <2>1
  <2>3. QED
    BY <1>1, <2>2
<1>4. c \in 0..Len(q) /\ I = 1..c
  <2> HIDE DEF I
  <2>1. QED
    BY <1>1, <1>2, <1>3, InitialSegment
<1>5. ReadyFront(q, left) = SubSeq(q, 1, c)
  BY DEF ReadyFront
<1>6. \A i \in 1..Len(q) : left[q[i]] = 0 <=> i \in I
  BY <1>1
<1> HIDE DEF I, c
<1>7. /\ SubSeq(q, 1, c) \in Seq(Nodes) /\ Len(SubSeq(q, 1, c)) = c
      /\ \A i \in 1..c : SubSeq(q, 1, c)[i] = q[i]
  BY <1>1, <1>4, SubSeqProperties
<1>8. QED
  BY <1>1, <1>4, <1>5, <1>6, <1>7 DEF IsFront

(* The front and the rest of a list.                                       *)
LEMMA FrontAndLater ==
    ASSUME NEW q \in Seq(Nodes), NEW left \in [Nodes -> Nat], NEW s, IsFront(s, q, left)
    PROVE  Range(s) = {m \in Range(q) : left[m] = 0}
<1>1. /\ s \in Seq(Nodes) /\ Len(s) <= Len(q)
      /\ \A i \in 1..Len(s) : s[i] = q[i]
      /\ \A i \in 1..Len(q) : left[q[i]] = 0 <=> i <= Len(s)
  BY DEF IsFront
<1>2. Len(q) \in Nat /\ Len(s) \in Nat
  BY <1>1, LenProperties
<1>3. ASSUME NEW m \in Range(s) PROVE m \in Range(q) /\ left[m] = 0
  <2>1. PICK i \in 1..Len(s) : s[i] = m
    BY <1>1, RangeElements
  <2>2. i \in 1..Len(q) /\ q[i] = m
    BY <1>1, <1>2, <2>1
  <2>3. QED
    BY <1>1, <2>2, RangeElements
<1>4. ASSUME NEW m \in Range(q), left[m] = 0 PROVE m \in Range(s)
  <2>1. PICK i \in 1..Len(q) : q[i] = m
    BY RangeElements
  <2>2. i \in 1..Len(s) /\ s[i] = m
    BY <1>1, <1>2, <1>4, <2>1
  <2>3. QED
    BY <1>1, <2>2, RangeElements
<1>5. QED
  BY <1>3, <1>4

(* Where the elements of a list are after an insertion.                    *)
LEMMA InsertAtPositions ==
    ASSUME NEW S, NEW q \in Seq(S), NEW i \in 1..(Len(q) + 1), NEW e \in S
    PROVE  /\ \A j \in 1..(i - 1) : InsertAt(q, i, e)[j] = q[j]
           /\ InsertAt(q, i, e)[i] = e
           /\ \A j \in i..Len(q) : InsertAt(q, i, e)[j + 1] = q[j]
<1> DEFINE t == InsertAt(q, i, e)
<1>1. \A j \in 1..(Len(q) + 1) :
         t[j] = IF j < i THEN q[j] ELSE IF j = i THEN e ELSE q[j - 1]
  BY InsertAtProperties
<1>2. Len(q) \in Nat
  BY LenProperties
<1> HIDE DEF t
<1>3. \A j \in 1..(i - 1) : t[j] = q[j]
  BY <1>1, <1>2
<1>4. t[i] = e
  BY <1>1, <1>2
<1>5. \A j \in i..Len(q) : t[j + 1] = q[j]
  <2>1. ASSUME NEW j \in i..Len(q) PROVE t[j + 1] = q[j]
    <3>1. j + 1 \in 1..(Len(q) + 1) /\ ~(j + 1 < i) /\ j + 1 # i /\ (j + 1) - 1 = j
      BY <1>2
    <3>2. QED
      BY <1>1, <3>1
  <2>2. QED
    BY <2>1
<1>6. QED
  BY <1>3, <1>4, <1>5 DEF t

-----------------------------------------------------------------------------
(* do_post and reschedule_event: a node that enters without a delay is the *)
(* last one ready, any other one waits.                                    *)
LEMMA EnterFront ==
    ASSUME TypeOK,
           NEW q \in Seq(Nodes), NEW n \in Nodes, NEW ms \in Nat,
           n \notin Range(q), Good(q), Enter(q, n, ms),
           NEW s, IsFront(s, q, remaining)
    PROVE  /\ due' = [due EXCEPT ![n] = Ticks(ms)]
           /\ ms = 0 => /\ IsFront(Append(s, n), queue', remaining')
                        /\ Later(queue', remaining') = Later(q, remaining)
           /\ ms > 0 => /\ IsFront(s, queue', remaining')
                        /\ Later(queue', remaining') = Later(q, remaining) \union {n}
<1> DEFINE r == IF ms > 0 /\ pending THEN ms + TimerMs ELSE ms
<1>1. PICK i \in 1..(Len(q) + 1) :
        /\ IsSlot(q, i, r)
        /\ queue' = InsertAt(q, i, n)
        /\ remaining' = [remaining EXCEPT ![n] = r]
        /\ due' = [due EXCEPT ![n] = Ticks(ms)]
  BY DEF Enter
<1>2. TimerMs \in Nat
  BY TicksTimer DEF TypeOK
<1>3. r \in Nat /\ (r > 0 <=> ms > 0) /\ (ms = 0 => r = 0)
  BY <1>2
<1> HIDE DEF r
<1>4. /\ Range(q) \subseteq Nodes
      /\ \A j \in 1..Len(q) : q[j] \in Range(q)
      /\ Len(q) \in Nat
  BY RangeElements
<1>5. /\ queue' \in Seq(Nodes) /\ Len(queue') = Len(q) + 1
      /\ Range(queue') = Range(q) \union {n}
  BY <1>1, InsertAtProperties, InsertAtRange
<1>6. /\ \A j \in 1..(i - 1) : j \in 1..Len(q) /\ queue'[j] = q[j]
      /\ queue'[i] = n
      /\ \A j \in i..Len(q) : j \in 1..Len(q) /\ queue'[j + 1] = q[j]
  BY <1>1, <1>4, InsertAtPositions
<1>7. /\ remaining'[n] = r
      /\ \A m \in Range(q) : remaining'[m] = remaining[m] /\ remaining[m] \in Nat
  BY <1>1, <1>3, <1>4 DEF TypeOK
<1>8. /\ s \in Seq(Nodes) /\ Len(s) <= Len(q) /\ Len(s) \in Nat
      /\ \A j \in 1..Len(s) : s[j] = q[j]
      /\ \A j \in 1..Len(q) : remaining[q[j]] = 0 <=> j <= Len(s)
  BY LenProperties DEF IsFront
<1>9. /\ \A j \in 1..(i - 1) : remaining[q[j]] <= r
      /\ i <= Len(q) => r < remaining[q[i]]
  BY <1>1 DEF IsSlot
<1>10. ASSUME ms = 0
       PROVE  /\ IsFront(Append(s, n), queue', remaining')
              /\ Later(queue', remaining') = Later(q, remaining)
  <2>1. r = 0
    BY <1>3, <1>10
  <2>2. i = Len(s) + 1
    <3>1. ASSUME NEW j \in 1..(i - 1) PROVE j <= Len(s)
      <4>1. j \in 1..Len(q) /\ remaining[q[j]] \in Nat /\ remaining[q[j]] <= 0
        BY <1>4, <1>7, <1>9, <2>1
      <4>2. QED
        BY <1>8, <4>1
    <3>2. CASE i <= Len(q)
      <4>1. remaining[q[i]] # 0
        BY <1>4, <1>7, <1>9, <2>1, <3>2
      <4>2. QED
        BY <1>4, <1>8, <3>1, <3>2, <4>1
    <3>3. CASE i = Len(q) + 1
      BY <1>4, <1>8, <3>1, <3>3
    <3>4. QED
      BY <1>4, <3>2, <3>3
  <2> DEFINE t == Append(s, n)
  <2>3. /\ t \in Seq(Nodes) /\ Len(t) = Len(s) + 1
        /\ \A j \in 1..Len(s) : t[j] = s[j]
        /\ t[Len(s) + 1] = n
    BY <1>8, AppendProperties
  <2> HIDE DEF t
  <2>4. ASSUME NEW j \in 1..Len(t) PROVE t[j] = queue'[j]
    BY <1>4, <1>6, <1>8, <2>2, <2>3
  <2>5. ASSUME NEW j \in 1..Len(queue') PROVE remaining'[queue'[j]] = 0 <=> j <= Len(t)
    <3>1. CASE j < i
      <4>1. j \in 1..Len(q) /\ queue'[j] = q[j] /\ j <= Len(s)
        BY <1>6, <1>8, <2>2, <3>1
      <4>2. QED
        BY <1>4, <1>7, <1>8, <2>3, <4>1
    <3>2. CASE j = i
      BY <1>4, <1>5, <1>6, <1>7, <2>1, <2>2, <2>3, <3>2
    <3>3. CASE j > i
      <4>1. PICK k \in i..Len(q) : j = k + 1
        <5>1. j - 1 \in i..Len(q) /\ j = (j - 1) + 1
          BY <1>4, <1>5, <3>3
        <5>2. QED
          BY <5>1
      <4>2. k \in 1..Len(q) /\ queue'[j] = q[k] /\ ~(k <= Len(s)) /\ ~(j <= Len(t))
        BY <1>6, <1>8, <2>2, <2>3, <4>1
      <4>3. QED
        BY <1>4, <1>7, <1>8, <4>2
    <3>4. QED
      BY <1>5, <3>1, <3>2, <3>3
  <2>6. Len(t) <= Len(queue')
    BY <1>4, <1>5, <1>8, <2>3
  <2>7. IsFront(t, queue', remaining')
    BY <2>3, <2>4, <2>5, <2>6 DEF IsFront
  <2>8. Later(queue', remaining') = Later(q, remaining)
    BY <1>5, <1>7, <2>1 DEF Later
  <2>9. QED
    BY <2>7, <2>8 DEF t
<1>11. ASSUME ms > 0
       PROVE  /\ IsFront(s, queue', remaining')
              /\ Later(queue', remaining') = Later(q, remaining) \union {n}
  <2>1. r > 0
    BY <1>3, <1>11
  <2>2. i > Len(s)
    <3>1. CASE i <= Len(q)
      <4>1. r < remaining[q[i]] /\ i \in 1..Len(q) /\ remaining[q[i]] \in Nat
        BY <1>4, <1>7, <1>9, <3>1
      <4>2. remaining[q[i]] # 0
        BY <1>3, <4>1
      <4>3. QED
        BY <1>8, <4>1, <4>2
    <3>2. CASE i = Len(q) + 1
      BY <1>4, <1>8, <3>2
    <3>3. QED
      BY <1>4, <3>1, <3>2
  <2>3. ASSUME NEW j \in 1..Len(s) PROVE s[j] = queue'[j]
    BY <1>4, <1>6, <1>8, <2>2
  <2>4. ASSUME NEW j \in 1..Len(queue') PROVE remaining'[queue'[j]] = 0 <=> j <= Len(s)
    <3>1. CASE j < i
      <4>1. j \in 1..Len(q) /\ queue'[j] = q[j]
        BY <1>6, <3>1
      <4>2. QED
        BY <1>4, <1>7, <1>8, <4>1
    <3>2. CASE j = i
      BY <1>3, <1>6, <1>7, <1>8, <2>1, <2>2, <3>2
    <3>3. CASE j > i
      <4>1. PICK k \in i..Len(q) : j = k + 1
        <5>1. j - 1 \in i..Len(q) /\ j = (j - 1) + 1
          BY <1>4, <1>5, <3>3
        <5>2. QED
          BY <5>1
      <4>2. k \in 1..Len(q) /\ queue'[j] = q[k] /\ ~(k <= Len(s)) /\ ~(j <= Len(s))
        BY <1>4, <1>6, <1>8, <2>2, <4>1
      <4>3. QED
        BY <1>4, <1>7, <1>8, <4>2
    <3>4. QED
      BY <1>5, <3>1, <3>2, <3>3
  <2>5. IsFront(s, queue', remaining')
    BY <1>4, <1>5, <1>8, <2>3, <2>4 DEF IsFront
  <2>6. Later(queue', remaining') = Later(q, remaining) \union {n}
    BY <1>5, <1>7, <2>1 DEF Later
  <2>7. QED
    BY <2>5, <2>6
<1>12. QED
  BY <1>1, <1>10, <1>11

-----------------------------------------------------------------------------
(* The head is taken.                                                      *)
LEMMA TailFront ==
    ASSUME NEW q \in Seq(Nodes), q # <<>>, NEW left \in [Nodes -> Nat],
           NEW s, IsFront(s, q, left), left[Head(q)] = 0
    PROVE  /\ s # <<>> /\ Head(s) = Head(q)
           /\ IsFront(Tail(s), Tail(q), left)
           /\ Later(Tail(q), left) = Later(q, left)
<1>1. /\ s \in Seq(Nodes) /\ Len(s) <= Len(q) /\ Len(s) \in Nat
      /\ \A j \in 1..Len(s) : s[j] = q[j]
      /\ \A j \in 1..Len(q) : left[q[j]] = 0 <=> j <= Len(s)
  BY LenProperties DEF IsFront
<1>2. Len(q) \in Nat \ {0} /\ Head(q) = q[1]
  BY EmptySeq
<1>3. Len(s) >= 1
  BY <1>1, <1>2
<1>4. s # <<>> /\ Head(s) = q[1]
  BY <1>1, <1>3
<1> DEFINE t == Tail(s)
           p == Tail(q)
<1>5. /\ t \in Seq(Nodes) /\ Len(t) = Len(s) - 1
      /\ \A j \in 1..Len(t) : t[j] = s[j + 1]
  BY <1>1, <1>4, HeadTailProperties
<1>6. /\ p \in Seq(Nodes) /\ Len(p) = Len(q) - 1
      /\ \A j \in 1..Len(p) : p[j] = q[j + 1]
  BY HeadTailProperties
<1> HIDE DEF t, p
<1>7. IsFront(t, p, left)
  <2>1. ASSUME NEW j \in 1..Len(t) PROVE t[j] = p[j]
    <3>1. j + 1 \in 1..Len(s) /\ j \in 1..Len(p)
      BY <1>1, <1>2, <1>5, <1>6
    <3>2. QED
      BY <1>1, <1>5, <1>6, <3>1
  <2>2. ASSUME NEW j \in 1..Len(p) PROVE left[p[j]] = 0 <=> j <= Len(t)
    <3>1. j + 1 \in 1..Len(q) /\ p[j] = q[j + 1]
      BY <1>2, <1>6
    <3>2. left[q[j + 1]] = 0 <=> j + 1 <= Len(s)
      BY <1>1, <3>1
    <3>3. QED
      BY <1>1, <1>5, <1>6, <3>1, <3>2
  <2>3. Len(t) <= Len(p)
    BY <1>1, <1>2, <1>5, <1>6
  <2>4. QED
    BY <1>5, <2>1, <2>2, <2>3 DEF IsFront
<1>8. ASSUME NEW m \in Range(p) PROVE m \in Range(q)
  <2>1. PICK j \in 1..Len(p) : p[j] = m
    BY <1>6, RangeElements
  <2>2. j + 1 \in 1..Len(q) /\ q[j + 1] = m
    BY <1>2, <1>6, <2>1
  <2>3. QED
    BY <2>2, RangeElements
<1>9. ASSUME NEW m \in Range(q), left[m] > 0 PROVE m \in Range(p)
  <2>1. PICK j \in 1..Len(q) : q[j] = m
    BY RangeElements
  <2>2. j # 1
    BY <1>2, <1>9, <2>1
  <2>3. j - 1 \in 1..Len(p) /\ p[j - 1] = m
    BY <1>2, <1>6, <2>1, <2>2
  <2>4. QED
    BY <1>6, <2>3, RangeElements
<1>10. Later(p, left) = Later(q, left)
  BY <1>8, <1>9 DEF Later
<1>11. QED
  BY <1>2, <1>4, <1>7, <1>10 DEF t, p

(* A node is taken out, in front or behind.                                *)
LEMMA RemoveAtPositions ==
    ASSUME NEW S, NEW q \in Seq(S), NEW i \in 1..Len(q)
    PROVE  /\ \A j \in 1..(i - 1) : RemoveAt(q, i)[j] = q[j]
           /\ \A j \in i..(Len(q) - 1) : RemoveAt(q, i)[j] = q[j + 1]
<1>1. Len(q) \in Nat
  BY LenProperties
<1>2. \A j \in 1..(Len(q) - 1) : RemoveAt(q, i)[j] = IF j < i THEN q[j] ELSE q[j + 1]
  BY RemoveAtProperties
<1>3. QED
  BY <1>1, <1>2

(* An event is taken out of those that are due, or out of the others.      *)
LEMMA RemoveFront ==
    ASSUME NEW q \in Seq(Nodes), NEW i \in 1..Len(q), NEW left \in [Nodes -> Nat],
           NEW s, IsFront(s, q, left)
    PROVE  /\ i <= Len(s) => /\ i \in DOMAIN s /\ s[i] = q[i]
                             /\ IsFront(RemoveAt(s, i), RemoveAt(q, i), left)
           /\ i > Len(s) => /\ left[q[i]] > 0
                            /\ IsFront(s, RemoveAt(q, i), left)
<1>1. /\ s \in Seq(Nodes) /\ Len(s) <= Len(q) /\ Len(s) \in Nat /\ DOMAIN s = 1..Len(s)
      /\ \A j \in 1..Len(s) : s[j] = q[j]
      /\ \A j \in 1..Len(q) : left[q[j]] = 0 <=> j <= Len(s)
  BY LenProperties DEF IsFront
<1>2. Len(q) \in Nat /\ \A j \in 1..Len(q) : left[q[j]] \in Nat
  BY LenProperties, ElementOfSeq
<1> DEFINE p == RemoveAt(q, i)
<1>3. /\ p \in Seq(Nodes) /\ Len(p) = Len(q) - 1
      /\ \A j \in 1..(i - 1) : p[j] = q[j]
      /\ \A j \in i..(Len(q) - 1) : p[j] = q[j + 1]
  BY RemoveAtProperties, RemoveAtPositions
<1> HIDE DEF p
<1>4. ASSUME i <= Len(s)
      PROVE  i \in DOMAIN s /\ s[i] = q[i] /\ IsFront(RemoveAt(s, i), p, left)
  <2>1. i \in 1..Len(s)
    BY <1>1, <1>2, <1>4
  <2> DEFINE t == RemoveAt(s, i)
  <2>2. /\ t \in Seq(Nodes) /\ Len(t) = Len(s) - 1
        /\ \A j \in 1..(i - 1) : t[j] = s[j]
        /\ \A j \in i..(Len(s) - 1) : t[j] = s[j + 1]
    BY <1>1, <2>1, RemoveAtProperties, RemoveAtPositions
  <2> HIDE DEF t
  <2>3. ASSUME NEW j \in 1..Len(t) PROVE t[j] = p[j]
    <3>1. CASE j < i
      BY <1>1, <1>2, <1>3, <2>1, <2>2, <3>1
    <3>2. CASE ~(j < i)
      <4>1. j \in i..(Len(s) - 1) /\ j \in i..(Len(q) - 1) /\ j + 1 \in 1..Len(s)
        BY <1>1, <1>2, <2>1, <2>2, <3>2
      <4>2. QED
        BY <1>1, <1>3, <2>2, <4>1
    <3>3. QED
      BY <3>1, <3>2
  <2>4. ASSUME NEW j \in 1..Len(p) PROVE left[p[j]] = 0 <=> j <= Len(t)
    <3>1. CASE j < i
      <4>1. j \in 1..(i - 1) /\ j \in 1..Len(q)
        BY <1>2, <1>3, <3>1
      <4>2. j <= Len(s) /\ j <= Len(t)
        BY <1>1, <2>1, <2>2, <4>1
      <4>3. QED
        BY <1>1, <1>3, <4>1, <4>2
    <3>2. CASE ~(j < i)
      <4>1. j + 1 \in 1..Len(q) /\ p[j] = q[j + 1]
        BY <1>2, <1>3, <3>2
      <4>2. j + 1 <= Len(s) <=> j <= Len(t)
        BY <1>1, <1>2, <1>3, <2>2
      <4>3. left[q[j + 1]] = 0 <=> j + 1 <= Len(s)
        BY <1>1, <4>1
      <4>4. QED
        BY <4>1, <4>2, <4>3
    <3>3. QED
      BY <3>1, <3>2
  <2>5. Len(t) <= Len(p)
    BY <1>1, <1>2, <1>3, <2>2
  <2>6. QED
    BY <1>1, <2>1, <2>2, <2>3, <2>4, <2>5 DEF IsFront, t
<1>5. ASSUME i > Len(s) PROVE left[q[i]] > 0 /\ IsFront(s, p, left)
  <2>1. left[q[i]] > 0
    <3>1. left[q[i]] # 0 /\ left[q[i]] \in Nat
      BY <1>1, <1>2, <1>5
    <3>2. QED
      BY <3>1
  <2>2. ASSUME NEW j \in 1..Len(s) PROVE s[j] = p[j]
    BY <1>1, <1>2, <1>3, <1>5
  <2>3. ASSUME NEW j \in 1..Len(p) PROVE left[p[j]] = 0 <=> j <= Len(s)
    <3>1. CASE j < i
      <4>1. j \in 1..Len(q) /\ p[j] = q[j]
        BY <1>2, <1>3, <3>1
      <4>2. QED
        BY <1>1, <4>1
    <3>2. CASE ~(j < i)
      <4>1. /\ j + 1 \in 1..Len(q) /\ p[j] = q[j + 1]
            /\ ~(j + 1 <= Len(s)) /\ ~(j <= Len(s))
        BY <1>1, <1>2, <1>3, <1>5, <3>2, SMTT(30)
      <4>2. QED
        BY <1>1, <4>1
    <3>3. QED
      BY <3>1, <3>2
  <2>4. Len(s) <= Len(p)
    BY <1>1, <1>2, <1>3, <1>5
  <2>5. QED
    BY <1>1, <2>1, <2>2, <2>3, <2>4 DEF IsFront
<1>6. QED
  BY <1>4, <1>5 DEF p

(* All the other elements stay.                                            *)
LEMMA RemoveRange ==
    ASSUME NEW q \in Seq(Nodes), NEW i \in 1..Len(q)
    PROVE  Range(q) \ {q[i]} \subseteq Range(RemoveAt(q, i))
<1> DEFINE p == RemoveAt(q, i)
<1>1. /\ p \in Seq(Nodes) /\ Len(p) = Len(q) - 1
      /\ \A j \in 1..(i - 1) : p[j] = q[j]
      /\ \A j \in i..(Len(q) - 1) : p[j] = q[j + 1]
  BY RemoveAtProperties, RemoveAtPositions
<1>2. Len(q) \in Nat
  BY LenProperties
<1> HIDE DEF p
<1>3. ASSUME NEW m \in Range(q), m # q[i] PROVE m \in Range(p)
  <2>1. PICK j \in 1..Len(q) : q[j] = m
    BY RangeElements
  <2>2. CASE j < i
    <3>1. j \in 1..Len(p) /\ p[j] = m
      BY <1>1, <1>2, <2>1, <2>2
    <3>2. QED
      BY <1>1, <3>1, RangeElements
  <2>3. CASE j > i
    <3>1. j - 1 \in i..(Len(q) - 1) /\ j - 1 \in 1..Len(p) /\ (j - 1) + 1 = j
      BY <1>1, <1>2, <2>3
    <3>2. p[j - 1] = m
      BY <1>1, <2>1, <3>1
    <3>3. QED
      BY <1>1, <3>1, <3>2, RangeElements
  <2>4. QED
    BY <1>2, <1>3, <2>1, <2>2, <2>3
<1>4. QED
  BY <1>3 DEF p

-----------------------------------------------------------------------------
(* The update of time: a stretch of the list behind its front is added to  *)
(* the front, and is not early.                                            *)
LEMMA UpdateFront ==
    ASSUME TypeOK,
           NEW q \in Seq(Nodes), GoodList(q), GoodTimes(Range(q)), UpdateTime(q),
           queue' = q, GoodList(queue)', remaining' \in [Nodes -> Nat],
           NEW s, IsFront(s, q, remaining)
    PROVE  \E k \in Nat : \E batch \in [1..k -> Later(q, remaining)] :
              /\ IsInjective(batch)
              /\ ReadyFront(queue', remaining') = s \o batch
              /\ Later(queue', remaining') = Later(q, remaining) \ Range(batch)
              /\ \A m \in Range(batch) : due[m] < TicksPerMs
<1> DEFINE t == ReadyFront(q, remaining')
<1>1. IsFront(t, q, remaining')
  <2>1. \A i, j \in 1..Len(q) : i < j => remaining'[q[i]] <= remaining'[q[j]]
    BY DEF GoodList
  <2>2. QED
    BY <2>1, ReadyFrontIsFront
<1> HIDE DEF t
<1>2. /\ t \in Seq(Nodes) /\ Len(t) <= Len(q) /\ Len(t) \in Nat
      /\ \A j \in 1..Len(t) : t[j] = q[j]
      /\ \A j \in 1..Len(q) : remaining'[q[j]] = 0 <=> j <= Len(t)
  BY <1>1, LenProperties DEF IsFront
<1>3. /\ s \in Seq(Nodes) /\ Len(s) <= Len(q) /\ Len(s) \in Nat
      /\ \A j \in 1..Len(s) : s[j] = q[j]
      /\ \A j \in 1..Len(q) : remaining[q[j]] = 0 <=> j <= Len(s)
  BY LenProperties DEF IsFront
<1>4. /\ Len(q) \in Nat /\ Range(q) \subseteq Nodes
      /\ \A j \in 1..Len(q) : q[j] \in Range(q)
      /\ \A m \in Range(q) : \E j \in 1..Len(q) : q[j] = m
      /\ \A j, l \in 1..Len(q) : j < l => q[j] # q[l]
  BY RangeElements DEF GoodList
<1>5. \A m \in Range(q) : /\ remaining'[m] = Left(m) /\ remaining'[m] \in Nat
                          /\ remaining[m] \in Nat
  BY <1>4 DEF UpdateTime, TypeOK
<1>6. \A m \in Range(q) : remaining[m] = 0 => remaining'[m] = 0
  <2>1. TimerMs \in Nat
    BY TicksTimer DEF TypeOK
  <2>2. QED
    BY <1>5, <2>1 DEF Left
<1>7. Len(s) <= Len(t)
  <2>1. CASE Len(s) = 0
    BY <1>2, <2>1
  <2>2. CASE Len(s) # 0
    <3>1. Len(s) \in 1..Len(q)
      BY <1>3, <1>4, <2>2
    <3>2. remaining[q[Len(s)]] = 0
      BY <1>3, <3>1
    <3>3. remaining'[q[Len(s)]] = 0
      BY <1>4, <1>6, <3>1, <3>2
    <3>4. QED
      BY <1>2, <3>1, <3>3
  <2>3. QED
    BY <2>1, <2>2
<1> DEFINE k == Len(t) - Len(s)
           batch == SubSeq(q, Len(s) + 1, Len(t))
<1>8. k \in Nat
  BY <1>2, <1>3, <1>7
<1>9. /\ batch \in Seq(Nodes) /\ Len(batch) = k
      /\ \A j \in 1..k : batch[j] = q[Len(s) + j]
  <2>1. \A j \in (Len(s) + 1)..Len(t) : q[j] \in Nodes
    BY <1>2, <1>3, <1>4
  <2>2. /\ batch \in Seq(Nodes)
        /\ Len(batch) = IF Len(s) + 1 <= Len(t) THEN Len(t) - (Len(s) + 1) + 1 ELSE 0
        /\ \A j \in 1..(Len(t) - (Len(s) + 1) + 1) : batch[j] = q[(Len(s) + 1) + j - 1]
    BY <1>2, <1>3, <2>1, SubSeqProperties
  <2> HIDE DEF batch
  <2>3. Len(batch) = k
    BY <1>2, <1>3, <1>7, <2>2
  <2>4. ASSUME NEW j \in 1..k PROVE batch[j] = q[Len(s) + j]
    <3>1. j \in 1..(Len(t) - (Len(s) + 1) + 1) /\ (Len(s) + 1) + j - 1 = Len(s) + j
      BY <1>2, <1>3
    <3>2. QED
      BY <2>2, <3>1
  <2>5. QED
    BY <2>2, <2>3, <2>4
<1> HIDE DEF batch
<1>10. ASSUME NEW j \in 1..k
       PROVE  /\ Len(s) + j \in 1..Len(t) /\ Len(s) + j \in 1..Len(q)
              /\ ~(Len(s) + j <= Len(s))
  BY <1>2, <1>3, <1>4
<1> HIDE DEF k
<1>11. s \o batch = t
  <2>1. /\ s \o batch \in Seq(Nodes) /\ Len(s \o batch) = Len(s) + k
        /\ \A j \in 1..(Len(s) + k) :
             (s \o batch)[j] = IF j <= Len(s) THEN s[j] ELSE batch[j - Len(s)]
    BY <1>3, <1>9, ConcatProperties
  <2>2. Len(s) + k = Len(t)
    BY <1>2, <1>3 DEF k
  <2>3. ASSUME NEW j \in 1..Len(t) PROVE (s \o batch)[j] = t[j]
    <3>1. CASE j <= Len(s)
      <4>1. j \in 1..Len(s)
        BY <1>2, <1>3, <3>1
      <4>2. QED
        BY <1>2, <1>3, <2>1, <2>2, <3>1, <4>1
    <3>2. CASE ~(j <= Len(s))
      <4>1. j - Len(s) \in 1..k /\ Len(s) + (j - Len(s)) = j
        BY <1>2, <1>3, <3>2 DEF k
      <4>2. batch[j - Len(s)] = q[j]
        BY <1>9, <4>1
      <4>3. QED
        BY <1>2, <2>1, <2>2, <3>2, <4>2
    <3>3. QED
      BY <3>1, <3>2
  <2>4. QED
    BY <1>2, <2>1, <2>2, <2>3, SeqEqual
<1>12. ASSUME NEW j \in 1..k
       PROVE  batch[j] \in Later(q, remaining) /\ remaining'[batch[j]] = 0
  <2>1. remaining[q[Len(s) + j]] # 0 /\ remaining'[q[Len(s) + j]] = 0
    BY <1>2, <1>3, <1>10
  <2>2. q[Len(s) + j] \in Range(q) /\ remaining[q[Len(s) + j]] > 0
    BY <1>4, <1>5, <1>10, <2>1
  <2>3. QED
    BY <1>9, <2>1, <2>2 DEF Later
<1>13. DOMAIN batch = 1..k /\ batch \in [1..k -> Later(q, remaining)]
  <2>1. DOMAIN batch = 1..k /\ batch \in [1..k -> Nodes]
    BY <1>9, LenProperties
  <2>2. QED
    BY <1>12, <2>1
<1>14. IsInjective(batch)
  <2>1. ASSUME NEW a \in 1..k, NEW b \in 1..k, a < b PROVE batch[a] # batch[b]
    <3>1. Len(s) + a < Len(s) + b
      BY <1>3, <1>8, <2>1
    <3>2. /\ Len(s) + a \in 1..Len(q) /\ Len(s) + b \in 1..Len(q)
          /\ batch[a] = q[Len(s) + a] /\ batch[b] = q[Len(s) + b]
      BY <1>9, <1>10
    <3>3. QED
      BY <1>4, <3>1, <3>2
  <2>2. \A a, b \in 1..k : a # b => a < b \/ b < a
    BY <1>8
  <2>3. QED
    BY <1>13, <2>1, <2>2 DEF IsInjective
<1>15. Later(q, remaining') = Later(q, remaining) \ Range(batch)
  <2>1. ASSUME NEW m \in Later(q, remaining')
        PROVE  m \in Later(q, remaining) /\ m \notin Range(batch)
    <3>1. m \in Range(q) /\ remaining'[m] # 0
      BY <1>5 DEF Later
    <3>2. remaining[m] > 0
      BY <1>5, <1>6, <3>1
    <3>3. m \notin Range(batch)
      BY <1>12, <1>13, <3>1 DEF Range
    <3>4. QED
      BY <3>1, <3>2, <3>3 DEF Later
  <2>2. ASSUME NEW m \in Later(q, remaining), m \notin Range(batch)
        PROVE  m \in Later(q, remaining')
    <3>1. m \in Range(q) /\ remaining[m] # 0
      BY <1>5 DEF Later
    <3>2. PICK j \in 1..Len(q) : q[j] = m
      BY <1>4, <3>1
    <3>3. ~(j <= Len(s))
      BY <1>3, <3>1, <3>2
    <3>4. ASSUME j <= Len(t) PROVE FALSE
      <4>1. j - Len(s) \in 1..k /\ Len(s) + (j - Len(s)) = j
        BY <1>2, <1>3, <3>3, <3>4 DEF k
      <4>2. batch[j - Len(s)] = m
        BY <1>9, <3>2, <4>1
      <4>3. QED
        BY <1>13, <2>2, <4>1, <4>2 DEF Range
    <3>5. remaining'[m] # 0
      BY <1>2, <3>2, <3>4
    <3>6. QED
      BY <1>5, <3>1, <3>5 DEF Later
  <2>3. QED
    BY <2>1, <2>2
<1>16. ASSUME NEW m \in Range(batch) PROVE due[m] < TicksPerMs
  <2>1. PICK j \in 1..k : batch[j] = m
    BY <1>13 DEF Range
  <2>2. m \in Range(q) /\ remaining[m] > 0 /\ remaining'[m] = 0 /\ m \in Nodes
    BY <1>4, <1>12, <2>1 DEF Later
  <2>3. /\ TimerMs \in Nat /\ Ticks(TimerMs) \in Nat /\ elapsed \in Nat
        /\ Ticks(TimerMs) <= elapsed
    BY TicksTimer, TicksNat DEF TypeOK
  <2>4. remaining[m] \in Nat /\ remaining[m] <= TimerMs
    BY <1>5, <2>2, <2>3 DEF Left
  <2>5. Ticks(remaining[m]) <= Ticks(TimerMs) /\ Ticks(remaining[m]) \in Nat
    BY <2>3, <2>4, TicksMonotone, TicksNat
  <2>6. due[m] = 0 \/ due[m] < Ticks(remaining[m]) + TicksPerMs - elapsed
    BY <2>2 DEF GoodTimes
  <2>7. due[m] \in Nat
    BY <2>2 DEF TypeOK
  <2>8. QED
    BY <2>3, <2>5, <2>6, <2>7, ClockAssumption
<1>17. QED
  BY <1>8, <1>11, <1>13, <1>14, <1>15, <1>16 DEF t

-----------------------------------------------------------------------------
(* What the steps of EventQueue need beyond IInv: periods are delays, and  *)
(* nothing is due for an event that is not queued.                         *)
Extra ==
    /\ period \in [Nodes -> 0..MaxDelay]
    /\ \A n \in Nodes \ Queued : due[n] = 0

(* No event is due at first.                                               *)
LEMMA InitExtra == Init => Extra
BY ClockAssumption DEF Init, Extra

(* An event that is not queued has no due time.                            *)
LEMMA NextExtra == ASSUME IInv, Extra, [Next]_vars PROVE Extra'
<1>0. /\ queue \in Seq(Nodes) /\ due \in [Nodes -> Nat] /\ Range(queue) \subseteq Nodes
      /\ DOMAIN queue = 1..Len(queue) /\ Queued = Range(queue) /\ Queued' = Range(queue')
      /\ MaxDelay \in Nat
  BY RangeElements, ClockAssumption DEF IInv, TypeOK, Queued
<1>1. ASSUME NEW q \in Seq(Nodes), NEW n \in Nodes, NEW ms, Enter(q, n, ms)
      PROVE  /\ Range(queue') = Range(q) \union {n}
             /\ \A m \in Nodes : m # n => due'[m] = due[m]
  <2>1. PICK i \in 1..(Len(q) + 1) : /\ queue' = InsertAt(q, i, n)
                                     /\ due' = [due EXCEPT ![n] = Ticks(ms)]
    BY <1>1 DEF Enter
  <2>2. QED
    BY <1>0, <2>1, InsertAtRange
<1>2. ASSUME NEW n \in Nodes, NEW ms \in 0..MaxDelay, NEW repeat \in BOOLEAN,
             Post(n, ms, repeat)
      PROVE  Extra'
  <2>1. Enter(queue, n, ms) /\ period' = [period EXCEPT ![n] = IF repeat THEN ms ELSE 0]
    BY <1>2 DEF Post
  <2>2. period' \in [Nodes -> 0..MaxDelay]
    BY <1>0, <2>1 DEF Extra
  <2>3. QED
    BY <1>0, <1>1, <2>1, <2>2 DEF Extra
<1>3. ASSUME NEW n \in Nodes, Cancel(n) PROVE Extra'
  <2>1. PICK i \in 1..Len(queue) : IF i <= 2 THEN Unlink(i) ELSE EraseLoops
    BY <1>0, <1>3 DEF Cancel
  <2>2. CASE Unlink(i)
    <3>1. /\ queue' = RemoveAt(queue, i) /\ due' = [due EXCEPT ![queue[i]] = 0]
          /\ period' = [period EXCEPT ![queue[i]] = 0]
      BY <2>2 DEF Unlink
    <3>2. Range(queue) \ {queue[i]} \subseteq Range(queue')
      BY <1>0, <3>1, RemoveRange
    <3>3. period' \in [Nodes -> 0..MaxDelay]
      BY <1>0, <3>1 DEF Extra
    <3>4. ASSUME NEW m \in Nodes \ Range(queue') PROVE due'[m] = 0
      BY <1>0, <3>1, <3>2 DEF Extra
    <3>5. QED
      BY <1>0, <3>3, <3>4 DEF Extra
  <2>3. CASE EraseLoops
    BY <1>0, <2>3 DEF EraseLoops, Extra
  <2>4. QED
    BY <2>1, <2>2, <2>3
<1>4. CASE Dispatch
  <2>0. queue # <<>> /\ remaining[Head(queue)] = 0 /\ period' = period
    BY <1>4 DEF Dispatch
  <2>1. /\ Tail(queue) \in Seq(Nodes) /\ Head(queue) \in Nodes
        /\ Range(queue) = Range(Tail(queue)) \union {Head(queue)}
    <3>1. Tail(queue) \in Seq(Nodes) /\ Head(queue) \in Nodes
      BY <2>0, PopGood
    <3>2. /\ Len(Tail(queue)) = Len(queue) - 1 /\ Head(queue) = queue[1]
          /\ Len(queue) \in Nat \ {0}
          /\ \A i \in 1..Len(Tail(queue)) : Tail(queue)[i] = queue[i + 1]
      BY <1>0, <2>0, HeadTailProperties, EmptySeq
    <3>3. ASSUME NEW m \in Range(queue), m # Head(queue) PROVE m \in Range(Tail(queue))
      <4>1. PICK i \in 1..Len(queue) : queue[i] = m
        BY <1>0, RangeElements
      <4>2. i - 1 \in 1..Len(Tail(queue)) /\ Tail(queue)[i - 1] = m
        BY <3>2, <3>3, <4>1
      <4>3. QED
        BY <3>1, <4>2, RangeElements
    <3>4. Range(Tail(queue)) \subseteq Range(queue) /\ Head(queue) \in Range(queue)
      BY <1>0, <2>0, <3>2, PopGood, RangeElements
    <3>5. QED
      BY <3>1, <3>3, <3>4
  <2>2. CASE period[Head(queue)] > 0
    <3>1. Enter(Tail(queue), Head(queue), period[Head(queue)])
      BY <1>4, <2>2 DEF Dispatch
    <3>2. QED
      BY <1>0, <1>1, <2>0, <2>1, <3>1 DEF Extra
  <2>3. CASE ~(period[Head(queue)] > 0)
    <3>1. queue' = Tail(queue) /\ due' = [due EXCEPT ![Head(queue)] = 0]
      BY <1>4, <2>3 DEF Dispatch
    <3>2. ASSUME NEW m \in Nodes \ Range(queue') PROVE due'[m] = 0
      BY <1>0, <2>1, <3>1 DEF Extra
    <3>3. QED
      BY <1>0, <2>0, <3>2 DEF Extra
  <2>4. QED
    BY <2>2, <2>3
<1>5. CASE Tick
  <2>1. /\ queue' = queue /\ period' = period
        /\ due' = [n \in Nodes |-> IF due[n] > 0 THEN due[n] - 1 ELSE 0]
    BY <1>5 DEF Tick
  <2>2. QED
    BY <1>0, <2>1 DEF Extra
<1>6. CASE TickerIsr \/ Return \/ Spin \/ UNCHANGED vars
  <2>1. queue' = queue /\ period' = period /\ due' = due
    BY <1>6 DEF TickerIsr, Return, Spin, vars
  <2>2. QED
    BY <1>0, <2>1 DEF Extra
<1>7. QED
  BY <1>2, <1>3, <1>4, <1>5, <1>6 DEF Next

-----------------------------------------------------------------------------
(* The abstract state, and the batches of EventQueue.                      *)
LEMMA FrontState ==
    ASSUME IInv
    PROVE  /\ queue \in Seq(Nodes) /\ remaining \in [Nodes -> Nat]
           /\ due \in [Nodes -> Nat]
           /\ IsFront(ReadyFront(queue, remaining), queue, remaining)
           /\ Timed = Later(queue, remaining)
           /\ Abstract!Posted = Range(queue)
<1> DEFINE s == ReadyFront(queue, remaining)
<1>1. /\ queue \in Seq(Nodes) /\ remaining \in [Nodes -> Nat]
      /\ due \in [Nodes -> Nat]
      /\ \A i, j \in 1..Len(queue) : i < j => remaining[queue[i]] <= remaining[queue[j]]
  BY DEF IInv, TypeOK, Good, GoodList
<1>2. IsFront(s, queue, remaining)
  BY <1>1, ReadyFrontIsFront
<1>3. Timed = Later(queue, remaining)
  BY DEF Timed, Queued, Later
<1>4. Abstract!Posted = Range(queue)
  <2>1. Abstract!Posted = Range(s) \union Timed
    BY DEF Abstract!Posted, Abstract!Range, Range
  <2> HIDE DEF s
  <2>2. Range(s) = {m \in Range(queue) : remaining[m] = 0}
    BY <1>1, <1>2, FrontAndLater
  <2>3. \A m \in Range(queue) : remaining[m] = 0 \/ remaining[m] > 0
    <3>1. \A m \in Range(queue) : remaining[m] \in Nat
      BY <1>1, RangeElements
    <3>2. QED
      BY <3>1
  <2>4. QED
    BY <1>3, <2>1, <2>2, <2>3 DEF Later
<1>5. QED
  BY <1>1, <1>2, <1>3, <1>4

(* The order in which events become due is one the abstract queue allows.  *)
LEMMA BatchOfNodes ==
    ASSUME NEW q \in Seq(Nodes), NEW S \in SUBSET Range(q), NEW k \in Nat,
           NEW batch \in [1..k -> S], IsInjective(batch)
    PROVE  batch \in Abstract!Batches(S)
<1>1. IsFiniteSet(Range(q))
  <2>1. Len(q) \in Nat /\ DOMAIN q = 1..Len(q) /\ q \in [1..Len(q) -> Nodes]
    BY LenProperties
  <2>2. q \in Surjection(1..Len(q), Range(q))
    BY <2>1 DEF Surjection, Range
  <2>3. IsFiniteSet(1..Len(q))
    BY <2>1, FS_Interval
  <2>4. QED
    BY <2>2, <2>3, FS_Surjection
<1>2. IsFiniteSet(S)
  BY <1>1, FS_Subset
<1>3. batch \in Injection(1..k, S)
  BY DEF Injection
<1>4. Cardinality(1..k) <= Cardinality(S)
  BY <1>2, <1>3, FS_Injection
<1>5. Cardinality(1..k) = k
  BY FS_Interval
<1>6. Cardinality(S) \in Nat
  BY <1>2, FS_CardinalityType
<1>7. Cardinality(S) = Abstract!Cardinality(S)
  BY DEF Cardinality, Abstract!Cardinality
<1>8. k \in 0..Abstract!Cardinality(S)
  BY <1>4, <1>5, <1>6, <1>7
<1>9. QED
  BY <1>8 DEF Abstract!Batches

(* What both updates of time do to the abstract state.                     *)
LEMMA UpdateBatch ==
    ASSUME IInv, IInv',
           NEW q \in Seq(Nodes), GoodList(q), Range(q) \subseteq Range(queue),
           UpdateTime(q), queue' = q, NEW s, IsFront(s, q, remaining)
    PROVE  \E batch \in Abstract!Batches(Later(q, remaining)) :
              /\ Abstract!Ripe(batch)
              /\ ReadyFront(queue, remaining)' = s \o batch
              /\ Timed' = Later(q, remaining) \ Abstract!Range(batch)
<1>1. TypeOK /\ GoodTimes(Range(q)) /\ GoodList(queue)' /\ remaining' \in [Nodes -> Nat]
  BY DEF IInv, Good, GoodTimes, TypeOK
<1>2. PICK k \in Nat : \E batch \in [1..k -> Later(q, remaining)] :
              /\ IsInjective(batch)
              /\ ReadyFront(queue', remaining') = s \o batch
              /\ Later(queue', remaining') = Later(q, remaining) \ Range(batch)
              /\ \A m \in Range(batch) : due[m] < TicksPerMs
  BY <1>1, UpdateFront
<1>3. PICK batch \in [1..k -> Later(q, remaining)] :
              /\ IsInjective(batch)
              /\ ReadyFront(queue', remaining') = s \o batch
              /\ Later(queue', remaining') = Later(q, remaining) \ Range(batch)
              /\ \A m \in Range(batch) : due[m] < TicksPerMs
  BY <1>2
<1>4. Later(q, remaining) \subseteq Range(q)
  BY DEF Later
<1>5. batch \in Abstract!Batches(Later(q, remaining))
  BY <1>3, <1>4, BatchOfNodes
<1>6. Abstract!Range(batch) = Range(batch)
  BY DEF Abstract!Range, Range
<1>7. Abstract!Ripe(batch)
  BY <1>3, <1>6 DEF Abstract!Ripe, Abstract!IsInjective, IsInjective
<1>8. Timed' = Later(queue', remaining')
  BY DEF Timed, Queued, Later
<1>9. QED
  BY <1>3, <1>5, <1>6, <1>7, <1>8

-----------------------------------------------------------------------------
(* The steps.                                                              *)
LEMMA PostStep ==
    ASSUME IInv, IInv', Extra, NEW n \in Nodes, NEW ms \in 0..MaxDelay,
           NEW repeat \in BOOLEAN, Post(n, ms, repeat)
    PROVE  Abstract!Next
<1> DEFINE s == ReadyFront(queue, remaining)
<1>1. /\ TypeOK /\ Good(queue) /\ queue \in Seq(Nodes) /\ n \notin Range(queue)
      /\ Enter(queue, n, ms) /\ ms \in Nat /\ MaxDelay \in Nat
  BY ClockAssumption DEF IInv, TypeOK, Post, Queued
<1>2. /\ IsFront(s, queue, remaining) /\ Timed = Later(queue, remaining)
      /\ n \notin Abstract!Posted /\ due \in [Nodes -> Nat]
  BY <1>1, FrontState
<1>3. queue' \in Seq(Nodes) /\ Timed' = Later(queue', remaining')
  BY DEF IInv, TypeOK, Timed, Queued, Later
<1> HIDE DEF s
<1>4. /\ due' = [due EXCEPT ![n] = Ticks(ms)]
      /\ ms = 0 => /\ IsFront(Append(s, n), queue', remaining')
                   /\ Later(queue', remaining') = Later(queue, remaining)
      /\ ms > 0 => /\ IsFront(s, queue', remaining')
                   /\ Later(queue', remaining') = Later(queue, remaining) \union {n}
  BY <1>1, <1>2, EnterFront
<1>5. CASE ms = 0
  <2>1. ReadyFront(queue', remaining') = Append(s, n)
    BY <1>3, <1>4, <1>5, ReadyFrontIs
  <2>2. due[n] = 0
    BY <1>1 DEF Extra, Queued
  <2>3. due' = due
    BY <1>2, <1>4, <1>5, <2>2, TicksZero
  <2>4. Abstract!Post(n)
    BY <1>2, <1>3, <1>4, <1>5, <2>1, <2>3 DEF Abstract!Post, s
  <2>5. QED
    BY <2>4 DEF Abstract!Next
<1>6. CASE ms > 0
  <2>1. ReadyFront(queue', remaining') = s
    BY <1>3, <1>4, <1>6, ReadyFrontIs
  <2>2. due' = [due EXCEPT ![n] = TicksPerMs * ms]
    BY <1>4 DEF Ticks
  <2>3. Abstract!PostIn(n, ms)
    BY <1>2, <1>3, <1>4, <1>6, <2>1, <2>2 DEF Abstract!PostIn, s
  <2>4. ms \in 1..MaxDelay
    BY <1>1, <1>6
  <2>5. QED
    BY <2>3, <2>4 DEF Abstract!Next
<1>7. QED
  BY <1>1, <1>5, <1>6

(* cancel() is the cancellation of the abstract queue.                     *)
LEMMA CancelStep ==
    ASSUME IInv, IInv', NEW n \in Nodes, Cancel(n)
    PROVE  [Abstract!Next]_(Abstract!vars)
<1> DEFINE s == ReadyFront(queue, remaining)
<1>1. /\ queue \in Seq(Nodes) /\ remaining \in [Nodes -> Nat]
      /\ IsFront(s, queue, remaining) /\ Timed = Later(queue, remaining)
      /\ Abstract!Posted = Range(queue) /\ DOMAIN queue = 1..Len(queue)
      /\ Len(queue) \in Nat /\ s \in Seq(Nodes) /\ Len(s) \in Nat
  BY FrontState, LenProperties DEF IsFront
<1>2. PICK i \in 1..Len(queue) : queue[i] = n /\ IF i <= 2 THEN Unlink(i) ELSE EraseLoops
  BY <1>1 DEF Cancel
<1>3. CASE Unlink(i)
  <2> DEFINE q == RemoveAt(queue, i)
  <2>1. /\ queue' = q /\ UpdateTime(q) /\ due' = [due EXCEPT ![n] = 0]
    BY <1>2, <1>3 DEF Unlink
  <2>2. /\ q \in Seq(Nodes) /\ GoodList(q) /\ Range(q) = Range(queue) \ {n}
    BY <1>1, <1>2, RemoveGood, RemoveRange
  <2>3. Later(q, remaining) = Timed \ {n}
    BY <1>1, <2>2 DEF Later
  <2>4. n \in Abstract!Posted
    BY <1>1, <1>2, RangeElements
  <2>5. /\ i <= Len(s) => /\ i \in DOMAIN s /\ s[i] = n
                          /\ IsFront(RemoveAt(s, i), q, remaining)
        /\ i > Len(s) => remaining[n] > 0 /\ IsFront(s, q, remaining)
    BY <1>1, <1>2, RemoveFront
  <2> HIDE DEF q
  <2>6. CASE i <= Len(s)
    <3>1. PICK batch \in Abstract!Batches(Timed \ {n}) :
              /\ Abstract!Ripe(batch)
              /\ ReadyFront(queue, remaining)' = RemoveAt(s, i) \o batch
              /\ Timed' = (Timed \ {n}) \ Abstract!Range(batch)
      BY <2>1, <2>2, <2>3, <2>5, <2>6, UpdateBatch
    <3>2. RemoveAt(s, i) = Abstract!RemoveAt(s, i)
      BY DEF RemoveAt, Abstract!RemoveAt
    <3>3. Timed' = Timed \ (Abstract!Range(batch) \union {n})
      BY <3>1
    <3>4. Abstract!Cancel(n)
      BY <2>1, <2>4, <2>5, <2>6, <3>1, <3>2, <3>3 DEF Abstract!Cancel
    <3>5. QED
      BY <3>4 DEF Abstract!Next
  <2>7. CASE i > Len(s)
    <3>1. PICK batch \in Abstract!Batches(Timed \ {n}) :
              /\ Abstract!Ripe(batch)
              /\ ReadyFront(queue, remaining)' = s \o batch
              /\ Timed' = (Timed \ {n}) \ Abstract!Range(batch)
      BY <2>1, <2>2, <2>3, <2>5, <2>7, UpdateBatch
    <3>2. n \in Timed
      BY <1>1, <1>2, <2>5, <2>7, RangeElements DEF Later
    <3>3. Timed' = Timed \ (Abstract!Range(batch) \union {n})
      BY <3>1
    <3>4. Abstract!Cancel(n)
      BY <2>1, <2>4, <3>1, <3>2, <3>3 DEF Abstract!Cancel
    <3>5. QED
      BY <3>4 DEF Abstract!Next
  <2>8. QED
    BY <1>1, <2>6, <2>7
<1>4. CASE EraseLoops
  BY <1>4 DEF EraseLoops, Abstract!vars, Timed, Queued
<1>5. QED
  BY <1>2, <1>3, <1>4

(* A dispatch is the call of the first event that is due.                  *)
LEMMA DispatchStep ==
    ASSUME IInv, IInv', Extra, Dispatch
    PROVE  Abstract!Next
<1> DEFINE s == ReadyFront(queue, remaining)
           h == Head(queue)
           q == Tail(queue)
<1>1. /\ queue \in Seq(Nodes) /\ remaining \in [Nodes -> Nat] /\ TypeOK
      /\ IsFront(s, queue, remaining) /\ Timed = Later(queue, remaining)
  BY FrontState DEF IInv
<1>2. queue # <<>> /\ remaining[h] = 0
  BY DEF Dispatch
<1>3. /\ s # <<>> /\ Head(s) = h
      /\ IsFront(Tail(s), q, remaining) /\ Later(q, remaining) = Timed
  BY <1>1, <1>2, TailFront
<1>4. /\ q \in Seq(Nodes) /\ h \in Nodes /\ h \notin Range(q) /\ Good(q)
  BY <1>2, PopGood
<1>5. queue' \in Seq(Nodes) /\ Timed' = Later(queue', remaining')
  BY DEF IInv, TypeOK, Timed, Queued, Later
<1>6. period[h] \in 0..MaxDelay /\ MaxDelay \in Nat
  BY <1>4, ClockAssumption DEF Extra
<1>7. CASE period[h] > 0
  <2>1. Enter(q, h, period[h]) /\ period[h] \in Nat /\ period[h] \in 1..MaxDelay
    BY <1>6, <1>7 DEF Dispatch
  <2> DEFINE ms == period[h]
  <2> HIDE DEF q, h, s, ms
  <2>2. Enter(q, h, ms) /\ ms \in Nat /\ ms \in 1..MaxDelay /\ ms > 0
    BY <1>7, <2>1 DEF ms
  <2>3. /\ due' = [due EXCEPT ![h] = Ticks(ms)]
        /\ IsFront(Tail(s), queue', remaining')
        /\ Later(queue', remaining') = Later(q, remaining) \union {h}
    BY <1>1, <1>3, <1>4, <2>2, EnterFront
  <2>4. ReadyFront(queue', remaining') = Tail(s)
    BY <1>5, <2>3, ReadyFrontIs
  <2>5. /\ Timed' = Timed \union {Head(s)}
        /\ due' = [due EXCEPT ![Head(s)] = TicksPerMs * ms]
    BY <1>3, <1>5, <2>3 DEF Ticks
  <2>6. Abstract!Run
    BY <1>3, <2>2, <2>4, <2>5 DEF Abstract!Run, s
  <2>7. QED
    BY <2>6 DEF Abstract!Next
<1>8. CASE ~(period[h] > 0)
  <2>1. queue' = q /\ due' = [due EXCEPT ![h] = 0] /\ remaining' = remaining
    BY <1>8 DEF Dispatch
  <2> HIDE DEF q, h, s
  <2>2. ReadyFront(queue', remaining') = Tail(s)
    BY <1>3, <1>4, <2>1, ReadyFrontIs
  <2>3. Timed' = Timed /\ due' = [due EXCEPT ![Head(s)] = 0]
    BY <1>3, <1>5, <2>1
  <2>4. Abstract!Run
    BY <1>3, <2>2, <2>3 DEF Abstract!Run, s
  <2>5. QED
    BY <2>4 DEF Abstract!Next
<1>9. QED
  BY <1>7, <1>8

(* The alarm makes events due in the order of their times.                 *)
LEMMA TickerIsrStep ==
    ASSUME IInv, IInv', TickerIsr
    PROVE  [Abstract!Next]_(Abstract!vars)
<1> DEFINE s == ReadyFront(queue, remaining)
<1>1. /\ queue \in Seq(Nodes) /\ GoodList(queue) /\ s \in Seq(Nodes)
      /\ IsFront(s, queue, remaining) /\ Timed = Later(queue, remaining)
  BY FrontState DEF IInv, Good, IsFront
<1>2. UpdateTime(queue) /\ queue' = queue /\ due' = due
  BY DEF TickerIsr
<1>3. PICK batch \in Abstract!Batches(Timed) :
          /\ Abstract!Ripe(batch)
          /\ ReadyFront(queue, remaining)' = s \o batch
          /\ Timed' = Timed \ Abstract!Range(batch)
  <2> HIDE DEF s
  <2>1. QED
    BY <1>1, <1>2, UpdateBatch
<1>4. CASE batch = <<>>
  <2>1. s \o batch = s
    BY <1>1, <1>4, ConcatEmptySeq
  <2>2. Abstract!Range(batch) = {}
    BY <1>4 DEF Abstract!Range
  <2>3. UNCHANGED Abstract!vars
    BY <1>2, <1>3, <2>1, <2>2 DEF Abstract!vars
  <2>4. QED
    BY <2>3
<1>5. CASE batch # <<>>
  <2>1. Abstract!Promote
    BY <1>2, <1>3, <1>5 DEF Abstract!Promote
  <2>2. QED
    BY <2>1 DEF Abstract!Next
<1>6. QED
  BY <1>4, <1>5

-----------------------------------------------------------------------------
(* The queue implements its interface, for any nodes, delays, resolution   *)
(* of the clock and latency of the interrupt: events run once, in the      *)
(* order in which they became ready, not early and not after a cancel.     *)
THEOREM QueueImplementsEventQueue == Spec => ImplementsEventQueue
<1>1. Init => Abstract!Init
  <2> SUFFICES ASSUME Init PROVE Abstract!Init
    OBVIOUS
  <2>1. /\ queue = <<>> /\ queue \in Seq(Nodes) /\ Len(queue) = 0
        /\ due = [n \in Nodes |-> 0]
    BY EmptySeq DEF Init
  <2>2. IsFront(<<>>, queue, remaining)
    BY <2>1 DEF IsFront
  <2>3. ReadyFront(queue, remaining) = <<>>
    BY <2>1, <2>2, ReadyFrontIs
  <2>4. Timed = {}
    <3>1. ASSUME NEW m \in Range(queue) PROVE FALSE
      <4>1. queue \in Seq(Nodes) /\ Len(queue) = 0
        BY <2>1
      <4>2. \E i \in 1..Len(queue) : queue[i] = m
        BY <4>1, RangeElements
      <4>3. QED
        BY <4>1, <4>2
    <3>2. QED
      BY <3>1 DEF Timed, Queued
  <2>5. QED
    BY <2>1, <2>3, <2>4 DEF Abstract!Init
<1>2. IInv /\ IInv' /\ Extra /\ [Next]_vars => [Abstract!Next]_(Abstract!vars)
  <2> SUFFICES ASSUME IInv, IInv', Extra, [Next]_vars
               PROVE  [Abstract!Next]_(Abstract!vars)
    OBVIOUS
  <2>1. ASSUME NEW n \in Nodes, NEW ms \in 0..MaxDelay, NEW repeat \in BOOLEAN,
               Post(n, ms, repeat)
        PROVE  [Abstract!Next]_(Abstract!vars)
    BY <2>1, PostStep
  <2>2. ASSUME NEW n \in Nodes, Cancel(n) PROVE [Abstract!Next]_(Abstract!vars)
    BY <2>2, CancelStep
  <2>3. CASE Dispatch
    BY <2>3, DispatchStep
  <2>4. CASE TickerIsr
    BY <2>4, TickerIsrStep
  <2>5. CASE Tick
    <3>1. Abstract!Tick
      BY <2>5 DEF Tick, Abstract!Tick, Timed, Queued
    <3>2. QED
      BY <3>1 DEF Abstract!Next
  <2>6. CASE Return \/ Spin \/ UNCHANGED vars
    BY <2>6 DEF Return, Spin, vars, Abstract!vars, Timed, Queued
  <2>7. QED
    BY <2>1, <2>2, <2>3, <2>4, <2>5, <2>6 DEF Next
<1>3. IInv /\ Extra /\ [Next]_vars => Extra'
  BY NextExtra
<1>4. QED
  BY <1>1, <1>2, <1>3, InitExtra, Invariance, PTL DEF Spec, ImplementsEventQueue, Abstract!Spec
=============================================================================
