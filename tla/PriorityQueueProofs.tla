-------------------------- MODULE PriorityQueueProofs --------------------------
(***************************************************************************)
(* Proofs about PriorityQueue, for any number of nodes and any priorities: *)
(* the links always make two lists without a cycle that share no node and  *)
(* leave none out, and every call has the effect OrderedQueue gives it.    *)
(***************************************************************************)
EXTENDS PriorityQueue, FiniteInduction, SequenceTheorems

-----------------------------------------------------------------------------
(* Sequences of nodes.                                                     *)

(* The i-th node of s, NULL behind the last one.                           *)
At(s, i) == IF i <= Len(s) THEN s[i] ELSE NULL

Has(s, n) == \E i \in 1..Len(s) : s[i] = n

Distinct(s) == \A i, j \in 1..Len(s) : s[i] = s[j] => i = j

(* The links lead from p through the nodes of s, and end there.            *)
Path(p, links, s) ==
    /\ s \in Seq(Nodes)
    /\ Distinct(s)
    /\ p = At(s, 1)
    /\ \A i \in 1..Len(s) : links[s[i]] = At(s, i + 1)

(* l and f are what the links make of the nodes: disjoint, and all.        *)
Linked(h, fr, links, l, f) ==
    /\ Path(h, links, l) /\ Path(fr, links, f)
    /\ \A n \in Nodes : Has(l, n) <=> ~Has(f, n)
    /\ Len(l) + Len(f) = Capacity

(* t is s with n in front of its i-th element.                             *)
IsInserted(t, s, i, n) ==
    /\ t \in Seq(Nodes)
    /\ Len(t) = Len(s) + 1
    /\ \A j \in 1..Len(t) : t[j] = IF j < i THEN s[j] ELSE IF j = i THEN n ELSE s[j - 1]

(* t is s without its i-th element.                                        *)
IsRemoved(t, s, i) ==
    /\ t \in Seq(Nodes)
    /\ Len(t) = Len(s) - 1
    /\ \A j \in 1..Len(t) : t[j] = IF j < i THEN s[j] ELSE s[j + 1]

(* links2 are the links with n linked in front of the i-th node of s.      *)
LinksIn(links2, links, s, i, n) ==
    /\ links2[n] = At(s, i)
    /\ \A j \in 1..Len(s) : links2[s[j]] = IF j = i - 1 THEN n ELSE links[s[j]]

(* links2 are the links with the i-th node of s skipped.                   *)
LinksOut(links2, links, s, i) ==
    \A j \in 1..Len(s) :
        j # i => links2[s[j]] = IF j = i - 1 THEN At(s, i + 1) ELSE links[s[j]]

(* Nodes are numbers, NULL is not one of them.                             *)
LEMMA NodesFacts == /\ \A n \in Nodes : n \in Nat /\ n # NULL
                    /\ Capacity \in Nat /\ Capacity >= 1
BY CapacityAssumption DEF Nodes, NULL

(* Elements and ends of a sequence, as the provers need them.              *)
LEMMA SeqFacts ==
    ASSUME NEW s \in Seq(Nodes)
    PROVE  /\ Len(s) \in Nat /\ DOMAIN s = 1..Len(s)
           /\ \A i \in 1..Len(s) : s[i] \in Nodes /\ s[i] # NULL /\ s[i] \in Nat
BY NodesFacts

(* InsertAt and RemoveAt of the library do that.                           *)
LEMMA InsertAtIs ==
    ASSUME NEW s \in Seq(Nodes), NEW i \in 1..(Len(s) + 1), NEW n \in Nodes
    PROVE  IsInserted(InsertAt(s, i, n), s, i, n)
<1> DEFINE a == SubSeq(s, 1, i - 1)
           b == SubSeq(s, i, Len(s))
<1>1. Len(s) \in Nat /\ \A j \in 1..Len(s) : s[j] \in Nodes
  BY SeqFacts
<1>2. /\ a \in Seq(Nodes) /\ Len(a) = i - 1
      /\ \A j \in 1..(i - 1) : a[j] = s[j]
  <2>1. \A j \in 1..(i - 1) : s[j] \in Nodes
    BY <1>1
  <2>2. QED
    BY <1>1, <2>1, SubSeqProperties
<1>3. /\ b \in Seq(Nodes) /\ Len(b) = Len(s) - i + 1
      /\ \A j \in 1..(Len(s) - i + 1) : b[j] = s[i + j - 1]
  <2>1. \A j \in i..Len(s) : s[j] \in Nodes
    BY <1>1
  <2>2. QED
    BY <1>1, <2>1, SubSeqProperties
<1>4. <<n>> \in Seq(Nodes) /\ Len(<<n>>) = 1 /\ <<n>>[1] = n
  OBVIOUS
<1> DEFINE e == <<n>>
           c == a \o e
<1> HIDE DEF a, b, e
<1>5. c \in Seq(Nodes) /\ Len(c) = i /\ \A j \in 1..i : c[j] = IF j < i THEN s[j] ELSE n
  <2>1. /\ c \in Seq(Nodes) /\ Len(c) = Len(a) + Len(e)
        /\ \A j \in 1..(Len(a) + Len(e)) : c[j] = IF j <= Len(a) THEN a[j] ELSE e[j - Len(a)]
    BY <1>2, <1>4, ConcatProperties DEF e
  <2>2. Len(c) = i
    BY <1>2, <1>4, <2>1 DEF e
  <2>3. ASSUME NEW j \in 1..i, j < i PROVE c[j] = s[j]
    BY <1>2, <1>4, <2>1, <2>3 DEF e
  <2>4. c[i] = n
    <3>1. i \in 1..(Len(a) + Len(e)) /\ ~(i <= Len(a)) /\ i - Len(a) = 1
      BY <1>2, <1>4 DEF e
    <3>2. c[i] = e[i - Len(a)]
      BY <2>1, <3>1
    <3>3. QED
      BY <1>4, <3>1, <3>2 DEF e
  <2>5. QED
    BY <2>1, <2>2, <2>3, <2>4
<1> DEFINE t == c \o b
<1> HIDE DEF c
<1>6. /\ t \in Seq(Nodes) /\ Len(t) = Len(c) + Len(b)
      /\ \A j \in 1..(Len(c) + Len(b)) : t[j] = IF j <= Len(c) THEN c[j] ELSE b[j - Len(c)]
  BY <1>3, <1>5, ConcatProperties
<1> HIDE DEF t
<1>7. Len(t) = Len(s) + 1
  BY <1>1, <1>3, <1>5, <1>6
<1>8. ASSUME NEW j \in 1..Len(t)
      PROVE t[j] = IF j < i THEN s[j] ELSE IF j = i THEN n ELSE s[j - 1]
  <2>1. CASE j <= i
    BY <1>5, <1>6, <2>1
  <2>2. CASE j > i
    <3>1. /\ j - i \in 1..(Len(s) - i + 1) /\ i + (j - i) - 1 = j - 1
          /\ j \in 1..(Len(c) + Len(b)) /\ ~(j <= Len(c)) /\ j - Len(c) = j - i
      BY <1>1, <1>3, <1>5, <1>6, <1>7, <2>2
    <3>2. t[j] = b[j - i]
      BY <1>6, <3>1
    <3>3. b[j - i] = s[j - 1]
      BY <1>3, <3>1
    <3>4. QED
      BY <2>2, <3>2, <3>3
  <2>3. QED
    BY <1>1, <1>7, <2>1, <2>2
<1>9. t = InsertAt(s, i, n)
  BY DEF t, c, a, b, e, InsertAt
<1>10. QED
  BY <1>6, <1>7, <1>8, <1>9 DEF IsInserted

(* The same for a position that is taken out.                              *)
LEMMA RemoveAtIs ==
    ASSUME NEW s \in Seq(Nodes), NEW i \in 1..Len(s)
    PROVE  IsRemoved(RemoveAt(s, i), s, i)
<1> DEFINE a == SubSeq(s, 1, i - 1)
           b == SubSeq(s, i + 1, Len(s))
<1>1. Len(s) \in Nat /\ \A j \in 1..Len(s) : s[j] \in Nodes
  BY SeqFacts
<1>2. /\ a \in Seq(Nodes) /\ Len(a) = i - 1
      /\ \A j \in 1..(i - 1) : a[j] = s[j]
  <2>1. \A j \in 1..(i - 1) : s[j] \in Nodes
    BY <1>1
  <2>2. QED
    BY <1>1, <2>1, SubSeqProperties
<1>3. /\ b \in Seq(Nodes) /\ Len(b) = Len(s) - i
      /\ \A j \in 1..(Len(s) - i) : b[j] = s[i + j]
  <2>1. \A j \in (i + 1)..Len(s) : s[j] \in Nodes
    BY <1>1
  <2>2. QED
    BY <1>1, <2>1, SubSeqProperties
<1> DEFINE t == a \o b
<1> HIDE DEF a, b
<1>4. /\ t \in Seq(Nodes) /\ Len(t) = Len(a) + Len(b)
      /\ \A j \in 1..(Len(a) + Len(b)) : t[j] = IF j <= Len(a) THEN a[j] ELSE b[j - Len(a)]
  BY <1>2, <1>3, ConcatProperties
<1> HIDE DEF t
<1>5. Len(t) = Len(s) - 1
  BY <1>1, <1>2, <1>3, <1>4
<1>6. ASSUME NEW j \in 1..Len(t)
      PROVE t[j] = IF j < i THEN s[j] ELSE s[j + 1]
  <2>1. CASE j < i
    BY <1>1, <1>2, <1>3, <1>4, <2>1
  <2>2. CASE j >= i
    <3>1. /\ j - (i - 1) \in 1..(Len(s) - i) /\ i + (j - (i - 1)) = j + 1
          /\ j \in 1..(Len(a) + Len(b)) /\ ~(j <= Len(a)) /\ j - Len(a) = j - (i - 1)
      BY <1>1, <1>2, <1>3, <1>4, <1>5, <2>2
    <3>2. t[j] = b[j - (i - 1)]
      BY <1>4, <3>1
    <3>3. b[j - (i - 1)] = s[j + 1]
      BY <1>3, <3>1
    <3>4. QED
      BY <2>2, <3>2, <3>3
  <2>3. QED
    BY <1>1, <1>5, <2>1, <2>2
<1>7. t = RemoveAt(s, i)
  BY DEF t, a, b, RemoveAt
<1>8. QED
  BY <1>4, <1>5, <1>6, <1>7 DEF IsRemoved

-----------------------------------------------------------------------------
(* The walk along the links.                                               *)

(* Chain returns the path there is.                                        *)
LEMMA ChainOfPath ==
    ASSUME NEW p, NEW links, NEW s, Path(p, links, s), Len(s) <= Capacity
    PROVE  Chain(p, links) = s
<1> DEFINE at[i \in Nodes] ==
             IF i = 1 THEN p ELSE IF at[i - 1] = NULL THEN NULL ELSE links[at[i - 1]]
           g == [i \in Nodes |-> At(s, i)]
<1>1. /\ s \in Seq(Nodes) /\ Len(s) \in Nat /\ DOMAIN s = 1..Len(s)
      /\ \A i \in 1..Len(s) : s[i] # NULL
  BY SeqFacts DEF Path
<1>2. Nodes = 1..Capacity /\ Capacity \in Nat /\ Capacity >= 1
  BY NodesFacts DEF Nodes
<1>3. ASSUME NEW i \in Nodes
      PROVE g[i] = IF i = 1 THEN p ELSE IF g[i - 1] = NULL THEN NULL ELSE links[g[i - 1]]
  <2>1. CASE i = 1
    BY <2>1 DEF Path
  <2>2. CASE i # 1
    <3>1. i - 1 \in Nodes /\ i \in Nat /\ g[i] = At(s, i) /\ g[i - 1] = At(s, i - 1)
      BY <1>2, <2>2
    <3>2. CASE i - 1 <= Len(s)
      <4>1. i - 1 \in 1..Len(s) /\ (i - 1) + 1 = i
        BY <1>1, <1>2, <2>2, <3>2
      <4>2. At(s, i - 1) = s[i - 1] /\ s[i - 1] # NULL
        BY <1>1, <3>2, <4>1 DEF At
      <4>3. links[s[i - 1]] = At(s, i)
        BY <4>1 DEF Path
      <4>4. QED
        BY <2>2, <3>1, <4>2, <4>3
    <3>3. CASE ~(i - 1 <= Len(s))
      <4>1. At(s, i - 1) = NULL /\ At(s, i) = NULL
        BY <1>1, <1>2, <3>1, <3>3 DEF At
      <4>2. QED
        BY <2>2, <3>1, <4>1
    <3>4. QED
      BY <3>2, <3>3
  <2>3. QED
    BY <2>1, <2>2
<1>4. g = [i \in Nodes |->
             IF i = 1 THEN p ELSE IF g[i - 1] = NULL THEN NULL ELSE links[g[i - 1]]]
  BY <1>3
<1>5. at = [i \in Nodes |->
              IF i = 1 THEN p ELSE IF at[i - 1] = NULL THEN NULL ELSE links[at[i - 1]]]
  <2>1. \E h : h = [i \in Nodes |->
                      IF i = 1 THEN p ELSE IF h[i - 1] = NULL THEN NULL ELSE links[h[i - 1]]]
    BY <1>4
  <2>2. QED
    BY <2>1 DEF at
<1>6. Chain(p, links) = Restrict(at, {i \in Nodes : at[i] # NULL})
  BY DEF Chain
<1>7. ASSUME NEW i \in Nodes
      PROVE at[i] = IF i = 1 THEN p ELSE IF at[i - 1] = NULL THEN NULL ELSE links[at[i - 1]]
  BY <1>5
<1>8. \A i \in Nodes : g[i] = At(s, i)
  OBVIOUS
<1> HIDE DEF at, g
<1> DEFINE I == {i \in Nodes : at[i] = g[i]}
<1>9. \A i \in 1..Capacity : i \in I
  <2>1. 1 \in I
    BY <1>2, <1>3, <1>7
  <2>2. ASSUME NEW i \in 1..Capacity, i \in I, i + 1 <= Capacity PROVE i + 1 \in I
    <3>1. i + 1 \in Nodes /\ i + 1 # 1 /\ (i + 1) - 1 = i /\ at[i] = g[i]
      BY <1>2, <2>2
    <3>2. at[i + 1] = g[i + 1]
      BY <1>3, <1>7, <3>1
    <3>3. QED
      BY <3>1, <3>2
  <2> HIDE DEF I
  <2>3. QED
    BY <1>2, <2>1, <2>2, PositionInduction
<1>10. \A i \in Nodes : at[i] = At(s, i)
  BY <1>2, <1>8, <1>9
<1>11. {i \in Nodes : at[i] # NULL} = 1..Len(s)
  BY <1>1, <1>2, <1>10 DEF At
<1>12. Restrict(at, {i \in Nodes : at[i] # NULL}) = [i \in 1..Len(s) |-> s[i]]
  BY <1>1, <1>2, <1>10, <1>11 DEF Restrict, At
<1>13. [i \in 1..Len(s) |-> s[i]] = s
  BY <1>1
<1>14. QED
  BY <1>6, <1>12, <1>13

(* List and Free are the two lists that the links make.                    *)
LEMMA ChainsOfLinked ==
    ASSUME NEW h, NEW fr, NEW links, NEW l, NEW f, Linked(h, fr, links, l, f)
    PROVE  Chain(h, links) = l /\ Chain(fr, links) = f
<1>1. Path(h, links, l) /\ Path(fr, links, f) /\ Len(l) + Len(f) = Capacity
  BY DEF Linked
<1>2. Len(l) \in Nat /\ Len(f) \in Nat
  BY <1>1 DEF Path
<1>3. Len(l) <= Capacity /\ Len(f) <= Capacity
  BY <1>1, <1>2
<1>4. QED
  BY <1>1, <1>3, ChainOfPath

(* A node is put into a path: the link of the node before it and its own   *)
(* are all that changes.                                                   *)
LEMMA PathInsert ==
    ASSUME NEW p, NEW links, NEW s, Path(p, links, s),
           NEW i \in 1..(Len(s) + 1), NEW n \in Nodes, ~Has(s, n),
           NEW links2, LinksIn(links2, links, s, i, n),
           NEW t, IsInserted(t, s, i, n)
    PROVE  Path(IF i = 1 THEN n ELSE p, links2, t)
<1> DEFINE q == IF i = 1 THEN n ELSE p
<1>0. /\ \A j \in 1..Len(s) : s[j] # n
      /\ links2[n] = At(s, i)
      /\ \A j \in 1..Len(s) : links2[s[j]] = IF j = i - 1 THEN n ELSE links[s[j]]
  BY DEF Has, LinksIn
<1>1. /\ s \in Seq(Nodes) /\ Distinct(s) /\ p = At(s, 1) /\ Len(s) \in Nat
      /\ \A j \in 1..Len(s) : links[s[j]] = At(s, j + 1)
  BY SeqFacts DEF Path
<1>2. /\ t \in Seq(Nodes) /\ Len(t) = Len(s) + 1
      /\ \A j \in 1..Len(t) : j < i => t[j] = s[j] /\ j \in 1..Len(s)
      /\ t[i] = n /\ i \in 1..Len(t)
      /\ \A j \in 1..Len(t) : j > i => t[j] = s[j - 1] /\ j - 1 \in 1..Len(s)
  BY <1>1 DEF IsInserted
<1>3. Distinct(t)
  <2>1. ASSUME NEW j \in 1..Len(t), NEW k \in 1..Len(t), t[j] = t[k], j < k PROVE FALSE
    <3> DEFINE J == IF j < i THEN j ELSE j - 1
               K == IF k < i THEN k ELSE k - 1
    <3>1. CASE j # i /\ k # i
      <4>1. J \in 1..Len(s) /\ t[j] = s[J]
        BY <1>1, <1>2, <3>1
      <4>2. K \in 1..Len(s) /\ t[k] = s[K]
        BY <1>1, <1>2, <3>1
      <4>3. J # K
        BY <2>1, <3>1
      <4> HIDE DEF J, K
      <4>4. QED
        BY <1>1, <2>1, <4>1, <4>2, <4>3 DEF Distinct
    <3>2. CASE j = i
      <4>1. k > i /\ k - 1 \in 1..Len(s) /\ t[k] = s[k - 1] /\ t[j] = n
        BY <1>2, <2>1, <3>2
      <4>2. QED
        BY <1>0, <2>1, <4>1
    <3>3. CASE k = i
      <4>1. j < i /\ j \in 1..Len(s) /\ t[j] = s[j] /\ t[k] = n
        BY <1>2, <2>1, <3>3
      <4>2. QED
        BY <1>0, <2>1, <4>1
    <3>4. QED
      BY <3>1, <3>2, <3>3
  <2>2. QED
    BY <1>1, <1>2, <2>1 DEF Distinct
<1>4. q = At(t, 1)
  BY <1>1, <1>2 DEF At
<1>5. ASSUME NEW j \in 1..Len(t) PROVE links2[t[j]] = At(t, j + 1)
  <2>1. CASE j + 1 < i
    <3>1. /\ t[j] = s[j] /\ j \in 1..Len(s) /\ j # i - 1 /\ j + 1 \in 1..Len(t)
          /\ t[j + 1] = s[j + 1] /\ j + 1 <= Len(s)
      BY <1>1, <1>2, <2>1
    <3>2. links2[s[j]] = s[j + 1]
      BY <1>0, <1>1, <3>1 DEF At
    <3>3. QED
      BY <1>2, <3>1, <3>2 DEF At
  <2>2. CASE j + 1 = i
    <3>1. t[j] = s[j] /\ j \in 1..Len(s) /\ j = i - 1 /\ j + 1 \in 1..Len(t) /\ t[j + 1] = n
      BY <1>1, <1>2, <2>2
    <3>2. QED
      BY <1>0, <1>2, <3>1 DEF At
  <2>3. CASE j = i
    <3>1. links2[t[j]] = At(s, i)
      BY <1>0, <1>2, <2>3
    <3>2. At(t, i + 1) = At(s, i)
      <4>1. CASE i <= Len(s)
        <5>1. i + 1 \in 1..Len(t) /\ i + 1 > i /\ (i + 1) - 1 = i
          BY <1>1, <1>2, <4>1
        <5>2. t[i + 1] = s[i]
          BY <1>2, <5>1
        <5>3. QED
          BY <4>1, <5>1, <5>2 DEF At
      <4>2. CASE ~(i <= Len(s))
        BY <1>1, <1>2, <4>2 DEF At
      <4>3. QED
        BY <4>1, <4>2
    <3>3. QED
      BY <2>3, <3>1, <3>2
  <2>4. CASE j > i
    <3>1. t[j] = s[j - 1] /\ j - 1 \in 1..Len(s) /\ j - 1 # i - 1 /\ (j - 1) + 1 = j
      BY <1>1, <1>2, <2>4
    <3>2. links2[t[j]] = At(s, j)
      BY <1>0, <1>1, <3>1
    <3>3. At(t, j + 1) = At(s, j)
      <4>1. CASE j <= Len(s)
        <5>1. j + 1 \in 1..Len(t) /\ j + 1 > i /\ (j + 1) - 1 = j
          BY <1>1, <1>2, <2>4, <4>1
        <5>2. t[j + 1] = s[j]
          BY <1>2, <5>1
        <5>3. QED
          BY <4>1, <5>1, <5>2 DEF At
      <4>2. CASE ~(j <= Len(s))
        BY <1>1, <1>2, <4>2 DEF At
      <4>3. QED
        BY <4>1, <4>2
    <3>4. QED
      BY <3>2, <3>3
  <2>5. QED
    BY <1>2, <2>1, <2>2, <2>3, <2>4
<1>6. QED
  BY <1>2, <1>3, <1>4, <1>5 DEF Path

(* A node is taken out of a path: the link of the node before it skips it. *)
LEMMA PathRemove ==
    ASSUME NEW p, NEW links, NEW s, Path(p, links, s),
           NEW i \in 1..Len(s),
           NEW links2, LinksOut(links2, links, s, i),
           NEW t, IsRemoved(t, s, i)
    PROVE  Path(IF i = 1 THEN At(s, 2) ELSE p, links2, t)
<1> DEFINE q == IF i = 1 THEN At(s, 2) ELSE p
<1>0. \A j \in 1..Len(s) :
        j # i => links2[s[j]] = IF j = i - 1 THEN At(s, i + 1) ELSE links[s[j]]
  BY DEF LinksOut
<1>1. /\ s \in Seq(Nodes) /\ Distinct(s) /\ p = At(s, 1) /\ Len(s) \in Nat
      /\ \A j \in 1..Len(s) : links[s[j]] = At(s, j + 1)
  BY SeqFacts DEF Path
<1>2. /\ t \in Seq(Nodes) /\ Len(t) = Len(s) - 1
      /\ \A j \in 1..Len(t) : j < i => t[j] = s[j] /\ j \in 1..Len(s)
      /\ \A j \in 1..Len(t) : j >= i => t[j] = s[j + 1] /\ j + 1 \in 1..Len(s)
  BY <1>1 DEF IsRemoved
<1>3. Distinct(t)
  BY <1>1, <1>2 DEF Distinct
<1>4. \A j \in Nat : j >= i => At(t, j) = At(s, j + 1)
  BY <1>1, <1>2 DEF At
<1>5. q = At(t, 1)
  <2>1. CASE i = 1
    BY <1>4, <2>1
  <2>2. CASE i # 1
    BY <1>1, <1>2, <2>2 DEF At
  <2>3. QED
    BY <2>1, <2>2
<1>6. ASSUME NEW j \in 1..Len(t) PROVE links2[t[j]] = At(t, j + 1)
  <2>1. CASE j + 1 < i
    <3>1. /\ t[j] = s[j] /\ j \in 1..Len(s) /\ j # i - 1 /\ j # i
          /\ j + 1 \in 1..Len(t) /\ t[j + 1] = s[j + 1] /\ j + 1 <= Len(s)
      BY <1>1, <1>2, <2>1
    <3>2. links2[s[j]] = s[j + 1]
      BY <1>0, <1>1, <3>1 DEF At
    <3>3. QED
      BY <1>2, <3>1, <3>2 DEF At
  <2>2. CASE j + 1 = i
    <3>1. t[j] = s[j] /\ j \in 1..Len(s) /\ j = i - 1 /\ j # i
      BY <1>1, <1>2, <2>2
    <3>2. links2[s[j]] = At(s, i + 1)
      BY <1>0, <3>1
    <3>3. QED
      BY <1>4, <2>2, <3>1, <3>2
  <2>3. CASE j >= i
    <3>1. t[j] = s[j + 1] /\ j + 1 \in 1..Len(s) /\ j + 1 # i /\ j + 1 # i - 1
      BY <1>1, <1>2, <2>3
    <3>2. links2[s[j + 1]] = At(s, (j + 1) + 1)
      BY <1>0, <1>1, <3>1
    <3>3. QED
      BY <1>4, <2>3, <3>1, <3>2
  <2>4. QED
    BY <1>2, <2>1, <2>2, <2>3
<1>7. QED
  BY <1>2, <1>3, <1>5, <1>6 DEF Path

(* What a sequence has after that.                                         *)
LEMMA InsertHas ==
    ASSUME NEW s \in Seq(Nodes), NEW i \in 1..(Len(s) + 1), NEW n \in Nodes,
           NEW t, IsInserted(t, s, i, n)
    PROVE  \A x : Has(t, x) <=> Has(s, x) \/ x = n
<1>1. /\ Len(s) \in Nat /\ Len(t) = Len(s) + 1
      /\ \A j \in 1..Len(t) : j < i => t[j] = s[j] /\ j \in 1..Len(s)
      /\ t[i] = n /\ i \in 1..Len(t)
      /\ \A j \in 1..Len(t) : j > i => t[j] = s[j - 1] /\ j - 1 \in 1..Len(s)
  BY SeqFacts DEF IsInserted
<1>2. ASSUME NEW x, Has(t, x) PROVE Has(s, x) \/ x = n
  <2>1. PICK j \in 1..Len(t) : t[j] = x
    BY <1>2 DEF Has
  <2>2. CASE j = i
    BY <1>1, <2>1, <2>2
  <2>3. CASE j < i
    BY <1>1, <2>1, <2>3 DEF Has
  <2>4. CASE j > i
    BY <1>1, <2>1, <2>4 DEF Has
  <2>5. QED
    BY <1>1, <2>2, <2>3, <2>4
<1>3. ASSUME NEW x, Has(s, x) PROVE Has(t, x)
  <2>1. PICK j \in 1..Len(s) : s[j] = x
    BY <1>3 DEF Has
  <2>2. CASE j < i
    <3>1. j \in 1..Len(t) /\ t[j] = x
      BY <1>1, <2>1, <2>2
    <3>2. QED
      BY <3>1 DEF Has
  <2>3. CASE j >= i
    <3>1. j + 1 \in 1..Len(t) /\ j + 1 > i /\ (j + 1) - 1 = j
      BY <1>1, <2>3
    <3>2. t[j + 1] = x
      BY <1>1, <2>1, <3>1
    <3>3. QED
      BY <3>1, <3>2 DEF Has
  <2>4. QED
    BY <1>1, <2>2, <2>3
<1>4. Has(t, n)
  BY <1>1 DEF Has
<1>5. QED
  BY <1>2, <1>3, <1>4

(* What is left of a sequence without one of its positions.                *)
LEMMA RemoveHas ==
    ASSUME NEW s \in Seq(Nodes), Distinct(s), NEW i \in 1..Len(s), NEW t, IsRemoved(t, s, i)
    PROVE  \A x : Has(t, x) <=> Has(s, x) /\ x # s[i]
<1>1. /\ Len(s) \in Nat /\ Len(t) = Len(s) - 1
      /\ \A j \in 1..Len(t) : j < i => t[j] = s[j] /\ j \in 1..Len(s)
      /\ \A j \in 1..Len(t) : j >= i => t[j] = s[j + 1] /\ j + 1 \in 1..Len(s)
  BY SeqFacts DEF IsRemoved
<1>2. ASSUME NEW x, Has(t, x) PROVE Has(s, x) /\ x # s[i]
  <2>1. PICK j \in 1..Len(t) : t[j] = x
    BY <1>2 DEF Has
  <2>2. CASE j < i
    BY <1>1, <2>1, <2>2 DEF Has, Distinct
  <2>3. CASE j >= i
    <3>1. x = s[j + 1] /\ j + 1 \in 1..Len(s) /\ j + 1 # i
      BY <1>1, <2>1, <2>3
    <3>2. QED
      BY <3>1 DEF Has, Distinct
  <2>4. QED
    BY <1>1, <2>2, <2>3
<1>3. ASSUME NEW x, Has(s, x), x # s[i] PROVE Has(t, x)
  <2>1. PICK j \in 1..Len(s) : s[j] = x
    BY <1>3 DEF Has
  <2>2. CASE j < i
    <3>1. j \in 1..Len(t) /\ t[j] = x
      BY <1>1, <2>1, <2>2
    <3>2. QED
      BY <3>1 DEF Has
  <2>3. CASE j > i
    <3>1. j - 1 \in 1..Len(t) /\ j - 1 >= i /\ (j - 1) + 1 = j
      BY <1>1, <2>3
    <3>2. t[j - 1] = x
      BY <1>1, <2>1, <3>1
    <3>3. QED
      BY <3>1, <3>2 DEF Has
  <2>4. QED
    BY <1>1, <1>3, <2>1, <2>2, <2>3
<1>4. QED
  BY <1>2, <1>3

-----------------------------------------------------------------------------
(* What the calls do to the two lists.                                     *)

(* The first free node goes into the queue.                                *)
LEMMA PushLinked ==
    ASSUME NEW h, NEW fr, NEW links, NEW l, NEW f, Linked(h, fr, links, l, f),
           NEW n \in Nodes, fr = n, NEW i \in 1..(Len(l) + 1),
           NEW h2, h2 = IF i = 1 THEN n ELSE h,
           NEW links2, LinksIn(links2, links, l, i, n),
           \A j \in 1..Len(f) : f[j] # n => links2[f[j]] = links[f[j]]
    PROVE  Linked(h2, links[n], links2, InsertAt(l, i, n), RemoveAt(f, 1))
<1>1. /\ Path(h, links, l) /\ Path(fr, links, f) /\ Len(l) + Len(f) = Capacity
      /\ \A x \in Nodes : Has(l, x) <=> ~Has(f, x)
  BY DEF Linked
<1>2. l \in Seq(Nodes) /\ f \in Seq(Nodes) /\ Distinct(f) /\ Len(l) \in Nat /\ Len(f) \in Nat
  BY <1>1 DEF Path
<1>3. 1 \in 1..Len(f) /\ f[1] = n
  BY <1>1, <1>2, NodesFacts DEF Path, At
<1>4. Has(f, n)
  BY <1>3 DEF Has
<1>5. ~Has(l, n)
  BY <1>1, <1>4
<1> DEFINE t == InsertAt(l, i, n)
           u == RemoveAt(f, 1)
<1>6. IsInserted(t, l, i, n)
  BY <1>2, InsertAtIs
<1>7. IsRemoved(u, f, 1)
  BY <1>2, <1>3, RemoveAtIs
<1> HIDE DEF t, u
<1>8. Path(h2, links2, t)
  BY <1>1, <1>5, <1>6, PathInsert
<1>9. Path(links[n], links2, u)
  <2>1. links[n] = At(f, 2)
    BY <1>1, <1>3 DEF Path
  <2>2. LinksOut(links2, links, f, 1)
    BY <1>2, <1>3 DEF Distinct, LinksOut
  <2>3. QED
    BY <1>1, <1>3, <1>7, <2>1, <2>2, PathRemove
<1>10. \A x : Has(t, x) <=> Has(l, x) \/ x = n
  BY <1>2, <1>6, InsertHas
<1>11. \A x : Has(u, x) <=> Has(f, x) /\ x # n
  BY <1>2, <1>3, <1>7, RemoveHas
<1>12. \A x \in Nodes : Has(t, x) <=> ~Has(u, x)
  BY <1>1, <1>10, <1>11
<1>13. Len(t) + Len(u) = Capacity
  BY <1>1, <1>2, <1>6, <1>7 DEF IsInserted, IsRemoved
<1>14. QED
  BY <1>8, <1>9, <1>12, <1>13 DEF Linked, t, u

(* A node of the queue becomes the first free one.                         *)
LEMMA FreeLinked ==
    ASSUME NEW h, NEW fr, NEW links, NEW l, NEW f, Linked(h, fr, links, l, f),
           NEW i \in 1..Len(l), NEW n, n = l[i],
           NEW h2, h2 = IF i = 1 THEN At(l, 2) ELSE h,
           NEW links2, links2[n] = fr, LinksOut(links2, links, l, i),
           \A j \in 1..Len(f) : links2[f[j]] = links[f[j]]
    PROVE  Linked(h2, n, links2, RemoveAt(l, i), InsertAt(f, 1, n))
<1>1. /\ Path(h, links, l) /\ Path(fr, links, f) /\ Len(l) + Len(f) = Capacity
      /\ \A x \in Nodes : Has(l, x) <=> ~Has(f, x)
  BY DEF Linked
<1>2. l \in Seq(Nodes) /\ f \in Seq(Nodes) /\ Distinct(l) /\ Len(l) \in Nat /\ Len(f) \in Nat
  BY <1>1 DEF Path
<1>3. n \in Nodes /\ Has(l, n)
  BY <1>2 DEF Has
<1>4. ~Has(f, n)
  BY <1>1, <1>3
<1>5. 1 \in 1..(Len(f) + 1)
  BY <1>2
<1> DEFINE t == RemoveAt(l, i)
           u == InsertAt(f, 1, n)
<1>6. IsRemoved(t, l, i)
  BY <1>2, RemoveAtIs
<1>7. IsInserted(u, f, 1, n)
  BY <1>2, <1>3, <1>5, InsertAtIs
<1> HIDE DEF t, u
<1>8. Path(h2, links2, t)
  BY <1>1, <1>6, PathRemove
<1>9. Path(n, links2, u)
  <2>1. fr = At(f, 1)
    BY <1>1 DEF Path
  <2>2. LinksIn(links2, links, f, 1, n)
    BY <1>2, <2>1 DEF LinksIn
  <2>3. QED
    BY <1>1, <1>3, <1>4, <1>5, <1>7, <2>1, <2>2, PathInsert
<1>10. \A x : Has(t, x) <=> Has(l, x) /\ x # n
  BY <1>2, <1>6, RemoveHas
<1>11. \A x : Has(u, x) <=> Has(f, x) \/ x = n
  BY <1>2, <1>3, <1>5, <1>7, InsertHas
<1>12. \A x \in Nodes : Has(t, x) <=> ~Has(u, x)
  BY <1>1, <1>10, <1>11
<1>13. Len(t) + Len(u) = Capacity
  BY <1>1, <1>2, <1>6, <1>7 DEF IsInserted, IsRemoved
<1>14. QED
  BY <1>8, <1>9, <1>12, <1>13 DEF Linked, t, u

(* A node is put elsewhere in the queue: h1 and links1 make the queue      *)
(* without it.                                                             *)
LEMMA MoveLinked ==
    ASSUME NEW h, NEW fr, NEW links, NEW l, NEW f, Linked(h, fr, links, l, f),
           NEW i \in 1..Len(l), NEW n, n = l[i],
           NEW r, r = RemoveAt(l, i), NEW h1, NEW links1, Path(h1, links1, r),
           NEW k \in 1..Len(l),
           NEW h2, h2 = IF k = 1 THEN n ELSE h1,
           NEW links2, LinksIn(links2, links1, r, k, n),
           \A j \in 1..Len(f) : links2[f[j]] = links[f[j]]
    PROVE  Linked(h2, fr, links2, InsertAt(r, k, n), f)
<1>1. /\ Path(h, links, l) /\ Path(fr, links, f) /\ Len(l) + Len(f) = Capacity
      /\ \A x \in Nodes : Has(l, x) <=> ~Has(f, x)
  BY DEF Linked
<1>2. l \in Seq(Nodes) /\ f \in Seq(Nodes) /\ Distinct(l) /\ Len(l) \in Nat /\ Len(f) \in Nat
  BY <1>1 DEF Path
<1>3. n \in Nodes /\ Has(l, n)
  BY <1>2 DEF Has
<1>4. IsRemoved(r, l, i)
  BY <1>2, RemoveAtIs
<1>5. r \in Seq(Nodes) /\ Len(r) = Len(l) - 1 /\ k \in 1..(Len(r) + 1)
  BY <1>2, <1>4 DEF IsRemoved
<1>6. \A x : Has(r, x) <=> Has(l, x) /\ x # n
  BY <1>2, <1>4, RemoveHas
<1>7. ~Has(r, n)
  BY <1>6
<1> DEFINE t == InsertAt(r, k, n)
<1>8. IsInserted(t, r, k, n)
  BY <1>3, <1>5, InsertAtIs
<1> HIDE DEF t
<1>9. Path(h2, links2, t)
  BY <1>3, <1>5, <1>7, <1>8, PathInsert
<1>10. Path(fr, links2, f)
  BY <1>1 DEF Path
<1>11. \A x : Has(t, x) <=> Has(r, x) \/ x = n
  BY <1>3, <1>5, <1>8, InsertHas
<1>12. \A x \in Nodes : Has(t, x) <=> ~Has(f, x)
  BY <1>1, <1>3, <1>6, <1>11
<1>13. Len(t) + Len(f) = Capacity
  BY <1>1, <1>2, <1>5, <1>8 DEF IsInserted
<1>14. QED
  BY <1>9, <1>10, <1>12, <1>13 DEF Linked, t

-----------------------------------------------------------------------------
(* Where a node is put.                                                    *)

(* Priorities that do not decrease along the list.                         *)
Sorted(s, keys) == \A i, j \in 1..Len(s) : i <= j => keys[s[i]] <= keys[s[j]]

(* k is where priority v belongs in s: behind all that it does not         *)
(* precede, in front of one that it does.                                  *)
Place(s, k, v, keys) ==
    /\ k \in 1..(Len(s) + 1)
    /\ \A j \in 1..Len(s) : j < k => ~(v < keys[s[j]])
    /\ k <= Len(s) => v < keys[s[k]]

(* What insert_after finds, when it starts from the m-th node.             *)
PlaceFrom(s, m, k, v, keys) ==
    /\ k \in 1..(Len(s) + 1) /\ m < k
    /\ \A j \in 1..Len(s) : m < j /\ j < k => ~(v < keys[s[j]])
    /\ k <= Len(s) => v < keys[s[k]]

(* A list stays sorted with a node where its priority belongs.             *)
LEMMA SortedInsert ==
    ASSUME NEW s \in Seq(Nodes), NEW keys \in [Nodes -> Keys], Sorted(s, keys),
           NEW n \in Nodes, NEW k, Place(s, k, keys[n], keys),
           NEW t, IsInserted(t, s, k, n)
    PROVE  Sorted(t, keys)
<1>1. /\ Len(s) \in Nat /\ k \in 1..(Len(s) + 1) /\ Len(t) = Len(s) + 1
      /\ \A j \in 1..Len(s) : s[j] \in Nodes
  BY SeqFacts DEF IsInserted, Place
<1>2. \A x \in Nodes : keys[x] \in Nat
  BY CapacityAssumption
<1>3. \A j \in 1..Len(t) : t[j] \in Nodes
  BY DEF IsInserted
<1>4. ASSUME NEW i \in 1..Len(t), NEW j \in 1..Len(t), i < j
      PROVE  keys[t[i]] <= keys[t[j]]
  <2>1. CASE j < k
    <3>1. t[i] = s[i] /\ t[j] = s[j] /\ i \in 1..Len(s) /\ j \in 1..Len(s)
      BY <1>1, <1>4, <2>1 DEF IsInserted
    <3>2. QED
      BY <1>4, <3>1 DEF Sorted
  <2>2. CASE j = k
    <3>1. t[i] = s[i] /\ t[j] = n /\ i \in 1..Len(s) /\ i < k
      BY <1>1, <1>4, <2>2 DEF IsInserted
    <3>2. ~(keys[n] < keys[s[i]])
      BY <3>1 DEF Place
    <3>3. QED
      BY <1>1, <1>2, <3>1, <3>2
  <2>3. CASE j > k
    <3>1. t[j] = s[j - 1] /\ j - 1 \in 1..Len(s) /\ k \in 1..Len(s) /\ k <= j - 1
      BY <1>1, <2>3 DEF IsInserted
    <3>2. CASE i < k
      <4>1. t[i] = s[i] /\ i \in 1..Len(s) /\ i <= j - 1
        BY <1>1, <2>3, <3>2 DEF IsInserted
      <4>2. QED
        BY <3>1, <4>1 DEF Sorted
    <3>3. CASE i = k
      <4>1. t[i] = n
        BY <3>3 DEF IsInserted
      <4>2. keys[n] < keys[s[k]] /\ keys[s[k]] <= keys[s[j - 1]]
        BY <1>1, <3>1 DEF Place, Sorted
      <4>3. keys[n] \in Nat /\ keys[s[k]] \in Nat /\ keys[s[j - 1]] \in Nat
        BY <1>1, <1>2, <3>1
      <4>4. QED
        BY <3>1, <4>1, <4>2, <4>3
    <3>4. CASE i > k
      <4>1. t[i] = s[i - 1] /\ i - 1 \in 1..Len(s) /\ i - 1 <= j - 1
        BY <1>1, <1>4, <3>4 DEF IsInserted
      <4>2. QED
        BY <3>1, <4>1 DEF Sorted
    <3>5. QED
      BY <1>1, <3>2, <3>3, <3>4
  <2>4. QED
    BY <1>1, <2>1, <2>2, <2>3
<1>5. \A i \in 1..Len(t) : keys[t[i]] <= keys[t[i]]
  BY <1>2, <1>3
<1>6. QED
  BY <1>1, <1>4, <1>5 DEF Sorted

(* A list stays sorted without one of its nodes.                           *)
LEMMA SortedRemove ==
    ASSUME NEW s \in Seq(Nodes), NEW keys, Sorted(s, keys),
           NEW i \in 1..Len(s), NEW t, IsRemoved(t, s, i)
    PROVE  Sorted(t, keys)
<1>1. Len(s) \in Nat /\ Len(t) = Len(s) - 1
  BY SeqFacts DEF IsRemoved
<1>2. ASSUME NEW j \in 1..Len(t), NEW k \in 1..Len(t), j <= k
      PROVE  keys[t[j]] <= keys[t[k]]
  <2> DEFINE J == IF j < i THEN j ELSE j + 1
             K == IF k < i THEN k ELSE k + 1
  <2>1. J \in 1..Len(s) /\ t[j] = s[J]
    BY <1>1 DEF IsRemoved
  <2>2. K \in 1..Len(s) /\ t[k] = s[K]
    BY <1>1 DEF IsRemoved
  <2>3. J <= K
    BY <1>1, <1>2
  <2> HIDE DEF J, K
  <2>4. QED
    BY <2>1, <2>2, <2>3 DEF Sorted
<1>3. QED
  BY <1>2 DEF Sorted

(* The least position of a set of them.                                    *)
LEMMA MinIs ==
    ASSUME NEW n \in Nat, NEW I \in SUBSET (1..n), I # {}
    PROVE  Min(I) \in I /\ \A j \in I : Min(I) <= j
<1>1. \E i \in I : \A j \in I : i <= j
  <2>1. SUFFICES ASSUME \A i \in I : \E j \in I : ~(i <= j) PROVE FALSE
    OBVIOUS
  <2> DEFINE J == {i \in 1..n : \A j \in 1..i : j \notin I}
  <2>2. n > 0 => 1 \in J
    <3>1. 1 \notin I
      BY <2>1
    <3>2. QED
      BY <3>1
  <2>3. ASSUME NEW i \in 1..n, i \in J, i + 1 <= n PROVE i + 1 \in J
    <3>1. i + 1 \notin I
      BY <2>1, <2>3
    <3>2. QED
      BY <2>3, <3>1
  <2>4. \A i \in J : i \notin I
    OBVIOUS
  <2> HIDE DEF J
  <2>5. \A i \in 1..n : i \in J
    BY <2>2, <2>3, PositionInduction
  <2>6. QED
    BY <2>4, <2>5
<1>2. QED
  BY <1>1 DEF Min

(* The end of a path is a path.                                            *)
LEMMA PathSuffix ==
    ASSUME NEW p, NEW links, NEW s, Path(p, links, s), NEW m \in 1..Len(s)
    PROVE  /\ Path(s[m], links, SubSeq(s, m, Len(s)))
           /\ Len(SubSeq(s, m, Len(s))) = Len(s) - m + 1
           /\ \A i \in 1..(Len(s) - m + 1) : SubSeq(s, m, Len(s))[i] = s[m + i - 1]
<1>1. /\ s \in Seq(Nodes) /\ Distinct(s) /\ Len(s) \in Nat
      /\ \A j \in 1..Len(s) : links[s[j]] = At(s, j + 1) /\ s[j] \in Nodes
  BY SeqFacts DEF Path
<1> DEFINE c == SubSeq(s, m, Len(s))
<1>2. \A i \in m..Len(s) : s[i] \in Nodes
  BY <1>1
<1>3. /\ c \in Seq(Nodes) /\ Len(c) = Len(s) - m + 1
      /\ \A i \in 1..(Len(s) - m + 1) : c[i] = s[m + i - 1]
  BY <1>1, <1>2, SubSeqProperties
<1> HIDE DEF c
<1>4. \A i \in 1..Len(c) : c[i] = s[m + i - 1] /\ m + i - 1 \in 1..Len(s)
  BY <1>1, <1>3
<1>5. Distinct(c)
  <2>1. ASSUME NEW i \in 1..Len(c), NEW j \in 1..Len(c), c[i] = c[j] PROVE i = j
    <3>1. s[m + i - 1] = s[m + j - 1] /\ m + i - 1 \in 1..Len(s) /\ m + j - 1 \in 1..Len(s)
      BY <1>4, <2>1
    <3>2. m + i - 1 = m + j - 1
      BY <1>1, <3>1 DEF Distinct
    <3>3. QED
      BY <1>1, <1>3, <3>2
  <2>2. QED
    BY <2>1 DEF Distinct
<1>6. \A i \in 1..(Len(c) + 1) : At(c, i) = At(s, m + i - 1)
  BY <1>1, <1>3, <1>4 DEF At
<1>7. s[m] = At(c, 1)
  BY <1>1, <1>3, <1>6 DEF At
<1>8. ASSUME NEW i \in 1..Len(c) PROVE links[c[i]] = At(c, i + 1)
  <2>1. links[c[i]] = At(s, (m + i - 1) + 1)
    BY <1>1, <1>4
  <2>2. i + 1 \in 1..(Len(c) + 1) /\ (m + i - 1) + 1 = m + (i + 1) - 1
    BY <1>1, <1>3
  <2>3. QED
    BY <1>6, <2>1, <2>2
<1>9. QED
  BY <1>3, <1>5, <1>7, <1>8 DEF Path, c

(* links2 are the links with n put where its priority belongs behind the   *)
(* m-th node of s, in front of the k-th.                                   *)
PutBehind(links2, links, s, m, k, n, keys) ==
    /\ PlaceFrom(s, m, k, keys[n], keys)
    /\ LinksIn(links2, links, s, k, n)
    /\ links2 \in [Nodes -> Nodes \union {NULL}]
    /\ \A x \in Nodes : ~Has(s, x) /\ x # n => links2[x] = links[x]

(* insert_after, from the m-th node of a list on, puts n where it belongs  *)
(* in the rest of it.                                                      *)
LEMMA InsertAfterIs ==
    ASSUME NEW p, NEW links \in [Nodes -> Nodes \union {NULL}], NEW s, Path(p, links, s),
           Len(s) <= Capacity, NEW m \in 1..Len(s), NEW n \in Nodes, ~Has(s, n)
    PROVE  \E k \in 1..(Len(s) + 1) :
              PutBehind(InsertAfter(links, s[m], n), links, s, m, k, n, key')
<1>1. /\ s \in Seq(Nodes) /\ Distinct(s) /\ Len(s) \in Nat
      /\ \A j \in 1..Len(s) : links[s[j]] = At(s, j + 1) /\ s[j] \in Nodes /\ s[j] # n
  BY SeqFacts DEF Path, Has
<1> DEFINE c == SubSeq(s, m, Len(s))
           I == {i \in 1..Len(c) : links[c[i]] = NULL \/ key'[n] < key'[links[c[i]]]}
           r == InsertAfter(links, s[m], n)
<1>2. /\ Path(s[m], links, c) /\ Len(c) = Len(s) - m + 1
      /\ \A i \in 1..(Len(s) - m + 1) : c[i] = s[m + i - 1]
  BY PathSuffix
<1>3. Len(c) <= Capacity /\ Len(c) \in Nat /\ Len(c) >= 1
  BY <1>1, <1>2, NodesFacts
<1>4. Chain(s[m], links) = c
  BY <1>2, <1>3, ChainOfPath
<1>5. r = [links EXCEPT ![c[IF I # {} THEN Min(I) ELSE 0]] = n,
                        ![n] = links[c[IF I # {} THEN Min(I) ELSE 0]]]
  BY <1>4 DEF InsertAfter, SelectInSeq
<1> HIDE DEF c, r
<1>6. Len(c) \in I
  <2>1. c[Len(c)] = s[Len(s)] /\ links[s[Len(s)]] = NULL
    BY <1>1, <1>2, <1>3 DEF At
  <2>2. QED
    BY <1>3, <2>1
<1> DEFINE i == Min(I)
<1>7. i \in I /\ \A j \in I : i <= j
  BY <1>3, <1>6, MinIs
<1>8. r = [links EXCEPT ![c[i]] = n, ![n] = links[c[i]]]
  BY <1>5, <1>6
<1>9. /\ i \in 1..Len(c)
      /\ links[c[i]] = NULL \/ key'[n] < key'[links[c[i]]]
      /\ \A j \in 1..Len(c) : j < i => links[c[j]] # NULL /\ ~(key'[n] < key'[links[c[j]]])
  <2>1. I \in SUBSET (1..Len(c))
    OBVIOUS
  <2>2. ASSUME NEW j \in 1..Len(c), j < i PROVE j \notin I
    <3> HIDE DEF I, i
    <3>1. i \in 1..Len(c) /\ (j \in I => i <= j)
      BY <1>7, <2>1
    <3>2. QED
      BY <1>3, <2>2, <3>1
  <2>3. QED
    BY <1>7, <2>2
<1> HIDE DEF i, I
<1> DEFINE k == m + i
<1>10. /\ k \in 1..(Len(s) + 1) /\ m < k /\ k - 1 \in 1..Len(s)
       /\ c[i] = s[k - 1] /\ links[c[i]] = At(s, k)
  <2>1. /\ k \in 1..(Len(s) + 1) /\ m < k /\ k - 1 \in 1..Len(s)
        /\ m + i - 1 = k - 1 /\ (k - 1) + 1 = k
    BY <1>1, <1>2, <1>3, <1>9
  <2>2. c[i] = s[k - 1]
    BY <1>2, <1>9, <2>1
  <2> HIDE DEF k
  <2>3. QED
    BY <1>1, <2>1, <2>2
<1>11. PlaceFrom(s, m, k, key'[n], key')
  <2>1. ASSUME NEW j \in 1..Len(s), m < j, j < k PROVE ~(key'[n] < key'[s[j]])
    <3>1. /\ j - m \in 1..Len(c) /\ j - m < i /\ m + (j - m) - 1 = j - 1
          /\ j - 1 \in 1..Len(s) /\ (j - 1) + 1 = j
      BY <1>1, <1>2, <1>3, <1>9, <2>1
    <3>2. c[j - m] = s[j - 1] /\ links[s[j - 1]] = s[j]
      BY <1>1, <1>2, <3>1 DEF At
    <3>3. QED
      BY <1>9, <3>1, <3>2
  <2>2. ASSUME k <= Len(s) PROVE key'[n] < key'[s[k]]
    <3>1. links[c[i]] = s[k] /\ k \in 1..Len(s)
      BY <1>1, <1>10, <2>2 DEF At
    <3>2. s[k] # NULL
      BY <3>1, SeqFacts, <1>1
    <3>3. QED
      BY <1>9, <3>1, <3>2
  <2> HIDE DEF k
  <2>3. QED
    BY <1>10, <2>1, <2>2 DEF PlaceFrom
<1> HIDE DEF k
<1>12. c[i] \in Nodes /\ c[i] # n /\ At(s, k) \in Nodes \union {NULL}
  BY <1>1, <1>10
<1>13. r \in [Nodes -> Nodes \union {NULL}]
  BY <1>8, <1>10, <1>12
<1>14. r[n] = At(s, k) /\ r[c[i]] = n /\ \A x \in Nodes : x # n /\ x # c[i] => r[x] = links[x]
  BY <1>8, <1>10, <1>12
<1>15. LinksIn(r, links, s, k, n)
  BY <1>1, <1>10, <1>14 DEF LinksIn, Distinct
<1>16. \A x \in Nodes : ~Has(s, x) /\ x # n => r[x] = links[x]
  BY <1>10, <1>14 DEF Has
<1>17. PutBehind(r, links, s, m, k, n, key')
  BY <1>11, <1>13, <1>15, <1>16 DEF PutBehind
<1>18. QED
  BY <1>10, <1>17 DEF r

(* The list gives a priority the same place.                               *)
LEMMA InsertByKeyIs ==
    ASSUME NEW s \in Seq(Nodes), NEW n, NEW v, NEW k, Place(s, k, v, key)
    PROVE  Ordered!InsertByKey(s, n, v) = InsertAt(s, k, n)
<1> DEFINE I == {i \in 1..Len(s) : v < key[s[i]]}
<1>1. Len(s) \in Nat
  OBVIOUS
<1>2. Ordered!InsertByKey(s, n, v) =
        InsertAt(s, IF (IF I # {} THEN Min(I) ELSE 0) = 0 THEN Len(s) + 1
                    ELSE (IF I # {} THEN Min(I) ELSE 0), n)
  BY DEF Ordered!InsertByKey, Ordered!SelectInSeq, Ordered!InsertAt, InsertAt, Ordered!Min, Min
<1>3. \A j \in I : k <= j
  BY DEF Place
<1>4. k <= Len(s) => k \in I
  BY DEF Place
<1>5. k \in 1..(Len(s) + 1)
  BY DEF Place
<1>6. I \in SUBSET (1..Len(s))
  OBVIOUS
<1> HIDE DEF I
<1>7. CASE k <= Len(s)
  <2>1. I # {} /\ Min(I) \in I /\ Min(I) <= k
    BY <1>1, <1>4, <1>6, <1>7, MinIs
  <2>2. k <= Min(I) /\ Min(I) \in 1..Len(s)
    BY <1>3, <1>6, <2>1
  <2>3. Min(I) = k
    BY <1>5, <2>1, <2>2
  <2>4. QED
    BY <1>2, <1>5, <2>1, <2>3
<1>8. CASE k = Len(s) + 1
  <2>1. I = {}
    BY <1>1, <1>3, <1>6, <1>8
  <2>2. QED
    BY <1>2, <1>8, <2>1
<1>9. QED
  BY <1>1, <1>5, <1>7, <1>8

(* Erasing the element at a position is erasing that element.              *)
LEMMA RemoveFirstIs ==
    ASSUME NEW s \in Seq(Nodes), Distinct(s), NEW i \in 1..Len(s)
    PROVE  Ordered!RemoveFirst(s, s[i]) = RemoveAt(s, i)
<1> DEFINE I == {j \in 1..Len(s) : s[j] = s[i]}
<1>1. I = {i}
  BY DEF Distinct
<1>2. Min(I) = i
  BY <1>1, MinIs, SeqFacts
<1>3. Ordered!RemoveFirst(s, s[i]) = RemoveAt(s, IF I # {} THEN Min(I) ELSE 0)
  BY DEF Ordered!RemoveFirst, Ordered!RemoveAt, RemoveAt, Ordered!SelectInSeq, Ordered!Min, Min
<1>4. QED
  BY <1>1, <1>2, <1>3

-----------------------------------------------------------------------------
(* The inductive invariant: List and Free are two lists without a cycle,   *)
(* of all the nodes, and List is in order.                                 *)

Inv ==
    /\ TypeOK
    /\ Linked(head, free_nodes, next, List, Free)
    /\ used_nodes_count = Len(List)
    /\ Sorted(List, key)

(* What the invariant says of the two lists.                               *)
LEMMA InvFacts ==
    ASSUME Inv
    PROVE  /\ Path(head, next, List) /\ Path(free_nodes, next, Free)
           /\ List \in Seq(Nodes) /\ Free \in Seq(Nodes)
           /\ Len(List) \in Nat /\ Len(Free) \in Nat /\ Len(List) + Len(Free) = Capacity
           /\ Distinct(List) /\ Distinct(Free)
           /\ \A x \in Nodes : Has(List, x) <=> ~Has(Free, x)
           /\ head = At(List, 1) /\ free_nodes = At(Free, 1)
           /\ \A i \in 1..Len(List) : List[i] \in Nodes /\ next[List[i]] = At(List, i + 1)
           /\ \A i \in 1..Len(Free) : Free[i] \in Nodes /\ next[Free[i]] = At(Free, i + 1)
           /\ head # NULL => 1 \in 1..Len(List) /\ List[1] = head
           /\ head = NULL => Len(List) = 0
           /\ next \in [Nodes -> Nodes \union {NULL}] /\ key \in [Nodes -> Keys]
           /\ Range(List) = {x \in Nodes : Has(List, x)}
<1>1. /\ Path(head, next, List) /\ Path(free_nodes, next, Free)
      /\ Len(List) + Len(Free) = Capacity
      /\ \A x \in Nodes : Has(List, x) <=> ~Has(Free, x)
  BY DEF Inv, Linked
<1>2. /\ List \in Seq(Nodes) /\ Free \in Seq(Nodes) /\ Distinct(List) /\ Distinct(Free)
      /\ head = At(List, 1) /\ free_nodes = At(Free, 1)
      /\ \A i \in 1..Len(List) : next[List[i]] = At(List, i + 1)
      /\ \A i \in 1..Len(Free) : next[Free[i]] = At(Free, i + 1)
  BY <1>1 DEF Path
<1>3. /\ Len(List) \in Nat /\ Len(Free) \in Nat
      /\ DOMAIN List = 1..Len(List)
      /\ \A i \in 1..Len(List) : List[i] \in Nodes /\ List[i] # NULL
      /\ \A i \in 1..Len(Free) : Free[i] \in Nodes
  BY <1>2, SeqFacts
<1>4. head # NULL => 1 \in 1..Len(List) /\ List[1] = head
  BY <1>2, <1>3 DEF At
<1>5. head = NULL => Len(List) = 0
  BY <1>2, <1>3 DEF At
<1>6. Range(List) = {x \in Nodes : Has(List, x)}
  BY <1>3 DEF Range, Has
<1>7. QED
  BY <1>1, <1>2, <1>3, <1>4, <1>5, <1>6 DEF Inv, TypeOK

(* The invariant of the next state, from what its links make.              *)
LEMMA NextInv ==
    ASSUME NEW l, NEW f, Linked(head', free_nodes', next', l, f),
           next' \in [Nodes -> Nodes \union {NULL}], key' \in [Nodes -> Keys],
           looping' \in BOOLEAN, used_nodes_count' = Len(l), Sorted(l, key')
    PROVE  Inv' /\ List' = l /\ Free' = f
<1>1. List' = l /\ Free' = f
  BY ChainsOfLinked DEF List, Free
<1>2. /\ l \in Seq(Nodes) /\ f \in Seq(Nodes) /\ Len(l) + Len(f) = Capacity
      /\ head' = At(l, 1) /\ free_nodes' = At(f, 1)
  BY DEF Linked, Path
<1>3. /\ Len(l) \in Nat /\ Len(f) \in Nat
      /\ \A i \in 1..Len(l) : l[i] \in Nodes
      /\ \A i \in 1..Len(f) : f[i] \in Nodes
  BY <1>2, SeqFacts
<1>4. head' \in Nodes \union {NULL} /\ free_nodes' \in Nodes \union {NULL}
  BY <1>2, <1>3 DEF At
<1>5. Len(l) \in 0..Capacity
  BY <1>2, <1>3
<1>6. TypeOK'
  BY <1>4, <1>5 DEF TypeOK
<1>7. QED
  BY <1>1, <1>6 DEF Inv

(* A priority that belongs to none of the elements does not count.         *)
LEMMA OtherKey ==
    ASSUME NEW s \in Seq(Nodes), NEW keys, NEW keys2, NEW n, ~Has(s, n),
           \A x \in Nodes : x # n => keys2[x] = keys[x]
    PROVE  /\ Sorted(s, keys) => Sorted(s, keys2)
           /\ \A k, v : Place(s, k, v, keys) <=> Place(s, k, v, keys2)
           /\ \A m, k, v : PlaceFrom(s, m, k, v, keys) <=> PlaceFrom(s, m, k, v, keys2)
<1>1. \A j \in 1..Len(s) : keys2[s[j]] = keys[s[j]]
  BY SeqFacts DEF Has
<1>2. Sorted(s, keys) => Sorted(s, keys2)
  BY <1>1 DEF Sorted
<1>3. Len(s) \in Nat
  OBVIOUS
<1>4. ASSUME NEW k, NEW v PROVE Place(s, k, v, keys) <=> Place(s, k, v, keys2)
  BY <1>1, <1>3 DEF Place
<1>5. ASSUME NEW m, NEW k, NEW v
      PROVE  PlaceFrom(s, m, k, v, keys) <=> PlaceFrom(s, m, k, v, keys2)
  BY <1>1, <1>3 DEF PlaceFrom
<1>6. QED
  BY <1>2, <1>4, <1>5

-----------------------------------------------------------------------------
(* One lemma per call: the invariant is kept, and List changes as in       *)
(* OrderedQueue.                                                           *)

(* push, once it is known where the node was put.                          *)
LEMMA PushEffect ==
    ASSUME Inv, NEW v \in Keys, NEW n \in Nodes, free_nodes = n,
           NEW i, Place(List, i, v, key), LinksIn(next', next, List, i, n),
           \A x \in Nodes : Has(Free, x) /\ x # n => next'[x] = next[x],
           next' \in [Nodes -> Nodes \union {NULL}],
           head' = IF i = 1 THEN n ELSE head, free_nodes' = next[n],
           key' = [key EXCEPT ![n] = v], used_nodes_count' = used_nodes_count + 1,
           looping' = looping
    PROVE  Inv' /\ Ordered!Push(n, v)
<1> DEFINE l == List
           f == Free
           t == InsertAt(l, i, n)
           u == RemoveAt(f, 1)
<1>1. /\ l \in Seq(Nodes) /\ f \in Seq(Nodes) /\ Len(l) \in Nat /\ Distinct(f)
      /\ \A x \in Nodes : Has(l, x) <=> ~Has(f, x)
      /\ free_nodes = At(f, 1) /\ key \in [Nodes -> Keys]
      /\ Range(l) = {x \in Nodes : Has(l, x)}
      /\ \A j \in 1..Len(f) : f[j] \in Nodes
  BY InvFacts
<1>2. Linked(head, free_nodes, next, l, f) /\ used_nodes_count = Len(l) /\ Sorted(l, key)
      /\ looping \in BOOLEAN
  BY DEF Inv, TypeOK
<1> HIDE DEF l, f
<1>3. i \in 1..(Len(l) + 1)
  BY DEF Place, l
<1>4. Has(f, n) /\ ~Has(l, n)
  <2>1. 1 \in 1..Len(f) /\ f[1] = n
    BY <1>1, NodesFacts DEF At
  <2>2. QED
    BY <1>1, <2>1 DEF Has
<1>5. \A j \in 1..Len(f) : f[j] # n => next'[f[j]] = next[f[j]]
  BY <1>1 DEF Has, f
<1>6. LinksIn(next', next, l, i, n)
  BY DEF l
<1>7. Linked(head', free_nodes', next', t, u)
  BY <1>2, <1>3, <1>5, <1>6, PushLinked
<1>8. IsInserted(t, l, i, n)
  BY <1>1, <1>3, InsertAtIs
<1> HIDE DEF t, u
<1>9. key' \in [Nodes -> Keys] /\ key'[n] = v /\ \A x \in Nodes : x # n => key'[x] = key[x]
  BY <1>1
<1>10. Sorted(t, key')
  <2>1. Sorted(l, key') /\ Place(l, i, key'[n], key')
    BY <1>1, <1>2, <1>4, <1>9, OtherKey DEF l
  <2>2. QED
    BY <1>1, <1>8, <1>9, <2>1, SortedInsert
<1>11. used_nodes_count' = Len(t)
  BY <1>2, <1>8 DEF IsInserted
<1>12. Inv' /\ List' = t
  BY <1>2, <1>7, <1>9, <1>10, <1>11, NextInv
<1>13. n \notin Range(l)
  BY <1>1, <1>4
<1>14. Ordered!InsertByKey(l, n, v) = t
  BY <1>1, InsertByKeyIs DEF l, t
<1>15. QED
  BY <1>12, <1>13, <1>14 DEF Ordered!Push, Ordered!Elements, Ordered!Range, Range, l

(* push is an insertion, and keeps the invariant.                          *)
LEMMA PushStep ==
    ASSUME Inv, NEW v \in Keys, Push(v)
    PROVE  Inv' /\ \E n \in Nodes : Ordered!Push(n, v)
<1> DEFINE n == free_nodes
           links == [next EXCEPT ![n] = NULL]
           l == List
<1>1. /\ n # NULL /\ key' = [key EXCEPT ![n] = v] /\ free_nodes' = next[n]
      /\ used_nodes_count' = used_nodes_count + 1 /\ looping' = looping
      /\ \/ head = NULL /\ head' = n /\ next' = links
         \/ head # NULL /\ v < key[head] /\ head' = n /\ next' = [links EXCEPT ![n] = head]
         \/ head # NULL /\ v >= key[head] /\ next' = InsertAfter(links, head, n) /\ head' = head
  BY DEF Push
<1>2. /\ l \in Seq(Nodes) /\ Len(l) \in Nat /\ Len(l) <= Capacity
      /\ Path(head, next, l) /\ Distinct(l)
      /\ \A x \in Nodes : Has(l, x) <=> ~Has(Free, x)
      /\ head = At(l, 1) /\ free_nodes = At(Free, 1)
      /\ \A i \in 1..Len(l) : l[i] \in Nodes /\ next[l[i]] = At(l, i + 1)
      /\ head # NULL => 1 \in 1..Len(l) /\ l[1] = head
      /\ head = NULL => Len(l) = 0
      /\ next \in [Nodes -> Nodes \union {NULL}] /\ key \in [Nodes -> Keys]
      /\ Len(Free) \in Nat /\ \A i \in 1..Len(Free) : Free[i] \in Nodes
  BY InvFacts
<1>3. n \in Nodes /\ Has(Free, n) /\ ~Has(l, n)
  <2>1. 1 \in 1..Len(Free) /\ Free[1] = n
    BY <1>1, <1>2 DEF At
  <2>2. Has(Free, n) /\ n \in Nodes
    BY <1>2, <2>1 DEF Has
  <2>3. QED
    BY <1>2, <2>2
<1> HIDE DEF n, l
<1>4. /\ links \in [Nodes -> Nodes \union {NULL}] /\ links[n] = NULL
      /\ \A x \in Nodes : x # n => links[x] = next[x]
      /\ \A j \in 1..Len(l) : links[l[j]] = next[l[j]]
  BY <1>2, <1>3 DEF Has
<1>5. key' \in [Nodes -> Keys] /\ key'[n] = v /\ \A x \in Nodes : x # n => key'[x] = key[x]
  BY <1>1, <1>2, <1>3
<1>6. \A x \in Nodes : key[x] \in Nat
  BY <1>2, CapacityAssumption
<1>7. v \in Nat
  BY CapacityAssumption
<1> DEFINE Goal(i) ==
             /\ Place(l, i, v, key) /\ LinksIn(next', next, l, i, n)
             /\ \A x \in Nodes : Has(Free, x) /\ x # n => next'[x] = next[x]
             /\ next' \in [Nodes -> Nodes \union {NULL}]
             /\ head' = IF i = 1 THEN n ELSE head
<1>8. ASSUME head = NULL /\ head' = n /\ next' = links
      PROVE  \E i : Goal(i)
  <2> HIDE DEF links
  <2>1. Place(l, 1, v, key)
    BY <1>2, <1>8 DEF Place
  <2>2. LinksIn(next', next, l, 1, n)
    BY <1>2, <1>4, <1>8 DEF LinksIn, At
  <2>3. Goal(1)
    BY <1>4, <1>8, <2>1, <2>2
  <2>4. QED
    BY <2>3
<1>9. ASSUME head # NULL /\ v < key[head] /\ head' = n /\ next' = [links EXCEPT ![n] = head]
      PROVE  \E i : Goal(i)
  <2> HIDE DEF links
  <2>1. Place(l, 1, v, key)
    BY <1>2, <1>9 DEF Place
  <2>2. head \in Nodes
    BY <1>2, <1>9
  <2>3. /\ next' \in [Nodes -> Nodes \union {NULL}] /\ next'[n] = head
        /\ \A x \in Nodes : x # n => next'[x] = next[x]
    BY <1>3, <1>4, <1>9, <2>2
  <2>4. LinksIn(next', next, l, 1, n)
    BY <1>2, <1>3, <2>3 DEF LinksIn, At, Has
  <2>5. Goal(1)
    BY <1>9, <2>1, <2>3, <2>4
  <2>6. QED
    BY <2>5
<1>10. ASSUME head # NULL /\ v >= key[head] /\ next' = InsertAfter(links, head, n) /\ head' = head
       PROVE  \E i : Goal(i)
  <2> HIDE DEF links
  <2>1. Path(head, links, l)
    BY <1>2, <1>4 DEF Path
  <2>2. 1 \in 1..Len(l) /\ l[1] = head
    BY <1>2, <1>10
  <2>3. PICK i \in 1..(Len(l) + 1) : PutBehind(InsertAfter(links, l[1], n), links, l, 1, i, n, key')
    BY <1>2, <1>3, <1>4, <2>1, <2>2, InsertAfterIs
  <2>4. PlaceFrom(l, 1, i, v, key)
    BY <1>2, <1>3, <1>5, <2>3, OtherKey DEF PutBehind
  <2>5. Place(l, i, v, key)
    <3>1. ~(v < key[l[1]])
      BY <1>2, <1>6, <1>7, <1>10, <2>2
    <3>2. \A j \in 1..Len(l) : j = 1 \/ 1 < j
      BY <1>2
    <3>3. QED
      BY <2>4, <3>1, <3>2 DEF Place, PlaceFrom
  <2>6. LinksIn(next', next, l, i, n)
    BY <1>4, <1>10, <2>2, <2>3 DEF LinksIn, PutBehind
  <2>7. \A x \in Nodes : Has(Free, x) /\ x # n => next'[x] = next[x]
    BY <1>2, <1>4, <1>10, <2>2, <2>3 DEF PutBehind
  <2>8. i # 1
    BY <2>4 DEF PlaceFrom
  <2>9. Goal(i)
    BY <1>10, <2>2, <2>3, <2>5, <2>6, <2>7, <2>8 DEF PutBehind
  <2>10. QED
    BY <2>9
<1>11. PICK i : Goal(i)
  BY <1>1, <1>8, <1>9, <1>10
<1>12. Inv' /\ Ordered!Push(n, v)
  BY <1>1, <1>3, <1>11, PushEffect DEF l, n
<1>13. QED
  BY <1>3, <1>12

(* What is left of the queue when its i-th node was freed.                 *)
LEMMA FreeEffect ==
    ASSUME Inv, NEW i \in 1..Len(List), next'[List[i]] = free_nodes,
           LinksOut(next', next, List, i),
           \A x \in Nodes : Has(Free, x) => next'[x] = next[x],
           next' \in [Nodes -> Nodes \union {NULL}],
           head' = IF i = 1 THEN At(List, 2) ELSE head, free_nodes' = List[i],
           used_nodes_count' = used_nodes_count - 1, key' = key, looping' = looping
    PROVE  Inv' /\ List' = RemoveAt(List, i)
<1> DEFINE l == List
           f == Free
           n == List[i]
           t == RemoveAt(l, i)
           u == InsertAt(f, 1, n)
<1>1. /\ l \in Seq(Nodes) /\ \A j \in 1..Len(f) : f[j] \in Nodes
  BY InvFacts
<1>2. Linked(head, free_nodes, next, l, f) /\ used_nodes_count = Len(l) /\ Sorted(l, key)
      /\ looping \in BOOLEAN /\ key \in [Nodes -> Keys]
  BY DEF Inv, TypeOK
<1>3. \A j \in 1..Len(f) : next'[f[j]] = next[f[j]]
  BY <1>1 DEF Has
<1>4. LinksOut(next', next, l, i) /\ head' = IF i = 1 THEN At(l, 2) ELSE head
  OBVIOUS
<1> HIDE DEF l, f
<1>5. i \in 1..Len(l) /\ n = l[i] /\ next'[n] = free_nodes /\ free_nodes' = n
  BY DEF l
<1> HIDE DEF n
<1>6. Linked(head', free_nodes', next', t, u)
  BY <1>2, <1>3, <1>4, <1>5, FreeLinked
<1>7. IsRemoved(t, l, i)
  BY <1>1, <1>5, RemoveAtIs
<1> HIDE DEF t, u
<1>8. Sorted(t, key')
  BY <1>1, <1>2, <1>5, <1>7, SortedRemove
<1>9. used_nodes_count' = Len(t)
  BY <1>2, <1>7 DEF IsRemoved
<1>10. Inv' /\ List' = t
  BY <1>2, <1>6, <1>8, <1>9, NextInv
<1>11. QED
  BY <1>10 DEF t, l

(* pop takes the first element, and keeps the invariant.                   *)
LEMMA PopStep ==
    ASSUME Inv, Pop
    PROVE  Inv' /\ Ordered!Pop
<1>1. /\ head # NULL /\ head' = next[head] /\ next' = [next EXCEPT ![head] = free_nodes]
      /\ free_nodes' = head /\ used_nodes_count' = used_nodes_count - 1
      /\ key' = key /\ looping' = looping
  BY DEF Pop
<1>2. /\ List \in Seq(Nodes) /\ Len(List) \in Nat /\ Distinct(List)
      /\ 1 \in 1..Len(List) /\ List[1] = head /\ head \in Nodes
      /\ \A x \in Nodes : Has(List, x) <=> ~Has(Free, x)
      /\ \A i \in 1..Len(List) : List[i] \in Nodes /\ next[List[i]] = At(List, i + 1)
      /\ next \in [Nodes -> Nodes \union {NULL}] /\ free_nodes \in Nodes \union {NULL}
  BY <1>1, InvFacts DEF Inv, TypeOK
<1>3. /\ next' \in [Nodes -> Nodes \union {NULL}] /\ next'[head] = free_nodes
      /\ \A x \in Nodes : x # head => next'[x] = next[x]
  BY <1>1, <1>2
<1>4. Has(List, head)
  BY <1>2 DEF Has
<1>5. \A x \in Nodes : Has(Free, x) => next'[x] = next[x]
  BY <1>2, <1>3, <1>4
<1>6. LinksOut(next', next, List, 1)
  BY <1>2, <1>3 DEF LinksOut, Distinct
<1>7. head' = At(List, 2)
  BY <1>1, <1>2
<1>8. Inv' /\ List' = RemoveAt(List, 1)
  BY <1>1, <1>2, <1>3, <1>5, <1>6, <1>7, FreeEffect
<1>9. IsRemoved(RemoveAt(List, 1), List, 1)
  BY <1>2, RemoveAtIs
<1>10. List # <<>>
  BY <1>2
<1>11. /\ Tail(List) \in Seq(Nodes) /\ Len(Tail(List)) = Len(List) - 1
       /\ \A i \in 1..Len(Tail(List)) : Tail(List)[i] = List[i + 1]
  BY <1>2, <1>10, HeadTailProperties
<1>12. RemoveAt(List, 1) = Tail(List)
  <2> DEFINE r == RemoveAt(List, 1)
             t == Tail(List)
  <2>1. /\ r \in Seq(Nodes) /\ Len(r) = Len(t)
        /\ \A i \in 1..Len(r) : r[i] = t[i]
    BY <1>2, <1>9, <1>11 DEF IsRemoved
  <2> HIDE DEF r, t
  <2>2. t \in Seq(Nodes)
    BY <1>11 DEF t
  <2>3. r = t
    BY <2>1, <2>2, SeqEqual
  <2>4. QED
    BY <2>3 DEF r, t
<1>13. QED
  BY <1>1, <1>8, <1>10, <1>12 DEF Ordered!Pop

(* erase takes the first element or the second one, or never ends.         *)
LEMMA EraseStep ==
    ASSUME Inv, NEW n \in Nodes, Erase(n)
    PROVE  Inv' /\ (Ordered!Pop \/ Ordered!Erase(n) \/ UNCHANGED Ordered!vars)
<1>1. n \in Range(List) /\ (Pop \/ (head # n /\ Unlink(n)) \/ EraseLoops(n))
  BY DEF Erase
<1>2. CASE Pop
  BY <1>2, PopStep
<1>3. CASE EraseLoops(n)
  <2>1. UNCHANGED <<next, free_nodes, head, used_nodes_count, key>> /\ looping' \in BOOLEAN
    BY <1>3 DEF EraseLoops
  <2>2. Inv' /\ List' = List
    BY <2>1, NextInv DEF Inv, TypeOK
  <2>3. QED
    BY <2>1, <2>2 DEF Ordered!vars
<1>4. CASE head # n /\ Unlink(n)
  <2>1. /\ next[head] = n /\ next' = [next EXCEPT ![head] = next[n], ![n] = free_nodes]
        /\ free_nodes' = n /\ used_nodes_count' = used_nodes_count - 1
        /\ head' = head /\ key' = key /\ looping' = looping
    BY <1>4 DEF Unlink
  <2>2. /\ List \in Seq(Nodes) /\ Len(List) \in Nat /\ Distinct(List)
        /\ \A x \in Nodes : Has(List, x) <=> ~Has(Free, x)
        /\ \A i \in 1..Len(List) : List[i] \in Nodes /\ next[List[i]] = At(List, i + 1)
        /\ next \in [Nodes -> Nodes \union {NULL}] /\ free_nodes \in Nodes \union {NULL}
        /\ head # NULL => 1 \in 1..Len(List) /\ List[1] = head
        /\ head = NULL => Len(List) = 0
        /\ Range(List) = {x \in Nodes : Has(List, x)}
    BY InvFacts DEF Inv, TypeOK
  <2>3. 1 \in 1..Len(List) /\ List[1] = head /\ head \in Nodes
    <3>1. Has(List, n)
      BY <1>1, <2>2
    <3>2. Len(List) # 0
      BY <2>2, <3>1 DEF Has
    <3>3. QED
      BY <2>2, <3>2
  <2>4. 2 \in 1..Len(List) /\ List[2] = n /\ next[n] = At(List, 3)
    <3>1. At(List, 2) = n
      BY <2>1, <2>2, <2>3
    <3>2. 2 <= Len(List) /\ List[2] = n
      BY <3>1, NodesFacts DEF At
    <3>3. QED
      BY <2>2, <3>2
  <2>5. /\ next' \in [Nodes -> Nodes \union {NULL}] /\ next'[n] = free_nodes
        /\ next'[head] = next[n]
        /\ \A x \in Nodes : x # head /\ x # n => next'[x] = next[x]
    BY <1>4, <2>1, <2>2, <2>3
  <2>6. LinksOut(next', next, List, 2)
    <3>1. \A j \in 1..Len(List) : j # 1 /\ j # 2 => List[j] # head /\ List[j] # n
      BY <2>3, <2>4, <2>2 DEF Distinct
    <3>2. QED
      BY <2>2, <2>3, <2>4, <2>5, <3>1 DEF LinksOut
  <2>7. Has(List, head) /\ Has(List, n)
    BY <2>3, <2>4 DEF Has
  <2>8. \A x \in Nodes : Has(Free, x) => next'[x] = next[x]
    BY <2>2, <2>3, <2>5, <2>7
  <2>9. Inv' /\ List' = RemoveAt(List, 2)
    <3>1. /\ head' = IF 2 = 1 THEN At(List, 2) ELSE head
          /\ next'[List[2]] = free_nodes /\ free_nodes' = List[2]
      BY <2>1, <2>4, <2>5
    <3>2. QED
      BY <2>1, <2>4, <2>5, <2>6, <2>8, <3>1, FreeEffect
  <2>10. Ordered!RemoveFirst(List, n) = RemoveAt(List, 2)
    BY <2>2, <2>4, RemoveFirstIs
  <2>11. QED
    BY <1>1, <2>1, <2>9, <2>10 DEF Ordered!Erase, Ordered!Elements, Ordered!Range, Range
<1>5. QED
  BY <1>1, <1>2, <1>3, <1>4

(* update, once it is known where the node was put.                        *)
LEMMA UpdateEffect ==
    ASSUME Inv, NEW i \in 1..Len(List), NEW v \in Keys,
           NEW k, Place(RemoveAt(List, i), k, v, key),
           Linked(head', free_nodes', next', InsertAt(RemoveAt(List, i), k, List[i]), Free),
           next' \in [Nodes -> Nodes \union {NULL}],
           key' = [key EXCEPT ![List[i]] = v],
           used_nodes_count' = used_nodes_count, looping' = looping
    PROVE  Inv' /\ Ordered!Update(List[i], v)
<1> DEFINE l == List
           f == Free
           n == List[i]
           r == RemoveAt(l, i)
           t == InsertAt(r, k, n)
<1>1. /\ l \in Seq(Nodes) /\ Len(l) \in Nat /\ Distinct(l) /\ l[i] \in Nodes
      /\ Range(l) = {x \in Nodes : Has(l, x)}
  BY InvFacts
<1>2. /\ used_nodes_count = Len(l) /\ Sorted(l, key)
      /\ looping \in BOOLEAN /\ key \in [Nodes -> Keys]
  BY DEF Inv, TypeOK
<1>3. Place(r, k, v, key) /\ Linked(head', free_nodes', next', t, f)
  OBVIOUS
<1> HIDE DEF l, f
<1>4. i \in 1..Len(l) /\ n = l[i]
  BY DEF l
<1> HIDE DEF n
<1>5. IsRemoved(r, l, i)
  BY <1>1, <1>4, RemoveAtIs
<1>6. \A x : Has(r, x) <=> Has(l, x) /\ x # n
  BY <1>1, <1>4, <1>5, RemoveHas
<1> HIDE DEF r
<1>7. r \in Seq(Nodes) /\ Len(r) = Len(l) - 1 /\ k \in 1..(Len(r) + 1) /\ n \in Nodes
  BY <1>1, <1>3, <1>4, <1>5 DEF IsRemoved, Place
<1>8. IsInserted(t, r, k, n)
  BY <1>7, InsertAtIs
<1>9. key' \in [Nodes -> Keys] /\ key'[n] = v /\ \A x \in Nodes : x # n => key'[x] = key[x]
  BY <1>2, <1>7 DEF n
<1>10. Ordered!InsertByKey(r, n, v) = t
  BY <1>3, <1>7, InsertByKeyIs
<1> HIDE DEF t
<1>11. Sorted(t, key')
  <2>1. Sorted(r, key)
    BY <1>1, <1>2, <1>4, <1>5, SortedRemove
  <2>2. Sorted(r, key') /\ Place(r, k, key'[n], key')
    BY <1>3, <1>6, <1>7, <1>9, <2>1, OtherKey
  <2>3. QED
    BY <1>7, <1>8, <1>9, <2>2, SortedInsert
<1>12. used_nodes_count' = Len(t)
  BY <1>1, <1>2, <1>7, <1>8 DEF IsInserted
<1>13. Inv' /\ List' = t
  BY <1>2, <1>3, <1>9, <1>11, <1>12, NextInv
<1>14. Ordered!RemoveFirst(l, n) = r
  BY <1>1, <1>4, RemoveFirstIs DEF r
<1>15. n \in Range(l)
  BY <1>1, <1>4, <1>7 DEF Has
<1>16. QED
  BY <1>10, <1>13, <1>14, <1>15
     DEF Ordered!Update, Ordered!Elements, Ordered!Range, Range, l, n

(* The list without its i-th node, to which that node is to be given back. *)
LEMMA Without ==
    ASSUME Inv, NEW i \in 1..Len(List)
    PROVE  /\ IsRemoved(RemoveAt(List, i), List, i)
           /\ RemoveAt(List, i) \in Seq(Nodes)
           /\ Len(RemoveAt(List, i)) = Len(List) - 1 /\ Len(List) - 1 <= Capacity
           /\ \A x : Has(RemoveAt(List, i), x) <=> Has(List, x) /\ x # List[i]
           /\ List[i] \in Nodes /\ Has(List, List[i]) /\ ~Has(Free, List[i])
<1>1. /\ List \in Seq(Nodes) /\ Len(List) \in Nat /\ Distinct(List) /\ List[i] \in Nodes
      /\ Len(Free) \in Nat /\ Len(List) + Len(Free) = Capacity
      /\ \A x \in Nodes : Has(List, x) <=> ~Has(Free, x)
  BY InvFacts
<1>2. IsRemoved(RemoveAt(List, i), List, i)
  BY <1>1, RemoveAtIs
<1>3. \A x : Has(RemoveAt(List, i), x) <=> Has(List, x) /\ x # List[i]
  BY <1>1, <1>2, RemoveHas
<1>4. Has(List, List[i])
  BY DEF Has
<1>5. QED
  BY <1>1, <1>2, <1>3, <1>4 DEF IsRemoved

(* A node that is put back where it was.                                   *)
LEMMA PutBack ==
    ASSUME NEW s \in Seq(Nodes), NEW i \in 1..Len(s)
    PROVE  InsertAt(RemoveAt(s, i), i, s[i]) = s
<1> DEFINE r == RemoveAt(s, i)
           t == InsertAt(r, i, s[i])
<1>1. Len(s) \in Nat /\ s[i] \in Nodes
  BY SeqFacts
<1>2. IsRemoved(r, s, i)
  BY RemoveAtIs
<1> HIDE DEF r
<1>3. r \in Seq(Nodes) /\ Len(r) = Len(s) - 1 /\ i \in 1..(Len(r) + 1)
  BY <1>1, <1>2 DEF IsRemoved
<1>4. IsInserted(t, r, i, s[i])
  BY <1>1, <1>3, InsertAtIs
<1> HIDE DEF t
<1>5. t \in Seq(Nodes) /\ Len(t) = Len(s)
  BY <1>1, <1>3, <1>4 DEF IsInserted
<1>6. ASSUME NEW j \in 1..Len(t) PROVE t[j] = s[j]
  <2>1. CASE j < i
    BY <1>1, <1>2, <1>3, <1>4, <1>5, <2>1 DEF IsInserted, IsRemoved
  <2>2. CASE j = i
    BY <1>4, <2>2 DEF IsInserted
  <2>3. CASE j > i
    <3>1. t[j] = r[j - 1] /\ j - 1 \in 1..Len(r) /\ ~(j - 1 < i) /\ (j - 1) + 1 = j
      BY <1>1, <1>3, <1>4, <1>5, <2>3 DEF IsInserted
    <3>2. QED
      BY <1>2, <3>1 DEF IsRemoved
  <2>4. QED
    BY <1>1, <1>5, <2>1, <2>2, <2>3
<1>7. t = s
  BY <1>5, <1>6, SeqEqual
<1>8. QED
  BY <1>7 DEF t, r

(* A node taken out and put behind another one with insert_after.          *)
LEMMA PutElsewhere ==
    ASSUME Inv, NEW i \in 1..Len(List),
           NEW h1, NEW links \in [Nodes -> Nodes \union {NULL}],
           Path(h1, links, RemoveAt(List, i)),
           \A x \in Nodes : Has(Free, x) => links[x] = next[x],
           NEW m \in 1..Len(RemoveAt(List, i)),
           next' = InsertAfter(links, RemoveAt(List, i)[m], List[i]),
           head' = h1, free_nodes' = free_nodes
    PROVE  /\ next' \in [Nodes -> Nodes \union {NULL}]
           /\ \E k : /\ PlaceFrom(RemoveAt(List, i), m, k, key'[List[i]], key')
                    /\ Linked(head', free_nodes', next',
                              InsertAt(RemoveAt(List, i), k, List[i]), Free)
<1> DEFINE l == List
           f == Free
           n == List[i]
           r == RemoveAt(l, i)
<1>1. /\ Len(l) \in Nat /\ \A j \in 1..Len(f) : f[j] \in Nodes
  BY InvFacts
<1>2. /\ r \in Seq(Nodes) /\ Len(r) = Len(l) - 1 /\ Len(l) - 1 <= Capacity
      /\ \A x : Has(r, x) <=> Has(l, x) /\ x # n
      /\ n \in Nodes /\ ~Has(f, n) /\ ~Has(r, n)
  BY Without
<1>3. \A x \in Nodes : Has(l, x) <=> ~Has(f, x)
  BY InvFacts
<1>4. Linked(head, free_nodes, next, l, f)
  BY DEF Inv
<1>5. /\ Path(h1, links, r) /\ m \in 1..Len(r) /\ next' = InsertAfter(links, r[m], n)
      /\ \A x \in Nodes : Has(f, x) => links[x] = next[x]
      /\ i \in 1..Len(l) /\ n = l[i]
  OBVIOUS
<1> HIDE DEF l, f, n
<1>6. r = RemoveAt(l, i)
  OBVIOUS
<1> HIDE DEF r
<1>7. PICK k \in 1..(Len(r) + 1) : PutBehind(next', links, r, m, k, n, key')
  BY <1>2, <1>5, InsertAfterIs
<1>8. /\ PlaceFrom(r, m, k, key'[n], key') /\ LinksIn(next', links, r, k, n)
      /\ next' \in [Nodes -> Nodes \union {NULL}]
      /\ \A x \in Nodes : ~Has(r, x) /\ x # n => next'[x] = links[x]
  BY <1>7 DEF PutBehind
<1>9. \A j \in 1..Len(f) : next'[f[j]] = next[f[j]]
  <2>1. ASSUME NEW j \in 1..Len(f) PROVE next'[f[j]] = next[f[j]]
    <3>1. f[j] \in Nodes /\ Has(f, f[j])
      BY <1>1 DEF Has
    <3>2. QED
      BY <1>2, <1>3, <1>5, <1>8, <3>1
  <2>2. QED
    BY <2>1
<1>10. k \in 1..Len(l) /\ k # 1
  BY <1>1, <1>2, <1>8 DEF PlaceFrom
<1>11. head' = IF k = 1 THEN n ELSE h1
  BY <1>10
<1>12. Linked(head', free_nodes, next', InsertAt(r, k, n), f)
  BY <1>4, <1>5, <1>6, <1>8, <1>9, <1>10, <1>11, MoveLinked
<1>13. QED
  BY <1>8, <1>12 DEF r, l, f, n

(* update of the head: it stays, or goes behind nodes that precede it.     *)
LEMMA UpdateHeadStep ==
    ASSUME Inv, NEW v \in Keys, head \in Range(List), ~looping,
           key' = [key EXCEPT ![head] = v], UpdateHead,
           UNCHANGED <<free_nodes, used_nodes_count, looping>>
    PROVE  Inv' /\ Ordered!Update(head, v)
<1> DEFINE l == List
           r == RemoveAt(l, 1)
<1>1. /\ l \in Seq(Nodes) /\ Len(l) \in Nat /\ Distinct(l) /\ head = At(l, 1)
      /\ \A j \in 1..Len(l) : l[j] \in Nodes /\ next[l[j]] = At(l, j + 1)
      /\ Range(l) = {x \in Nodes : Has(l, x)}
      /\ next \in [Nodes -> Nodes \union {NULL}] /\ key \in [Nodes -> Keys]
      /\ Path(head, next, l)
      /\ Linked(head, free_nodes, next, l, Free)
  BY InvFacts DEF Inv
<1>2. 1 \in 1..Len(l) /\ l[1] = head /\ head \in Nodes
  <2>1. Has(l, head)
    BY <1>1
  <2>2. QED
    BY <1>1, <2>1 DEF Has, At
<1>3. /\ IsRemoved(r, l, 1) /\ r \in Seq(Nodes) /\ Len(r) = Len(l) - 1
      /\ ~Has(r, head)
  BY <1>2, Without
<1>4. next[head] = At(r, 1) /\ next[head] = At(l, 2)
  BY <1>1, <1>2, <1>3 DEF At, IsRemoved
<1>5. key'[head] = v /\ \A x \in Nodes : x # head => key'[x] = key[x]
  BY <1>1, <1>2
<1>6. \A x \in Nodes : key[x] \in Nat
  BY <1>1, CapacityAssumption
<1> HIDE DEF r
<1>7. \A j \in 1..Len(r) : r[j] \in Nodes /\ key'[r[j]] = key[r[j]]
  BY <1>3, <1>5, SeqFacts DEF Has
<1>8. CASE InPlace(head)
  <2>1. next' = next /\ head' = head
    BY <1>8 DEF UpdateHead
  <2>2. next[head] = NULL \/ v < key'[next[head]]
    BY <1>5, <1>8 DEF InPlace
  <2>3. Place(r, 1, v, key)
    <3>1. CASE Len(r) = 0
      <4>1. 1 \in 1..(Len(r) + 1) /\ ~(1 <= Len(r)) /\ \A j \in 1..Len(r) : ~(j < 1)
        BY <3>1
      <4>2. QED
        BY <4>1 DEF Place
    <3>2. CASE Len(r) # 0
      <4>1. 1 \in 1..Len(r) /\ 1 <= Len(r) /\ next[head] = r[1]
        BY <1>1, <1>3, <1>4, <3>2 DEF At
      <4>2. v < key[r[1]]
        BY <1>7, <2>2, <4>1, NodesFacts
      <4>3. QED
        BY <1>3, <4>1, <4>2 DEF Place
    <3>3. QED
      BY <3>1, <3>2
  <2>4. InsertAt(r, 1, head) = l
    BY <1>1, <1>2, PutBack DEF r
  <2>5. Linked(head', free_nodes', next', InsertAt(r, 1, l[1]), Free)
    BY <1>1, <1>2, <2>1, <2>4
  <2>6. QED
    BY <1>1, <1>2, <2>1, <2>3, <2>5, UpdateEffect DEF r, l
<1>9. CASE ~InPlace(head)
  <2>1. head' = next[head] /\ next' = InsertAfter(next, next[head], head)
    BY <1>9 DEF UpdateHead
  <2>2. next[head] # NULL /\ ~(v < key'[next[head]])
    BY <1>5, <1>9 DEF InPlace
  <2>3. 1 \in 1..Len(r) /\ r[1] = next[head]
    BY <1>1, <1>3, <1>4, <2>2 DEF At
  <2>4. Path(next[head], next, r)
    <3>1. LinksOut(next, next, l, 1)
      BY <1>1 DEF LinksOut
    <3>2. Path(IF 1 = 1 THEN At(l, 2) ELSE head, next, r)
      BY <1>1, <1>2, <1>3, <3>1, PathRemove
    <3>3. QED
      BY <1>4, <3>2
  <2>5. /\ next' \in [Nodes -> Nodes \union {NULL}]
        /\ \E k : /\ PlaceFrom(r, 1, k, key'[head], key')
                 /\ Linked(head', free_nodes', next', InsertAt(r, k, head), Free)
    BY <1>1, <1>2, <2>1, <2>3, <2>4, PutElsewhere DEF r, l
  <2>6. PICK k : /\ PlaceFrom(r, 1, k, key'[head], key')
                 /\ Linked(head', free_nodes', next', InsertAt(r, k, head), Free)
    BY <2>5
  <2>7. PlaceFrom(r, 1, k, v, key)
    BY <1>3, <1>5, <2>6, OtherKey
  <2>8. Place(r, k, v, key)
    <3>1. ~(v < key[r[1]])
      BY <1>7, <2>2, <2>3
    <3>2. \A j \in 1..Len(r) : j = 1 \/ 1 < j
      BY <1>1, <1>3
    <3>3. QED
      BY <2>7, <3>1, <3>2 DEF Place, PlaceFrom
  <2>9. QED
    BY <1>1, <1>2, <2>5, <2>6, <2>8, UpdateEffect DEF r, l
<1>10. QED
  BY <1>8, <1>9

(* update of another node: from the head or from the node before it.       *)
LEMMA UpdateBehindStep ==
    ASSUME Inv, NEW v \in Keys, NEW n \in Nodes, n \in Range(List), n # head,
           v >= key[head], key' = [key EXCEPT ![n] = v], UpdateBehind(n),
           UNCHANGED <<free_nodes, used_nodes_count, looping>>
    PROVE  Inv' /\ Ordered!Update(n, v)
<1> DEFINE l == List
<1>1. /\ l \in Seq(Nodes) /\ Len(l) \in Nat /\ Distinct(l)
      /\ \A j \in 1..Len(l) : l[j] \in Nodes /\ next[l[j]] = At(l, j + 1)
      /\ Range(l) = {x \in Nodes : Has(l, x)} /\ head = At(l, 1)
      /\ \A x \in Nodes : Has(l, x) <=> ~Has(Free, x)
      /\ next \in [Nodes -> Nodes \union {NULL}] /\ key \in [Nodes -> Keys]
      /\ Path(head, next, l) /\ Sorted(l, key)
      /\ Linked(head, free_nodes, next, l, Free)
  BY InvFacts DEF Inv
<1>2. PICK prev \in Range(l) :
        /\ next[prev] = n /\ head' = head
        /\ next' = LET links == [next EXCEPT ![prev] = next[n]]
                   IN CASE key'[prev] >= key'[n] -> InsertAfter(links, head, n)
                        [] key'[prev] < key'[n] /\ InPlace(n) -> next
                        [] OTHER -> InsertAfter(links, prev, n)
  BY DEF UpdateBehind
<1> DEFINE links == [next EXCEPT ![prev] = next[n]]
<1>3. PICK m \in 1..Len(l) : l[m] = prev
  BY <1>1 DEF Has
<1> DEFINE i == m + 1
<1>4. i \in 1..Len(l) /\ l[i] = n /\ next[n] = At(l, i + 1) /\ i # 1
  <2>1. At(l, m + 1) = n
    BY <1>1, <1>2, <1>3
  <2>2. m + 1 \in 1..Len(l) /\ l[m + 1] = n
    BY <1>1, <2>1, NodesFacts DEF At
  <2>3. QED
    BY <1>1, <2>2
<1>5. i - 1 = m
  BY <1>1, <1>3
<1> HIDE DEF i
<1> DEFINE r == RemoveAt(l, i)
<1>6. /\ IsRemoved(r, l, i) /\ r \in Seq(Nodes) /\ Len(r) = Len(l) - 1
      /\ ~Has(r, n)
  BY <1>4, Without
<1> HIDE DEF r
<1>7. /\ 1 \in 1..Len(r) /\ r[1] = head /\ l[1] = head
      /\ m \in 1..Len(r) /\ r[m] = prev /\ m < i
  <2>1. 1 \in 1..Len(l) /\ 1 \in 1..Len(r) /\ 1 < i /\ m \in 1..Len(r) /\ m < i
    BY <1>1, <1>3, <1>4, <1>5, <1>6
  <2>2. r[1] = l[1] /\ r[m] = l[m]
    BY <1>6, <2>1 DEF IsRemoved
  <2>3. QED
    BY <1>1, <1>3, <2>1, <2>2 DEF At
<1>8. /\ key'[n] = v /\ \A x \in Nodes : x # n => key'[x] = key[x]
      /\ prev \in Nodes /\ prev # n
  BY <1>1, <1>3, <1>4, <1>5, <1>7 DEF Distinct
<1>9. v \in Nat /\ \A x \in Nodes : key[x] \in Nat
  BY <1>1, CapacityAssumption
<1>10. \A j \in 1..Len(r) : r[j] \in Nodes /\ key[r[j]] \in Nat
  BY <1>6, <1>9, SeqFacts
<1>11. /\ links \in [Nodes -> Nodes \union {NULL}] /\ links[prev] = next[n]
       /\ \A x \in Nodes : x # prev => links[x] = next[x]
  BY <1>1, <1>8
<1>12. Sorted(r, key)
  BY <1>1, <1>4, <1>6, SortedRemove
<1> HIDE DEF links
<1>13. Path(head, links, r)
  <2>1. LinksOut(links, next, l, i)
    <3>1. \A j \in 1..Len(l) : (j = i - 1 => l[j] = prev) /\ (j # i - 1 => l[j] # prev)
      BY <1>1, <1>3, <1>5 DEF Distinct
    <3>2. QED
      BY <1>1, <1>4, <1>11, <3>1 DEF LinksOut
  <2>2. Path(IF i = 1 THEN At(l, 2) ELSE head, links, r)
    BY <1>1, <1>4, <1>6, <2>1, PathRemove
  <2>3. QED
    BY <1>4, <2>2
<1>14. \A x \in Nodes : Has(Free, x) => links[x] = next[x]
  BY <1>1, <1>2, <1>11
<1>15. /\ next' = IF key'[prev] >= key'[n] THEN InsertAfter(links, head, n)
                  ELSE IF InPlace(n) THEN next ELSE InsertAfter(links, prev, n)
  BY <1>2, <1>8, <1>9 DEF links
<1> DEFINE Goal(k) == /\ Place(r, k, v, key)
                     /\ Linked(head', free_nodes', next', InsertAt(r, k, n), Free)
                     /\ next' \in [Nodes -> Nodes \union {NULL}]
<1>16. ASSUME key'[prev] >= key'[n] PROVE \E k : Goal(k)
  <2>1. next' = InsertAfter(links, r[1], n)
    BY <1>7, <1>15, <1>16
  <2>2. /\ next' \in [Nodes -> Nodes \union {NULL}]
        /\ \E k : /\ PlaceFrom(r, 1, k, key'[n], key')
                 /\ Linked(head', free_nodes', next', InsertAt(r, k, n), Free)
    BY <1>2, <1>4, <1>7, <1>11, <1>13, <1>14, <2>1, PutElsewhere DEF r, l
  <2>3. PICK k : /\ PlaceFrom(r, 1, k, key'[n], key')
                 /\ Linked(head', free_nodes', next', InsertAt(r, k, n), Free)
    BY <2>2
  <2>4. PlaceFrom(r, 1, k, v, key)
    BY <1>6, <1>8, <2>3, OtherKey
  <2>5. Place(r, k, v, key)
    <3>1. ~(v < key[r[1]])
      BY <1>7, <1>9, <1>10
    <3>2. \A j \in 1..Len(r) : j = 1 \/ 1 < j
      BY <1>1, <1>6
    <3>3. QED
      BY <2>4, <3>1, <3>2 DEF Place, PlaceFrom
  <2>6. QED
    BY <2>2, <2>3, <2>5
<1>17. ASSUME ~(key'[prev] >= key'[n]) PROVE \A j \in 1..Len(r) : j <= m => ~(v < key[r[j]])
  <2>1. ASSUME NEW j \in 1..Len(r), j <= m PROVE ~(v < key[r[j]])
    <3>1. key[r[j]] <= key[r[m]]
      BY <1>7, <1>12, <2>1 DEF Sorted
    <3>2. key[prev] < v
      BY <1>8, <1>9, <1>17
    <3>3. QED
      BY <1>7, <1>9, <1>10, <3>1, <3>2
  <2>2. QED
    BY <2>1
<1>18. ASSUME ~(key'[prev] >= key'[n]), InPlace(n) PROVE \E k : Goal(k)
  <2>1. next' = next
    BY <1>15, <1>18
  <2>2. next[n] = NULL \/ v < key'[next[n]]
    BY <1>8, <1>18 DEF InPlace
  <2>3. i \in 1..(Len(r) + 1) /\ \A j \in 1..Len(r) : j < i => j <= m
    BY <1>1, <1>4, <1>5, <1>6
  <2>4. ASSUME i <= Len(r) PROVE v < key[r[i]]
    <3>1. i \in 1..Len(r) /\ i + 1 <= Len(l)
      BY <1>1, <1>4, <1>6, <2>4
    <3>2. r[i] = l[i + 1] /\ next[n] = r[i]
      BY <1>4, <1>6, <3>1 DEF IsRemoved, At
    <3>3. r[i] \in Nodes /\ r[i] # NULL /\ r[i] # n
      BY <1>6, <1>10, <3>1, NodesFacts DEF Has
    <3>4. QED
      BY <1>8, <2>2, <3>2, <3>3
  <2>5. Place(r, i, v, key)
    BY <1>17, <1>18, <2>3, <2>4 DEF Place
  <2>6. InsertAt(r, i, n) = l
    BY <1>1, <1>4, PutBack DEF r
  <2>7. Goal(i)
    BY <1>1, <1>2, <2>1, <2>5, <2>6
  <2>8. QED
    BY <2>7
<1>19. ASSUME ~(key'[prev] >= key'[n]), ~InPlace(n) PROVE \E k : Goal(k)
  <2>1. next' = InsertAfter(links, r[m], n)
    BY <1>7, <1>15, <1>19
  <2>2. /\ next' \in [Nodes -> Nodes \union {NULL}]
        /\ \E k : /\ PlaceFrom(r, m, k, key'[n], key')
                 /\ Linked(head', free_nodes', next', InsertAt(r, k, n), Free)
    BY <1>2, <1>4, <1>7, <1>11, <1>13, <1>14, <2>1, PutElsewhere DEF r, l
  <2>3. PICK k : /\ PlaceFrom(r, m, k, key'[n], key')
                 /\ Linked(head', free_nodes', next', InsertAt(r, k, n), Free)
    BY <2>2
  <2>4. PlaceFrom(r, m, k, v, key)
    BY <1>6, <1>8, <2>3, OtherKey
  <2>5. \A j \in 1..Len(r) : j <= m \/ m < j
    BY <1>1, <1>6
  <2>6. Place(r, k, v, key)
    BY <1>17, <1>19, <2>4, <2>5 DEF Place, PlaceFrom
  <2>7. QED
    BY <2>2, <2>3, <2>6
<1>20. PICK k : Goal(k)
  BY <1>16, <1>18, <1>19
<1>21. QED
  BY <1>4, <1>20, UpdateEffect DEF r, l

(* update gives the node the place its new priority has in the list.       *)
LEMMA UpdateStep ==
    ASSUME Inv, NEW v \in Keys, NEW n \in Nodes, Update(n, v)
    PROVE  Inv' /\ Ordered!Update(n, v)
<1>1. /\ ~looping /\ n \in Range(List) /\ (n = head \/ v >= key[head])
      /\ key' = [key EXCEPT ![n] = v]
      /\ UNCHANGED <<free_nodes, used_nodes_count, looping>>
  BY DEF Update
<1>2. CASE n = head
  <2>1. UpdateHead
    BY <1>2 DEF Update
  <2>2. QED
    BY <1>1, <1>2, <2>1, UpdateHeadStep
<1>3. CASE n # head
  <2>1. UpdateBehind(n)
    BY <1>3 DEF Update
  <2>2. QED
    BY <1>1, <1>3, <2>1, UpdateBehindStep
<1>4. QED
  BY <1>2, <1>3

(* clear puts the elements in front of the free nodes, the last one first. *)
LEMMA ClearStep ==
    ASSUME Inv, Clear
    PROVE  Inv' /\ Ordered!Clear
<1> DEFINE l == List
           f == Free
           t == [j \in 1..Capacity |-> IF j <= Len(l) THEN l[Len(l) + 1 - j] ELSE f[j - Len(l)]]
<1>1. /\ l \in Seq(Nodes) /\ f \in Seq(Nodes) /\ Len(l) \in Nat /\ Len(f) \in Nat
      /\ DOMAIN l = 1..Len(l)
      /\ Len(l) + Len(f) = Capacity /\ Distinct(l) /\ Distinct(f)
      /\ head # NULL => 1 \in 1..Len(l) /\ l[1] = head
      /\ free_nodes = At(f, 1)
      /\ \A x \in Nodes : Has(l, x) <=> ~Has(f, x)
      /\ \A j \in 1..Len(l) : l[j] \in Nodes
      /\ \A j \in 1..Len(f) : f[j] \in Nodes /\ next[f[j]] = At(f, j + 1)
      /\ next \in [Nodes -> Nodes \union {NULL}] /\ key \in [Nodes -> Keys]
      /\ free_nodes \in Nodes \union {NULL} /\ looping \in BOOLEAN
  BY InvFacts, SeqFacts DEF Inv, TypeOK
<1>2. /\ head # NULL
      /\ next' = [x \in Nodes |->
                    CASE x = head -> free_nodes
                      [] x \in Range(Tail(l)) -> l[(CHOOSE j \in DOMAIN l : l[j] = x) - 1]
                      [] OTHER -> next[x]]
      /\ free_nodes' = l[Len(l)] /\ head' = NULL /\ used_nodes_count' = 0
      /\ key' = key /\ looping' = looping
  BY DEF Clear, Last
<1>3. 1 \in 1..Len(l) /\ l[1] = head /\ l # <<>> /\ head \in Nodes
  BY <1>1, <1>2
<1>4. /\ Tail(l) \in Seq(Nodes) /\ Len(Tail(l)) = Len(l) - 1
      /\ \A j \in 1..Len(Tail(l)) : Tail(l)[j] = l[j + 1]
  BY <1>1, <1>3, HeadTailProperties
<1> DEFINE tail == Tail(l)
<1>5. Range(tail) = {tail[j] : j \in 1..Len(tail)}
  <2> HIDE DEF tail
  <2>1. DOMAIN tail = 1..Len(tail)
    BY <1>4, SeqFacts DEF tail
  <2>2. QED
    BY <2>1 DEF Range
<1> HIDE DEF l, f, tail
<1>6. \A j \in 1..Len(l) : j # 1 => l[j] \in Range(tail)
  <2>1. ASSUME NEW j \in 1..Len(l), j # 1 PROVE l[j] \in Range(tail)
    <3>1. j - 1 \in 1..Len(tail) /\ (j - 1) + 1 = j
      BY <1>1, <1>4, <2>1 DEF tail
    <3>2. tail[j - 1] = l[j]
      BY <1>4, <3>1 DEF tail
    <3>3. QED
      BY <1>5, <3>1, <3>2
  <2>2. QED
    BY <2>1
<1>7. \A x \in Range(tail) : \E j \in 1..Len(l) : j # 1 /\ l[j] = x
  <2>1. ASSUME NEW j \in 1..Len(tail) PROVE j + 1 \in 1..Len(l) /\ j + 1 # 1 /\ tail[j] = l[j + 1]
    BY <1>1, <1>4 DEF tail
  <2>2. QED
    BY <1>5, <2>1
<1>8. \A j \in 1..Len(l) : (CHOOSE k \in DOMAIN l : l[k] = l[j]) = j
  BY <1>1 DEF Distinct
<1>9. /\ next'[head] = free_nodes
      /\ \A j \in 1..Len(l) : j # 1 => next'[l[j]] = l[j - 1]
      /\ \A j \in 1..Len(f) : next'[f[j]] = At(f, j + 1)
  <2>1. next'[head] = free_nodes
    <3>1. head \notin Range(tail)
      BY <1>1, <1>3, <1>7 DEF Distinct
    <3>2. QED
      BY <1>2, <1>3, <3>1 DEF tail
  <2>2. ASSUME NEW j \in 1..Len(l), j # 1 PROVE next'[l[j]] = l[j - 1]
    <3>1. l[j] \in Nodes /\ l[j] # head /\ l[j] \in Range(tail)
      BY <1>1, <1>3, <1>6, <2>2 DEF Distinct
    <3>2. next'[l[j]] = l[(CHOOSE k \in DOMAIN l : l[k] = l[j]) - 1]
      BY <1>2, <3>1 DEF tail
    <3>3. QED
      BY <1>8, <3>2
  <2>3. ASSUME NEW j \in 1..Len(f) PROVE next'[f[j]] = At(f, j + 1)
    <3>1. f[j] \in Nodes /\ Has(f, f[j])
      BY <1>1 DEF Has
    <3>2. ~Has(l, f[j])
      BY <1>1, <3>1
    <3>3. f[j] # head /\ f[j] \notin Range(tail)
      BY <1>3, <1>7, <3>2 DEF Has
    <3>4. next'[f[j]] = next[f[j]]
      BY <1>2, <3>1, <3>3 DEF tail
    <3>5. QED
      BY <1>1, <3>4
  <2>4. QED
    BY <2>1, <2>2, <2>3
<1>10. next' \in [Nodes -> Nodes \union {NULL}]
  <2>1. ASSUME NEW x \in Nodes PROVE next'[x] \in Nodes \union {NULL}
    <3>1. CASE x = head
      BY <1>1, <1>9, <3>1
    <3>2. CASE x # head /\ x \in Range(tail)
      <4>1. PICK j \in 1..Len(l) : j # 1 /\ l[j] = x
        BY <1>7, <3>2
      <4>2. j - 1 \in 1..Len(l) /\ next'[x] = l[j - 1]
        BY <1>1, <1>9, <4>1
      <4>3. QED
        BY <1>1, <4>2
    <3>3. CASE x # head /\ x \notin Range(tail)
      <4>1. next'[x] = next[x]
        BY <1>2, <3>3 DEF tail
      <4>2. QED
        BY <1>1, <4>1
    <3>4. QED
      BY <3>1, <3>2, <3>3
  <2>2. DOMAIN next' = Nodes /\ next' = [x \in Nodes |-> next'[x]]
    BY <1>2
  <2>3. QED
    BY <2>1, <2>2
<1>11. Capacity \in Nat /\ Capacity >= 1
  BY NodesFacts
<1>12. ASSUME NEW j \in 1..Capacity
       PROVE  /\ j <= Len(l) => Len(l) + 1 - j \in 1..Len(l) /\ t[j] = l[Len(l) + 1 - j]
              /\ j > Len(l) => j - Len(l) \in 1..Len(f) /\ t[j] = f[j - Len(l)]
  BY <1>1, <1>11
<1>13. \A j \in 1..Capacity : t[j] \in Nodes
  BY <1>1, <1>11, <1>12
<1>14. t \in Seq(Nodes) /\ Len(t) = Capacity
  <2>1. t \in [1..Capacity -> Nodes]
    BY <1>13
  <2> HIDE DEF t
  <2>2. t \in Seq(Nodes)
    BY <1>11, <2>1
  <2>3. QED
    BY <1>11, <2>1, <2>2
<1> HIDE DEF t
<1>15. \A j \in 1..Len(l), k \in 1..Len(f) : l[j] # f[k]
  BY <1>1 DEF Has
<1>16. Distinct(t)
  <2>1. ASSUME NEW j \in 1..Capacity, NEW k \in 1..Capacity, t[j] = t[k] PROVE j = k
    <3>1. CASE j <= Len(l) /\ k <= Len(l)
      <4> DEFINE J == Len(l) + 1 - j
                 K == Len(l) + 1 - k
      <4>1. J \in 1..Len(l) /\ K \in 1..Len(l) /\ l[J] = l[K]
        BY <1>12, <2>1, <3>1
      <4>2. J = K
        <5> HIDE DEF J, K
        <5>1. QED
          BY <1>1, <4>1 DEF Distinct
      <4>3. QED
        BY <1>1, <1>11, <4>2
    <3>2. CASE j > Len(l) /\ k > Len(l)
      <4>1. j - Len(l) = k - Len(l)
        BY <1>1, <1>12, <2>1, <3>2 DEF Distinct
      <4>2. QED
        BY <1>1, <4>1
    <3>3. CASE j <= Len(l) /\ k > Len(l)
      BY <1>12, <1>15, <2>1, <3>3
    <3>4. CASE j > Len(l) /\ k <= Len(l)
      BY <1>12, <1>15, <2>1, <3>4
    <3>5. QED
      BY <1>1, <1>11, <3>1, <3>2, <3>3, <3>4
  <2>2. QED
    BY <1>14, <2>1 DEF Distinct
<1>17. free_nodes' = At(t, 1)
  <2>1. 1 \in 1..Capacity /\ 1 <= Len(l) /\ Len(l) + 1 - 1 = Len(l)
    BY <1>1, <1>3, <1>11
  <2>2. t[1] = l[Len(l)]
    BY <1>12, <2>1
  <2>3. QED
    BY <1>2, <1>11, <1>14, <2>2 DEF At
<1>18. \A j \in 1..(Len(f) + 1) : At(t, Len(l) + j) = At(f, j)
  <2>1. ASSUME NEW j \in 1..(Len(f) + 1) PROVE At(t, Len(l) + j) = At(f, j)
    <3>1. CASE j <= Len(f)
      <4>1. Len(l) + j \in 1..Capacity /\ Len(l) + j > Len(l) /\ (Len(l) + j) - Len(l) = j
        BY <1>1, <1>11, <3>1
      <4>2. t[Len(l) + j] = f[j]
        BY <1>12, <4>1
      <4>3. QED
        BY <1>11, <1>14, <3>1, <4>1, <4>2 DEF At
    <3>2. CASE j > Len(f)
      BY <1>1, <1>11, <1>14, <3>2 DEF At
    <3>3. QED
      BY <1>1, <3>1, <3>2
  <2>2. QED
    BY <2>1
<1>19. ASSUME NEW j \in 1..Capacity PROVE next'[t[j]] = At(t, j + 1)
  <2>1. CASE j < Len(l)
    <3>1. /\ j <= Len(l) /\ Len(l) + 1 - j \in 1..Len(l) /\ Len(l) + 1 - j # 1
          /\ (Len(l) + 1 - j) - 1 = Len(l) + 1 - (j + 1)
          /\ j + 1 \in 1..Capacity /\ j + 1 <= Len(l)
      BY <1>1, <1>11, <2>1
    <3>2. next'[t[j]] = l[Len(l) + 1 - (j + 1)]
      BY <1>9, <1>12, <3>1
    <3>3. t[j + 1] = l[Len(l) + 1 - (j + 1)]
      BY <1>12, <3>1
    <3>4. QED
      BY <1>11, <1>14, <3>1, <3>2, <3>3 DEF At
  <2>2. CASE j = Len(l)
    <3>1. j <= Len(l) /\ Len(l) + 1 - j = 1
      BY <1>1, <2>2
    <3>2. t[j] = head
      BY <1>3, <1>12, <3>1
    <3>3. 1 \in 1..(Len(f) + 1)
      BY <1>1
    <3>4. QED
      BY <1>1, <1>9, <1>18, <2>2, <3>2, <3>3
  <2>3. CASE j > Len(l)
    <3>1. /\ j - Len(l) \in 1..Len(f) /\ t[j] = f[j - Len(l)]
          /\ (j - Len(l)) + 1 \in 1..(Len(f) + 1) /\ Len(l) + ((j - Len(l)) + 1) = j + 1
      BY <1>1, <1>12, <2>3
    <3>2. QED
      BY <1>9, <1>18, <3>1
  <2>4. j < Len(l) \/ j = Len(l) \/ j > Len(l)
    <3>1. j \in Nat /\ Len(l) \in Nat
      BY <1>1, <1>11
    <3>2. QED
      BY <3>1
  <2>5. QED
    BY <2>1, <2>2, <2>3, <2>4
<1>20. Path(free_nodes', next', t)
  BY <1>14, <1>16, <1>17, <1>19 DEF Path
<1>21. Path(NULL, next', <<>>)
  BY DEF Path, At, Distinct
<1>22. ASSUME NEW x \in Nodes PROVE Has(t, x)
  <2>1. CASE Has(l, x)
    <3>1. PICK j \in 1..Len(l) : l[j] = x
      BY <2>1 DEF Has
    <3>2. /\ Len(l) + 1 - j \in 1..Capacity /\ Len(l) + 1 - j <= Len(l)
          /\ Len(l) + 1 - (Len(l) + 1 - j) = j
      BY <1>1, <1>11
    <3>3. t[Len(l) + 1 - j] = x
      BY <1>12, <3>1, <3>2
    <3>4. QED
      BY <1>14, <3>2, <3>3 DEF Has
  <2>2. CASE Has(f, x)
    <3>1. PICK j \in 1..Len(f) : f[j] = x
      BY <2>2 DEF Has
    <3>2. Len(l) + j \in 1..Capacity /\ Len(l) + j > Len(l) /\ (Len(l) + j) - Len(l) = j
      BY <1>1, <1>11
    <3>3. t[Len(l) + j] = x
      BY <1>12, <3>1, <3>2
    <3>4. QED
      BY <1>14, <3>2, <3>3 DEF Has
  <2>3. QED
    BY <1>1, <2>1, <2>2
<1>23. Linked(head', free_nodes', next', <<>>, t)
  <2>1. \A x \in Nodes : ~Has(<<>>, x)
    BY DEF Has
  <2>2. Len(<<>>) + Len(t) = Capacity
    BY <1>11, <1>14
  <2>3. QED
    BY <1>2, <1>20, <1>21, <1>22, <2>1, <2>2 DEF Linked
<1>24. Sorted(<<>>, key')
  BY DEF Sorted
<1>25. Inv' /\ List' = <<>>
  BY <1>1, <1>2, <1>10, <1>23, <1>24, NextInv
<1>26. QED
  BY <1>2, <1>25 DEF Ordered!Clear

-----------------------------------------------------------------------------
(* At first every node is free.                                            *)
LEMMA InitInv ==
    ASSUME Init
    PROVE  Inv /\ Ordered!Init
<1> DEFINE t == [i \in 1..Capacity |-> i]
<1>1. /\ next = [n \in Nodes |-> IF n = Capacity THEN NULL ELSE n + 1]
      /\ free_nodes = 1 /\ head = NULL /\ used_nodes_count = 0 /\ looping = FALSE
      /\ key \in [Nodes -> {CHOOSE k \in Keys : TRUE}]
  BY DEF Init
<1>2. Nodes = 1..Capacity /\ Capacity \in Nat /\ Capacity >= 1
  BY NodesFacts DEF Nodes
<1>3. key \in [Nodes -> Keys]
  <2>1. (CHOOSE k \in Keys : TRUE) \in Keys
    BY CapacityAssumption
  <2>2. QED
    BY <1>1, <2>1
<1>4. \A j \in 1..Capacity : t[j] = j
  OBVIOUS
<1>5. t \in Seq(Nodes) /\ Len(t) = Capacity
  <2>1. t \in [1..Capacity -> Nodes]
    BY <1>2
  <2> HIDE DEF t
  <2>2. t \in Seq(Nodes)
    BY <1>2, <2>1
  <2>3. QED
    BY <1>2, <2>1, <2>2
<1> HIDE DEF t
<1>6. Distinct(t)
  BY <1>4, <1>5 DEF Distinct
<1>7. 1 = At(t, 1)
  BY <1>2, <1>4, <1>5 DEF At
<1>8. ASSUME NEW j \in 1..Capacity PROVE next[t[j]] = At(t, j + 1)
  <2>1. CASE j = Capacity
    BY <1>1, <1>2, <1>4, <1>5, <2>1 DEF At
  <2>2. CASE j # Capacity
    <3>1. j + 1 \in 1..Capacity /\ j + 1 <= Len(t)
      BY <1>2, <1>5, <2>2
    <3>2. QED
      BY <1>1, <1>2, <1>4, <2>2, <3>1 DEF At
  <2>3. QED
    BY <2>1, <2>2
<1>9. Path(free_nodes, next, t)
  BY <1>1, <1>5, <1>6, <1>7, <1>8 DEF Path
<1>10. Path(head, next, <<>>)
  BY <1>1 DEF Path, At, Distinct
<1>11. \A x \in Nodes : Has(t, x) /\ ~Has(<<>>, x)
  BY <1>2, <1>4, <1>5 DEF Has
<1>12. Len(<<>>) + Len(t) = Capacity
  BY <1>2, <1>5
<1>13. Linked(head, free_nodes, next, <<>>, t)
  BY <1>9, <1>10, <1>11, <1>12 DEF Linked
<1>14. List = <<>> /\ Free = t
  BY <1>13, ChainsOfLinked DEF List, Free
<1>15. next \in [Nodes -> Nodes \union {NULL}]
  BY <1>1, <1>2
<1>16. TypeOK
  <2>1. 0 \in 0..Capacity /\ 1 \in Nodes
    BY <1>2
  <2>2. QED
    BY <1>1, <1>3, <1>15, <2>1 DEF TypeOK
<1>17. Sorted(<<>>, key)
  BY DEF Sorted
<1>18. QED
  BY <1>1, <1>3, <1>13, <1>14, <1>16, <1>17 DEF Inv, Ordered!Init

(* Every step keeps the invariant, and is one of OrderedQueue or leaves it *)
(* alone.                                                                  *)
LEMMA NextStep ==
    ASSUME Inv, [Next]_vars
    PROVE  Inv' /\ [Ordered!Next]_Ordered!vars
<1>1. ASSUME NEW v \in Keys, Push(v) PROVE Inv' /\ Ordered!Next
  BY <1>1, PushStep DEF Ordered!Next
<1>2. ASSUME NEW v \in Keys, NEW n \in Nodes, Update(n, v) PROVE Inv' /\ Ordered!Next
  BY <1>2, UpdateStep DEF Ordered!Next
<1>3. ASSUME NEW n \in Nodes, Erase(n) PROVE Inv' /\ [Ordered!Next]_Ordered!vars
  BY <1>3, EraseStep DEF Ordered!Next
<1>4. CASE Pop
  BY <1>4, PopStep DEF Ordered!Next
<1>5. CASE Clear
  BY <1>5, ClearStep DEF Ordered!Next
<1>6. CASE UNCHANGED vars
  <2>1. /\ head' = head /\ free_nodes' = free_nodes /\ next' = next /\ key' = key
        /\ used_nodes_count' = used_nodes_count /\ looping' = looping
    BY <1>6 DEF vars
  <2>2. Inv' /\ List' = List
    BY <2>1, NextInv DEF Inv, TypeOK
  <2>3. QED
    BY <2>1, <2>2 DEF Ordered!vars
<1>7. QED
  BY <1>1, <1>2, <1>3, <1>4, <1>5, <1>6 DEF Next

(* The inductive invariant holds.                                          *)
THEOREM Invariance == Spec => []Inv
<1>1. Init => Inv
  BY InitInv
<1>2. Inv /\ [Next]_vars => Inv'
  BY NextStep
<1>3. QED
  BY <1>1, <1>2, PTL DEF Spec

(* Links, counts and priorities are as declared, for any capacity.         *)
THEOREM TypeCorrect == Spec => []TypeOK
<1>1. Inv => TypeOK
  BY DEF Inv
<1>2. QED
  BY <1>1, Invariance, PTL

(* No call loses a node or links one twice, and size() counts the elements *)
(* (push, pop, erase, update and clear of PriorityQueue.h).                *)
THEOREM Conservation == Spec => []NodesConserved
<1>1. Inv => NodesConserved
  <2>1. ASSUME Inv PROVE NodesConserved
    <3>1. /\ \A x \in Nodes : Has(List, x) <=> ~Has(Free, x)
          /\ Len(List) + Len(Free) = Capacity
          /\ Range(List) = {x \in Nodes : Has(List, x)}
          /\ Free \in Seq(Nodes)
      BY <2>1, InvFacts
    <3>2. Range(Free) = {x \in Nodes : Has(Free, x)}
      BY <3>1, SeqFacts DEF Range, Has
    <3>3. QED
      BY <2>1, <3>1, <3>2 DEF NodesConserved, Inv
  <2>2. QED
    BY <2>1
<1>2. QED
  BY <1>1, Invariance, PTL

(* The linked lists implement the ordered list: each call has its effect.  *)
THEOREM Refinement == Spec => ImplementsOrderedQueue
<1>1. Init => Ordered!Init
  BY InitInv
<1>2. Inv /\ [Next]_vars => [Ordered!Next]_Ordered!vars
  BY NextStep
<1>3. QED
  BY <1>1, <1>2, Invariance, PTL DEF Spec, ImplementsOrderedQueue, Ordered!Spec

=============================================================================
