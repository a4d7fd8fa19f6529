----------------------- MODULE ServiceDeclarationProofs -----------------------
(***************************************************************************)
(* Proofs about ServiceDeclaration, for any set of addresses, any lengths  *)
(* and counters of any width: every object has one owner, whatever is      *)
(* declared, committed, refused, cancelled and shut down, in whatever      *)
(* order, but those that a count has forgotten.                            *)
(***************************************************************************)
EXTENDS ServiceDeclaration, SequenceTheorems, TLAPS

Pointer == Objects \union {Null}

(* Objects, whose values fit.                                              *)
Object ==
    { o \in [kind : Kinds, children : Seq(Objects), len : 0..MaxSize, max : 0..MaxSize] :
        o.len <= o.max }

(* Services have characteristics, and these have descriptors; nothing is   *)
(* the child of two, or twice the child of one.                            *)
Shape(h) ==
    /\ h \in [Objects -> Object]
    /\ \A x \in Objects : \A i \in DOMAIN h[x].children :
         \/ h[x].kind = "service" /\ h[h[x].children[i]].kind = "characteristic"
         \/ h[x].kind = "characteristic" /\ h[h[x].children[i]].kind = "descriptor"
    /\ \A x, y \in Objects : \A i \in DOMAIN h[x].children : \A j \in DOMAIN h[y].children :
         h[x].children[i] = h[y].children[j] => x = y /\ i = j

IsChild(h, y) == \E x \in Objects : \E i \in DOMAIN h[x].children : h[x].children[i] = y

(* The builder has the pointers s, c and d, the server the services g:     *)
(* they and the children account for all that is allocated but l, which    *)
(* was forgotten and belongs to nobody.                                    *)
Owned(h, s, c, d, g, l) ==
    /\ Shape(h)
    /\ s \in Pointer /\ c \in Pointer /\ d \in Pointer /\ g \in Seq(Objects)
    /\ s # Null => h[s].kind = "service" /\ s \notin Range(g)
    /\ c # Null => s # Null /\ h[c].kind = "characteristic" /\ ~IsChild(h, c)
    /\ d # Null => c # Null /\ h[d].kind = "descriptor" /\ ~IsChild(h, d)
    /\ \A i \in DOMAIN g : h[g[i]].kind = "service"
    /\ \A i, j \in DOMAIN g : g[i] = g[j] => i = j
    /\ \A x \in Objects :
         /\ h[x].kind = "service" => x = s \/ x \in Range(g)
         /\ h[x].kind = "characteristic" => x = c \/ IsChild(h, x) \/ x \in l
         /\ h[x].kind = "descriptor" => x = d \/ IsChild(h, x) \/ x \in l
    /\ l \subseteq Objects
    /\ \A x \in l : /\ h[x].kind \in {"characteristic", "descriptor"}
                    /\ x # c /\ x # d /\ ~IsChild(h, x)

(* Null is no address.                                                     *)
LEMMA NullFacts == Null \notin Objects
BY DeclarationAssumption

(* The fields of what is at an address.                                    *)
LEMMA ObjectFields ==
    ASSUME NEW h \in [Objects -> Object], NEW x \in Objects
    PROVE  /\ h[x].kind \in Kinds
           /\ h[x].children \in Seq(Objects)
           /\ DOMAIN h[x].children = 1..Len(h[x].children)
           /\ Len(h[x].children) \in Nat
           /\ \A i \in DOMAIN h[x].children : h[x].children[i] \in Objects
           /\ h[x].len \in 0..MaxSize /\ h[x].max \in 0..MaxSize /\ h[x].len <= h[x].max
<1>1. h[x] \in Object
  OBVIOUS
<1>2. h[x].children \in Seq(Objects)
  BY <1>1 DEF Object
<1>3. QED
  BY <1>1, <1>2, LenProperties, ElementOfSeq DEF Object

(* Only what is allocated is a child.                                      *)
LEMMA ChildFacts ==
    ASSUME NEW h, Shape(h), NEW y, IsChild(h, y)
    PROVE  y \in Objects /\ h[y].kind \in {"characteristic", "descriptor"}
<1>1. PICK x \in Objects : \E i \in DOMAIN h[x].children : h[x].children[i] = y
  BY DEF IsChild
<1>2. PICK i \in DOMAIN h[x].children : h[x].children[i] = y
  BY <1>1
<1>3. y \in Objects
  BY <1>2, ObjectFields DEF Shape
<1>4. QED
  BY <1>2, <1>3 DEF Shape

-----------------------------------------------------------------------------
(* addCharacteristic and addDescriptor change the children of one object.  *)
LEMMA AddChildFacts ==
    ASSUME NEW h, Shape(h), NEW x \in Objects, NEW y \in Objects
    PROVE  /\ AddChild(h, x, y) \in [Objects -> Object]
           /\ AddChild(h, x, y)[x].children = Added(h[x].children, y)
           /\ \A z \in Objects :
                /\ AddChild(h, x, y)[z].kind = h[z].kind
                /\ AddChild(h, x, y)[z].len = h[z].len
                /\ AddChild(h, x, y)[z].max = h[z].max
                /\ z # x => AddChild(h, x, y)[z].children = h[z].children
<1> DEFINE more == Added(h[x].children, y)
<1>1. h[x].children \in Seq(Objects) /\ h \in [Objects -> Object] /\ h[x] \in Object
  BY ObjectFields DEF Shape
<1>2. more \in Seq(Objects)
  <2>1. Append(h[x].children, y) \in Seq(Objects) /\ <<>> \in Seq(Objects)
    BY <1>1, AppendProperties
  <2>2. QED
    BY <2>1 DEF Added
<1>3. AddChild(h, x, y) = [h EXCEPT ![x].children = more]
  BY DEF AddChild
<1> HIDE DEF more
<1>4. [h[x] EXCEPT !.children = more] \in Object
  BY <1>1, <1>2 DEF Object
<1>5. AddChild(h, x, y) = [h EXCEPT ![x] = [h[x] EXCEPT !.children = more]]
  BY <1>3
<1>6. /\ AddChild(h, x, y) \in [Objects -> Object]
      /\ AddChild(h, x, y)[x] = [h[x] EXCEPT !.children = more]
      /\ \A z \in Objects : z # x => AddChild(h, x, y)[z] = h[z]
  BY <1>1, <1>4, <1>5
<1>7. /\ [h[x] EXCEPT !.children = more].children = more
      /\ [h[x] EXCEPT !.children = more].kind = h[x].kind
      /\ [h[x] EXCEPT !.children = more].len = h[x].len
      /\ [h[x] EXCEPT !.children = more].max = h[x].max
  BY <1>1 DEF Object
<1>8. AddChild(h, x, y)[x].children = Added(h[x].children, y)
  BY <1>6, <1>7 DEF more
<1>9. QED
  BY <1>6, <1>7, <1>8

(* The counter of x is at its last value.                                  *)
Full(h, x) == Len(h[x].children) + 1 = CountLimit

(* While there is room, the children are those that were, where they were, *)
(* and one more.                                                           *)
LEMMA AddChildAppends ==
    ASSUME NEW h, Shape(h), NEW x \in Objects, NEW y \in Objects, ~Full(h, x)
    PROVE  /\ AddChild(h, x, y)[x].children = Append(h[x].children, y)
           /\ \A z \in Objects : \A i \in DOMAIN AddChild(h, x, y)[z].children :
                \/ /\ i \in DOMAIN h[z].children
                   /\ AddChild(h, x, y)[z].children[i] = h[z].children[i]
                \/ /\ z = x /\ i = Len(h[x].children) + 1
                   /\ AddChild(h, x, y)[z].children[i] = y
           /\ \A z \in Objects : \A i \in DOMAIN h[z].children :
                /\ i \in DOMAIN AddChild(h, x, y)[z].children
                /\ AddChild(h, x, y)[z].children[i] = h[z].children[i]
           /\ Len(h[x].children) + 1 \in DOMAIN AddChild(h, x, y)[x].children
           /\ AddChild(h, x, y)[x].children[Len(h[x].children) + 1] = y
<1> DEFINE h2 == AddChild(h, x, y)
           n == Len(h[x].children)
           more == h2[x].children
<1>0. /\ more = Added(h[x].children, y)
      /\ \A z \in Objects : z # x => h2[z].children = h[z].children
  BY AddChildFacts
<1>1. /\ more = Append(h[x].children, y)
      /\ \A z \in Objects : z # x => h2[z].children = h[z].children
  <2> HIDE DEF h2
  <2>1. QED
    BY <1>0 DEF Added, Full
<1>2. h[x].children \in Seq(Objects) /\ DOMAIN h[x].children = 1..n /\ n \in Nat
  BY ObjectFields DEF Shape
<1>3. /\ more \in Seq(Objects) /\ Len(more) = n + 1
      /\ \A i \in 1..n : more[i] = h[x].children[i]
      /\ more[n + 1] = y
  BY <1>1, <1>2, AppendProperties
<1>4. DOMAIN more = 1..(n + 1)
  BY <1>3, LenProperties
<1> HIDE DEF n
<1>5. \A i \in 1..(n + 1) : i \in 1..n \/ i = n + 1
  BY <1>2
<1>6. n + 1 \in 1..(n + 1) /\ \A i \in 1..n : i \in 1..(n + 1)
  BY <1>2
<1> HIDE DEF h2
<1>7. QED
  BY <1>1, <1>2, <1>3, <1>4, <1>5, <1>6 DEF h2, n

(* When there is none, x has no children any more.                         *)
LEMMA AddChildForgets ==
    ASSUME NEW h, Shape(h), NEW x \in Objects, NEW y \in Objects, Full(h, x)
    PROVE  /\ AddChild(h, x, y)[x].children = <<>>
           /\ \A i \in DOMAIN AddChild(h, x, y)[x].children : FALSE
<1>1. AddChild(h, x, y)[x].children = <<>>
  BY AddChildFacts DEF Added, Full
<1>2. QED
  BY <1>1

(* The child of one kind goes to the owner of another: still nothing has   *)
(* two owners.                                                             *)
Fits(h, x, y) ==
    \/ h[x].kind = "service" /\ h[y].kind = "characteristic"
    \/ h[x].kind = "characteristic" /\ h[y].kind = "descriptor"

(* A child that fits its owner, and is owned by nobody else, may be added: *)
(* it is a child, like those that were, unless they are forgotten.         *)
LEMMA AddChildShape ==
    ASSUME NEW h, Shape(h), NEW x \in Objects, NEW y \in Objects, ~IsChild(h, y), Fits(h, x, y)
    PROVE  /\ Shape(AddChild(h, x, y))
           /\ \A z \in Objects : AddChild(h, x, y)[z].kind = h[z].kind
           /\ \A z : IsChild(AddChild(h, x, y), z) <=>
                   (IsChild(h, z) \/ z = y) /\ z \notin Forgets(h, x, y)
<1> DEFINE h2 == AddChild(h, x, y)
           n == Len(h[x].children)
<1>1. /\ h2 \in [Objects -> Object]
      /\ \A z \in Objects : h2[z].kind = h[z].kind
      /\ \A z \in Objects : z # x => h2[z].children = h[z].children
  BY AddChildFacts
<1>4. \A z \in Objects : \A i \in DOMAIN h[z].children : h[z].children[i] \in Objects
  BY ObjectFields DEF Shape
<1>6. \A z \in Objects : \A i \in DOMAIN h[z].children : h[z].children[i] # y
  BY DEF IsChild
<1>10. CASE ~Full(h, x)
  <2>1. \A z \in Objects : \A i \in DOMAIN h2[z].children :
          \/ i \in DOMAIN h[z].children /\ h2[z].children[i] = h[z].children[i]
          \/ z = x /\ i = n + 1 /\ h2[z].children[i] = y
    BY <1>10, AddChildAppends
  <2>2. /\ \A z \in Objects : \A i \in DOMAIN h[z].children :
              i \in DOMAIN h2[z].children /\ h2[z].children[i] = h[z].children[i]
        /\ n + 1 \in DOMAIN h2[x].children /\ h2[x].children[n + 1] = y
    BY <1>10, AddChildAppends
  <2>3. Forgets(h, x, y) = {}
    BY <1>10 DEF Forgets, Full
  <2> HIDE DEF h2, n
  <2>4. \A z \in Objects : \A i \in DOMAIN h2[z].children :
          \/ h2[z].kind = "service" /\ h2[h2[z].children[i]].kind = "characteristic"
          \/ h2[z].kind = "characteristic" /\ h2[h2[z].children[i]].kind = "descriptor"
    BY <1>1, <1>4, <2>1 DEF Shape, Fits
  <2>5. \A u, z \in Objects : \A i \in DOMAIN h2[u].children : \A j \in DOMAIN h2[z].children :
          h2[u].children[i] = h2[z].children[j] => u = z /\ i = j
    BY <1>6, <2>1 DEF Shape
  <2>6. \A z : IsChild(h2, z) <=> IsChild(h, z) \/ z = y
    BY <2>1, <2>2 DEF IsChild
  <2>7. QED
    BY <1>1, <2>3, <2>4, <2>5, <2>6 DEF Shape, h2
<1>11. CASE Full(h, x)
  <2>1. \A i \in DOMAIN h2[x].children : FALSE
    BY <1>11, AddChildForgets
  <2>2. Forgets(h, x, y) = Range(h[x].children) \union {y}
    BY <1>11 DEF Forgets, Full
  <2> HIDE DEF h2
  <2>3. \A z \in Objects : \A i \in DOMAIN h2[z].children :
          z # x /\ i \in DOMAIN h[z].children /\ h2[z].children[i] = h[z].children[i]
    BY <1>1, <2>1
  <2>4. \A z \in Objects : \A i \in DOMAIN h2[z].children :
          \/ h2[z].kind = "service" /\ h2[h2[z].children[i]].kind = "characteristic"
          \/ h2[z].kind = "characteristic" /\ h2[h2[z].children[i]].kind = "descriptor"
    BY <1>1, <1>4, <2>3 DEF Shape
  <2>5. \A u, z \in Objects : \A i \in DOMAIN h2[u].children : \A j \in DOMAIN h2[z].children :
          h2[u].children[i] = h2[z].children[j] => u = z /\ i = j
    BY <2>3 DEF Shape
  <2>6. \A z : z \in Range(h[x].children) <=> \E i \in DOMAIN h[x].children : h[x].children[i] = z
    BY DEF Range
  <2>7. ASSUME NEW z, IsChild(h2, z)
        PROVE  IsChild(h, z) /\ z # y /\ z \notin Range(h[x].children)
    <3>1. PICK u \in Objects : \E i \in DOMAIN h2[u].children : h2[u].children[i] = z
      BY <2>7 DEF IsChild
    <3>2. PICK i \in DOMAIN h2[u].children : h2[u].children[i] = z
      BY <3>1
    <3>3. u # x /\ i \in DOMAIN h[u].children /\ h[u].children[i] = z
      BY <2>3, <3>2
    <3>4. \A j \in DOMAIN h[x].children : h[x].children[j] # z
      BY <3>3 DEF Shape
    <3>5. QED
      BY <1>6, <2>6, <3>3, <3>4 DEF IsChild
  <2>8. ASSUME NEW z, IsChild(h, z), z \notin Range(h[x].children) PROVE IsChild(h2, z)
    <3>1. PICK u \in Objects : \E i \in DOMAIN h[u].children : h[u].children[i] = z
      BY <2>8 DEF IsChild
    <3>2. PICK i \in DOMAIN h[u].children : h[u].children[i] = z
      BY <3>1
    <3>3. u # x
      BY <2>6, <2>8, <3>2
    <3>4. i \in DOMAIN h2[u].children /\ h2[u].children[i] = z
      BY <1>1, <3>2, <3>3
    <3>5. QED
      BY <3>4 DEF IsChild
  <2>9. \A z : IsChild(h2, z) <=>
            (IsChild(h, z) \/ z = y) /\ z \notin Range(h[x].children) \union {y}
    BY <2>7, <2>8
  <2>10. QED
    BY <1>1, <2>2, <2>4, <2>5, <2>9 DEF Shape, h2
<1>12. QED
  BY <1>10, <1>11

(* What is forgotten were the children of x, or is the new one.            *)
LEMMA ForgetsFacts ==
    ASSUME NEW h, Shape(h), NEW x \in Objects, NEW y \in Objects, Fits(h, x, y)
    PROVE  /\ Forgets(h, x, y) \subseteq Objects
           /\ \A z \in Forgets(h, x, y) :
                /\ h[z].kind \in {"characteristic", "descriptor"}
                /\ z = y \/ IsChild(h, z)
<1>1. \A z \in Range(h[x].children) : z \in Objects /\ IsChild(h, z)
  BY ObjectFields DEF Shape, Range, IsChild
<1>2. \A z \in Range(h[x].children) : h[z].kind \in {"characteristic", "descriptor"}
  BY <1>1, ChildFacts
<1>3. \A z \in Forgets(h, x, y) : z = y \/ z \in Range(h[x].children)
  BY DEF Forgets
<1>4. h[y].kind \in {"characteristic", "descriptor"}
  BY DEF Fits
<1>5. QED
  BY <1>1, <1>2, <1>3, <1>4

(* commit(): the pending descriptor goes to the pending characteristic,    *)
LEMMA DescriptorGiven ==
    ASSUME NEW h, NEW s, NEW c, NEW d, NEW g, NEW l, Owned(h, s, c, d, g, l), d # Null
    PROVE  Owned(AddChild(h, c, d), s, c, Null, g, l \union Forgets(h, c, d))
<1>1. c \in Objects /\ d \in Objects /\ Shape(h) /\ ~IsChild(h, d) /\ Fits(h, c, d)
  BY NullFacts DEF Owned, Pointer, Fits
<1> DEFINE h2 == AddChild(h, c, d)
           f == Forgets(h, c, d)
<1>2. /\ Shape(h2) /\ \A z \in Objects : h2[z].kind = h[z].kind
      /\ \A z : IsChild(h2, z) <=> (IsChild(h, z) \/ z = d) /\ z \notin f
  BY <1>1, AddChildShape
<1>3. /\ f \subseteq Objects
      /\ \A z \in f : h[z].kind \in {"characteristic", "descriptor"} /\ (z = d \/ IsChild(h, z))
  BY <1>1, ForgetsFacts
<1> HIDE DEF h2, f
<1>4. /\ s \in Objects /\ s \in Pointer /\ c \in Pointer /\ Null \in Pointer
      /\ \A i \in DOMAIN g : g[i] \in Objects
  BY <1>1, NullFacts DEF Owned, Pointer
<1>5. c # d /\ c # Null /\ Null \notin Objects
  BY <1>1, NullFacts DEF Fits
<1>6. \A x \in Objects :
        /\ h2[x].kind = "service" => x = s \/ x \in Range(g)
        /\ h2[x].kind = "characteristic" => x = c \/ IsChild(h2, x) \/ x \in l \union f
        /\ h2[x].kind = "descriptor" => x = Null \/ IsChild(h2, x) \/ x \in l \union f
  BY <1>2 DEF Owned
<1>7. /\ l \union f \subseteq Objects
      /\ \A x \in l \union f : /\ h2[x].kind \in {"characteristic", "descriptor"}
                              /\ x # c /\ x # Null /\ ~IsChild(h2, x)
  BY <1>2, <1>3, <1>5 DEF Owned
<1>8. ~IsChild(h2, c)
  BY <1>2, <1>5 DEF Owned
<1>9. Owned(h2, s, c, Null, g, l \union f)
  <2>1. s \in Pointer /\ c \in Pointer /\ Null \in Pointer /\ g \in Seq(Objects)
    BY <1>4 DEF Owned
  <2>2. h2[s].kind = "service" /\ s \notin Range(g)
    BY <1>2, <1>4, NullFacts DEF Owned
  <2>3. s # Null /\ h2[c].kind = "characteristic"
    BY <1>1, <1>2, <1>4, <1>5 DEF Owned
  <2>4. /\ \A i \in DOMAIN g : h2[g[i]].kind = "service"
        /\ \A i, j \in DOMAIN g : g[i] = g[j] => i = j
    BY <1>2, <1>4 DEF Owned
  <2>5. QED
    BY <1>2, <1>6, <1>7, <1>8, <2>1, <2>2, <2>3, <2>4 DEF Owned
<1>10. QED
  BY <1>9 DEF h2, f

(* ... and that one to the service.                                        *)
LEMMA CharacteristicGiven ==
    ASSUME NEW h, NEW s, NEW c, NEW g, NEW l, Owned(h, s, c, Null, g, l), c # Null
    PROVE  Owned(AddChild(h, s, c), s, Null, Null, g, l \union Forgets(h, s, c))
<1>1. s \in Objects /\ c \in Objects /\ Shape(h) /\ ~IsChild(h, c) /\ Fits(h, s, c)
  BY NullFacts DEF Owned, Pointer, Fits
<1> DEFINE h2 == AddChild(h, s, c)
           f == Forgets(h, s, c)
<1>2. /\ Shape(h2) /\ \A z \in Objects : h2[z].kind = h[z].kind
      /\ \A z : IsChild(h2, z) <=> (IsChild(h, z) \/ z = c) /\ z \notin f
  BY <1>1, AddChildShape
<1>3. /\ f \subseteq Objects
      /\ \A z \in f : h[z].kind \in {"characteristic", "descriptor"} /\ (z = c \/ IsChild(h, z))
  BY <1>1, ForgetsFacts
<1> HIDE DEF h2, f
<1>4. s \in Pointer /\ Null \in Pointer /\ \A i \in DOMAIN g : g[i] \in Objects
  BY <1>1, NullFacts DEF Owned, Pointer
<1>5. Null \notin Objects
  BY NullFacts
<1>6. \A x \in Objects :
        /\ h2[x].kind = "service" => x = s \/ x \in Range(g)
        /\ h2[x].kind = "characteristic" => x = Null \/ IsChild(h2, x) \/ x \in l \union f
        /\ h2[x].kind = "descriptor" => x = Null \/ IsChild(h2, x) \/ x \in l \union f
  BY <1>2, <1>5 DEF Owned
<1>7. /\ l \union f \subseteq Objects
      /\ \A x \in l \union f : /\ h2[x].kind \in {"characteristic", "descriptor"}
                              /\ x # Null /\ ~IsChild(h2, x)
  BY <1>2, <1>3, <1>5 DEF Owned
<1>8. Owned(h2, s, Null, Null, g, l \union f)
  BY <1>1, <1>2, <1>4, <1>5, <1>6, <1>7 DEF Owned
<1>9. QED
  BY <1>8 DEF h2, f

(* After commit() the service has all that was pending.                    *)
LEMMA CommittedOwned ==
    ASSUME NEW h, NEW b, NEW g, NEW l, b # Null, b.service # Null,
           Owned(h, b.service, b.characteristic, b.descriptor, g, l)
    PROVE  Owned(Committed(h, b), b.service, Null, Null, g, l \union CommitForgets(h, b))
<1> DEFINE s == b.service
           c == b.characteristic
           d == b.descriptor
           given == AddChild(h, c, d)
           f == Forgets(h, c, d)
<1>1. CASE c = Null
  <2>1. d = Null
    BY <1>1 DEF Owned
  <2>2. Committed(h, b) = h /\ l \union CommitForgets(h, b) = l
    BY <1>1 DEF Committed, CommitForgets
  <2>3. QED
    BY <1>1, <2>1, <2>2
<1>2. CASE c # Null /\ d = Null
  <2>1. Owned(AddChild(h, s, c), s, Null, Null, g, l \union Forgets(h, s, c))
    BY <1>2, CharacteristicGiven
  <2>2. Committed(h, b) = AddChild(h, s, c) /\ CommitForgets(h, b) = Forgets(h, s, c)
    BY <1>2 DEF Committed, CommitForgets, DescriptorForgets
  <2>3. QED
    BY <2>1, <2>2
<1>3. CASE c # Null /\ d # Null
  <2>1. Owned(given, s, c, Null, g, l \union f)
    BY <1>3, DescriptorGiven
  <2>2. Owned(AddChild(given, s, c), s, Null, Null, g, (l \union f) \union Forgets(given, s, c))
    BY <1>3, <2>1, CharacteristicGiven
  <2>3. s \in Objects /\ c \in Objects /\ d \in Objects /\ Shape(h) /\ s # c
    BY <1>3 DEF Owned, Pointer
  <2>4. given[s].children = h[s].children
    BY <2>3, AddChildFacts
  <2>5. Forgets(given, s, c) = Forgets(h, s, c)
    BY <2>4 DEF Forgets
  <2>6. /\ Committed(h, b) = AddChild(given, s, c)
        /\ CommitForgets(h, b) = f \union Forgets(h, s, c)
    BY <1>3 DEF Committed, CommitForgets, DescriptorForgets
  <2>7. (l \union f) \union Forgets(given, s, c) = l \union CommitForgets(h, b)
    BY <2>5, <2>6
  <2>8. QED
    BY <2>2, <2>6, <2>7
<1>4. QED
  BY <1>1, <1>2, <1>3

(* commit() turns nothing into an object of another class.                 *)
LEMMA CommittedKinds ==
    ASSUME NEW h, NEW b, NEW g, NEW l, b # Null, b.service # Null,
           Owned(h, b.service, b.characteristic, b.descriptor, g, l), NEW x \in Objects
    PROVE  Committed(h, b)[x].kind = h[x].kind
<1> DEFINE s == b.service
           c == b.characteristic
           d == b.descriptor
           given == AddChild(h, c, d)
<1>1. CASE c = Null
  BY <1>1 DEF Committed
<1>2. CASE c # Null /\ d = Null
  <2>1. s \in Objects /\ c \in Objects /\ Shape(h) /\ ~IsChild(h, c)
    BY <1>2 DEF Owned, Pointer
  <2>2. QED
    BY <1>2, <2>1, AddChildFacts DEF Committed
<1>3. CASE c # Null /\ d # Null
  <2>1. s \in Objects /\ c \in Objects /\ d \in Objects /\ Shape(h) /\ ~IsChild(h, d)
    BY <1>3 DEF Owned, Pointer
  <2>2. given[x].kind = h[x].kind
    BY <2>1, AddChildFacts
  <2>0. Owned(given, s, c, Null, g, l \union Forgets(h, c, d))
    BY <1>3, DescriptorGiven
  <2>3. Shape(given) /\ ~IsChild(given, c)
    BY <1>3, <2>0 DEF Owned
  <2>4. AddChild(given, s, c)[x].kind = given[x].kind
    BY <2>1, <2>3, AddChildFacts
  <2>5. QED
    BY <1>3, <2>2, <2>4 DEF Committed
<1>4. QED
  BY <1>1, <1>2, <1>3

-----------------------------------------------------------------------------
(* The heap after an object of kind k is allocated at x.                   *)
Fresh(h, x, k) == [h EXCEPT ![x] = New(k)]

(* An object that is allocated is nobody's child yet, and has none.        *)
LEMMA NewShape ==
    ASSUME NEW h, Shape(h), NEW x \in Objects, h[x].kind = "free", NEW k \in Kinds
    PROVE  /\ Shape(Fresh(h, x, k))
           /\ Fresh(h, x, k)[x].kind = k
           /\ \A z \in Objects : z # x => Fresh(h, x, k)[z] = h[z]
           /\ \A z : IsChild(Fresh(h, x, k), z) <=> IsChild(h, z)
           /\ ~IsChild(h, x)
<1> DEFINE h2 == [h EXCEPT ![x] = New(k)]
<1>1. New(k) \in Object /\ New(k).kind = k /\ New(k).children = <<>>
  BY DeclarationAssumption DEF New, Object
<1>2. /\ h \in [Objects -> Object] /\ h2 \in [Objects -> Object]
      /\ h2[x] = New(k) /\ \A z \in Objects : z # x => h2[z] = h[z]
  BY <1>1 DEF Shape
<1>h. h2 = Fresh(h, x, k)
  BY DEF Fresh
<1> HIDE DEF h2
<1>3. \A i \in DOMAIN h[x].children : FALSE
  BY DEF Shape
<1>4. \A i \in DOMAIN h2[x].children : FALSE
  BY <1>1, <1>2
<1>5. ~IsChild(h, x)
  BY ChildFacts
<1>6. \A z \in Objects : \A i \in DOMAIN h[z].children :
        h[z].children[i] \in Objects /\ h[z].children[i] # x
  BY <1>5, ObjectFields DEF Shape, IsChild
<1>7. \A z : IsChild(h2, z) <=> IsChild(h, z)
  BY <1>2, <1>3, <1>4 DEF IsChild
<1>8. \A z \in Objects : \A i \in DOMAIN h2[z].children :
        \/ h2[z].kind = "service" /\ h2[h2[z].children[i]].kind = "characteristic"
        \/ h2[z].kind = "characteristic" /\ h2[h2[z].children[i]].kind = "descriptor"
  BY <1>2, <1>4, <1>6 DEF Shape
<1>9. \A u, z \in Objects : \A i \in DOMAIN h2[u].children : \A j \in DOMAIN h2[z].children :
        h2[u].children[i] = h2[z].children[j] => u = z /\ i = j
  BY <1>2, <1>4 DEF Shape
<1>10. Shape(h2)
  BY <1>2, <1>8, <1>9 DEF Shape
<1>11. QED
  BY <1>1, <1>2, <1>5, <1>7, <1>10, <1>h

(* It is pending in the builder.                                           *)
LEMMA NewOwned ==
    ASSUME NEW h, NEW s, NEW c, NEW g, NEW l, NEW x \in Objects, h[x].kind = "free"
    PROVE  /\ Owned(h, Null, Null, Null, g, l) =>
                  Owned(Fresh(h, x, "service"), x, Null, Null, g, l)
           /\ Owned(h, s, Null, Null, g, l) /\ s # Null =>
                  Owned(Fresh(h, x, "characteristic"), s, x, Null, g, l)
           /\ Owned(h, s, c, Null, g, l) /\ c # Null =>
                  Owned(Fresh(h, x, "descriptor"), s, c, x, g, l)
<1> USE NullFacts
<1>k. "service" \in Kinds /\ "characteristic" \in Kinds /\ "descriptor" \in Kinds
  BY DEF Kinds
<1>1. x \in Pointer /\ Null \in Pointer
  BY DEF Pointer
<1>2. ASSUME Owned(h, Null, Null, Null, g, l)
      PROVE  Owned(Fresh(h, x, "service"), x, Null, Null, g, l)
  <2> DEFINE h2 == Fresh(h, x, "service")
  <2>1. /\ Shape(h) /\ g \in Seq(Objects) /\ \A i \in DOMAIN g : g[i] \in Objects /\ g[i] # x
    BY <1>2 DEF Owned
  <2>2. /\ Shape(h2) /\ h2[x].kind = "service"
        /\ \A z \in Objects : z # x => h2[z] = h[z]
        /\ \A z : IsChild(h2, z) <=> IsChild(h, z)
        /\ ~IsChild(h, x)
    BY <2>1, <1>k, NewShape
  <2>3. x \notin Range(g)
    BY <2>1 DEF Range
  <2> HIDE DEF h2
  <2>4. Owned(h2, x, Null, Null, g, l)
    BY <1>1, <1>2, <2>1, <2>2, <2>3 DEF Owned
  <2>5. QED
    BY <2>4 DEF h2
<1>3. ASSUME Owned(h, s, Null, Null, g, l), s # Null
      PROVE  Owned(Fresh(h, x, "characteristic"), s, x, Null, g, l)
  <2> DEFINE h2 == Fresh(h, x, "characteristic")
  <2>1. /\ Shape(h) /\ g \in Seq(Objects) /\ \A i \in DOMAIN g : g[i] \in Objects /\ g[i] # x
        /\ s \in Objects /\ s # x
    BY <1>3 DEF Owned, Pointer
  <2>2. /\ Shape(h2) /\ h2[x].kind = "characteristic"
        /\ \A z \in Objects : z # x => h2[z] = h[z]
        /\ \A z : IsChild(h2, z) <=> IsChild(h, z)
        /\ ~IsChild(h, x)
    BY <2>1, <1>k, NewShape
  <2> HIDE DEF h2
  <2>3. Owned(h2, s, x, Null, g, l)
    BY <1>1, <1>3, <2>1, <2>2 DEF Owned
  <2>4. QED
    BY <2>3 DEF h2
<1>4. ASSUME Owned(h, s, c, Null, g, l), c # Null
      PROVE  Owned(Fresh(h, x, "descriptor"), s, c, x, g, l)
  <2> DEFINE h2 == Fresh(h, x, "descriptor")
  <2>1. /\ Shape(h) /\ g \in Seq(Objects) /\ \A i \in DOMAIN g : g[i] \in Objects /\ g[i] # x
        /\ s \in Objects /\ s # x /\ c \in Objects /\ c # x
    BY <1>4 DEF Owned, Pointer
  <2>2. /\ Shape(h2) /\ h2[x].kind = "descriptor"
        /\ \A z \in Objects : z # x => h2[z] = h[z]
        /\ \A z : IsChild(h2, z) <=> IsChild(h, z)
        /\ ~IsChild(h, x)
    BY <2>1, <1>k, NewShape
  <2> HIDE DEF h2
  <2>3. Owned(h2, s, c, x, g, l)
    BY <1>1, <1>4, <2>1, <2>2 DEF Owned
  <2>4. QED
    BY <2>3 DEF h2
<1>5. QED
  BY <1>2, <1>3, <1>4

-----------------------------------------------------------------------------
(* Lengths belong to nobody.                                               *)
LEMMA LengthsOwned ==
    ASSUME NEW h, NEW s, NEW c, NEW d, NEW g, NEW l, Owned(h, s, c, d, g, l),
           NEW h2 \in [Objects -> Object],
           \A z \in Objects : h2[z].kind = h[z].kind /\ h2[z].children = h[z].children
    PROVE  Owned(h2, s, c, d, g, l)
<1>1. \A z \in Objects : \A i \in DOMAIN h[z].children : h[z].children[i] \in Objects
  BY ObjectFields DEF Owned, Shape
<1>2. Shape(h2)
  <2>1. \A z \in Objects : \A i \in DOMAIN h2[z].children :
          \/ h2[z].kind = "service" /\ h2[h2[z].children[i]].kind = "characteristic"
          \/ h2[z].kind = "characteristic" /\ h2[h2[z].children[i]].kind = "descriptor"
    <3> TAKE z \in Objects
    <3> TAKE i \in DOMAIN h2[z].children
    <3> DEFINE y == h[z].children[i]
    <3>1. h2[z].children[i] = y /\ i \in DOMAIN h[z].children
      OBVIOUS
    <3>2. y \in Objects
      BY <1>1, <3>1
    <3>3. \/ h[z].kind = "service" /\ h[y].kind = "characteristic"
          \/ h[z].kind = "characteristic" /\ h[y].kind = "descriptor"
      BY <3>1 DEF Owned, Shape
    <3> HIDE DEF y
    <3>4. QED
      BY <3>1, <3>2, <3>3
  <2>2. \A u, z \in Objects : \A i \in DOMAIN h2[u].children : \A j \in DOMAIN h2[z].children :
          h2[u].children[i] = h2[z].children[j] => u = z /\ i = j
    BY DEF Owned, Shape
  <2>3. QED
    BY <2>1, <2>2 DEF Shape
<1>3. \A z : IsChild(h2, z) <=> IsChild(h, z)
  BY DEF IsChild
<1>4. \A i \in DOMAIN g : g[i] \in Objects
  BY DEF Owned
<1>5. QED
  BY <1>2, <1>3, <1>4 DEF Owned, Pointer

(* release(): the service goes from the builder to the server.             *)
LEMMA HandOver ==
    ASSUME NEW h, NEW s, NEW g, NEW l, Owned(h, s, Null, Null, g, l), s # Null
    PROVE  Owned(h, Null, Null, Null, Append(g, s), l)
<1> DEFINE n == Len(g)
           g2 == Append(g, s)
<1>1. s \in Objects /\ g \in Seq(Objects) /\ s \notin Range(g) /\ Null \in Pointer
  BY DEF Owned, Pointer
<1>2. n \in Nat /\ DOMAIN g = 1..n
  BY <1>1, LenProperties
<1>3. /\ g2 \in Seq(Objects) /\ Len(g2) = n + 1 /\ g2[n + 1] = s
      /\ \A i \in 1..n : g2[i] = g[i]
  BY <1>1, <1>2, AppendProperties
<1>4. DOMAIN g2 = 1..(n + 1)
  BY <1>3, LenProperties
<1> HIDE DEF n, g2
<1>5. \A i \in 1..(n + 1) : i \in 1..n \/ i = n + 1
  BY <1>2
<1>6. n + 1 \in 1..(n + 1) /\ \A i \in 1..n : i \in 1..(n + 1)
  BY <1>2
<1>7. \A i \in 1..n : g[i] # s
  BY <1>1, <1>2 DEF Range
<1>8. \A i \in DOMAIN g2 : h[g2[i]].kind = "service"
  BY <1>1, <1>2, <1>3, <1>4, <1>5 DEF Owned
<1>9. \A i, j \in DOMAIN g2 : g2[i] = g2[j] => i = j
  BY <1>2, <1>3, <1>4, <1>5, <1>7 DEF Owned
<1>10. \A x : x = s \/ x \in Range(g) => x \in Range(g2)
  BY <1>2, <1>3, <1>4, <1>6 DEF Range
<1>11. Owned(h, Null, Null, Null, g2, l)
  BY <1>1, <1>3, <1>8, <1>9, <1>10, NullFacts DEF Owned
<1>12. QED
  BY <1>11 DEF g2

-----------------------------------------------------------------------------
(* What a destructor deletes: roots, and children of what is deleted; no   *)
(* child of what is deleted remains.                                       *)
LEMMA FamilyClosed ==
    ASSUME NEW h, Shape(h), NEW R \in SUBSET Objects
    PROVE  /\ Family(h, R) \subseteq Objects /\ R \subseteq Family(h, R)
           /\ \A y \in Family(h, R) : y \in R \/ IsChild(h, y)
           /\ \A y \in Family(h, R) : y \in R \/ \E x \in Family(h, R) :
                \E i \in DOMAIN h[x].children : h[x].children[i] = y
           /\ \A x \in Family(h, R) : \A i \in DOMAIN h[x].children :
                h[x].children[i] \in Family(h, R)
<1> DEFINE A == ChildrenOf(h, R)
           B == ChildrenOf(h, A)
<1>1. \A x \in Objects : \A i \in DOMAIN h[x].children : h[x].children[i] \in Objects
  BY ObjectFields DEF Shape
<1>2. \A S \in SUBSET Objects : \A y :
        y \in ChildrenOf(h, S) <=>
            \E x \in S : \E i \in DOMAIN h[x].children : h[x].children[i] = y
  BY DEF ChildrenOf, Range
<1>3. A \in SUBSET Objects
  BY <1>1, <1>2
<1>4. \A y : y \in A <=> \E x \in R : \E i \in DOMAIN h[x].children : h[x].children[i] = y
  BY <1>2
<1>5. \A y : y \in B <=> \E x \in A : \E i \in DOMAIN h[x].children : h[x].children[i] = y
  BY <1>2, <1>3
<1>6. \A y : y \in Family(h, R) <=> y \in R \/ y \in A \/ y \in B
  BY DEF Family
<1> HIDE DEF A, B
<1>7. B \subseteq Objects
  BY <1>1, <1>3, <1>5
<1>8. \A x \in B : \A i \in DOMAIN h[x].children : FALSE
  BY <1>1, <1>3, <1>4, <1>5, <1>7 DEF Shape
<1>9. Family(h, R) \subseteq Objects /\ R \subseteq Family(h, R)
  BY <1>3, <1>6, <1>7
<1>10. \A y \in Family(h, R) : y \in R \/ \E x \in Family(h, R) :
         \E i \in DOMAIN h[x].children : h[x].children[i] = y
  BY <1>4, <1>5, <1>6
<1>11. \A x \in Family(h, R) : \A i \in DOMAIN h[x].children :
         h[x].children[i] \in Family(h, R)
  BY <1>4, <1>5, <1>6, <1>8
<1>12. \A y \in Family(h, R) : y \in R \/ IsChild(h, y)
  BY <1>9, <1>10 DEF IsChild
<1>13. QED
  BY <1>9, <1>10, <1>11, <1>12

(* Nothing leaks and nothing dangles: if all that the builder has is       *)
(* deleted, and all services of the server or none of them, then what is   *)
(* left is owned by the server.                                            *)
LEMMA DeleteOwned ==
    ASSUME NEW h, NEW s, NEW c, NEW d, NEW g, NEW l, Owned(h, s, c, d, g, l),
           NEW R \in SUBSET Objects,
           {s, c, d} \ {Null} \subseteq R, R \subseteq {s, c, d} \union Range(g),
           NEW g2, \/ g2 = g /\ \A x \in Range(g) : x \notin R
                   \/ g2 = <<>> /\ Range(g) \subseteq R
    PROVE  Owned(Delete(h, R), Null, Null, Null, g2, l)
<1> DEFINE F == Family(h, R)
           h2 == Delete(h, R)
<1> USE NullFacts
<1>1. Shape(h) /\ h \in [Objects -> Object] /\ g \in Seq(Objects) /\ Null \in Pointer
  BY DEF Owned, Shape, Pointer
<1>2. /\ F \subseteq Objects /\ R \subseteq F
      /\ \A y \in F : y \in R \/ IsChild(h, y)
      /\ \A y \in F : y \in R \/ \E x \in F : \E i \in DOMAIN h[x].children : h[x].children[i] = y
      /\ \A x \in F : \A i \in DOMAIN h[x].children : h[x].children[i] \in F
  BY <1>1, FamilyClosed
<1>3. Freed \in Object /\ Freed.kind = "free" /\ Freed.children = <<>>
  BY DeclarationAssumption DEF Freed, New, Object, Kinds
<1>4. R \ {Null} = R
  OBVIOUS
<1>5. h2 = [x \in Objects |-> IF x \in F THEN Freed ELSE h[x]]
  BY <1>4 DEF Delete
<1> HIDE DEF F, h2
<1>6. h2 \in [Objects -> Object]
  BY <1>1, <1>3, <1>5
<1>7. /\ \A x \in Objects : x \in F => h2[x] = Freed
      /\ \A x \in Objects : x \notin F => h2[x] = h[x]
  BY <1>5
<1>8. \A x \in F : h2[x].kind = "free" /\ \A i \in DOMAIN h2[x].children : FALSE
  BY <1>2, <1>3, <1>7
<1>9. \A y : IsChild(h, y) => y \in Objects /\ h[y].kind \in {"characteristic", "descriptor"}
  BY <1>1, ChildFacts
<1>10. \A y \in R : ~IsChild(h, y)
  <2>1. \A y \in Range(g) : h[y].kind = "service"
    BY DEF Owned, Range
  <2>2. QED
    BY <1>9, <2>1 DEF Owned
<1>11. \A x \in Objects : \A i \in DOMAIN h[x].children :
         /\ h[x].children[i] \in Objects
         /\ IsChild(h, h[x].children[i])
  BY <1>1, ObjectFields DEF IsChild
<1>12. \A x \in Objects : \A i \in DOMAIN h[x].children :
         x \notin F => h[x].children[i] \notin F
  <2> TAKE x \in Objects
  <2> TAKE i \in DOMAIN h[x].children
  <2> DEFINE y == h[x].children[i]
  <2>1. SUFFICES ASSUME y \in F PROVE x \in F
    OBVIOUS
  <2>2. y \notin R
    BY <1>10, <1>11
  <2>3. PICK u \in F : \E j \in DOMAIN h[u].children : h[u].children[j] = y
    BY <1>2, <2>1, <2>2
  <2>4. u = x
    BY <1>1, <1>2, <2>3 DEF Shape
  <2>5. QED
    BY <2>4
<1>13. \A x \in Objects : \A i \in DOMAIN h2[x].children :
         /\ x \notin F /\ h2[x] = h[x] /\ h[x].children[i] \in Objects
         /\ h2[h[x].children[i]] = h[h[x].children[i]]
  BY <1>7, <1>8, <1>11, <1>12
<1>14. Shape(h2)
  <2>1. \A x \in Objects : \A i \in DOMAIN h2[x].children :
          \/ h2[x].kind = "service" /\ h2[h2[x].children[i]].kind = "characteristic"
          \/ h2[x].kind = "characteristic" /\ h2[h2[x].children[i]].kind = "descriptor"
    BY <1>1, <1>13 DEF Shape
  <2>2. \A u, z \in Objects : \A i \in DOMAIN h2[u].children : \A j \in DOMAIN h2[z].children :
          h2[u].children[i] = h2[z].children[j] => u = z /\ i = j
    BY <1>1, <1>13 DEF Shape
  <2>3. QED
    BY <1>6, <2>1, <2>2 DEF Shape
<1>15. \A y \in Objects : y \notin F /\ IsChild(h, y) => IsChild(h2, y)
  BY <1>2, <1>7 DEF IsChild
<1>16. \A i \in DOMAIN g : g[i] \in Objects /\ h[g[i]].kind = "service" /\ g[i] \in Range(g)
  BY <1>1 DEF Owned, Range
<1>20. /\ l \subseteq Objects
       /\ \A x \in l : /\ h2[x].kind \in {"characteristic", "descriptor"}
                       /\ x # Null /\ ~IsChild(h2, x)
  <2>1. l \subseteq Objects
    BY DEF Owned
  <2>2. ASSUME NEW x \in l
        PROVE  /\ h2[x].kind \in {"characteristic", "descriptor"}
               /\ x # Null /\ ~IsChild(h2, x)
    <3>1. /\ x \in Objects /\ h[x].kind \in {"characteristic", "descriptor"}
          /\ x # c /\ x # d /\ ~IsChild(h, x)
      BY DEF Owned
    <3>2. x # s /\ x \notin Range(g)
      <4>1. \A y \in Range(g) : h[y].kind = "service"
        BY DEF Owned, Range
      <4>2. s # Null => h[s].kind = "service"
        BY DEF Owned
      <4>3. QED
        BY <3>1, <4>1, <4>2
    <3>3. x \notin F
      BY <1>2, <3>1, <3>2
    <3>4. h2[x] = h[x] /\ x # Null
      BY <1>7, <3>1, <3>3
    <3>5. ~IsChild(h2, x)
      BY <1>13, <3>1 DEF IsChild
    <3>6. QED
      BY <3>1, <3>4, <3>5
  <2>3. QED
    BY <2>1, <2>2
<1>17. CASE g2 = g /\ \A x \in Range(g) : x \notin R
  <2>1. \A x \in Range(g) : x \notin F /\ x \in Objects
    BY <1>2, <1>9, <1>16, <1>17 DEF Range
  <2>2. \A i \in DOMAIN g : h2[g[i]].kind = "service"
    BY <1>7, <1>16, <2>1
  <2>3. \A x \in Objects :
          /\ h2[x].kind = "service" => x \in Range(g)
          /\ h2[x].kind = "characteristic" => IsChild(h2, x) \/ x \in l
          /\ h2[x].kind = "descriptor" => IsChild(h2, x) \/ x \in l
    <3> TAKE x \in Objects
    <3>1. CASE x \in F
      BY <1>8, <3>1
    <3>2. CASE x \notin F
      <4>1. h2[x] = h[x] /\ x \notin {s, c, d}
        BY <1>2, <1>7, <3>2
      <4>2. QED
        BY <1>15, <3>2, <4>1 DEF Owned
    <3>3. QED
      BY <3>1, <3>2
  <2>4. QED
    BY <1>1, <1>14, <1>17, <1>20, <2>2, <2>3 DEF Owned, h2
<1>18. CASE g2 = <<>> /\ Range(g) \subseteq R
  <2>1. \A x \in Objects :
          /\ h2[x].kind # "service"
          /\ h2[x].kind = "characteristic" => IsChild(h2, x) \/ x \in l
          /\ h2[x].kind = "descriptor" => IsChild(h2, x) \/ x \in l
    <3> TAKE x \in Objects
    <3>1. CASE x \in F
      BY <1>8, <3>1
    <3>2. CASE x \notin F
      <4>1. h2[x] = h[x] /\ x \notin {s, c, d} /\ x \notin Range(g)
        BY <1>2, <1>7, <1>18, <3>2
      <4>2. QED
        BY <1>15, <3>2, <4>1 DEF Owned
    <3>3. QED
      BY <3>1, <3>2
  <2>2. g2 \in Seq(Objects) /\ \A i \in DOMAIN g2 : FALSE
    BY <1>18
  <2>3. QED
    BY <1>1, <1>14, <1>20, <2>1, <2>2 DEF Owned, h2
<1>19. QED
  BY <1>17, <1>18

-----------------------------------------------------------------------------
(* What the stack is told.                                                 *)
Lengths == [len : 0..MaxSize, max : 0..MaxSize]
Registration == [service : Objects, content : Seq(Seq(Lengths))]

(* The content of a service: attributes of characteristics.                *)
LEMMA ContentType ==
    ASSUME NEW h, Shape(h), NEW s \in Objects, h[s].kind = "service"
    PROVE  Content(h, s) \in Seq(Seq(Lengths))
<1>1. \A x \in Objects : Attribute(h, x) \in Lengths
  BY ObjectFields DEF Shape, Attribute, Lengths
<1>2. ASSUME NEW c \in Objects PROVE Attributes(h, c) \in Seq(Lengths)
  <2>1. /\ DOMAIN h[c].children = 1..Len(h[c].children) /\ Len(h[c].children) \in Nat
        /\ \A i \in DOMAIN h[c].children : h[c].children[i] \in Objects
    BY ObjectFields DEF Shape
  <2>2. [i \in DOMAIN h[c].children |-> Attribute(h, h[c].children[i])] \in Seq(Lengths)
    BY <1>1, <2>1, IsASeq
  <2>3. <<Attribute(h, c)>> \in Seq(Lengths)
    BY <1>1
  <2>4. QED
    BY <2>2, <2>3, ConcatProperties DEF Attributes
<1>3. /\ DOMAIN h[s].children = 1..Len(h[s].children) /\ Len(h[s].children) \in Nat
      /\ \A i \in DOMAIN h[s].children : h[s].children[i] \in Objects
  BY ObjectFields DEF Shape
<1>4. QED
  BY <1>2, <1>3, IsASeq DEF Content

(* What the stack has and what the server owns are the same services, and  *)
(* whenShutdown is due once while there is something to free.              *)
Builder == [service : Objects, characteristic : Pointer, descriptor : Pointer]

Inv ==
    /\ serviceBuilder \in Builder \union {Null}
    /\ Owned(heap, Current("service"), Current("characteristic"), Current("descriptor"),
             gattServices, lost)
    /\ registered \in Seq(Registration)
    /\ gattServices = [i \in DOMAIN registered |-> registered[i].service]
    /\ cleanupRegistered \in BOOLEAN /\ shutdownCalls \in {0, 1}
    /\ CleanupDue

(* The pointers of the builder, by the names of its fields.                *)
LEMMA BuilderFacts ==
    ASSUME Inv
    PROVE  /\ Building => /\ serviceBuilder \in Builder
                          /\ Current("service") = serviceBuilder.service
                          /\ Current("characteristic") = serviceBuilder.characteristic
                          /\ Current("descriptor") = serviceBuilder.descriptor
                          /\ serviceBuilder.service \in Objects
                          /\ serviceBuilder.service # Null
                          /\ Owned(heap, serviceBuilder.service, serviceBuilder.characteristic,
                                   serviceBuilder.descriptor, gattServices, lost)
           /\ ~Building => /\ Current("service") = Null
                           /\ Current("characteristic") = Null
                           /\ Current("descriptor") = Null
                           /\ Owned(heap, Null, Null, Null, gattServices, lost)
<1>1. CASE Building
  <2>1. serviceBuilder \in Builder
    BY <1>1 DEF Inv, Building
  <2>2. /\ Current("service") = serviceBuilder.service
        /\ Current("characteristic") = serviceBuilder.characteristic
        /\ Current("descriptor") = serviceBuilder.descriptor
    BY <1>1 DEF Current
  <2>3. QED
    BY <1>1, <2>1, <2>2, NullFacts DEF Inv, Builder
<1>2. CASE ~Building
  BY <1>2 DEF Current, Inv
<1>3. QED
  BY <1>1, <1>2

(* A builder is told from no builder.                                      *)
LEMMA BuilderIsNotNull == \A b \in Builder : b # Null
BY DeclarationAssumption DEF Builder, Pointer

(* Nothing is allocated before the first command.                          *)
LEMMA InvInit == Init => Inv
<1> SUFFICES ASSUME Init PROVE Inv
  OBVIOUS
<1>1. serviceBuilder = Null /\ gattServices = <<>> /\ registered = <<>>
      /\ cleanupRegistered = FALSE /\ shutdownCalls = 0 /\ lost = {}
  BY DEF Init
<1>2. Current("service") = Null /\ Current("characteristic") = Null /\ Current("descriptor") = Null
  BY <1>1 DEF Current, Building
<1>3. Freed \in Object /\ Freed.kind = "free" /\ Freed.children = <<>>
  BY DeclarationAssumption DEF Freed, New, Object, Kinds
<1>4. heap \in [Objects -> Object] /\ \A x \in Objects : heap[x] = Freed
  BY <1>3 DEF Init
<1>5. Shape(heap)
  BY <1>3, <1>4 DEF Shape
<1>6. Owned(heap, Null, Null, Null, <<>>, {})
  BY <1>3, <1>4, <1>5, NullFacts DEF Owned, Pointer
<1>7. gattServices = [i \in DOMAIN registered |-> registered[i].service]
  BY <1>1
<1>8. CleanupDue
  BY <1>1 DEF CleanupDue, Building
<1>9. registered \in Seq(Registration)
  BY <1>1
<1>10. Owned(heap, Current("service"), Current("characteristic"), Current("descriptor"),
             gattServices, lost)
  BY <1>1, <1>2, <1>6
<1>11. QED
  BY <1>1, <1>7, <1>8, <1>9, <1>10 DEF Inv

-----------------------------------------------------------------------------
(* The declaration of a service.                                           *)
LEMMA DeclareServiceInv == Inv /\ DeclareService => Inv'
<1> SUFFICES ASSUME Inv, DeclareService PROVE Inv'
  OBVIOUS
<1>1. PICK x \in Objects \ Allocated :
        /\ heap' = [heap EXCEPT ![x] = New("service")]
        /\ serviceBuilder' = [service |-> x, characteristic |-> Null, descriptor |-> Null]
  BY DEF DeclareService
<1>2. ~Building /\ gattServices' = gattServices /\ registered' = registered /\ lost' = lost
  BY DEF DeclareService
<1>3. x \in Objects /\ heap[x].kind = "free"
  BY <1>1 DEF Allocated
<1>4. Owned(heap', x, Null, Null, gattServices, lost)
  BY <1>1, <1>2, <1>3, BuilderFacts, NewOwned DEF Fresh
<1>5. serviceBuilder' \in Builder /\ serviceBuilder' # Null
  BY <1>1, <1>3, BuilderIsNotNull DEF Builder, Pointer
<1>6. /\ Building' /\ Current("service")' = x /\ Current("characteristic")' = Null
      /\ Current("descriptor")' = Null
  BY <1>1, <1>5 DEF Building, Current
<1>7. /\ shutdownCalls' = IF cleanupRegistered THEN shutdownCalls ELSE shutdownCalls + 1
      /\ cleanupRegistered' = TRUE
  BY DEF DeclareService
<1>8. shutdownCalls' = 1
  <2>1. CASE cleanupRegistered
    BY <1>7, <2>1 DEF Inv, CleanupDue
  <2>2. CASE ~cleanupRegistered
    <3>1. shutdownCalls = 0
      BY <2>2 DEF Inv, CleanupDue
    <3>2. shutdownCalls' = shutdownCalls + 1
      BY <1>7, <2>2
    <3>3. QED
      BY <3>1, <3>2
  <2>3. QED
    BY <2>1, <2>2
<1>9. CleanupDue' /\ cleanupRegistered' \in BOOLEAN /\ shutdownCalls' \in {0, 1}
  BY <1>7, <1>8 DEF CleanupDue
<1>10. QED
  BY <1>2, <1>4, <1>5, <1>6, <1>9 DEF Inv

(* Steps of a declaration leave the stack as it is.                        *)
LEMMA DeclarationStep ==
    ASSUME Inv, Building, serviceBuilder' \in Builder,
           UNCHANGED <<gattServices, cleanupRegistered, shutdownCalls, registered>>,
           Owned(heap', serviceBuilder'.service, serviceBuilder'.characteristic,
                 serviceBuilder'.descriptor, gattServices, lost')
    PROVE  Inv'
<1>1. Building'
  BY BuilderIsNotNull DEF Building
<1>2. /\ Current("service")' = serviceBuilder'.service
      /\ Current("characteristic")' = serviceBuilder'.characteristic
      /\ Current("descriptor")' = serviceBuilder'.descriptor
  BY <1>1 DEF Current
<1>3. CleanupDue'
  BY <1>1 DEF Inv, CleanupDue
<1>4. QED
  BY <1>2, <1>3 DEF Inv

(* What was pending is given away, and the new characteristic is pending.  *)
LEMMA DeclareCharacteristicInv == Inv /\ DeclareCharacteristic => Inv'
<1> SUFFICES ASSUME Inv, DeclareCharacteristic PROVE Inv'
  OBVIOUS
<1>1. PICK x \in Objects \ Allocated :
        /\ heap' = [Committed(heap, serviceBuilder) EXCEPT ![x] = New("characteristic")]
        /\ serviceBuilder' = [serviceBuilder EXCEPT !.characteristic = x, !.descriptor = Null]
  BY Zenon DEF DeclareCharacteristic
<1> DEFINE b == serviceBuilder
           h == Committed(heap, b)
<1>2. Building /\ b # Null /\ lost' = lost \union CommitForgets(heap, b)
  BY DEF DeclareCharacteristic, Building
<1>3. /\ b \in Builder /\ b.service # Null
      /\ Owned(heap, b.service, b.characteristic, b.descriptor, gattServices, lost)
  BY <1>2, BuilderFacts
<1>4. x \in Objects /\ heap[x].kind = "free"
  BY <1>1 DEF Allocated
<1>5. h[x].kind = "free" /\ Owned(h, b.service, Null, Null, gattServices, lost')
  BY <1>2, <1>3, <1>4, CommittedKinds, CommittedOwned
<1>6. heap' = Fresh(h, x, "characteristic")
  BY <1>1 DEF Fresh
<1> HIDE DEF h
<1>7. Owned(heap', b.service, x, Null, gattServices, lost')
  <2>1. Owned(Fresh(h, x, "characteristic"), b.service, x, Null, gattServices, lost')
    BY <1>3, <1>4, <1>5, NewOwned
  <2>2. QED
    BY <1>6, <2>1
<1>8. /\ serviceBuilder' \in Builder /\ serviceBuilder'.service = b.service
      /\ serviceBuilder'.characteristic = x /\ serviceBuilder'.descriptor = Null
  BY <1>1, <1>3, <1>4 DEF Builder, Pointer
<1>9. UNCHANGED <<gattServices, cleanupRegistered, shutdownCalls, registered>>
  BY DEF DeclareCharacteristic
<1>10. QED
  BY <1>2, <1>7, <1>8, <1>9, DeclarationStep

(* The characteristic gets what was pending; the new descriptor is.        *)
LEMMA DeclareDescriptorInv == Inv /\ DeclareDescriptor => Inv'
<1> SUFFICES ASSUME Inv, DeclareDescriptor PROVE Inv'
  OBVIOUS
<1> DEFINE b == serviceBuilder
           h == IF b.descriptor = Null THEN heap ELSE AddChild(heap, b.characteristic, b.descriptor)
<1>1. PICK x \in Objects \ Allocated :
        /\ heap' = [h EXCEPT ![x] = New("descriptor")]
        /\ serviceBuilder' = [b EXCEPT !.descriptor = x]
  BY DEF DeclareDescriptor
<1>2. Building /\ b.characteristic # Null /\ lost' = lost \union DescriptorForgets(heap, b)
  BY DEF DeclareDescriptor
<1>3. /\ b \in Builder /\ b.service # Null
      /\ Owned(heap, b.service, b.characteristic, b.descriptor, gattServices, lost)
  BY <1>2, BuilderFacts
<1>4. x \in Objects /\ heap[x].kind = "free"
  BY <1>1 DEF Allocated
<1>5. h[x].kind = "free" /\ Owned(h, b.service, b.characteristic, Null, gattServices, lost')
  <2>1. CASE b.descriptor = Null
    <3>1. h = heap /\ lost' = lost
      BY <1>2, <2>1 DEF DescriptorForgets
    <3>2. QED
      BY <1>3, <1>4, <2>1, <3>1
  <2>2. CASE b.descriptor # Null
    <3>1. Owned(AddChild(heap, b.characteristic, b.descriptor), b.service, b.characteristic, Null,
                gattServices, lost \union Forgets(heap, b.characteristic, b.descriptor))
      BY <1>3, <2>2, DescriptorGiven
    <3>5. lost' = lost \union Forgets(heap, b.characteristic, b.descriptor)
      BY <1>2, <2>2 DEF DescriptorForgets
    <3>2. /\ Shape(heap) /\ b.characteristic \in Objects /\ b.descriptor \in Objects
          /\ ~IsChild(heap, b.descriptor)
      BY <1>2, <1>3, <2>2 DEF Owned, Pointer
    <3>3. AddChild(heap, b.characteristic, b.descriptor)[x].kind = heap[x].kind
      BY <1>4, <3>2, AddChildFacts
    <3>4. QED
      BY <1>4, <2>2, <3>1, <3>3, <3>5
  <2>3. QED
    BY <2>1, <2>2
<1> HIDE DEF h
<1>6. heap' = Fresh(h, x, "descriptor")
  BY <1>1 DEF Fresh
<1>7. Owned(heap', b.service, b.characteristic, x, gattServices, lost')
  <2>1. Owned(Fresh(h, x, "descriptor"), b.service, b.characteristic, x, gattServices, lost')
    BY <1>2, <1>4, <1>5, NewOwned
  <2>2. QED
    BY <1>6, <2>1
<1>8. /\ serviceBuilder' \in Builder /\ serviceBuilder'.service = b.service
      /\ serviceBuilder'.characteristic = b.characteristic /\ serviceBuilder'.descriptor = x
  BY <1>1, <1>3, <1>4 DEF Builder, Pointer
<1>9. UNCHANGED <<gattServices, cleanupRegistered, shutdownCalls, registered>>
  BY DEF DeclareDescriptor
<1>10. QED
  BY <1>2, <1>7, <1>8, <1>9, DeclarationStep

(* Lengths are set in the object that is pending, the maximum never below  *)
(* the value.                                                              *)
LEMMA LengthsInv ==
    ASSUME Inv, NEW x \in Objects, NEW o \in Object,
           heap' = [heap EXCEPT ![x] = o],
           o.kind = heap[x].kind, o.children = heap[x].children,
           UNCHANGED <<serviceBuilder, gattServices, cleanupRegistered, shutdownCalls, registered, lost>>
    PROVE  Inv'
<1>1. heap \in [Objects -> Object]
  BY DEF Inv, Owned, Shape
<1>2. /\ heap' \in [Objects -> Object]
      /\ \A z \in Objects : heap'[z].kind = heap[z].kind /\ heap'[z].children = heap[z].children
  BY <1>1
<1>3. Owned(heap', Current("service"), Current("characteristic"), Current("descriptor"),
            gattServices, lost)
  BY <1>2, LengthsOwned DEF Inv
<1>4. \A f : Current(f)' = Current(f)
  BY DEF Current, Building
<1>5. CleanupDue'
  BY DEF Inv, CleanupDue, Building
<1>6. QED
  BY <1>3, <1>4, <1>5 DEF Inv

(* What a command sets is allocated.                                       *)
LEMMA CurrentObjects ==
    ASSUME Inv
    PROVE  /\ heap \in [Objects -> Object]
           /\ Current("characteristic") # Null => Current("characteristic") \in Objects
           /\ Current("descriptor") # Null => Current("descriptor") \in Objects
BY DEF Inv, Owned, Shape, Pointer

(* setValue raises the maximum with the value.                             *)
LEMMA SetValueInv ==
    ASSUME Inv, NEW x \in Objects, NEW n \in 1..MaxSize, SetValue(x, n),
           UNCHANGED <<serviceBuilder, gattServices, cleanupRegistered, shutdownCalls, registered, lost>>
    PROVE  Inv'
<1> DEFINE m == IF heap[x].max < n THEN n ELSE heap[x].max
           o == [heap[x] EXCEPT !.len = n, !.max = m]
<1>1. heap \in [Objects -> Object] /\ heap[x] \in Object /\ heap[x].max \in 0..MaxSize
  BY CurrentObjects, ObjectFields
<1>2. m \in 0..MaxSize /\ n \in 0..MaxSize /\ n <= m
  BY <1>1, DeclarationAssumption
<1>3. heap' = [heap EXCEPT ![x] = o]
  BY <1>1 DEF SetValue, Object
<1> HIDE DEF m
<1>4. o \in Object /\ o.kind = heap[x].kind /\ o.children = heap[x].children
  BY <1>1, <1>2 DEF Object
<1> HIDE DEF o
<1>5. QED
  BY <1>3, <1>4, LengthsInv

(* A maximum is never set below the length of the value.                   *)
LEMMA SetMaxInv ==
    ASSUME Inv, NEW x \in Objects, NEW n \in 0..MaxSize, heap' = [heap EXCEPT ![x].max = n],
           heap[x].len <= n,
           UNCHANGED <<serviceBuilder, gattServices, cleanupRegistered, shutdownCalls, registered, lost>>
    PROVE  Inv'
<1> DEFINE o == [heap[x] EXCEPT !.max = n]
<1>1. heap \in [Objects -> Object] /\ heap[x] \in Object
  BY CurrentObjects
<1>2. heap' = [heap EXCEPT ![x] = o]
  BY <1>1
<1>3. o \in Object /\ o.kind = heap[x].kind /\ o.children = heap[x].children
  BY <1>1 DEF Object
<1> HIDE DEF o
<1>4. QED
  BY <1>2, <1>3, LengthsInv

(* The four commands that set lengths keep the invariant.                  *)
LEMMA SetLengthsInv ==
    /\ \A n \in 1..MaxSize : Inv /\ (SetCharacteristicValue(n) \/ SetDescriptorValue(n)) => Inv'
    /\ \A n \in 0..MaxSize :
         Inv /\ (SetCharacteristicMaxLength(n) \/ SetDescriptorMaxLength(n)) => Inv'
<1>1. ASSUME Inv, NEW n \in 1..MaxSize, SetCharacteristicValue(n) PROVE Inv'
  BY <1>1, CurrentObjects, SetValueInv DEF SetCharacteristicValue
<1>2. ASSUME Inv, NEW n \in 1..MaxSize, SetDescriptorValue(n) PROVE Inv'
  BY <1>2, CurrentObjects, SetValueInv DEF SetDescriptorValue
<1>3. ASSUME Inv, NEW n \in 0..MaxSize, SetCharacteristicMaxLength(n) PROVE Inv'
  <2> DEFINE x == Current("characteristic")
  <2>1. x \in Objects /\ heap[x].max <= n /\ heap' = [heap EXCEPT ![x].max = n]
    BY <1>3, CurrentObjects DEF SetCharacteristicMaxLength
  <2>2. heap[x].len \in 0..MaxSize /\ heap[x].max \in 0..MaxSize /\ heap[x].len <= heap[x].max
    BY <1>3, <2>1, CurrentObjects, ObjectFields
  <2>3. heap[x].len <= n
    BY <2>1, <2>2
  <2>4. QED
    BY <1>3, <2>1, <2>3, SetMaxInv DEF SetCharacteristicMaxLength
<1>4. ASSUME Inv, NEW n \in 0..MaxSize, SetDescriptorMaxLength(n) PROVE Inv'
  BY <1>4, CurrentObjects, SetMaxInv DEF SetDescriptorMaxLength
<1>5. QED
  BY <1>1, <1>2, <1>3, <1>4

-----------------------------------------------------------------------------
(* Its end: the builder is empty, its service owned by the server or       *)
(* deleted with all that is pending.                                       *)
LEMMA NotBuilding ==
    ASSUME serviceBuilder' = Null
    PROVE  /\ ~Building' /\ Current("service")' = Null
           /\ Current("characteristic")' = Null /\ Current("descriptor")' = Null
BY DEF Building, Current

(* Values are freed, attributes stay where they are.                       *)
LEMMA ReleaseOwned ==
    ASSUME NEW h, NEW s \in Objects, NEW g, NEW l, Owned(h, Null, Null, Null, g, l)
    PROVE  Owned(ReleaseAttributesValue(h, s), Null, Null, Null, g, l)
<1> DEFINE h2 == ReleaseAttributesValue(h, s)
<1>1. h \in [Objects -> Object] /\ \A x \in Objects : h[x] \in Object
  BY DEF Owned, Shape
<1>2. \A x \in Objects :
        /\ [h[x] EXCEPT !.len = 0] \in Object
        /\ [h[x] EXCEPT !.len = 0].kind = h[x].kind
        /\ [h[x] EXCEPT !.len = 0].children = h[x].children
  <2> TAKE x \in Objects
  <2>1. h[x] \in Object
    BY <1>1
  <2>2. 0 \in 0..MaxSize /\ \A n \in 0..MaxSize : 0 <= n
    BY DeclarationAssumption
  <2>3. QED
    BY <2>1, <2>2 DEF Object
<1>3. h2 \in [Objects -> Object]
  BY <1>1, <1>2 DEF ReleaseAttributesValue
<1>4. \A z \in Objects : h2[z].kind = h[z].kind /\ h2[z].children = h[z].children
  BY <1>2 DEF ReleaseAttributesValue
<1> HIDE DEF h2
<1>5. Owned(h2, Null, Null, Null, g, l)
  BY <1>3, <1>4, LengthsOwned
<1>6. QED
  BY <1>5 DEF h2

(* The service that the stack takes is the last of the server.             *)
LEMMA CommitAcceptedInv == Inv /\ CommitAccepted => Inv'
<1> SUFFICES ASSUME Inv, CommitAccepted PROVE Inv'
  OBVIOUS
<1> DEFINE b == serviceBuilder
           s == serviceBuilder.service
           h == Committed(heap, serviceBuilder)
           r == [service |-> s, content |-> Content(h, s)]
<1>1. Building /\ b # Null
  BY DEF CommitAccepted, Building
<1>2. /\ heap' = ReleaseAttributesValue(h, s) /\ gattServices' = Append(gattServices, s)
      /\ registered' = Append(registered, r) /\ serviceBuilder' = Null
      /\ cleanupRegistered' = cleanupRegistered /\ shutdownCalls' = shutdownCalls
      /\ lost' = lost \union CommitForgets(heap, b)
  BY DEF CommitAccepted
<1>3. /\ s \in Objects /\ s # Null
      /\ Owned(heap, s, b.characteristic, b.descriptor, gattServices, lost)
  BY <1>1, BuilderFacts
<1>4. Owned(h, s, Null, Null, gattServices, lost')
  BY <1>1, <1>2, <1>3, CommittedOwned
<1>5. Shape(h) /\ h[s].kind = "service"
  BY <1>3, <1>4 DEF Owned
<1> HIDE DEF h
<1>6. r \in Registration
  BY <1>3, <1>5, ContentType DEF Registration
<1> HIDE DEF r
<1>7. Owned(heap', Null, Null, Null, gattServices', lost')
  BY <1>2, <1>3, <1>4, HandOver, ReleaseOwned
<1>8. registered' \in Seq(Registration)
  <2>1. registered \in Seq(Registration)
    BY DEF Inv
  <2>2. Append(registered, r) \in Seq(Registration)
    BY <1>6, <2>1, AppendProperties
  <2>3. QED
    BY <1>2, <2>2
<1>9. gattServices' = [i \in DOMAIN registered' |-> registered'[i].service]
  <2> DEFINE n == Len(registered)
             reg2 == Append(registered, r)
             g2 == Append(gattServices, s)
  <2>1. registered \in Seq(Registration) /\ gattServices \in Seq(Objects)
    BY DEF Inv, Owned
  <2>2. n \in Nat /\ DOMAIN registered = 1..n
    BY <2>1, LenProperties
  <2>3. /\ reg2 \in Seq(Registration) /\ Len(reg2) = n + 1 /\ reg2[n + 1] = r
        /\ \A i \in 1..n : reg2[i] = registered[i]
    BY <1>6, <2>1, <2>2, AppendProperties
  <2>4. DOMAIN reg2 = 1..(n + 1)
    BY <2>3, LenProperties
  <2>5. gattServices = [i \in 1..n |-> registered[i].service]
    BY <2>2 DEF Inv
  <2>6. Len(gattServices) = n
    BY <2>1, <2>2, <2>5, LenProperties
  <2>7. /\ g2 \in Seq(Objects) /\ Len(g2) = n + 1 /\ g2[n + 1] = s
        /\ \A i \in 1..n : g2[i] = gattServices[i]
    BY <1>3, <2>1, <2>6, AppendProperties
  <2>8. g2 \in [1..(n + 1) -> Objects]
    BY <2>7, LenProperties
  <2>9. r.service = s
    BY DEF r
  <2> HIDE DEF n, reg2, g2
  <2>10. \A i \in 1..(n + 1) : i \in 1..n \/ i = n + 1
    BY <2>2
  <2>11. \A i \in 1..(n + 1) : g2[i] = reg2[i].service
    BY <2>3, <2>5, <2>7, <2>9, <2>10
  <2>12. g2 = [i \in DOMAIN reg2 |-> reg2[i].service]
    BY <2>4, <2>8, <2>11
  <2>13. QED
    BY <1>2, <2>12 DEF reg2, g2
<1>10. CleanupDue'
  BY <1>1, <1>2 DEF Inv, CleanupDue
<1>11. QED
  BY <1>2, <1>7, <1>8, <1>9, <1>10, NotBuilding DEF Inv

(* What is pending is deleted, and the server keeps what it has.           *)
LEMMA DroppedStep ==
    ASSUME Inv, Building, serviceBuilder' = Null,
           UNCHANGED <<gattServices, cleanupRegistered, shutdownCalls, registered>>,
           Owned(heap', Null, Null, Null, gattServices, lost')
    PROVE  Inv'
<1>1. CleanupDue'
  BY NotBuilding DEF Inv, CleanupDue
<1>2. QED
  BY <1>1, NotBuilding DEF Inv

(* The service that the stack refuses is deleted with all it was given.    *)
LEMMA CommitRefusedInv == Inv /\ CommitRefused => Inv'
<1> SUFFICES ASSUME Inv, CommitRefused PROVE Inv'
  OBVIOUS
<1> DEFINE b == serviceBuilder
           s == serviceBuilder.service
           h == Committed(heap, serviceBuilder)
<1>1. Building /\ b # Null
  BY DEF CommitRefused, Building
<1>2. /\ heap' = Delete(h, {s}) /\ serviceBuilder' = Null
      /\ lost' = lost \union CommitForgets(heap, b)
      /\ UNCHANGED <<gattServices, cleanupRegistered, shutdownCalls, registered>>
  BY DEF CommitRefused
<1>3. /\ s \in Objects /\ s # Null
      /\ Owned(heap, s, b.characteristic, b.descriptor, gattServices, lost)
  BY <1>1, BuilderFacts
<1>4. Owned(h, s, Null, Null, gattServices, lost')
  BY <1>1, <1>2, <1>3, CommittedOwned
<1> HIDE DEF h
<1>5. \A x \in Range(gattServices) : x \notin {s}
  BY <1>3, <1>4 DEF Owned
<1>6. Owned(Delete(h, {s}), Null, Null, Null, gattServices, lost')
  BY <1>3, <1>4, <1>5, DeleteOwned
<1>7. QED
  BY <1>1, <1>2, <1>6, DroppedStep

(* The builder is deleted with its three pointers.                         *)
LEMMA CancelInv == Inv /\ CancelServiceDeclaration => Inv'
<1> SUFFICES ASSUME Inv, CancelServiceDeclaration PROVE Inv'
  OBVIOUS
<1> DEFINE b == serviceBuilder
           R == Pointers(b)
<1>1. Building /\ b # Null
  BY DEF CancelServiceDeclaration, Building
<1>2. /\ heap' = Delete(heap, R) /\ serviceBuilder' = Null
      /\ UNCHANGED <<gattServices, cleanupRegistered, shutdownCalls, registered, lost>>
  BY DEF CancelServiceDeclaration
<1>3. /\ b.service \in Objects
      /\ Owned(heap, b.service, b.characteristic, b.descriptor, gattServices, lost)
  BY <1>1, BuilderFacts
<1>4. R = {b.service, b.characteristic, b.descriptor} \ {Null} /\ R \in SUBSET Objects
  BY <1>1, <1>3 DEF Pointers, Owned, Pointer
<1> HIDE DEF R
<1>5. \A x \in Range(gattServices) : heap[x].kind = "service"
  BY <1>3 DEF Owned, Range
<1>6. \A x \in Range(gattServices) : x \notin R
  BY <1>3, <1>4, <1>5 DEF Owned
<1>7. Owned(Delete(heap, R), Null, Null, Null, gattServices, lost)
  BY <1>3, <1>4, <1>6, DeleteOwned
<1>8. QED
  BY <1>1, <1>2, <1>7, DroppedStep

(* All is deleted, or there was nothing to delete.                         *)
LEMMA ShutdownInv == Inv /\ Shutdown => Inv'
<1> SUFFICES ASSUME Inv, Shutdown PROVE Inv'
  OBVIOUS
<1>1. shutdownCalls' = 0 /\ registered' = <<>> /\ lost' = lost
  BY DEF Shutdown
<1>2. CASE shutdownCalls > 0
  <2> DEFINE R == Pointers(serviceBuilder) \union Range(gattServices)
  <2>1. /\ heap' = Delete(heap, R) /\ serviceBuilder' = Null /\ gattServices' = <<>>
        /\ cleanupRegistered' = FALSE
    BY <1>2 DEF Shutdown, WhenShutdown
  <2>2. Range(gattServices) \subseteq Objects
    BY DEF Inv, Owned, Range
  <2>3. PICK s, c, d : /\ Owned(heap, s, c, d, gattServices, lost)
                       /\ Pointers(serviceBuilder) = {s, c, d} \ {Null}
    <3>1. CASE Building
      BY <3>1, BuilderFacts DEF Building, Pointers
    <3>2. CASE ~Building
      BY <3>2, BuilderFacts DEF Building, Pointers
    <3>3. QED
      BY <3>1, <3>2
  <2>4. {s, c, d} \ {Null} \subseteq Objects
    BY <2>3 DEF Owned, Pointer
  <2>5. /\ R \in SUBSET Objects /\ {s, c, d} \ {Null} \subseteq R
        /\ R \subseteq {s, c, d} \union Range(gattServices) /\ Range(gattServices) \subseteq R
    BY <2>2, <2>3, <2>4
  <2> HIDE DEF R
  <2>6. Owned(Delete(heap, R), Null, Null, Null, <<>>, lost')
    BY <1>1, <2>3, <2>5, DeleteOwned
  <2>7. gattServices' = [i \in DOMAIN registered' |-> registered'[i].service]
    BY <1>1, <2>1
  <2>8. CleanupDue'
    BY <1>1, <2>1, NotBuilding DEF CleanupDue
  <2>9. registered' \in Seq(Registration)
    BY <1>1
  <2>10. Owned(heap, Current("service"), Current("characteristic"), Current("descriptor"),
               gattServices, lost)'
    BY <2>1, <2>6, NotBuilding
  <2>11. QED
    BY <1>1, <2>1, <2>7, <2>8, <2>9, <2>10 DEF Inv
<1>3. CASE shutdownCalls = 0
  <2>1. ~Building /\ gattServices = <<>> /\ cleanupRegistered = FALSE
    BY <1>3 DEF Inv, CleanupDue
  <2>2. UNCHANGED <<heap, serviceBuilder, gattServices, cleanupRegistered>>
    BY <1>3 DEF Shutdown
  <2>3. \A f : Current(f)' = Current(f)
    BY <2>2 DEF Current, Building
  <2>4. gattServices' = [i \in DOMAIN registered' |-> registered'[i].service]
    BY <1>1, <2>1, <2>2
  <2>5. CleanupDue'
    BY <1>1, <2>1, <2>2 DEF CleanupDue, Building
  <2>6. registered' \in Seq(Registration)
    BY <1>1
  <2>7. QED
    BY <1>1, <2>2, <2>3, <2>4, <2>5, <2>6 DEF Inv
<1>4. QED
  BY <1>2, <1>3 DEF Inv

(* Each step keeps the invariant.                                          *)
LEMMA InvNext == Inv /\ [Next]_vars => Inv'
<1> SUFFICES ASSUME Inv, [Next]_vars PROVE Inv'
  OBVIOUS
<1>1. CASE UNCHANGED vars
  <2>1. \A f : Current(f)' = Current(f)
    BY <1>1 DEF vars, Current, Building
  <2>2. CleanupDue'
    BY <1>1 DEF vars, Inv, CleanupDue, Building
  <2>3. QED
    BY <1>1, <2>1, <2>2 DEF vars, Inv
<1>2. CASE DeclareService \/ DeclareCharacteristic \/ DeclareDescriptor
  BY <1>2, DeclareServiceInv, DeclareCharacteristicInv, DeclareDescriptorInv
<1>3. CASE \E n \in 1..MaxSize : SetCharacteristicValue(n) \/ SetDescriptorValue(n)
  BY <1>3, SetLengthsInv
<1>4. CASE \E n \in 0..MaxSize : SetCharacteristicMaxLength(n) \/ SetDescriptorMaxLength(n)
  BY <1>4, SetLengthsInv
<1>5. CASE CommitAccepted \/ CommitRefused \/ CancelServiceDeclaration \/ Shutdown
  BY <1>5, CommitAcceptedInv, CommitRefusedInv, CancelInv, ShutdownInv
<1>6. QED
  BY <1>1, <1>2, <1>3, <1>4, <1>5 DEF Next

(* In every state, all that is allocated is accounted for.                 *)
THEOREM Invariance == Spec => []Inv
BY InvInit, InvNext, PTL DEF Spec

-----------------------------------------------------------------------------
(* The values the variables take: each pointer is to an object of its      *)
(* class, and the pending descriptor has a characteristic to go to.        *)
THEOREM TypeCorrectness == Spec => []TypeOK
<1>1. ASSUME Inv PROVE TypeOK
  <2>1. \A x \in Objects :
          /\ heap[x].kind \in Kinds
          /\ heap[x].len \in 0..MaxSize /\ heap[x].max \in 0..MaxSize
    BY <1>1, ObjectFields DEF Inv, Owned, Shape
  <2>2. \A x \in Objects : \A i \in DOMAIN heap[x].children : heap[heap[x].children[i]].kind =
             IF heap[x].kind = "service" THEN "characteristic" ELSE "descriptor"
    BY <1>1 DEF Inv, Owned, Shape
  <2>3. \A i \in DOMAIN gattServices : heap[gattServices[i]].kind = "service"
    BY <1>1 DEF Inv, Owned
  <2>4. Building =>
          /\ heap[serviceBuilder.service].kind = "service"
          /\ serviceBuilder.characteristic # Null =>
                 heap[serviceBuilder.characteristic].kind = "characteristic"
          /\ serviceBuilder.descriptor # Null =>
                 /\ heap[serviceBuilder.descriptor].kind = "descriptor"
                 /\ serviceBuilder.characteristic # Null
    BY <1>1, BuilderFacts DEF Owned
  <2>5. lost \subseteq Allocated
    BY <1>1 DEF Inv, Owned, Allocated
  <2>6. QED
    BY <1>1, <2>1, <2>2, <2>3, <2>4, <2>5 DEF Inv, TypeOK
<1>2. QED
  BY <1>1, Invariance, PTL

(* In whatever order lengths and values are set, a value fits.             *)
THEOREM ValuesFit == Spec => []LengthsFit
<1>1. ASSUME Inv PROVE LengthsFit
  BY <1>1, ObjectFields DEF Inv, Owned, Shape, LengthsFit
<1>2. QED
  BY <1>1, Invariance, PTL

(* whenShutdown is due, once, while there is something to free.            *)
THEOREM CleanupIsDue == Spec => []CleanupDue
<1>1. Inv => CleanupDue
  BY DEF Inv
<1>2. QED
  BY <1>1, Invariance, PTL

(* The stack is never left with a service that was deleted.                *)
THEOREM StackKeepsNoDeletedService == Spec => []StackServicesAlive
<1>1. ASSUME Inv PROVE StackServicesAlive
  <2>1. \A i \in DOMAIN gattServices :
          gattServices[i] \in Objects /\ heap[gattServices[i]].kind = "service"
    BY <1>1 DEF Inv, Owned
  <2>2. gattServices = [i \in DOMAIN registered |-> registered[i].service]
    BY <1>1 DEF Inv
  <2>3. \A i \in DOMAIN registered : registered[i].service \in Allocated
    BY <2>1, <2>2 DEF Allocated
  <2>4. QED
    BY <2>2, <2>3 DEF StackServicesAlive
<1>2. QED
  BY <1>1, Invariance, PTL

(* The three kinds of places.                                              *)
LEMMA PlaceKinds ==
    ASSUME Inv, NEW p
    PROVE  p \in Places <=>
              \/ \E x \in Objects : \E i \in DOMAIN heap[x].children : p = <<x, i>>
              \/ \E i \in DOMAIN gattServices : p = <<"gattServices", i>>
              \/ \E f \in {"service", "characteristic", "descriptor"} :
                    Current(f) # Null /\ p = <<"serviceBuilder", f>>
<1> DEFINE C == UNION {{x} \X DOMAIN heap[x].children : x \in Objects}
           G == {"gattServices"} \X DOMAIN gattServices
           B == {q \in {"serviceBuilder"} \X {"service", "characteristic", "descriptor"} :
                     Current(q[2]) # Null}
<1>1. p \in C <=> \E x \in Objects : \E i \in DOMAIN heap[x].children : p = <<x, i>>
  OBVIOUS
<1>2. p \in G <=> \E i \in DOMAIN gattServices : p = <<"gattServices", i>>
  OBVIOUS
<1>3. p \in B <=> \E f \in {"service", "characteristic", "descriptor"} :
                     Current(f) # Null /\ p = <<"serviceBuilder", f>>
  OBVIOUS
<1>4. Places = C \union G \union B
  BY DEF Places
<1> HIDE DEF C, G, B
<1>5. QED
  BY <1>1, <1>2, <1>3, <1>4

(* What each of the places owns.                                           *)
LEMMA PlaceContents ==
    ASSUME Inv
    PROVE  /\ \A x \in Objects : \A i : At(<<x, i>>) = heap[x].children[i]
           /\ \A i : At(<<"gattServices", i>>) = gattServices[i]
           /\ \A f \in {"service", "characteristic", "descriptor"} :
                Current(f) # Null => At(<<"serviceBuilder", f>>) = Current(f)
<1>1. \A x \in Objects : x # "gattServices" /\ x # "serviceBuilder"
  BY DeclarationAssumption
<1>2. \A x \in Objects : \A i : At(<<x, i>>) = heap[x].children[i]
  BY <1>1 DEF At
<1>3. \A i : At(<<"gattServices", i>>) = gattServices[i]
  BY DEF At
<1>4. \A f : At(<<"serviceBuilder", f>>) = serviceBuilder[f]
  BY DEF At
<1>5. \A f : Current(f) # Null => Current(f) = serviceBuilder[f]
  BY DEF Current
<1>6. QED
  BY <1>2, <1>3, <1>4, <1>5

(* Each object has one owner, and no owner has an object that was freed:   *)
(* nothing is freed twice, and nothing leaks but what a count forgets as   *)
(* it wraps, however many objects there are and wherever counts wrap.      *)
THEOREM EachObjectHasOneOwner == Spec => []OneOwner
<1>1. ASSUME Inv PROVE OneOwner
  <2> DEFINE Field == {"service", "characteristic", "descriptor"}
  <2>1. Owned(heap, Current("service"), Current("characteristic"), Current("descriptor"),
              gattServices, lost)
    BY <1>1 DEF Inv
  <2>2. Shape(heap) /\ \A i \in DOMAIN gattServices : gattServices[i] \in Objects
    BY <2>1 DEF Owned
  <2>3. \A x \in Objects : \A i \in DOMAIN heap[x].children :
          /\ heap[x].children[i] \in Objects
          /\ heap[heap[x].children[i]].kind \in {"characteristic", "descriptor"}
          /\ IsChild(heap, heap[x].children[i])
    BY <2>2, ObjectFields DEF Shape, IsChild
  <2>4. \A f \in Field : Current(f) # Null =>
          /\ Current(f) \in Objects /\ heap[Current(f)].kind = f
          /\ Current(f) \notin Range(gattServices) /\ ~IsChild(heap, Current(f))
    <3>1. \A i \in DOMAIN gattServices : heap[gattServices[i]].kind = "service"
      BY <2>1 DEF Owned
    <3>2. \A f \in Field : Current(f) # Null => Current(f) \in Objects /\ heap[Current(f)].kind = f
      BY <2>1 DEF Owned, Pointer
    <3>3. \A x \in Range(gattServices) : heap[x].kind = "service"
      BY <3>1 DEF Range
    <3>4. \A f \in Field : Current(f) # Null => Current(f) \notin Range(gattServices)
      BY <2>1, <3>2, <3>3 DEF Owned
    <3>5. \A f \in Field : Current(f) # Null => ~IsChild(heap, Current(f))
      <4>1. \A y : IsChild(heap, y) => heap[y].kind # "service"
        BY <2>2, ChildFacts
      <4>2. QED
        BY <2>1, <3>2, <4>1 DEF Owned
    <3>6. QED
      BY <3>2, <3>4, <3>5
  <2>5. \A p \in Places : At(p) \in Allocated \ lost
    <3>1. \A x \in Objects : heap[x].kind # "free" => x \in Allocated
      BY DEF Allocated
    <3>2. \A i \in DOMAIN gattServices : heap[gattServices[i]].kind = "service"
      BY <2>1 DEF Owned
    <3>3. \A x \in lost : /\ heap[x].kind # "service" /\ ~IsChild(heap, x)
                          /\ x # Current("characteristic") /\ x # Current("descriptor")
      BY <2>1 DEF Owned
    <3>4. \A f \in Field : Current(f) # Null => Current(f) \notin lost
      BY <2>4, <3>3
    <3>5. \A i \in DOMAIN gattServices : gattServices[i] \notin lost
      BY <3>2, <3>3
    <3>6. \A x \in Objects : \A i \in DOMAIN heap[x].children : heap[x].children[i] \notin lost
      BY <2>3, <3>3
    <3>7. QED
      BY <1>1, <2>2, <2>3, <2>4, <3>1, <3>2, <3>4, <3>5, <3>6, PlaceKinds, PlaceContents
  <2>6. \A x \in Allocated \ lost : \E p \in Places : At(p) = x
    <3> TAKE x \in Allocated \ lost
    <3>1. x \in Objects /\ heap[x].kind \in Kinds \ {"free"}
      BY <2>2, ObjectFields DEF Allocated, Shape
    <3>2. \/ x \in Range(gattServices) \/ IsChild(heap, x)
          \/ \E f \in Field : Current(f) = x
      BY <2>1, <3>1 DEF Owned, Kinds
    <3>3. CASE x \in Range(gattServices)
      <4>1. PICK i \in DOMAIN gattServices : gattServices[i] = x
        BY <3>3 DEF Range
      <4>2. QED
        BY <1>1, <4>1, PlaceKinds, PlaceContents
    <3>4. CASE IsChild(heap, x)
      <4>1. PICK u \in Objects : \E i \in DOMAIN heap[u].children : heap[u].children[i] = x
        BY <3>4 DEF IsChild
      <4>2. PICK i \in DOMAIN heap[u].children : heap[u].children[i] = x
        BY <4>1
      <4>3. QED
        BY <1>1, <4>2, PlaceKinds, PlaceContents
    <3>5. CASE \E f \in Field : Current(f) = x
      <4>1. PICK f \in Field : Current(f) = x
        BY <3>5
      <4>2. Current(f) # Null
        BY <3>1, <4>1, NullFacts
      <4>3. <<"serviceBuilder", f>> \in Places /\ At(<<"serviceBuilder", f>>) = x
        BY <1>1, <4>1, <4>2, PlaceKinds, PlaceContents
      <4>4. QED
        BY <4>3
    <3>6. QED
      BY <3>2, <3>3, <3>4, <3>5
  <2>7. ASSUME NEW p \in Places, NEW q \in Places, At(p) = At(q) PROVE p = q
    <3> DEFINE InChildren(r) == \E x \in Objects : \E i \in DOMAIN heap[x].children : r = <<x, i>>
               InServices(r) == \E i \in DOMAIN gattServices : r = <<"gattServices", i>>
               InBuilder(r) == \E f \in Field : Current(f) # Null /\ r = <<"serviceBuilder", f>>
    <3>1. \A r \in Places : InChildren(r) \/ InServices(r) \/ InBuilder(r)
      BY <1>1, PlaceKinds
    <3>2. \A r : InChildren(r) =>
            IsChild(heap, At(r)) /\ heap[At(r)].kind \in {"characteristic", "descriptor"}
      BY <1>1, <2>3, PlaceContents
    <3>3. \A r : InServices(r) => At(r) \in Range(gattServices) /\ heap[At(r)].kind = "service"
      BY <1>1, <2>1, PlaceContents DEF Range, Owned
    <3>4. \A r : InBuilder(r) => At(r) \notin Range(gattServices) /\ ~IsChild(heap, At(r))
      BY <1>1, <2>4, PlaceContents
    <3>5. ASSUME InChildren(p), InChildren(q) PROVE p = q
      <4>1. PICK x \in Objects : \E i \in DOMAIN heap[x].children : p = <<x, i>>
        BY <3>5
      <4>2. PICK i \in DOMAIN heap[x].children : p = <<x, i>>
        BY <4>1
      <4>3. PICK y \in Objects : \E j \in DOMAIN heap[y].children : q = <<y, j>>
        BY <3>5
      <4>4. PICK j \in DOMAIN heap[y].children : q = <<y, j>>
        BY <4>3
      <4>5. heap[x].children[i] = heap[y].children[j]
        BY <1>1, <2>7, <4>2, <4>4, PlaceContents
      <4>6. x = y /\ i = j
        BY <2>2, <4>5 DEF Shape
      <4>7. QED
        BY <4>2, <4>4, <4>6
    <3>6. ASSUME InServices(p), InServices(q) PROVE p = q
      BY <1>1, <2>1, <2>7, <3>6, PlaceContents DEF Owned
    <3>7. ASSUME InBuilder(p), InBuilder(q) PROVE p = q
      <4>1. PICK f \in Field : Current(f) # Null /\ p = <<"serviceBuilder", f>>
        BY <3>7
      <4>2. PICK k \in Field : Current(k) # Null /\ q = <<"serviceBuilder", k>>
        BY <3>7
      <4>3. Current(f) = Current(k)
        BY <1>1, <2>7, <4>1, <4>2, PlaceContents
      <4>4. f = k
        BY <2>4, <4>1, <4>2, <4>3
      <4>5. QED
        BY <4>1, <4>2, <4>4
    <3> HIDE DEF InChildren, InServices, InBuilder
    <3>8. QED
      BY <2>7, <3>1, <3>2, <3>3, <3>4, <3>5, <3>6, <3>7
  <2>8. QED
    BY <2>5, <2>6, <2>7 DEF OneOwner
<1>2. QED
  BY <1>1, Invariance, PTL

-----------------------------------------------------------------------------
(***************************************************************************)
(* ServiceDeclaration implements GattDeclaration: what is pending in the   *)
(* builder, together with what its service has, is the declaration, unless *)
(* counts wrap.                                                            *)
(***************************************************************************)

(* The characteristic that is pending, and all that is declared.           *)
Pending(h, c, d) ==
    IF d = Null THEN Attributes(h, c)
    ELSE Declared!WithDescriptor(Attributes(h, c), Attribute(h, d))

InBuilder(h, s, c, d) ==
    IF c = Null THEN Content(h, s)
    ELSE Declared!WithCharacteristic(Content(h, s), Pending(h, c, d))

-----------------------------------------------------------------------------
(* Attributes and contents, element by element.                            *)
LEMMA AttributesFacts ==
    ASSUME NEW h, Shape(h), NEW c \in Objects
    PROVE  /\ Attribute(h, c) \in Lengths
           /\ Attributes(h, c) \in Seq(Lengths)
           /\ Len(Attributes(h, c)) = Len(h[c].children) + 1
           /\ Attributes(h, c)[1] = Attribute(h, c)
           /\ \A i \in 1..Len(h[c].children) :
                Attributes(h, c)[i + 1] = Attribute(h, h[c].children[i])
<1> DEFINE ch == h[c].children
           n == Len(ch)
           f == [i \in DOMAIN ch |-> Attribute(h, ch[i])]
           a == <<Attribute(h, c)>>
<1>1. \A x \in Objects : Attribute(h, x) \in Lengths
  BY ObjectFields DEF Shape, Attribute, Lengths
<1>2. DOMAIN ch = 1..n /\ n \in Nat /\ \A i \in DOMAIN ch : ch[i] \in Objects
  BY ObjectFields DEF Shape
<1>3. f \in Seq(Lengths) /\ Len(f) = n /\ \A i \in 1..n : f[i] = Attribute(h, ch[i])
  BY <1>1, <1>2
<1>4. a \in Seq(Lengths) /\ Len(a) = 1 /\ a[1] = Attribute(h, c)
  BY <1>1
<1>5. Attributes(h, c) = a \o f
  BY DEF Attributes
<1> HIDE DEF f, a, n
<1>6. /\ a \o f \in Seq(Lengths) /\ Len(a \o f) = 1 + n
      /\ \A i \in 1..(1 + n) : (a \o f)[i] = IF i <= 1 THEN a[i] ELSE f[i - 1]
  <2>1. /\ a \o f \in Seq(Lengths) /\ Len(a \o f) = Len(a) + Len(f)
        /\ \A i \in 1..Len(a) + Len(f) :
             (a \o f)[i] = IF i <= Len(a) THEN a[i] ELSE f[i - Len(a)]
    BY <1>3, <1>4, ConcatProperties
  <2>2. Len(a) = 1 /\ Len(f) = n
    BY <1>3, <1>4
  <2>3. QED
    BY <2>1, <2>2
<1>7. (a \o f)[1] = a[1]
  BY <1>2, <1>6
<1>8. \A i \in 1..n : i + 1 \in 1..(1 + n) /\ ~(i + 1 <= 1) /\ (i + 1) - 1 = i
  BY <1>2
<1>9. \A i \in 1..n : (a \o f)[i + 1] = f[i]
  BY <1>6, <1>8
<1>10. Len(a \o f) = n + 1
  BY <1>2, <1>6
<1>11. QED
  BY <1>1, <1>3, <1>4, <1>5, <1>6, <1>7, <1>9, <1>10 DEF n

(* The content of a service, characteristic by characteristic.             *)
LEMMA ContentFacts ==
    ASSUME NEW h, Shape(h), NEW s \in Objects
    PROVE  /\ Content(h, s) \in Seq(Seq(Lengths))
           /\ Len(Content(h, s)) = Len(h[s].children)
           /\ \A i \in 1..Len(h[s].children) :
                Content(h, s)[i] = Attributes(h, h[s].children[i])
<1> DEFINE ch == h[s].children
           n == Len(ch)
<1>1. DOMAIN ch = 1..n /\ n \in Nat /\ \A i \in DOMAIN ch : ch[i] \in Objects
  BY ObjectFields DEF Shape
<1>2. \A x \in Objects : Attributes(h, x) \in Seq(Lengths)
  BY AttributesFacts
<1>3. Content(h, s) = [i \in 1..n |-> Attributes(h, ch[i])]
  BY <1>1 DEF Content
<1> HIDE DEF n
<1>4. QED
  BY <1>1, <1>2, <1>3 DEF n

(* They depend on what the object has, and on nothing else.                *)
LEMMA AttributesUntouched ==
    ASSUME NEW h, NEW h2, Shape(h), Shape(h2), NEW c \in Objects,
           h2[c].children = h[c].children, Attribute(h2, c) = Attribute(h, c),
           \A x \in Objects : IsChild(h, x) => Attribute(h2, x) = Attribute(h, x)
    PROVE  Attributes(h2, c) = Attributes(h, c)
<1>1. \A i \in DOMAIN h[c].children : h[c].children[i] \in Objects /\ IsChild(h, h[c].children[i])
  BY ObjectFields DEF Shape, IsChild
<1>2. \A i \in DOMAIN h[c].children :
        Attribute(h2, h[c].children[i]) = Attribute(h, h[c].children[i])
  BY <1>1
<1>3. [i \in DOMAIN h2[c].children |-> Attribute(h2, h2[c].children[i])]
      = [i \in DOMAIN h[c].children |-> Attribute(h, h[c].children[i])]
  BY <1>2
<1>4. QED
  BY <1>3 DEF Attributes

(* The same for the content of a service.                                  *)
LEMMA ContentUntouched ==
    ASSUME NEW h, NEW h2, Shape(h), Shape(h2), NEW s \in Objects,
           h2[s].children = h[s].children,
           \A x \in Objects : IsChild(h, x) =>
               h2[x].children = h[x].children /\ Attribute(h2, x) = Attribute(h, x)
    PROVE  Content(h2, s) = Content(h, s)
<1>1. \A i \in DOMAIN h[s].children : h[s].children[i] \in Objects /\ IsChild(h, h[s].children[i])
  BY ObjectFields DEF Shape, IsChild
<1>2. \A x \in Objects : IsChild(h, x) => Attributes(h2, x) = Attributes(h, x)
  BY AttributesUntouched
<1>3. \A i \in DOMAIN h[s].children :
        Attributes(h2, h[s].children[i]) = Attributes(h, h[s].children[i])
  BY <1>1, <1>2
<1>4. [i \in DOMAIN h2[s].children |-> Attributes(h2, h2[s].children[i])]
      = [i \in DOMAIN h[s].children |-> Attributes(h, h[s].children[i])]
  BY <1>3
<1>5. QED
  BY <1>4 DEF Content

(* A descriptor is added to the attributes of its characteristic.          *)
LEMMA AttributesAppended ==
    ASSUME NEW h, Shape(h), NEW c \in Objects, NEW d \in Objects, ~IsChild(h, d), Fits(h, c, d),
           ~Full(h, c)
    PROVE  Attributes(AddChild(h, c, d), c) = Append(Attributes(h, c), Attribute(h, d))
<1> DEFINE h2 == AddChild(h, c, d)
           n == Len(h[c].children)
           A == Attributes(h, c)
           A2 == Attributes(h2, c)
           B == Append(A, Attribute(h, d))
<1>1. Shape(h2)
  BY AddChildShape
<1>2. \A x \in Objects : Attribute(h2, x) = Attribute(h, x)
  BY AddChildFacts DEF Attribute
<1>3. h2[c].children = Append(h[c].children, d)
  BY AddChildAppends
<1>4. h[c].children \in Seq(Objects) /\ n \in Nat /\ DOMAIN h[c].children = 1..n
      /\ \A i \in 1..n : h[c].children[i] \in Objects
  BY ObjectFields DEF Shape
<1>5. /\ Len(h2[c].children) = n + 1 /\ h2[c].children[n + 1] = d
      /\ \A i \in 1..n : h2[c].children[i] = h[c].children[i]
  BY <1>3, <1>4, AppendProperties
<1>6. /\ A \in Seq(Lengths) /\ Len(A) = n + 1 /\ A[1] = Attribute(h, c)
      /\ \A i \in 1..n : A[i + 1] = Attribute(h, h[c].children[i])
      /\ Attribute(h, d) \in Lengths
  BY AttributesFacts
<1>7. /\ A2 \in Seq(Lengths) /\ Len(A2) = Len(h2[c].children) + 1 /\ A2[1] = Attribute(h2, c)
      /\ \A i \in 1..Len(h2[c].children) : A2[i + 1] = Attribute(h2, h2[c].children[i])
  BY <1>1, AttributesFacts
<1>8. /\ B \in Seq(Lengths) /\ Len(B) = Len(A) + 1 /\ B[Len(A) + 1] = Attribute(h, d)
      /\ \A i \in 1..Len(A) : B[i] = A[i]
  BY <1>6, AppendProperties
<1> HIDE DEF h2, n, A, A2, B
<1>9. Len(A2) = n + 2 /\ Len(B) = n + 2
  BY <1>4, <1>5, <1>6, <1>7, <1>8
<1>10. A2[1] = B[1]
  BY <1>2, <1>4, <1>6, <1>7, <1>8
<1>11. ASSUME NEW i \in 1..n PROVE A2[i + 1] = B[i + 1]
  <2>1. i \in 1..(n + 1) /\ i + 1 \in 1..(n + 1)
    BY <1>4
  <2>2. A2[i + 1] = Attribute(h, h[c].children[i])
    BY <1>2, <1>4, <1>5, <1>7, <2>1
  <2>3. B[i + 1] = A[i + 1]
    BY <1>6, <1>8, <2>1
  <2>4. QED
    BY <1>6, <2>2, <2>3
<1>12. A2[n + 2] = B[n + 2]
  <2>1. n + 1 \in 1..(n + 1) /\ (n + 1) + 1 = n + 2
    BY <1>4
  <2>2. A2[(n + 1) + 1] = Attribute(h2, h2[c].children[n + 1])
    BY <1>5, <1>7, <2>1
  <2>3. B[(n + 1) + 1] = Attribute(h, d)
    BY <1>6, <1>8
  <2>4. QED
    BY <1>2, <1>5, <2>1, <2>2, <2>3
<1>13. \A j \in 1..(n + 2) : A2[j] = B[j]
  <2> TAKE j \in 1..(n + 2)
  <2>1. j = 1 \/ j = n + 2 \/ (j - 1 \in 1..n /\ (j - 1) + 1 = j)
    BY <1>4
  <2>2. QED
    BY <1>10, <1>11, <1>12, <2>1
<1>14. A2 = B
  BY <1>7, <1>8, <1>9, <1>13, SeqEqual
<1>15. QED
  BY <1>14 DEF A, A2, B, h2

(* Or they are the value alone again.                                      *)
LEMMA AttributesGiven ==
    ASSUME NEW h, Shape(h), NEW c \in Objects, NEW d \in Objects, ~IsChild(h, d), Fits(h, c, d)
    PROVE  Attributes(AddChild(h, c, d), c)
           = Declared!WithDescriptor(Attributes(h, c), Attribute(h, d))
<1> DEFINE A == Attributes(h, c)
           h2 == AddChild(h, c, d)
<1>1. Len(A) = Len(h[c].children) + 1 /\ A[1] = Attribute(h, c)
  BY AttributesFacts
<1>2. CASE ~Full(h, c)
  <2>1. Attributes(h2, c) = Append(A, Attribute(h, d))
    BY <1>2, AttributesAppended
  <2>2. Len(A) # CountLimit
    BY <1>1, <1>2 DEF Full
  <2> HIDE DEF A, h2
  <2>3. QED
    BY <2>1, <2>2 DEF Declared!WithDescriptor, A, h2
<1>3. CASE Full(h, c)
  <2>1. h2[c].children = <<>>
    BY <1>3, AddChildForgets
  <2>2. Attribute(h2, c) = Attribute(h, c)
    BY AddChildFacts DEF Attribute
  <2> HIDE DEF h2
  <2>3. Attributes(h2, c) = <<Attribute(h, c)>>
    BY <2>1, <2>2 DEF Attributes
  <2>4. Len(A) = CountLimit
    BY <1>1, <1>3 DEF Full
  <2> HIDE DEF A
  <2>5. QED
    BY <1>1, <2>3, <2>4 DEF Declared!WithDescriptor, A, h2
<1>4. QED
  BY <1>2, <1>3

(* A characteristic is added to the content of its service.                 *)
LEMMA ContentAppended ==
    ASSUME NEW h, Shape(h), NEW s \in Objects, NEW c \in Objects, ~IsChild(h, c), Fits(h, s, c),
           h[s].kind = "service", ~Full(h, s)
    PROVE  Content(AddChild(h, s, c), s) = Append(Content(h, s), Attributes(h, c))
<1> DEFINE h2 == AddChild(h, s, c)
           n == Len(h[s].children)
           C == Content(h, s)
           C2 == Content(h2, s)
           B == Append(C, Attributes(h, c))
<1>1. Shape(h2)
  BY AddChildShape
<1>2. \A x \in Objects : Attribute(h2, x) = Attribute(h, x)
  BY AddChildFacts DEF Attribute
<1>3. /\ h2[s].children = Append(h[s].children, c)
      /\ \A x \in Objects : x # s => h2[x].children = h[x].children
  BY AddChildAppends, AddChildFacts
<1>4. h[s].children \in Seq(Objects) /\ n \in Nat /\ DOMAIN h[s].children = 1..n
      /\ \A i \in 1..n : h[s].children[i] \in Objects
  BY ObjectFields DEF Shape
<1>5. \A i \in 1..n : h[s].children[i] # s
  BY <1>4 DEF Shape
<1>6. c # s
  BY DEF Fits
<1>7. \A x \in Objects : x # s => Attributes(h2, x) = Attributes(h, x)
  BY <1>1, <1>2, <1>3, AttributesUntouched
<1>8. /\ Len(h2[s].children) = n + 1 /\ h2[s].children[n + 1] = c
      /\ \A i \in 1..n : h2[s].children[i] = h[s].children[i]
  BY <1>3, <1>4, AppendProperties
<1>9. /\ C \in Seq(Seq(Lengths)) /\ Len(C) = n
      /\ \A i \in 1..n : C[i] = Attributes(h, h[s].children[i])
  BY ContentFacts
<1>10. /\ C2 \in Seq(Seq(Lengths)) /\ Len(C2) = Len(h2[s].children)
       /\ \A i \in 1..Len(h2[s].children) : C2[i] = Attributes(h2, h2[s].children[i])
  BY <1>1, ContentFacts
<1>11. Attributes(h, c) \in Seq(Lengths)
  BY AttributesFacts
<1>12. /\ B \in Seq(Seq(Lengths)) /\ Len(B) = Len(C) + 1 /\ B[Len(C) + 1] = Attributes(h, c)
       /\ \A i \in 1..Len(C) : B[i] = C[i]
  BY <1>9, <1>11, AppendProperties
<1> HIDE DEF h2, n, C, C2, B
<1>13. Len(C2) = n + 1 /\ Len(B) = n + 1
  BY <1>8, <1>9, <1>10, <1>12
<1>14. ASSUME NEW i \in 1..n PROVE C2[i] = B[i]
  <2>1. i \in 1..(n + 1)
    BY <1>4
  <2>2. C2[i] = Attributes(h2, h[s].children[i])
    BY <1>8, <1>10, <2>1
  <2>3. B[i] = Attributes(h, h[s].children[i])
    BY <1>9, <1>12
  <2>4. QED
    BY <1>4, <1>5, <1>7, <2>2, <2>3
<1>15. C2[n + 1] = B[n + 1]
  <2>1. n + 1 \in 1..(n + 1)
    BY <1>4
  <2>2. QED
    BY <1>6, <1>7, <1>8, <1>9, <1>10, <1>12, <2>1
<1>16. \A j \in 1..(n + 1) : C2[j] = B[j]
  <2> TAKE j \in 1..(n + 1)
  <2>1. j = n + 1 \/ j \in 1..n
    BY <1>4
  <2>2. QED
    BY <1>14, <1>15, <2>1
<1>17. C2 = B
  BY <1>10, <1>12, <1>13, <1>16, SeqEqual
<1>18. QED
  BY <1>17 DEF B, C, C2, h2

(* Or there is none again.                                                 *)
LEMMA ContentGiven ==
    ASSUME NEW h, Shape(h), NEW s \in Objects, NEW c \in Objects, ~IsChild(h, c), Fits(h, s, c),
           h[s].kind = "service"
    PROVE  Content(AddChild(h, s, c), s)
           = Declared!WithCharacteristic(Content(h, s), Attributes(h, c))
<1> DEFINE C == Content(h, s)
           h2 == AddChild(h, s, c)
<1>1. Len(C) = Len(h[s].children)
  BY ContentFacts
<1>2. CASE ~Full(h, s)
  <2>1. Content(h2, s) = Append(C, Attributes(h, c))
    BY <1>2, ContentAppended
  <2>2. Len(C) + 1 # CountLimit
    BY <1>1, <1>2 DEF Full
  <2> HIDE DEF C, h2
  <2>3. QED
    BY <2>1, <2>2 DEF Declared!WithCharacteristic, C, h2
<1>3. CASE Full(h, s)
  <2>1. h2[s].children = <<>>
    BY <1>3, AddChildForgets
  <2> HIDE DEF h2
  <2>2. Content(h2, s) = <<>>
    BY <2>1 DEF Content
  <2>3. Len(C) + 1 = CountLimit
    BY <1>1, <1>3 DEF Full
  <2> HIDE DEF C
  <2>4. QED
    BY <2>2, <2>3 DEF Declared!WithCharacteristic, C, h2
<1>4. QED
  BY <1>2, <1>3

(* commit(): all that is declared becomes the content of the service.      *)
LEMMA CommittedContent ==
    ASSUME NEW h, NEW b, NEW g, NEW l, b # Null, b.service # Null,
           Owned(h, b.service, b.characteristic, b.descriptor, g, l)
    PROVE  Content(Committed(h, b), b.service)
           = InBuilder(h, b.service, b.characteristic, b.descriptor)
<1> DEFINE s == b.service
           c == b.characteristic
           d == b.descriptor
           given == AddChild(h, c, d)
<1>1. CASE c = Null
  BY <1>1 DEF Committed, InBuilder
<1>2. CASE c # Null /\ d = Null
  <2>1. /\ s \in Objects /\ c \in Objects /\ Shape(h) /\ ~IsChild(h, c) /\ Fits(h, s, c)
        /\ h[s].kind = "service"
    BY <1>2 DEF Owned, Pointer, Fits
  <2>2. QED
    BY <1>2, <2>1, ContentGiven DEF Committed, InBuilder, Pending
<1>3. CASE c # Null /\ d # Null
  <2>1. /\ s \in Objects /\ c \in Objects /\ d \in Objects /\ Shape(h)
        /\ ~IsChild(h, c) /\ ~IsChild(h, d) /\ Fits(h, c, d) /\ s # c
    BY <1>3 DEF Owned, Pointer, Fits
  <2>2. Owned(given, s, c, Null, g, l \union Forgets(h, c, d))
    BY <1>3, DescriptorGiven
  <2>3. /\ Shape(given) /\ ~IsChild(given, c) /\ Fits(given, s, c)
        /\ given[s].kind = "service"
    BY <1>3, <2>2 DEF Owned, Fits
  <2>4. Content(AddChild(given, s, c), s) 
             = Declared!WithCharacteristic(Content(given, s), Attributes(given, c))
    BY <2>1, <2>3, ContentGiven
  <2>5. Attributes(given, c) = Pending(h, c, d)
    BY <1>3, <2>1, AttributesGiven DEF Pending
  <2>6. Content(given, s) = Content(h, s)
    <3>1. \A x \in Objects : /\ x # c => given[x].children = h[x].children
                             /\ Attribute(given, x) = Attribute(h, x)
      BY <2>1, AddChildFacts DEF Attribute
    <3> HIDE DEF given
    <3>2. QED
      BY <2>1, <2>3, <3>1, ContentUntouched
  <2>7. QED
    BY <1>3, <2>4, <2>5, <2>6 DEF Committed, InBuilder
<1>4. QED
  BY <1>1, <1>2, <1>3

(* The sequence p has the pending attributes: those of the characteristic, *)
(* of its descriptors and of the pending one.                              *)
HasPending(p, h, c, d) ==
    /\ p \in Seq(Lengths) /\ Len(p) \in Nat \ {0}
    /\ p[1] = Attribute(h, c)
    /\ d # Null => p[Len(p)] = Attribute(h, d)
    /\ Len(p) = IF d = Null THEN Len(h[c].children) + 1 ELSE Len(h[c].children) + 2
    /\ \A i \in 1..Len(h[c].children) : p[i + 1] = Attribute(h, h[c].children[i])

(* The pending attributes, one by one, while there is room.                *)
LEMMA PendingFacts ==
    ASSUME NEW h, Shape(h), NEW c \in Objects, NEW d \in Pointer, d = Null \/ ~Full(h, c)
    PROVE  HasPending(Pending(h, c, d), h, c, d)
<1> DEFINE n == Len(h[c].children)
           A == Attributes(h, c)
<1>1. /\ A \in Seq(Lengths) /\ Len(A) = n + 1 /\ A[1] = Attribute(h, c)
      /\ \A i \in 1..n : A[i + 1] = Attribute(h, h[c].children[i])
  BY AttributesFacts
<1>2. n \in Nat
  BY ObjectFields DEF Shape
<1> HIDE DEF A, n
<1>3. CASE d = Null
  <2>1. Pending(h, c, d) = A
    BY <1>3 DEF Pending, A
  <2>2. HasPending(A, h, c, d)
    BY <1>1, <1>2, <1>3 DEF HasPending, n
  <2>3. QED
    BY <2>1, <2>2
<1>4. CASE d # Null
  <2> DEFINE B == Append(A, Attribute(h, d))
  <2>0. Len(A) # CountLimit
    BY <1>1, <1>4 DEF Full, n
  <2>1. d \in Objects /\ Pending(h, c, d) = B
    BY <1>4, <2>0 DEF Pending, Pointer, A, Declared!WithDescriptor
  <2>2. Attribute(h, d) \in Lengths
    BY <2>1, AttributesFacts
  <2>3. /\ B \in Seq(Lengths) /\ Len(B) = Len(A) + 1 /\ B[Len(A) + 1] = Attribute(h, d)
        /\ \A i \in 1..Len(A) : B[i] = A[i]
    BY <1>1, <2>2, AppendProperties
  <2> HIDE DEF B
  <2>4. Len(B) = n + 2 /\ B[Len(B)] = Attribute(h, d)
    BY <1>1, <1>2, <2>3
  <2>5. 1 \in 1..(n + 1) /\ \A i \in 1..n : i + 1 \in 1..(n + 1)
    BY <1>2
  <2>6. B[1] = Attribute(h, c) /\ \A i \in 1..n : B[i + 1] = Attribute(h, h[c].children[i])
    BY <1>1, <2>3, <2>5
  <2>7. n + 2 \in Nat \ {0}
    BY <1>2
  <2>8. HasPending(B, h, c, d)
    BY <1>4, <2>3, <2>4, <2>6, <2>7 DEF HasPending, n
  <2>9. QED
    BY <2>1, <2>8
<1>5. QED
  BY <1>3, <1>4

(* When there is none, the value is all that is pending.                   *)
LEMMA PendingForgotten ==
    ASSUME NEW h, Shape(h), NEW c \in Objects, NEW d \in Pointer, d # Null, Full(h, c)
    PROVE  Pending(h, c, d) = <<Attribute(h, c)>>
<1>1. Len(Attributes(h, c)) = CountLimit /\ Attributes(h, c)[1] = Attribute(h, c)
  BY AttributesFacts DEF Full
<1>2. QED
  BY <1>1 DEF Pending, Declared!WithDescriptor

(* Attributes in either case.                                              *)
LEMMA PendingType ==
    ASSUME NEW h, Shape(h), NEW c \in Objects, NEW d \in Pointer
    PROVE  Pending(h, c, d) \in Seq(Lengths)
<1>1. CASE d = Null \/ ~Full(h, c)
  BY <1>1, PendingFacts DEF HasPending
<1>2. CASE d # Null /\ Full(h, c)
  <2>1. Attribute(h, c) \in Lengths
    BY AttributesFacts
  <2>2. <<Attribute(h, c)>> \in Seq(Lengths)
    BY <2>1
  <2>3. QED
    BY <1>2, <2>2, PendingForgotten
<1>3. QED
  BY <1>1, <1>2

(* The attribute that a command sets is the first or the last of the       *)
(* pending ones.                                                           *)
LEMMA PendingChanged ==
    ASSUME NEW h, NEW h2, Shape(h), Shape(h2), NEW c \in Objects, NEW d \in Pointer, d # c,
           d = Null \/ ~Full(h, c), NEW x \in {c, d}, x # Null, ~IsChild(h, x), h2[c].children = h[c].children,
           \A z \in Objects : z # x => Attribute(h2, z) = Attribute(h, z)
    PROVE  LET i == IF x = c THEN 1 ELSE Len(Pending(h, c, d))
           IN  /\ i \in 1..Len(Pending(h, c, d))
               /\ Pending(h, c, d)[i] = Attribute(h, x)
               /\ Pending(h2, c, d) = [Pending(h, c, d) EXCEPT ![i] = Attribute(h2, x)]
<1> DEFINE n == Len(h[c].children)
           P == Pending(h, c, d)
           P2 == Pending(h2, c, d)
           i == IF x = c THEN 1 ELSE Len(P)
           Q == [P EXCEPT ![i] = Attribute(h2, x)]
<1>1. /\ P \in Seq(Lengths) /\ Len(P) \in Nat \ {0} /\ P[1] = Attribute(h, c)
      /\ d # Null => P[Len(P)] = Attribute(h, d)
      /\ Len(P) = IF d = Null THEN n + 1 ELSE n + 2
      /\ \A k \in 1..n : P[k + 1] = Attribute(h, h[c].children[k])
  <2>1. HasPending(P, h, c, d)
    BY PendingFacts
  <2> HIDE DEF P
  <2>2. QED
    BY <2>1 DEF HasPending
<1>0. d = Null \/ ~Full(h2, c)
  BY DEF Full
<1>2. /\ P2 \in Seq(Lengths) /\ P2[1] = Attribute(h2, c)
      /\ d # Null => P2[Len(P2)] = Attribute(h2, d)
      /\ Len(P2) = IF d = Null THEN n + 1 ELSE n + 2
      /\ \A k \in 1..n : P2[k + 1] = Attribute(h2, h[c].children[k])
  <2>1. HasPending(P2, h2, c, d)
    BY <1>0, PendingFacts
  <2> HIDE DEF P2
  <2>2. QED
    BY <2>1 DEF HasPending
<1>3. /\ n \in Nat /\ DOMAIN h[c].children = 1..n
      /\ \A k \in 1..n : h[c].children[k] \in Objects /\ IsChild(h, h[c].children[k])
  BY ObjectFields DEF Shape, IsChild
<1>4. \A k \in 1..n : Attribute(h2, h[c].children[k]) = Attribute(h, h[c].children[k])
  BY <1>3
<1>5. x \in Objects
  BY DEF Pointer
<1>6. Attribute(h2, x) \in Lengths
  BY <1>5, AttributesFacts
<1> HIDE DEF n, P, P2
<1>7. i \in 1..Len(P) /\ P[i] = Attribute(h, x)
  BY <1>1
<1>8. /\ Q \in Seq(Lengths) /\ Len(Q) = Len(P)
      /\ \A j \in 1..Len(P) : Q[j] = IF j = i THEN Attribute(h2, x) ELSE P[j]
  BY <1>1, <1>6, <1>7, ExceptSeq
<1> HIDE DEF Q
<1>9. Len(P2) = Len(Q)
  BY <1>1, <1>2, <1>8
<1>10. CASE x = c
  <2>1. i = 1 /\ 1 \in 1..Len(P)
    BY <1>1, <1>10
  <2>2. P2[1] = Q[1]
    BY <1>2, <1>8, <1>10, <2>1
  <2>3. ASSUME NEW k \in 1..n PROVE P2[k + 1] = Q[k + 1]
    <3>1. k + 1 \in 1..Len(P) /\ k + 1 # 1
      BY <1>1, <1>3
    <3>2. QED
      BY <1>1, <1>2, <1>4, <1>8, <2>1, <3>1
  <2>4. d # Null => P2[n + 2] = Q[n + 2]
    <3>1. SUFFICES ASSUME d # Null PROVE P2[n + 2] = Q[n + 2]
      OBVIOUS
    <3>2. Len(P) = n + 2 /\ Len(P2) = n + 2 /\ n + 2 \in 1..Len(P) /\ n + 2 # 1
      BY <1>1, <1>2, <1>3, <3>1
    <3>3. d \in Objects
      BY <3>1 DEF Pointer
    <3>4. Attribute(h2, d) = Attribute(h, d)
      BY <1>10, <3>3
    <3>5. Q[n + 2] = P[n + 2]
      BY <1>8, <2>1, <3>2
    <3>6. QED
      BY <1>1, <1>2, <3>1, <3>2, <3>4, <3>5
  <2>5. \A j \in 1..Len(P) : j = 1 \/ (j - 1 \in 1..n /\ (j - 1) + 1 = j)
                             \/ (d # Null /\ j = n + 2)
    BY <1>1, <1>3
  <2>6. \A j \in 1..Len(P) : P2[j] = Q[j]
    BY <2>2, <2>3, <2>4, <2>5
  <2>7. QED
    BY <1>2, <1>7, <1>8, <1>9, <2>6, SeqEqual DEF P, P2, Q
<1>11. CASE x # c
  <2>1. x = d /\ d # Null /\ i = n + 2 /\ Len(P) = n + 2 /\ Len(P2) = n + 2
    BY <1>1, <1>2, <1>11
  <2>2. n + 2 \in 1..Len(P) /\ 1 \in 1..Len(P) /\ n + 2 # 1
    BY <1>3, <2>1
  <2>3. P2[1] = Q[1]
    <3>1. Attribute(h2, c) = Attribute(h, c)
      BY <1>11
    <3>2. Q[1] = P[1]
      BY <1>8, <2>1, <2>2
    <3>3. QED
      BY <1>1, <1>2, <3>1, <3>2
  <2>4. ASSUME NEW k \in 1..n PROVE P2[k + 1] = Q[k + 1]
    <3>1. k + 1 \in 1..Len(P) /\ k + 1 # n + 2
      BY <1>3, <2>1
    <3>2. QED
      BY <1>1, <1>2, <1>4, <1>8, <2>1, <3>1
  <2>5. P2[n + 2] = Q[n + 2]
    BY <1>2, <1>8, <2>1, <2>2
  <2>6. \A j \in 1..Len(P) : j = 1 \/ (j - 1 \in 1..n /\ (j - 1) + 1 = j) \/ j = n + 2
    BY <1>3, <2>1
  <2>7. \A j \in 1..Len(P) : P2[j] = Q[j]
    BY <2>3, <2>4, <2>5, <2>6
  <2>8. QED
    BY <1>2, <1>7, <1>8, <1>9, <2>7, SeqEqual DEF P, P2, Q
<1>12. QED
  BY <1>10, <1>11

-----------------------------------------------------------------------------
(* The declaration, before and after a step.                               *)
LEMMA DeclarationValue ==
    ASSUME Inv
    PROVE  /\ Building => /\ serviceBuilder \in Builder
                          /\ Owned(heap, serviceBuilder.service, serviceBuilder.characteristic,
                                   serviceBuilder.descriptor, gattServices, lost)
                          /\ serviceBuilder.service \in Objects
                          /\ Declaration = InBuilder(heap, serviceBuilder.service,
                                 serviceBuilder.characteristic, serviceBuilder.descriptor)
           /\ ~Building => Declaration = <<>>
<1>1. CASE Building
  BY <1>1, BuilderFacts, CommittedContent DEF Declaration, Building
<1>2. CASE ~Building
  BY <1>2 DEF Declaration
<1>3. QED
  BY <1>1, <1>2

(* The same of the state after a step.                                     *)
LEMMA NextDeclarationValue ==
    ASSUME Inv'
    PROVE  /\ Building' => /\ serviceBuilder' \in Builder
                           /\ Owned(heap', serviceBuilder'.service, serviceBuilder'.characteristic,
                                    serviceBuilder'.descriptor, gattServices', lost')
                           /\ serviceBuilder'.service \in Objects
                           /\ Declaration' = InBuilder(heap', serviceBuilder'.service,
                                  serviceBuilder'.characteristic, serviceBuilder'.descriptor)
           /\ ~Building' => Declaration' = <<>>
<1>1. CASE Building'
  <2>1. serviceBuilder' \in Builder /\ serviceBuilder' # Null
    BY <1>1 DEF Inv, Building
  <2>2. /\ Current("service")' = serviceBuilder'.service
        /\ Current("characteristic")' = serviceBuilder'.characteristic
        /\ Current("descriptor")' = serviceBuilder'.descriptor
    BY <1>1 DEF Current
  <2>3. serviceBuilder'.service \in Objects /\ serviceBuilder'.service # Null
    BY <2>1, NullFacts DEF Builder
  <2>4. Owned(heap', serviceBuilder'.service, serviceBuilder'.characteristic,
              serviceBuilder'.descriptor, gattServices', lost')
    BY <2>2 DEF Inv
  <2>5. Declaration' = Content(Committed(heap', serviceBuilder'), serviceBuilder'.service)
    BY <1>1 DEF Declaration
  <2>6. Content(Committed(heap', serviceBuilder'), serviceBuilder'.service)
        = InBuilder(heap', serviceBuilder'.service, serviceBuilder'.characteristic,
                    serviceBuilder'.descriptor)
    BY <2>1, <2>3, <2>4, CommittedContent
  <2>7. QED
    BY <1>1, <2>1, <2>3, <2>4, <2>5, <2>6
<1>2. CASE ~Building'
  BY <1>2 DEF Declaration
<1>3. QED
  BY <1>1, <1>2

(* The last element of a sequence, replaced.                               *)
LEMMA LastReplaced ==
    ASSUME NEW S, NEW q \in Seq(S), NEW e \in S
    PROVE  /\ Append(q, e) # <<>> /\ Last(Append(q, e)) = e
           /\ Append(q, e) \in Seq(S)
           /\ Append(q, e)[Len(Append(q, e))] = e
           /\ \A e2 \in S : [Append(q, e) EXCEPT ![Len(Append(q, e))] = e2] = Append(q, e2)
<1> DEFINE D == Append(q, e)
           n == Len(q)
<1>1. /\ D \in Seq(S) /\ D # <<>> /\ Len(D) = n + 1 /\ D[n + 1] = e
      /\ \A i \in 1..n : D[i] = q[i]
  BY AppendProperties
<1>2. n \in Nat
  BY LenProperties
<1>3. ASSUME NEW e2 \in S PROVE [D EXCEPT ![Len(D)] = e2] = Append(q, e2)
  <2> DEFINE X == [D EXCEPT ![Len(D)] = e2]
             Y == Append(q, e2)
  <2>1. /\ Y \in Seq(S) /\ Len(Y) = n + 1 /\ Y[n + 1] = e2
        /\ \A i \in 1..n : Y[i] = q[i]
    BY AppendProperties
  <2> HIDE DEF D, n, Y
  <2>2. Len(D) \in 1..Len(D)
    BY <1>1, <1>2
  <2>3. /\ X \in Seq(S) /\ Len(X) = Len(D)
        /\ \A j \in 1..Len(D) : X[j] = IF j = Len(D) THEN e2 ELSE D[j]
    BY <1>1, <2>2, ExceptSeq
  <2> HIDE DEF X
  <2>4. \A j \in 1..(n + 1) : j = n + 1 \/ (j \in 1..n /\ j # n + 1)
    BY <1>2
  <2>5. \A j \in 1..(n + 1) : X[j] = Y[j]
    BY <1>1, <2>1, <2>3, <2>4
  <2>6. X = Y
    BY <1>1, <2>1, <2>3, <2>5, SeqEqual
  <2>7. QED
    BY <2>6 DEF X, Y
<1>4. D[Len(D)] = e
  BY <1>1
<1>5. QED
  BY <1>1, <1>3, <1>4 DEF Last

Server == [i \in DOMAIN registered |-> registered[i].content]

-----------------------------------------------------------------------------
(* Each step is one of the declaration.                                    *)
LEMMA DeclareServiceStep ==
    Inv /\ Inv' /\ DeclareService => Declared!DeclareService
<1> SUFFICES ASSUME Inv, Inv', DeclareService PROVE Declared!DeclareService
  OBVIOUS
<1>1. PICK x \in Objects \ Allocated :
        /\ heap' = [heap EXCEPT ![x] = New("service")]
        /\ serviceBuilder' = [service |-> x, characteristic |-> Null, descriptor |-> Null]
  BY DEF DeclareService
<1>2. ~Building /\ registered' = registered /\ heap \in [Objects -> Object]
  BY CurrentObjects DEF DeclareService
<1>3. serviceBuilder' \in Builder /\ Building'
  BY <1>1, BuilderIsNotNull DEF Builder, Pointer, Building
<1>4. Declaration' = Content(heap', x)
  BY <1>1, <1>3, NextDeclarationValue DEF InBuilder
<1>5. heap'[x].children = <<>>
  BY <1>1, <1>2 DEF New
<1>6. Declaration' = <<>>
  BY <1>4, <1>5 DEF Content
<1>7. Declaration = <<>>
  BY <1>2, DeclarationValue
<1>8. QED
  BY <1>2, <1>3, <1>6, <1>7 DEF Declared!DeclareService

(* What is allocated has an empty attribute.                               *)
LEMMA FreshAttributes ==
    ASSUME NEW h, h \in [Objects -> Object], NEW x \in Objects, NEW k
    PROVE  /\ Attribute(Fresh(h, x, k), x) = Declared!NewAttribute
           /\ Attributes(Fresh(h, x, k), x) = <<Declared!NewAttribute>>
           /\ \A z \in Objects : z # x => /\ Fresh(h, x, k)[z] = h[z]
                                         /\ Attribute(Fresh(h, x, k), z) = Attribute(h, z)
<1>1. Fresh(h, x, k)[x] = New(k) /\ \A z \in Objects : z # x => Fresh(h, x, k)[z] = h[z]
  BY DEF Fresh
<1>2. New(k).children = <<>> /\ New(k).len = 0 /\ New(k).max = 0
  BY DEF New
<1>3. Attribute(Fresh(h, x, k), x) = Declared!NewAttribute
  BY <1>1, <1>2 DEF Attribute, Declared!NewAttribute
<1>4. Attributes(Fresh(h, x, k), x) = <<Declared!NewAttribute>>
  BY <1>1, <1>2, <1>3 DEF Attributes
<1>5. QED
  BY <1>1, <1>3, <1>4 DEF Attribute

(* What was pending is now in the service: only the new one is added.      *)
LEMMA DeclareCharacteristicStep ==
    Inv /\ Inv' /\ DeclareCharacteristic => Declared!DeclareCharacteristic
<1> SUFFICES ASSUME Inv, Inv', DeclareCharacteristic PROVE Declared!DeclareCharacteristic
  OBVIOUS
<1>1. PICK x \in Objects \ Allocated :
        /\ heap' = [Committed(heap, serviceBuilder) EXCEPT ![x] = New("characteristic")]
        /\ serviceBuilder' = [serviceBuilder EXCEPT !.characteristic = x, !.descriptor = Null]
  BY Zenon DEF DeclareCharacteristic
<1> DEFINE b == serviceBuilder
           s == serviceBuilder.service
           h == Committed(heap, b)
<1>2. Building /\ b # Null /\ registered' = registered
  BY DEF DeclareCharacteristic, Building
<1>3. /\ b \in Builder /\ s \in Objects /\ s # Null
      /\ Owned(heap, s, b.characteristic, b.descriptor, gattServices, lost)
  BY <1>2, BuilderFacts
<1>4. x \in Objects /\ heap[x].kind = "free" /\ x # Null
  BY <1>1, NullFacts DEF Allocated
<1>5. h[x].kind = "free" /\ Owned(h, s, Null, Null, gattServices, lost \union CommitForgets(heap, b))
  BY <1>2, <1>3, <1>4, CommittedKinds, CommittedOwned
<1>6. Declaration = Content(h, s)
  BY <1>2 DEF Declaration
<1>7. heap' = Fresh(h, x, "characteristic")
  BY <1>1 DEF Fresh
<1> HIDE DEF h
<1>8. /\ serviceBuilder' \in Builder /\ serviceBuilder'.service = s
      /\ serviceBuilder'.characteristic = x /\ serviceBuilder'.descriptor = Null
  BY <1>1, <1>3, <1>4 DEF Builder, Pointer
<1>9. Building'
  BY <1>8, BuilderIsNotNull DEF Building
<1>10. /\ Declaration' = Declared!WithCharacteristic(Content(heap', s), Attributes(heap', x))
       /\ Shape(heap')
  BY <1>4, <1>8, <1>9, NextDeclarationValue DEF InBuilder, Pending, Owned
<1>11. Shape(h) /\ h \in [Objects -> Object] /\ ~IsChild(h, x) /\ s # x
  BY <1>3, <1>5, ChildFacts DEF Owned, Shape
<1>12. /\ Attributes(heap', x) = <<Declared!NewAttribute>>
       /\ \A z \in Objects : z # x => heap'[z] = h[z] /\ Attribute(heap', z) = Attribute(h, z)
  BY <1>4, <1>7, <1>11, FreshAttributes
<1>13. Content(heap', s) = Content(h, s)
  BY <1>3, <1>10, <1>11, <1>12, ContentUntouched
<1>14. QED
  BY <1>2, <1>6, <1>9, <1>10, <1>12, <1>13 DEF Declared!DeclareCharacteristic

(* Steps that change nothing of it.                                        *)
SameDeclaration == Building' = Building /\ Declaration' = Declaration /\ registered' = registered

(* The last characteristic gets one more attribute, if the service still   *)
(* counts it.                                                              *)
LEMMA DeclareDescriptorStep ==
    Inv /\ Inv' /\ DeclareDescriptor => Declared!DeclareDescriptor \/ SameDeclaration
<1> SUFFICES ASSUME Inv, Inv', DeclareDescriptor
             PROVE  Declared!DeclareDescriptor \/ SameDeclaration
  OBVIOUS
<1> DEFINE b == serviceBuilder
           s == serviceBuilder.service
           c == serviceBuilder.characteristic
           d == serviceBuilder.descriptor
           h == IF d = Null THEN heap ELSE AddChild(heap, c, d)
<1>1. PICK x \in Objects \ Allocated :
        /\ heap' = [h EXCEPT ![x] = New("descriptor")]
        /\ serviceBuilder' = [b EXCEPT !.descriptor = x]
  BY DEF DeclareDescriptor
<1>2. Building /\ b # Null /\ c # Null /\ registered' = registered
  BY DEF DeclareDescriptor, Building
<1>3. /\ b \in Builder /\ s \in Objects
      /\ Owned(heap, s, c, d, gattServices, lost)
      /\ Declaration = InBuilder(heap, s, c, d)
  BY <1>2, DeclarationValue
<1>4. x \in Objects /\ heap[x].kind = "free" /\ x # Null
  BY <1>1, NullFacts DEF Allocated
<1>5. c \in Objects /\ d \in Pointer /\ Shape(heap) /\ ~IsChild(heap, c) /\ s # c
  BY <1>2, <1>3 DEF Owned, Pointer
<1>6. /\ Shape(h) /\ h[x].kind = "free" /\ ~IsChild(h, c) /\ h[s].kind = "service"
      /\ h[c].kind = "characteristic"
      /\ Attributes(h, c) = Pending(heap, c, d)
      /\ Content(h, s) = Content(heap, s)
  <2>1. CASE d = Null
    BY <1>2, <1>3, <1>4, <1>5, <2>1 DEF Pending, Owned
  <2>2. CASE d # Null
    <3>1. d \in Objects /\ ~IsChild(heap, d) /\ Fits(heap, c, d)
      BY <1>2, <1>3, <2>2 DEF Owned, Pointer, Fits
    <3>2. h = AddChild(heap, c, d)
      BY <2>2
    <3>3. Owned(h, s, c, Null, gattServices, lost \union Forgets(heap, c, d))
      BY <1>3, <2>2, <3>2, DescriptorGiven
    <3>4. /\ \A z \in Objects : /\ h[z].kind = heap[z].kind
                                /\ z # c => h[z].children = heap[z].children
                                /\ Attribute(h, z) = Attribute(heap, z)
      BY <1>5, <3>1, <3>2, AddChildFacts DEF Attribute
    <3>5. Attributes(h, c) = Pending(heap, c, d)
      BY <1>5, <2>2, <3>1, <3>2, AttributesGiven DEF Pending
    <3> HIDE DEF h
    <3>6. Shape(h) /\ ~IsChild(h, c) /\ h[s].kind = "service" /\ h[c].kind = "characteristic"
      BY <1>2, <3>3, NullFacts, <1>3 DEF Owned
    <3>7. Content(h, s) = Content(heap, s)
      BY <1>3, <1>5, <3>4, <3>6, ContentUntouched
    <3>8. QED
      BY <1>4, <3>4, <3>5, <3>6, <3>7
  <2>3. QED
    BY <2>1, <2>2
<1> HIDE DEF h
<1>7. heap' = Fresh(h, x, "descriptor")
  BY <1>1 DEF Fresh
<1>8. /\ serviceBuilder' \in Builder /\ serviceBuilder'.service = s
      /\ serviceBuilder'.characteristic = c /\ serviceBuilder'.descriptor = x
  BY <1>1, <1>3, <1>4 DEF Builder, Pointer
<1>9. Building'
  BY <1>8, BuilderIsNotNull DEF Building
<1>10. /\ Declaration' = Declared!WithCharacteristic(Content(heap', s),
                            Declared!WithDescriptor(Attributes(heap', c), Attribute(heap', x)))
       /\ Shape(heap')
  BY <1>2, <1>4, <1>8, <1>9, NextDeclarationValue DEF InBuilder, Pending, Owned
<1>11. h \in [Objects -> Object] /\ ~IsChild(h, x) /\ s # x /\ c # x
  BY <1>6, ChildFacts DEF Shape
<1>12. /\ Attribute(heap', x) = Declared!NewAttribute
       /\ \A z \in Objects : z # x => heap'[z] = h[z] /\ Attribute(heap', z) = Attribute(h, z)
  BY <1>4, <1>7, <1>11, FreshAttributes
<1>13. Content(heap', s) = Content(heap, s)
  BY <1>3, <1>6, <1>10, <1>11, <1>12, ContentUntouched
<1>14. Attributes(heap', c) = Pending(heap, c, d)
  BY <1>5, <1>6, <1>10, <1>11, <1>12, AttributesUntouched
<1> DEFINE q == Content(heap, s)
           e == Pending(heap, c, d)
           e2 == Declared!WithDescriptor(e, Declared!NewAttribute)
<1>15. /\ Declaration = Declared!WithCharacteristic(q, e)
       /\ Declaration' = Declared!WithCharacteristic(q, e2)
  BY <1>2, <1>3, <1>10, <1>12, <1>13, <1>14 DEF InBuilder
<1>16. q \in Seq(Seq(Lengths)) /\ e \in Seq(Lengths) /\ Len(e) \in Nat \ {0}
  <2>1. e = Attributes(h, c)
    BY <1>6
  <2>2. Len(Attributes(h, c)) = Len(h[c].children) + 1
    BY <1>5, <1>6, AttributesFacts
  <2>3. Len(h[c].children) \in Nat
    BY <1>5, <1>11, ObjectFields
  <2>4. Len(e) \in Nat \ {0}
    BY <2>1, <2>2, <2>3
  <2>5. QED
    BY <1>3, <1>5, <2>4, ContentFacts, PendingType
<1>17. e2 \in Seq(Lengths)
  <2>1. Declared!NewAttribute \in Lengths
    BY DeclarationAssumption DEF Declared!NewAttribute, Lengths
  <2>2. Append(e, Declared!NewAttribute) \in Seq(Lengths)
    BY <1>16, <2>1, AppendProperties
  <2>3. e[1] \in Lengths
    BY <1>16, LenProperties, ElementOfSeq
  <2>4. <<e[1]>> \in Seq(Lengths)
    BY <2>3
  <2>5. QED
    BY <2>2, <2>4 DEF Declared!WithDescriptor
<1> HIDE DEF q, e, e2
<1>18. CASE Len(q) + 1 = CountLimit
  <2>1. Declaration = <<>> /\ Declaration' = <<>>
    BY <1>15, <1>18 DEF Declared!WithCharacteristic
  <2>2. QED
    BY <1>2, <1>9, <2>1 DEF SameDeclaration
<1>19. CASE Len(q) + 1 # CountLimit
  <2>1. Declaration = Append(q, e) /\ Declaration' = Append(q, e2)
    BY <1>15, <1>19 DEF Declared!WithCharacteristic
  <2>2. /\ Declaration # <<>> /\ Declaration[Len(Declaration)] = e
        /\ [Declaration EXCEPT ![Len(Declaration)] = e2] = Declaration'
    BY <1>16, <1>17, <2>1, LastReplaced
  <2>3. Declaration' = [Declaration EXCEPT ![Len(Declaration)] =
                            Declared!WithDescriptor(@, Declared!NewAttribute)]
    BY <2>2 DEF e2
  <2>4. QED
    BY <1>2, <1>9, <2>2, <2>3 DEF Declared!DeclareDescriptor
<1>20. QED
  BY <1>18, <1>19

(* Between h and h2 only the lengths of x change, x being c or d.          *)
SameBut(h, h2, x) ==
    /\ \A z \in Objects : h2[z].children = h[z].children
    /\ \A z \in Objects : z # x => Attribute(h2, z) = Attribute(h, z)

OneChanged(h, h2, s, c, d, x) ==
    /\ Content(h2, s) = Content(h, s)
    /\ \/ Pending(h2, c, d) = Pending(h, c, d)
       \/ \E i \in {1, Len(Pending(h, c, d))} :
            /\ i \in 1..Len(Pending(h, c, d))
            /\ Pending(h, c, d)[i] = Attribute(h, x)
            /\ Pending(h2, c, d) = [Pending(h, c, d) EXCEPT ![i] = Attribute(h2, x)]

(* What is in the service stays as it is, and so does what is pending if x *)
(* will be forgotten.                                                      *)
LEMMA InBuilderChanged ==
    ASSUME NEW h, NEW h2, NEW s \in Objects, NEW c, NEW d, NEW g, NEW l,
           Owned(h, s, c, d, g, l), Shape(h2),
           c # Null, NEW x \in {c, d}, x # Null, SameBut(h, h2, x)
    PROVE  OneChanged(h, h2, s, c, d, x)
<1>1. /\ Shape(h) /\ c \in Objects /\ d \in Pointer /\ x \in Objects
      /\ ~IsChild(h, x) /\ c # d
  BY DEF Owned, Shape, Pointer
<1>2. Content(h2, s) = Content(h, s)
  BY <1>1, ContentUntouched DEF SameBut
<1>3. h2[c].children = h[c].children
  BY <1>1 DEF SameBut
<1>4. CASE d = Null \/ ~Full(h, c)
  <2> DEFINE i == IF x = c THEN 1 ELSE Len(Pending(h, c, d))
  <2>1. /\ i \in 1..Len(Pending(h, c, d))
        /\ Pending(h, c, d)[i] = Attribute(h, x)
        /\ Pending(h2, c, d) = [Pending(h, c, d) EXCEPT ![i] = Attribute(h2, x)]
    BY <1>1, <1>3, <1>4, PendingChanged DEF SameBut
  <2>2. i \in {1, Len(Pending(h, c, d))}
    OBVIOUS
  <2> HIDE DEF i
  <2>3. QED
    BY <1>2, <2>1, <2>2 DEF OneChanged
<1>5. CASE d # Null /\ Full(h, c)
  <2>1. Pending(h, c, d) = <<Attribute(h, c)>>
    BY <1>1, <1>5, PendingForgotten
  <2>2. Full(h2, c)
    BY <1>3, <1>5 DEF Full
  <2>3. Pending(h2, c, d) = <<Attribute(h2, c)>>
    BY <1>1, <1>5, <2>2, PendingForgotten
  <2>4. CASE x = c
    <3>1. [<<Attribute(h, c)>> EXCEPT ![1] = Attribute(h2, c)] = <<Attribute(h2, c)>>
      OBVIOUS
    <3>2. Len(<<Attribute(h, c)>>) = 1 /\ <<Attribute(h, c)>>[1] = Attribute(h, c)
      OBVIOUS
    <3>3. 1 \in {1, Len(Pending(h, c, d))} /\ 1 \in 1..Len(Pending(h, c, d))
      BY <2>1, <3>2
    <3>4. /\ Pending(h, c, d)[1] = Attribute(h, x)
          /\ Pending(h2, c, d) = [Pending(h, c, d) EXCEPT ![1] = Attribute(h2, x)]
      BY <2>1, <2>3, <2>4, <3>1, <3>2
    <3>5. QED
      BY <1>2, <3>3, <3>4 DEF OneChanged
  <2>5. CASE x # c
    <3>1. Attribute(h2, c) = Attribute(h, c)
      BY <1>1, <2>5 DEF SameBut
    <3>2. QED
      BY <1>2, <2>1, <2>3, <3>1 DEF OneChanged
  <2>6. QED
    BY <2>4, <2>5
<1>6. QED
  BY <1>4, <1>5

(* A command changes one attribute of the last characteristic, or nothing  *)
(* of the declaration.                                                     *)
LEMMA SetStep ==
    ASSUME Inv, Inv', Building, serviceBuilder.characteristic # Null,
           NEW x \in {serviceBuilder.characteristic, serviceBuilder.descriptor}, x # Null,
           NEW o, heap'[x] = o, o.children = heap[x].children,
           \A z \in Objects : z # x => heap'[z] = heap[z],
           UNCHANGED <<serviceBuilder, registered>>
    PROVE  \/ SameDeclaration
           \/ /\ Declaration # <<>> /\ Building'
              /\ Declaration[Len(Declaration)] = Last(Declaration)
              /\ \E i \in DOMAIN Last(Declaration) :
                   /\ Declared!Settable(i)
                   /\ Last(Declaration)[i] = Attribute(heap, x)
                   /\ Declaration' = [Declaration EXCEPT ![Len(Declaration)] =
                          [Last(Declaration) EXCEPT ![i] = [len |-> o.len, max |-> o.max]]]
<1> DEFINE s == serviceBuilder.service
           c == serviceBuilder.characteristic
           d == serviceBuilder.descriptor
           q == Content(heap, s)
           e == Pending(heap, c, d)
           e2 == Pending(heap', c, d)
<1>1. /\ serviceBuilder \in Builder /\ s \in Objects
      /\ Owned(heap, s, c, d, gattServices, lost)
      /\ Declaration = InBuilder(heap, s, c, d)
  BY DeclarationValue
<1>2. Building' /\ Building' = Building
  BY DEF Building
<1>3. Declaration' = InBuilder(heap', s, c, d) /\ Shape(heap')
  BY <1>2, NextDeclarationValue DEF Owned
<1>4. Shape(heap) /\ c \in Objects /\ d \in Pointer
  BY <1>1 DEF Owned, Pointer
<1>5. /\ Attribute(heap', x) = [len |-> o.len, max |-> o.max]
      /\ \A z \in Objects : z # x => Attribute(heap', z) = Attribute(heap, z)
      /\ \A z \in Objects : heap'[z].children = heap[z].children
  BY DEF Attribute
<1>6. OneChanged(heap, heap', s, c, d, x)
  <2>1. c # Null /\ x \in {c, d} /\ x # Null /\ SameBut(heap, heap', x)
    BY <1>5 DEF SameBut
  <2> HIDE DEF s, c, d
  <2>2. QED
    BY <1>1, <1>3, <2>1, InBuilderChanged
<1>7. Content(heap', s) = q
  BY <1>6 DEF OneChanged
<1>8. /\ Declaration = Declared!WithCharacteristic(q, e)
      /\ Declaration' = Declared!WithCharacteristic(q, e2)
  BY <1>1, <1>3, <1>7 DEF InBuilder
<1>9. q \in Seq(Seq(Lengths)) /\ e \in Seq(Lengths) /\ e2 \in Seq(Lengths)
  BY <1>1, <1>3, <1>4, ContentFacts, PendingType
<1>10. e2 = e \/ \E i \in {1, Len(e)} : /\ i \in 1..Len(e) /\ e[i] = Attribute(heap, x)
                                       /\ e2 = [e EXCEPT ![i] = Attribute(heap', x)]
  BY <1>6 DEF OneChanged
<1>11. DOMAIN e = 1..Len(e)
  BY <1>9, LenProperties
<1> HIDE DEF q, e, e2
<1>12. CASE Len(q) + 1 = CountLimit \/ e2 = e
  <2>1. Declaration' = Declaration
    BY <1>8, <1>12 DEF Declared!WithCharacteristic
  <2>2. QED
    BY <1>2, <2>1 DEF SameDeclaration
<1>13. CASE Len(q) + 1 # CountLimit /\ e2 # e
  <2>1. Declaration = Append(q, e) /\ Declaration' = Append(q, e2)
    BY <1>8, <1>13 DEF Declared!WithCharacteristic
  <2>2. PICK i \in {1, Len(e)} : /\ i \in 1..Len(e) /\ e[i] = Attribute(heap, x)
                                 /\ e2 = [e EXCEPT ![i] = Attribute(heap', x)]
    BY <1>10, <1>13
  <2>3. /\ Append(q, e) # <<>> /\ Last(Append(q, e)) = e
        /\ Append(q, e)[Len(Append(q, e))] = e
        /\ [Append(q, e) EXCEPT ![Len(Append(q, e))] = e2] = Append(q, e2)
    BY <1>9, LastReplaced
  <2>4. /\ Declaration # <<>> /\ Last(Declaration) = e /\ Declaration[Len(Declaration)] = e
        /\ Declaration' = [Declaration EXCEPT ![Len(Declaration)] = e2]
    BY <2>1, <2>3
  <2>5. Declared!Settable(i)
    BY <2>2, <2>4 DEF Declared!Settable, Declared!Last, Last
  <2>6. Declaration' = [Declaration EXCEPT ![Len(Declaration)] =
                           [Last(Declaration) EXCEPT ![i] = [len |-> o.len, max |-> o.max]]]
    BY <1>5, <2>2, <2>4
  <2>7. i \in DOMAIN Last(Declaration) /\ Last(Declaration)[i] = Attribute(heap, x)
    BY <1>11, <2>2, <2>4
  <2>8. QED
    BY <1>2, <2>4, <2>5, <2>6, <2>7
<1>14. QED
  BY <1>12, <1>13

(* The object that a command sets is pending in the builder.               *)
LEMMA CurrentBuilder ==
    ASSUME Inv, Current("characteristic") # Null
    PROVE  /\ Building /\ serviceBuilder.characteristic # Null
           /\ Current("characteristic") = serviceBuilder.characteristic
           /\ Current("descriptor") = serviceBuilder.descriptor
BY BuilderFacts

(* setValue: the maximum follows the value.                                *)
LEMMA SetValueStep ==
    ASSUME Inv, Inv', Current("characteristic") # Null, NEW n \in 1..MaxSize,
           NEW x \in {Current("characteristic"), Current("descriptor")}, x # Null,
           SetValue(x, n), UNCHANGED <<serviceBuilder, registered>>
    PROVE  Declared!SetValue(n) \/ SameDeclaration
<1> DEFINE m == IF heap[x].max < n THEN n ELSE heap[x].max
           o == [heap[x] EXCEPT !.len = n, !.max = m]
           D == Declaration
<1>1. heap \in [Objects -> Object] /\ x \in Objects /\ heap[x] \in Object
      /\ heap[x].max \in 0..MaxSize
  BY CurrentObjects, ObjectFields
<1>2. m \in 0..MaxSize /\ n \in 0..MaxSize /\ n <= m
  BY <1>1, DeclarationAssumption
<1>3. heap' = [heap EXCEPT ![x] = o]
  BY <1>1 DEF SetValue, Object
<1>h. heap'[x] = o /\ \A z \in Objects : z # x => heap'[z] = heap[z]
  BY <1>1, <1>3
<1> HIDE DEF m
<1>4. o \in Object /\ o.children = heap[x].children /\ o.len = n /\ o.max = m
  BY <1>1, <1>2 DEF Object
<1> HIDE DEF o, D
<1>b. /\ Building /\ serviceBuilder.characteristic # Null
      /\ x \in {serviceBuilder.characteristic, serviceBuilder.descriptor}
  BY CurrentBuilder
<1>s. SUFFICES ASSUME ~SameDeclaration PROVE Declared!SetValue(n)
  OBVIOUS
<1>5. PICK i \in DOMAIN Last(D) :
        /\ D # <<>> /\ Building /\ Building'
        /\ D[Len(D)] = Last(D)
        /\ Declared!Settable(i)
        /\ Last(D)[i] = Attribute(heap, x)
        /\ D' = [D EXCEPT ![Len(D)] = [Last(D) EXCEPT ![i] = [len |-> o.len, max |-> o.max]]]
  BY <1>b, <1>h, <1>4, <1>s, SetStep DEF D
<1>6. D[Len(D)][i].max = heap[x].max
  BY <1>5 DEF Attribute
<1>7. D' = [D EXCEPT ![Len(D)][i] = [len |-> n, max |-> IF @.max < n THEN n ELSE @.max]]
  <2>1. [len |-> o.len, max |-> o.max]
        = [len |-> n, max |-> IF D[Len(D)][i].max < n THEN n ELSE D[Len(D)][i].max]
    BY <1>4, <1>6 DEF m
  <2>2. D' = [D EXCEPT ![Len(D)] = [D[Len(D)] EXCEPT ![i] =
                 [len |-> n, max |-> IF D[Len(D)][i].max < n THEN n ELSE D[Len(D)][i].max]]]
    BY <1>5, <2>1
  <2>3. QED
    BY <2>2
<1>8. registered' = registered
  OBVIOUS
<1>9. QED
  BY <1>5, <1>7, <1>8 DEF Declared!SetValue, D, Declared!Last, Last

(* The maximum alone.                                                      *)
LEMMA SetMaxStep ==
    ASSUME Inv, Inv', Current("characteristic") # Null, NEW n \in 0..MaxSize,
           NEW x \in {Current("characteristic"), Current("descriptor")}, x # Null,
           heap[x].len <= n, heap' = [heap EXCEPT ![x].max = n],
           UNCHANGED <<serviceBuilder, registered>>
    PROVE  Declared!SetMaxLength(n) \/ SameDeclaration
<1> DEFINE o == [heap[x] EXCEPT !.max = n]
           D == Declaration
<1>1. heap \in [Objects -> Object] /\ x \in Objects /\ heap[x] \in Object
  BY CurrentObjects
<1>2. heap' = [heap EXCEPT ![x] = o]
  BY <1>1
<1>h. heap'[x] = o /\ \A z \in Objects : z # x => heap'[z] = heap[z]
  BY <1>1, <1>2
<1>3. o \in Object /\ o.children = heap[x].children /\ o.len = heap[x].len /\ o.max = n
  BY <1>1 DEF Object
<1> HIDE DEF o, D
<1>b. /\ Building /\ serviceBuilder.characteristic # Null
      /\ x \in {serviceBuilder.characteristic, serviceBuilder.descriptor}
  BY CurrentBuilder
<1>s. SUFFICES ASSUME ~SameDeclaration PROVE Declared!SetMaxLength(n)
  OBVIOUS
<1>4. PICK i \in DOMAIN Last(D) :
        /\ D # <<>> /\ Building /\ Building'
        /\ D[Len(D)] = Last(D)
        /\ Declared!Settable(i)
        /\ Last(D)[i] = Attribute(heap, x)
        /\ D' = [D EXCEPT ![Len(D)] = [Last(D) EXCEPT ![i] = [len |-> o.len, max |-> o.max]]]
  BY <1>b, <1>h, <1>3, <1>s, SetStep DEF D
<1>5. Last(D)[i].len <= n
  BY <1>4 DEF Attribute
<1>6. D' = [D EXCEPT ![Len(D)][i].max = n]
  <2>1. [len |-> o.len, max |-> o.max] = [D[Len(D)][i] EXCEPT !.max = n]
    BY <1>3, <1>4 DEF Attribute
  <2>2. D' = [D EXCEPT ![Len(D)] = [D[Len(D)] EXCEPT ![i] = [D[Len(D)][i] EXCEPT !.max = n]]]
    BY <1>4, <2>1
  <2>3. QED
    BY <2>2
<1>7. registered' = registered
  OBVIOUS
<1>8. QED
  BY <1>4, <1>5, <1>6, <1>7 DEF Declared!SetMaxLength, D, Declared!Last, Last

(* The four commands that set lengths.                                     *)
LEMMA SetLengthsStep ==
    ASSUME Inv, Inv'
    PROVE  /\ \A n \in 1..MaxSize :
                SetCharacteristicValue(n) \/ SetDescriptorValue(n)
                => Declared!SetValue(n) \/ SameDeclaration
           /\ \A n \in 0..MaxSize :
                SetCharacteristicMaxLength(n) \/ SetDescriptorMaxLength(n)
                => Declared!SetMaxLength(n) \/ SameDeclaration
<1>1. ASSUME NEW n \in 1..MaxSize, SetCharacteristicValue(n)
      PROVE  Declared!SetValue(n) \/ SameDeclaration
  BY <1>1, SetValueStep DEF SetCharacteristicValue
<1>2. ASSUME NEW n \in 1..MaxSize, SetDescriptorValue(n)
      PROVE  Declared!SetValue(n) \/ SameDeclaration
  BY <1>2, SetValueStep DEF SetDescriptorValue
<1>3. ASSUME NEW n \in 0..MaxSize, SetCharacteristicMaxLength(n)
      PROVE  Declared!SetMaxLength(n) \/ SameDeclaration
  <2> DEFINE x == Current("characteristic")
  <2>1. x # Null /\ x \in Objects /\ heap[x].max <= n /\ heap' = [heap EXCEPT ![x].max = n]
    BY <1>3, CurrentObjects DEF SetCharacteristicMaxLength
  <2>2. heap[x].len \in 0..MaxSize /\ heap[x].max \in 0..MaxSize /\ heap[x].len <= heap[x].max
    BY <2>1, CurrentObjects, ObjectFields
  <2>3. heap[x].len <= n
    BY <2>1, <2>2
  <2>4. QED
    BY <1>3, <2>1, <2>3, SetMaxStep DEF SetCharacteristicMaxLength
<1>4. ASSUME NEW n \in 0..MaxSize, SetDescriptorMaxLength(n)
      PROVE  Declared!SetMaxLength(n) \/ SameDeclaration
  BY <1>4, SetMaxStep DEF SetDescriptorMaxLength
<1>5. QED
  BY <1>1, <1>2, <1>3, <1>4

(* The stack is given the declaration.                                     *)
LEMMA CommitAcceptedStep ==
    Inv /\ Inv' /\ CommitAccepted => Declared!CommitService
<1> SUFFICES ASSUME Inv, Inv', CommitAccepted PROVE Declared!CommitService
  OBVIOUS
<1> DEFINE s == serviceBuilder.service
           r == [service |-> s, content |-> Declaration]
           n == Len(registered)
           reg2 == Append(registered, r)
           X == [i \in DOMAIN reg2 |-> reg2[i].content]
           Y == Append(Server, Declaration)
<1>1. Building /\ ~Building' /\ Declaration' = <<>>
  BY NotBuilding, NextDeclarationValue DEF CommitAccepted
<1>2. registered' = reg2
  BY <1>1 DEF CommitAccepted, Declaration
<1>3. /\ s \in Objects /\ Owned(heap, s, serviceBuilder.characteristic,
                                 serviceBuilder.descriptor, gattServices, lost)
      /\ serviceBuilder # Null /\ s # Null
  BY <1>1, BuilderFacts DEF Building
<1>4. Shape(Committed(heap, serviceBuilder))
  <2>1. Owned(Committed(heap, serviceBuilder), s, Null, Null, gattServices,
              lost \union CommitForgets(heap, serviceBuilder))
    BY <1>3, CommittedOwned
  <2>2. QED
    BY <2>1 DEF Owned
<1>5. Declaration \in Seq(Seq(Lengths))
  BY <1>1, <1>3, <1>4, ContentFacts DEF Declaration
<1>6. registered \in Seq(Registration) /\ r \in Registration
  BY <1>3, <1>5 DEF Inv, Registration
<1>7. r.content = Declaration
  OBVIOUS
<1> HIDE DEF s, r, n, reg2
<1>8. n \in Nat /\ DOMAIN registered = 1..n /\ \A i \in 1..n : registered[i] \in Registration
  BY <1>6, LenProperties, ElementOfSeq DEF n
<1>9. /\ reg2 \in Seq(Registration) /\ Len(reg2) = n + 1 /\ reg2[n + 1] = r
      /\ \A i \in 1..n : reg2[i] = registered[i]
  BY <1>6, AppendProperties DEF reg2, n
<1>10. DOMAIN reg2 = 1..(n + 1) /\ \A i \in 1..(n + 1) : reg2[i] \in Registration
  BY <1>8, <1>9, LenProperties, ElementOfSeq
<1>11. X = [i \in 1..(n + 1) |-> reg2[i].content] /\ Server = [i \in 1..n |-> registered[i].content]
  BY <1>8, <1>10 DEF Server
<1>12. \A i \in 1..(n + 1) : reg2[i].content \in Seq(Seq(Lengths))
  BY <1>10 DEF Registration
<1>13. \A i \in 1..n : registered[i].content \in Seq(Seq(Lengths))
  BY <1>8 DEF Registration
<1>14. Server \in Seq(Seq(Seq(Lengths))) /\ Len(Server) = n
       /\ \A i \in 1..n : Server[i] = registered[i].content
  BY <1>8, <1>11, <1>13
<1>15. X \in Seq(Seq(Seq(Lengths))) /\ Len(X) = n + 1
       /\ \A i \in 1..(n + 1) : X[i] = reg2[i].content
  BY <1>8, <1>11, <1>12
<1>16. /\ Y \in Seq(Seq(Seq(Lengths))) /\ Len(Y) = n + 1 /\ Y[n + 1] = Declaration
       /\ \A i \in 1..n : Y[i] = Server[i]
  BY <1>5, <1>14, AppendProperties
<1> HIDE DEF X, Y
<1>17. \A i \in 1..(n + 1) : i = n + 1 \/ i \in 1..n
  BY <1>8
<1>18. ASSUME NEW i \in 1..(n + 1) PROVE X[i] = Y[i]
  <2>1. X[i] = reg2[i].content
    BY <1>15
  <2>2. CASE i = n + 1
    BY <1>7, <1>9, <1>16, <2>1, <2>2
  <2>3. CASE i \in 1..n
    BY <1>9, <1>14, <1>16, <2>1, <2>3
  <2>4. QED
    BY <1>17, <2>2, <2>3
<1>19. X = Y
  BY <1>15, <1>16, <1>18, SeqEqual
<1>20. [i \in DOMAIN registered |-> registered[i].content]' = X
  BY <1>2 DEF X
<1>21. QED
  BY <1>1, <1>19, <1>20 DEF Declared!CommitService, Y, Server

(* Refusal, cancel and shutdown drop the declaration.                      *)
LEMMA DroppedSteps ==
    ASSUME Inv, Inv'
    PROVE  /\ CommitRefused \/ CancelServiceDeclaration => Declared!CancelServiceDeclaration
           /\ Shutdown => Declared!Shutdown
<1>1. ASSUME CommitRefused \/ CancelServiceDeclaration PROVE Declared!CancelServiceDeclaration
  <2>1. Building /\ serviceBuilder' = Null /\ registered' = registered
    BY <1>1 DEF CommitRefused, CancelServiceDeclaration
  <2>2. ~Building' /\ Declaration' = <<>>
    BY <2>1, NotBuilding, NextDeclarationValue
  <2>3. QED
    BY <2>1, <2>2 DEF Declared!CancelServiceDeclaration
<1>2. ASSUME Shutdown PROVE Declared!Shutdown
  <2>1. registered' = <<>>
    BY <1>2 DEF Shutdown
  <2>2. ~Building'
    <3>1. CASE shutdownCalls > 0
      BY <1>2, <3>1, NotBuilding DEF Shutdown, WhenShutdown
    <3>2. CASE shutdownCalls = 0
      <4>1. ~Building
        BY <3>2 DEF Inv, CleanupDue
      <4>2. serviceBuilder' = serviceBuilder
        BY <1>2, <3>2 DEF Shutdown
      <4>3. QED
        BY <4>1, <4>2 DEF Building
    <3>3. QED
      BY <3>1, <3>2 DEF Inv
  <2>3. Declaration' = <<>>
    BY <2>2, NextDeclarationValue
  <2>4. [i \in DOMAIN registered |-> registered[i].content]' = <<>>
    BY <2>1
  <2>5. QED
    BY <2>2, <2>3, <2>4 DEF Declared!Shutdown
<1>3. QED
  BY <1>1, <1>2

(* The stack is given what the commands declared, in their order, and all  *)
(* of it but what a count forgets as it wraps.                             *)
THEOREM ServicesImplementDeclaration == Spec => ImplementsGattDeclaration
<1>1. Init => Declared!Init
  <2> SUFFICES ASSUME Init PROVE Declared!Init
    OBVIOUS
  <2>1. ~Building /\ registered = <<>>
    BY DEF Init, Building
  <2>2. Declaration = <<>> /\ [i \in DOMAIN registered |-> registered[i].content] = <<>>
    BY <2>1 DEF Declaration
  <2>3. QED
    BY <2>1, <2>2 DEF Declared!Init
<1>2. Inv /\ Inv' /\ [Next]_vars => [Declared!Next]_(Declared!vars)
  <2> SUFFICES ASSUME Inv, Inv', [Next]_vars PROVE [Declared!Next]_(Declared!vars)
    OBVIOUS
  <2>0. SameDeclaration => UNCHANGED Declared!vars
    BY DEF SameDeclaration, Declared!vars
  <2>1. CASE UNCHANGED vars
    <3>1. serviceBuilder' = serviceBuilder /\ heap' = heap /\ registered' = registered
      BY <2>1 DEF vars
    <3>2. UNCHANGED <<Building, Declaration, [i \in DOMAIN registered |-> registered[i].content]>>
      BY <3>1 DEF Building, Declaration
    <3>3. QED
      BY <3>2 DEF Declared!vars
  <2>2. CASE DeclareService
    BY <2>2, DeclareServiceStep DEF Declared!Next
  <2>3. CASE DeclareCharacteristic
    BY <2>3, DeclareCharacteristicStep DEF Declared!Next
  <2>4. CASE DeclareDescriptor
    BY <2>0, <2>4, DeclareDescriptorStep DEF Declared!Next
  <2>5. CASE \E n \in 1..MaxSize : SetCharacteristicValue(n) \/ SetDescriptorValue(n)
    <3>1. PICK n \in 1..MaxSize : SetCharacteristicValue(n) \/ SetDescriptorValue(n)
      BY <2>5
    <3>2. (Declared!SetValue(n) \/ SameDeclaration) /\ n \in 0..MaxSize
      BY <3>1, SetLengthsStep, DeclarationAssumption
    <3>3. QED
      BY <2>0, <3>2 DEF Declared!Next
  <2>6. CASE \E n \in 0..MaxSize : SetCharacteristicMaxLength(n) \/ SetDescriptorMaxLength(n)
    <3>1. PICK n \in 0..MaxSize : SetCharacteristicMaxLength(n) \/ SetDescriptorMaxLength(n)
      BY <2>6
    <3>2. Declared!SetMaxLength(n) \/ SameDeclaration
      BY <3>1, SetLengthsStep
    <3>3. QED
      BY <2>0, <3>2 DEF Declared!Next
  <2>7. CASE CommitAccepted
    BY <2>7, CommitAcceptedStep DEF Declared!Next
  <2>8. CASE CommitRefused \/ CancelServiceDeclaration
    BY <2>8, DroppedSteps DEF Declared!Next
  <2>9. CASE Shutdown
    BY <2>9, DroppedSteps DEF Declared!Next
  <2>10. QED
    BY <2>1, <2>2, <2>3, <2>4, <2>5, <2>6, <2>7, <2>8, <2>9 DEF Next
<1>3. QED
  BY <1>1, <1>2, Invariance, PTL DEF ImplementsGattDeclaration, Spec, Declared!Spec
=============================================================================
