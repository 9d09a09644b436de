--------------------------- MODULE RequestProofs ---------------------------
(***************************************************************************)
(* What is proved of the parsing of requests (Request), for any number of  *)
(* workers, of keys and of fields: the types and the shape of every list,  *)
(* what an undisturbed worker has parsed, and that no insert hides an      *)
(* entry of a tree.                                                        *)
(*                                                                         *)
(* Lists (linked_list.c, queue.c): Layout names the addresses a list runs  *)
(* along; InsertLL at the end, RemoveLL at the head, and the reading of    *)
(* either, are what the sequence of its items says.                        *)
(* Trees (binary_search_tree.c): Grown says that a node was allocated      *)
(* after its parent, so that every search ends; Attach leaves where the    *)
(* other searches end.                                                     *)
(* Workers: Inv is inductive.  It says where each worker has got to in the *)
(* fields of its buffer (Progress), and what strtok's pointer leads to for *)
(* the worker that called it last (TextLeft).                              *)
(***************************************************************************)
EXTENDS Request, SequenceTheorems, FiniteSetTheorems, WellFoundedInduction, TLAPS

-----------------------------------------------------------------------------
(* A set of numbers that is not empty has a least one. *)
LEMMA LeastNumber ==
  ASSUME NEW T \in SUBSET Nat, T # {}
  PROVE  \E n \in T : \A m \in T : n <= m
<1>1. PICK n \in T : \A m \in T : ~(<<m, n>> \in OpToRel(<, Nat))
  BY NatLessThanWellFounded, WFMin, Zenon
<1>2. \A m \in T : ~(m < n)  BY <1>1 DEF OpToRel
<1> QED  BY <1>2

-----------------------------------------------------------------------------
(* Lists.  A list is laid out along the addresses s: they follow each      *)
(* other by the pointers, none comes twice, and they are all the cells.    *)

Distinct(s) == \A m, n \in 1..Len(s) : s[m] = s[n] => m = n
Along(s) == {s[k] : k \in 1..Len(s)}
From(s, k) == IF k > Len(s) THEN NULL ELSE s[k]

Layout(l, s, Data) ==
  /\ s \in Seq(Nat \ {NULL}) /\ Distinct(s)
  /\ l.length = Len(s) /\ l.head = From(s, 1)
  /\ l.cells \in [Along(s) -> [data : Data, next : Nat]]
  /\ \A k \in 1..Len(s) : l.cells[s[k]].next = From(s, k + 1)

IsList(l, Data) == \E s : Layout(l, s, Data)

(* The cells are as many as the addresses. *)
LEMMA CellsCounted ==
  ASSUME NEW s \in Seq(Nat \ {NULL}), Distinct(s)
  PROVE  IsFiniteSet(Along(s)) /\ Cardinality(Along(s)) = Len(s)
<1>1. Len(s) \in Nat /\ s \in [1..Len(s) -> Nat \ {NULL}]
  BY LenProperties
<1>2. s \in Bijection(1..Len(s), Along(s))
  BY <1>1, Zenon DEF Bijection, Injection, Surjection, IsInjective, Along, Distinct
<1>3. ExistsBijection(1..Len(s), Along(s))
  BY <1>2 DEF ExistsBijection
<1>4. IsFiniteSet(Along(s))
  BY <1>1, <1>3, FS_NatBijection
<1> QED
  BY <1>1, <1>3, <1>4, FS_CountingElements

(* Following next k times from the head leads to the address after k. *)
LEMMA CursorAlong ==
  ASSUME NEW Data, NEW l, NEW s, Layout(l, s, Data), NEW index \in 0..l.length - 1
  PROVE  IterateLL(l, index) = s[index + 1]
<1> DEFINE Solves(f) == f = [k \in 0..index |-> IF k = 0 THEN l.head ELSE l.cells[f[k - 1]].next]
           cursor == CHOOSE f : Solves(f)
           along == [k \in 0..index |-> s[k + 1]]
<1>1. Len(s) \in Nat /\ l.length = Len(s) /\ index \in 0..Len(s) - 1
  BY LenProperties DEF Layout
<1>2. \A k \in 0..index : k + 1 \in 1..Len(s) /\ (k # 0 => k \in 1..Len(s) /\ k - 1 \in 0..index)
  BY <1>1
<1>3. Solves(along)
  <2>1. \A k \in 0..index : along[k] = IF k = 0 THEN l.head ELSE l.cells[along[k - 1]].next
    <3> SUFFICES ASSUME NEW k \in 0..index
                 PROVE  along[k] = IF k = 0 THEN l.head ELSE l.cells[along[k - 1]].next
      OBVIOUS
    <3>1. CASE k = 0
      BY <1>1, <3>1 DEF Layout, From
    <3>2. CASE k # 0
      <4>1. along[k - 1] = s[k] /\ k \in 1..Len(s) /\ k + 1 \in 1..Len(s)
        BY <1>1, <1>2, <3>2
      <4>2. l.cells[s[k]].next = s[k + 1]
        BY <1>1, <4>1 DEF Layout, From
      <4> QED
        BY <3>2, <4>1, <4>2
    <3> QED
      BY <3>1, <3>2
  <2> HIDE DEF along
  <2>2. along = [k \in 0..index |-> along[k]]
    BY DEF along
  <2> QED
    BY <2>1, <2>2
<1>4. Solves(cursor)
  <2> HIDE DEF Solves, along
  <2> QED
    BY <1>3
<1>5. \A k \in 0..index : cursor[k] = s[k + 1]
  <2> HIDE DEF cursor
  <2>0. \A k \in 0..index : cursor[k] = IF k = 0 THEN l.head ELSE l.cells[cursor[k - 1]].next
    BY <1>4
  <2> DEFINE Wrong == {k \in 0..index : cursor[k] # s[k + 1]}
  <2> SUFFICES ASSUME Wrong # {} PROVE FALSE
    OBVIOUS
  <2>1. PICK k \in Wrong : \A j \in Wrong : k <= j
    <3>1. Wrong \in SUBSET Nat
      BY <1>1
    <3> QED
      BY <3>1, LeastNumber
  <2>2. k # 0
    BY <1>1, <2>0 DEF Layout, From
  <2>3. k - 1 \in 0..index /\ cursor[k - 1] = s[k] /\ k \in 1..Len(s) /\ k + 1 \in 1..Len(s)
    <3>1. k \in 0..index /\ k - 1 \in 0..index /\ ~(k <= k - 1) /\ (k - 1) + 1 = k
      BY <1>1, <2>2
    <3>2. cursor[k - 1] = s[(k - 1) + 1]
      BY <2>1, <3>1
    <3> QED
      BY <1>1, <2>2, <3>1, <3>2
  <2>4. l.cells[s[k]].next = s[k + 1]
    <3>1. l.cells[s[k]].next = From(s, k + 1) /\ ~(k + 1 > Len(s))
      BY <1>1, <2>3 DEF Layout
    <3> QED
      BY <3>1 DEF From
  <2>5. cursor[k] = l.cells[cursor[k - 1]].next
    BY <2>0, <2>2
  <2> QED
    BY <2>3, <2>4, <2>5
<1>6. IterateLL(l, index) = cursor[index]
  <2>1. ~(index < 0 \/ index >= l.length)
    BY <1>1
  <2> QED
    BY <2>1 DEF IterateLL
<1> HIDE DEF cursor
<1> QED
  BY <1>1, <1>5, <1>6

(* Nothing is read past the end, and from a list that is not empty the     *)
(* head can be read.                                                       *)
LEMMA ReadAlong ==
  ASSUME NEW Data, NEW l, NEW s, Layout(l, s, Data)
  PROVE  /\ IterateLL(l, 0) = NULL <=> l.length = 0
         /\ \A index \in 0..l.length - 1 : RetrieveLL(l, index) = l.cells[s[index + 1]].data
<1>1. Len(s) \in Nat /\ l.length = Len(s) /\ \A k \in 1..Len(s) : s[k] # NULL
  <2>1. s \in [1..Len(s) -> Nat \ {NULL}] /\ Len(s) \in Nat
    BY LenProperties DEF Layout
  <2> QED
    BY <2>1 DEF Layout
<1>2. CASE l.length = 0
  <2>1. IterateLL(l, 0) = NULL
    BY <1>2 DEF IterateLL
  <2> QED
    BY <1>2, <2>1
<1>3. CASE l.length # 0
  <2>1. \A index \in 0..l.length - 1 : IterateLL(l, index) = s[index + 1] /\ s[index + 1] # NULL
    <3> SUFFICES ASSUME NEW index \in 0..l.length - 1
                 PROVE  IterateLL(l, index) = s[index + 1] /\ s[index + 1] # NULL
      OBVIOUS
    <3>1. index + 1 \in 1..Len(s)
      BY <1>1
    <3> QED
      BY <1>1, <3>1, CursorAlong
  <2>2. 0 \in 0..l.length - 1
    BY <1>1, <1>3
  <2>3. \A index \in 0..l.length - 1 : RetrieveLL(l, index) = l.cells[s[index + 1]].data
    BY <2>1, Zenon DEF RetrieveLL
  <2> QED
    BY <1>3, <2>1, <2>2, <2>3
<1> QED
  BY <1>2, <1>3

(* The chain read by the pointers is the layout. *)
LEMMA ChainAlong ==
  ASSUME NEW Data, NEW l, NEW s, Layout(l, s, Data)
  PROVE  Chain(l) = s
<1> DEFINE n == Cardinality(DOMAIN l.cells)
           Next1(before) == IF before = <<>> THEN l.head ELSE l.cells[before[Len(before)]].next
           More(before, k) == IF Len(before) < k - 1 \/ Next1(before) \notin DOMAIN l.cells THEN before
                              ELSE Append(before, Next1(before))
           Solves(f) == f = [k \in 0..n |-> IF k = 0 THEN <<>> ELSE More(f[k - 1], k)]
           follow == CHOOSE f : Solves(f)
           along == [k \in 0..n |-> SubSeq(s, 1, k)]
<1>1. /\ s \in Seq(Nat \ {NULL}) /\ Len(s) \in Nat /\ s \in [1..Len(s) -> Nat \ {NULL}]
      /\ DOMAIN l.cells = Along(s) /\ Distinct(s)
  BY LenProperties DEF Layout
<1>2. n = Len(s)
  BY <1>1, CellsCounted
<1>3. \A k \in 0..Len(s) : /\ SubSeq(s, 1, k) \in Seq(Nat \ {NULL}) /\ Len(SubSeq(s, 1, k)) = k
                           /\ \A j \in 1..k : SubSeq(s, 1, k)[j] = s[j]
  <2> SUFFICES ASSUME NEW k \in 0..Len(s)
               PROVE  /\ SubSeq(s, 1, k) \in Seq(Nat \ {NULL}) /\ Len(SubSeq(s, 1, k)) = k
                      /\ \A j \in 1..k : SubSeq(s, 1, k)[j] = s[j]
    OBVIOUS
  <2>1. k \in Int /\ \A j \in 1..k : s[j] \in Nat \ {NULL}
    BY <1>1
  <2>2. /\ SubSeq(s, 1, k) \in Seq(Nat \ {NULL})
        /\ Len(SubSeq(s, 1, k)) = IF 1 <= k THEN k - 1 + 1 ELSE 0
        /\ \A j \in 1 .. k - 1 + 1 : SubSeq(s, 1, k)[j] = s[1 + j - 1]
    BY <2>1, SubSeqProperties
  <2> QED
    BY <1>1, <2>2
<1>4. \A k \in 1..Len(s) : More(SubSeq(s, 1, k - 1), k) = SubSeq(s, 1, k)
  <2> SUFFICES ASSUME NEW k \in 1..Len(s) PROVE More(SubSeq(s, 1, k - 1), k) = SubSeq(s, 1, k)
    OBVIOUS
  <2> DEFINE b == SubSeq(s, 1, k - 1)
  <2>1. k - 1 \in 0..Len(s) /\ k \in 0..Len(s)
    BY <1>1
  <2>2. b \in Seq(Nat \ {NULL}) /\ Len(b) = k - 1 /\ \A j \in 1..k - 1 : b[j] = s[j]
    BY <1>3, <2>1
  <2>3. Next1(b) = s[k]
    <3>1. CASE k = 1
      <4>1. b = <<>>
        BY <2>2, <3>1, EmptySeq
      <4>2. l.head = s[1]
        BY <1>1, <3>1 DEF Layout, From
      <4> QED
        BY <3>1, <4>1, <4>2
    <3>2. CASE k # 1
      <4>1. b # <<>> /\ k - 1 \in 1..Len(s) /\ b[Len(b)] = s[k - 1]
        BY <1>1, <2>2, <3>2, EmptySeq
      <4>2. l.cells[s[k - 1]].next = s[k]
        <5>1. (k - 1) + 1 = k /\ ~(k > Len(s))
          BY <1>1
        <5>2. l.cells[s[k - 1]].next = From(s, (k - 1) + 1)
          BY <4>1 DEF Layout
        <5> QED
          BY <5>1, <5>2 DEF From
      <4> HIDE DEF b
      <4> QED
        BY <4>1, <4>2
    <3> QED
      BY <3>1, <3>2
  <2>4. s[k] \in DOMAIN l.cells /\ s[k] \in Nat \ {NULL} /\ ~(Len(b) < k - 1)
    BY <1>1, <2>2 DEF Along
  <2>5. More(b, k) = Append(b, s[k])
    <3> HIDE DEF b, Next1
    <3> QED
      BY <2>3, <2>4
  <2>6. Append(b, s[k]) = SubSeq(s, 1, k)
    <3> HIDE DEF b
    <3>1. /\ Append(b, s[k]) \in Seq(Nat \ {NULL}) /\ Len(Append(b, s[k])) = Len(b) + 1
          /\ \A j \in 1..Len(b) : Append(b, s[k])[j] = b[j]
          /\ Append(b, s[k])[Len(b) + 1] = s[k]
      BY <2>2, <2>4, AppendProperties
    <3>2. Len(Append(b, s[k])) = k /\ k - 1 + 1 = k
      BY <2>2, <3>1
    <3>3. \A j \in 1..k : Append(b, s[k])[j] = s[j]
      <4> SUFFICES ASSUME NEW j \in 1..k PROVE Append(b, s[k])[j] = s[j]
        OBVIOUS
      <4>1. CASE j = k
        BY <2>2, <3>1, <3>2, <4>1
      <4>2. CASE j # k
        <5>1. j \in 1..k - 1 /\ j \in 1..Len(b)
          BY <2>2, <4>2
        <5> QED
          BY <2>2, <3>1, <5>1
      <4> QED
        BY <4>1, <4>2
    <3>4. /\ SubSeq(s, 1, k) \in Seq(Nat \ {NULL}) /\ Len(SubSeq(s, 1, k)) = k
          /\ \A j \in 1..k : SubSeq(s, 1, k)[j] = s[j]
      BY <1>3, <2>1
    <3>5. \A j \in 1..Len(Append(b, s[k])) : Append(b, s[k])[j] = SubSeq(s, 1, k)[j]
      BY <3>2, <3>3, <3>4
    <3> QED
      BY <3>1, <3>2, <3>4, <3>5, SeqEqual
  <2> QED
    BY <2>5, <2>6
<1>5. SubSeq(s, 1, 0) = <<>>
  BY SubSeqEmpty
<1> HIDE DEF More
<1>6. Solves(along)
  <2>1. \A k \in 0..n : along[k] = IF k = 0 THEN <<>> ELSE More(along[k - 1], k)
    <3> SUFFICES ASSUME NEW k \in 0..n
                 PROVE  along[k] = IF k = 0 THEN <<>> ELSE More(along[k - 1], k)
      OBVIOUS
    <3>1. CASE k = 0
      BY <1>5, <3>1
    <3>2. CASE k # 0
      <4>1. k \in 1..Len(s) /\ k - 1 \in 0..n
        BY <1>1, <1>2, <3>2
      <4>2. along[k - 1] = SubSeq(s, 1, k - 1) /\ along[k] = SubSeq(s, 1, k)
        BY <4>1
      <4> QED
        BY <1>4, <3>2, <4>1, <4>2
    <3> QED
      BY <3>1, <3>2
  <2>2. along = [k \in 0..n |-> along[k]]
    OBVIOUS
  <2> HIDE DEF along
  <2> QED
    BY <2>1, <2>2
<1>7. Solves(follow)
  <2> HIDE DEF Solves, along
  <2> QED
    BY <1>6
<1>8. \A k \in 0..n : follow[k] = SubSeq(s, 1, k)
  <2> HIDE DEF follow, n
  <2>0. \A k \in 0..n : follow[k] = IF k = 0 THEN <<>> ELSE More(follow[k - 1], k)
    BY <1>7
  <2> DEFINE Wrong == {k \in 0..n : follow[k] # SubSeq(s, 1, k)}
  <2> SUFFICES ASSUME Wrong # {} PROVE FALSE
    OBVIOUS
  <2>1. PICK k \in Wrong : \A j \in Wrong : k <= j
    <3>1. Wrong \in SUBSET Nat
      BY <1>1, <1>2
    <3> QED
      BY <3>1, LeastNumber
  <2>2. k # 0
    BY <1>5, <2>0
  <2>3. k \in 1..Len(s) /\ k - 1 \in 0..n /\ k \in 0..n /\ ~(k <= k - 1)
    BY <1>1, <1>2, <2>2
  <2>4. follow[k - 1] = SubSeq(s, 1, k - 1)
    BY <2>1, <2>3
  <2>5. follow[k] = More(follow[k - 1], k)
    BY <2>0, <2>2, <2>3
  <2> QED
    BY <1>4, <2>3, <2>4, <2>5
<1>9. Chain(l) = follow[n]
  BY DEF Chain, More
<1>10. SubSeq(s, 1, Len(s)) = s
  BY <1>1, SubSeqFull
<1>11. n \in 0..n
  BY <1>1, <1>2
<1> HIDE DEF follow, n
<1>12. Chain(l) = SubSeq(s, 1, n)
  BY <1>8, <1>9, <1>11
<1> QED
  BY <1>2, <1>10, <1>12

(* A list that is laid out is well formed, and holds what its cells hold.  *)
LEMMA ListFacts ==
  ASSUME NEW Data, NEW l, NEW s, Layout(l, s, Data)
  PROVE  /\ WellFormed(l)
         /\ Items(l) \in Seq(Data) /\ Len(Items(l)) = l.length /\ l.length \in Nat
         /\ \A k \in 1..l.length : Items(l)[k] = l.cells[s[k]].data
<1>1. Chain(l) = s
  BY ChainAlong
<1>2. /\ Len(s) \in Nat /\ s \in [1..Len(s) -> Nat \ {NULL}] /\ l.length = Len(s)
      /\ DOMAIN l.cells = Along(s) /\ \A k \in 1..Len(s) : l.cells[s[k]].data \in Data
  <2>1. s \in Seq(Nat \ {NULL}) /\ l.cells \in [Along(s) -> [data : Data, next : Nat]]
    BY DEF Layout
  <2>2. Len(s) \in Nat /\ s \in [1..Len(s) -> Nat \ {NULL}]
    BY <2>1, LenProperties
  <2>3. \A k \in 1..Len(s) : s[k] \in Along(s)
    BY DEF Along
  <2> QED
    BY <2>1, <2>2, <2>3 DEF Layout
<1>3. WellFormed(l)
  <2>1. (IF s = <<>> THEN l.head ELSE l.cells[s[Len(s)]].next) = NULL
    <3>1. CASE s = <<>>
      BY <1>2, <3>1, EmptySeq DEF Layout, From
    <3>2. CASE s # <<>>
      <4>1. Len(s) \in 1..Len(s)
        BY <1>2, <3>2, EmptySeq DEF Layout
      <4>2. l.cells[s[Len(s)]].next = From(s, Len(s) + 1) /\ Len(s) + 1 > Len(s)
        BY <1>2, <4>1 DEF Layout
      <4> QED
        BY <3>2, <4>2 DEF From
    <3> QED
      BY <3>1, <3>2
  <2>2. Len(s) = l.length /\ {s[k] : k \in 1..Len(s)} = DOMAIN l.cells
    BY <1>2 DEF Along
  <2> QED
    BY <1>1, <2>1, <2>2 DEF WellFormed
<1>4. Items(l) = [k \in 1..Len(s) |-> l.cells[s[k]].data]
  BY <1>1 DEF Items
<1>5. Items(l) \in Seq(Data) /\ Len(Items(l)) = Len(s)
  BY <1>2, <1>4
<1> QED
  BY <1>2, <1>3, <1>4, <1>5

(* An empty list. *)
LEMMA EmptyListFacts ==
  ASSUME NEW Data
  PROVE  Layout(EmptyList, <<>>, Data) /\ Items(EmptyList) = <<>>
<1>1. Layout(EmptyList, <<>>, Data)
  <2>1. <<>> \in Seq(Nat \ {NULL}) /\ Len(<<>>) = 0
    BY EmptySeq
  <2>2. Along(<<>>) = {}
    BY <2>1 DEF Along
  <2>3. <<>> \in [{} -> [data : Data, next : Nat]]
    OBVIOUS
  <2>4. From(<<>>, 1) = NULL /\ Distinct(<<>>)
    BY <2>1 DEF From, Distinct
  <2> QED
    BY <2>1, <2>2, <2>3, <2>4 DEF Layout, EmptyList
<1>2. Items(EmptyList) \in Seq(Data) /\ Len(Items(EmptyList)) = 0
  BY <1>1, ListFacts DEF EmptyList
<1> QED
  BY <1>1, <1>2, EmptySeq

(* malloc finds an address. *)
LEMMA FreshFacts ==
  ASSUME NEW Data, NEW l, NEW s, Layout(l, s, Data)
  PROVE  Fresh(l) \in Nat \ {NULL} /\ Fresh(l) \notin Along(s)
<1>1. /\ IsFiniteSet(Along(s)) /\ Cardinality(Along(s)) = Len(s)
      /\ DOMAIN l.cells = Along(s) /\ Len(s) \in Nat
  BY CellsCounted, LenProperties DEF Layout
<1>2. IsFiniteSet(1..Len(s) + 1) /\ Cardinality(1..Len(s) + 1) = Len(s) + 1
  <2>1. Len(s) + 1 \in Int /\ 1 \in Int /\ ~(1 > Len(s) + 1)
    BY <1>1
  <2>2. IsFiniteSet(1..Len(s) + 1)
    BY <2>1, FS_Interval
  <2>3. Cardinality(1..Len(s) + 1) = (Len(s) + 1) - 1 + 1
    BY <2>1, FS_Interval
  <2> QED
    BY <1>1, <2>2, <2>3
<1>3. \E a \in 1..Len(s) + 1 : a \notin Along(s)
  <2> SUFFICES ASSUME 1..Len(s) + 1 \in SUBSET Along(s) PROVE FALSE
    OBVIOUS
  <2>1. Cardinality(1..Len(s) + 1) <= Cardinality(Along(s))
    BY <1>1, FS_Subset
  <2> QED
    BY <1>1, <1>2, <2>1
<1>4. Fresh(l) = CHOOSE a \in 1..Len(s) + 1 : a \notin Along(s)
  BY <1>1 DEF Fresh
<1>5. Fresh(l) \in 1..Len(s) + 1 /\ Fresh(l) \notin Along(s)
  BY <1>3, <1>4
<1> QED
  BY <1>1, <1>5 DEF NULL

(* What is inserted at the end comes after all that was there. *)
LEMMA PushFacts ==
  ASSUME NEW Data, NEW l, IsList(l, Data), NEW d \in Data
  PROVE  /\ IsList(Push(l, d), Data)
         /\ Items(Push(l, d)) = Append(Items(l), d)
         /\ Push(l, d).length = l.length + 1
<1> DEFINE a == Fresh(l)
           p == Push(l, d)
<1>1. PICK s : Layout(l, s, Data)
  BY DEF IsList
<1> DEFINE t == Append(s, a)
<1>2. a \in Nat \ {NULL} /\ a \notin Along(s)
  BY <1>1, FreshFacts
<1> HIDE DEF a
<1>3. /\ s \in Seq(Nat \ {NULL}) /\ Len(s) \in Nat /\ s \in [1..Len(s) -> Nat \ {NULL}]
      /\ l.length = Len(s) /\ l.cells \in [Along(s) -> [data : Data, next : Nat]]
      /\ \A k \in 1..Len(s) : s[k] \in Along(s)
  BY <1>1, LenProperties DEF Layout, Along
<1>4. /\ t \in Seq(Nat \ {NULL}) /\ Len(t) = Len(s) + 1 /\ t[Len(s) + 1] = a
      /\ \A k \in 1..Len(s) : t[k] = s[k]
  BY <1>2, <1>3, AppendProperties
<1> HIDE DEF t
<1>5. Distinct(t)
  <2> SUFFICES ASSUME NEW m \in 1..Len(t), NEW n \in 1..Len(t), t[m] = t[n] PROVE m = n
    BY DEF Distinct
  <2>1. (m \in 1..Len(s) \/ m = Len(s) + 1) /\ (n \in 1..Len(s) \/ n = Len(s) + 1)
    BY <1>3, <1>4
  <2>2. \A j, k \in 1..Len(s) : s[j] = s[k] => j = k
    BY <1>1 DEF Layout, Distinct
  <2> QED
    BY <1>2, <1>3, <1>4, <2>1, <2>2
<1>6. Along(t) = Along(s) \cup {a}
  <2>1. \A k \in 1..Len(t) : k \in 1..Len(s) \/ k = Len(s) + 1
    BY <1>3, <1>4
  <2>2. \A k \in 1..Len(s) : k \in 1..Len(t)
    BY <1>3, <1>4
  <2>3. Len(s) + 1 \in 1..Len(t)
    BY <1>3, <1>4
  <2> QED
    BY <1>4, <2>1, <2>2, <2>3 DEF Along
<1>7. /\ p.length = Len(s) + 1 /\ p.head = From(t, 1)
      /\ p.cells \in [Along(t) -> [data : Data, next : Nat]]
      /\ p.cells[a].next = NULL /\ p.cells[a].data = d
      /\ \A k \in 1..Len(s) : /\ p.cells[s[k]].data = l.cells[s[k]].data
                              /\ p.cells[s[k]].next = From(t, k + 1)
  <2>0. DOMAIN l.cells = Along(s)
    BY <1>3
  <2>1. CASE Len(s) = 0
    <3>1. p = [head |-> a, length |-> l.length + 1,
               cells |-> [x \in Along(s) \cup {a} |->
                            IF x = a THEN [data |-> d, next |-> l.head] ELSE l.cells[x]]]
      BY <1>3, <2>0, <2>1 DEF Push, InsertLL, a
    <3>2. l.head = NULL /\ Along(s) = {}
      BY <1>1, <2>1 DEF Layout, From, Along
    <3>3. From(t, 1) = a
      BY <1>4, <2>1 DEF From
    <3> QED
      BY <1>2, <1>3, <1>6, <2>1, <3>1, <3>2, <3>3 DEF NULL
  <2>2. CASE Len(s) # 0
    <3> DEFINE e == s[Len(s)]
               With == [x \in Along(s) \cup {a} |->
                          IF x = a THEN [data |-> d, next |-> l.cells[e].next] ELSE l.cells[x]]
    <3>1. Len(s) - 1 \in 0..l.length - 1 /\ (Len(s) - 1) + 1 = Len(s) /\ Len(s) \in 1..Len(s)
      BY <1>3, <2>2
    <3>2. IterateLL(l, l.length - 1) = e /\ e # NULL /\ e \in Along(s) /\ e # a
      <4>1. IterateLL(l, Len(s) - 1) = s[(Len(s) - 1) + 1]
        BY <1>1, <3>1, CursorAlong
      <4> QED
        BY <1>2, <1>3, <3>1, <4>1
    <3>3. p = [head |-> l.head, length |-> l.length + 1, cells |-> [With EXCEPT ![e].next = a]]
      <4>1. l.length # 0
        BY <1>3, <2>2
      <4> QED
        BY <2>0, <3>2, <4>1 DEF Push, InsertLL, a
    <3>4. l.cells[e].next = NULL
      <4>1. l.cells[s[Len(s)]].next = From(s, Len(s) + 1) /\ Len(s) + 1 > Len(s)
        BY <1>1, <1>3, <3>1 DEF Layout
      <4> QED
        BY <4>1 DEF From
    <3>5. With \in [Along(t) -> [data : Data, next : Nat]]
      BY <1>3, <1>6, <3>4 DEF NULL
    <3>6. p.cells = [With EXCEPT ![e].next = a]
      BY <3>3
    <3>7. /\ p.cells \in [Along(t) -> [data : Data, next : Nat]]
          /\ p.cells[e].next = a /\ p.cells[e].data = With[e].data
          /\ \A x \in Along(t) \ {e} : p.cells[x] = With[x]
      <4> HIDE DEF With, e
      <4>1. e \in Along(t) /\ With[e] \in [data : Data, next : Nat]
        BY <1>6, <3>2, <3>5
      <4> QED
        BY <1>2, <3>5, <3>6, <4>1
    <3>8. p.cells[a].next = NULL /\ p.cells[a].data = d
      <4>1. a \in Along(t) \ {e} /\ With[a] = [data |-> d, next |-> NULL]
        BY <1>6, <3>2, <3>4
      <4>2. p.cells[a] = With[a]
        BY <3>7, <4>1
      <4> QED
        BY <4>1, <4>2
    <3>9. \A k \in 1..Len(s) : /\ p.cells[s[k]].data = l.cells[s[k]].data
                               /\ p.cells[s[k]].next = From(t, k + 1)
      <4> SUFFICES ASSUME NEW k \in 1..Len(s)
                   PROVE  /\ p.cells[s[k]].data = l.cells[s[k]].data
                          /\ p.cells[s[k]].next = From(t, k + 1)
        OBVIOUS
      <4>1. s[k] \in Along(s) /\ s[k] \in Along(t) /\ With[s[k]] = l.cells[s[k]]
        BY <1>2, <1>3, <1>6
      <4>2. CASE k = Len(s)
        <5>1. From(t, k + 1) = a
          BY <1>3, <1>4, <4>2 DEF From
        <5> HIDE DEF With
        <5> QED
          BY <3>7, <4>1, <4>2, <5>1
      <4>3. CASE k # Len(s)
        <5>1. s[k] # e
          <6>1. \A m, n \in 1..Len(s) : s[m] = s[n] => m = n
            BY <1>1 DEF Layout, Distinct
          <6> QED
            BY <3>1, <4>3, <6>1
        <5>2. k + 1 \in 1..Len(s) /\ ~(k + 1 > Len(s)) /\ ~(k + 1 > Len(t))
          <6>1. Len(s) \in Nat /\ Len(t) = Len(s) + 1
            BY <1>3, <1>4
          <6> QED
            BY <4>3, <6>1
        <5>3. l.cells[s[k]].next = From(s, k + 1)
          BY <1>1 DEF Layout
        <5>4. From(s, k + 1) = From(t, k + 1)
          BY <1>4, <5>2 DEF From
        <5>5. p.cells[s[k]] = l.cells[s[k]]
          BY <3>7, <4>1, <5>1
        <5> QED
          BY <5>3, <5>4, <5>5
      <4> QED
        BY <4>2, <4>3
    <3>10. p.length = Len(s) + 1 /\ p.head = From(t, 1)
      <4>1. p.length = Len(s) + 1 /\ p.head = l.head
        BY <1>3, <3>3
      <4>2. l.head = s[1] /\ s[1] = t[1] /\ ~(1 > Len(t))
        BY <1>1, <1>3, <1>4, <2>2 DEF Layout, From
      <4> QED
        BY <4>1, <4>2 DEF From
    <3> QED
      BY <3>7, <3>8, <3>9, <3>10
  <2> QED
    BY <2>1, <2>2
<1> HIDE DEF p
<1>8. \A k \in 1..Len(t) : p.cells[t[k]].next = From(t, k + 1)
  <2> SUFFICES ASSUME NEW k \in 1..Len(t) PROVE p.cells[t[k]].next = From(t, k + 1)
    OBVIOUS
  <2>1. CASE k \in 1..Len(s)
    BY <1>4, <1>7, <2>1
  <2>2. CASE k = Len(s) + 1
    <3>1. From(t, k + 1) = NULL
      BY <1>3, <1>4, <2>2 DEF From
    <3> QED
      BY <1>4, <1>7, <2>2, <3>1
  <2> QED
    BY <1>3, <1>4, <2>1, <2>2
<1>9. Layout(p, t, Data)
  BY <1>4, <1>5, <1>7, <1>8 DEF Layout
<1>10. Items(p) = Append(Items(l), d)
  <2>1. /\ Items(p) \in Seq(Data) /\ Len(Items(p)) = Len(s) + 1
        /\ \A k \in 1..Len(s) + 1 : Items(p)[k] = p.cells[t[k]].data
    BY <1>7, <1>9, ListFacts
  <2>2. /\ Items(l) \in Seq(Data) /\ Len(Items(l)) = Len(s)
        /\ \A k \in 1..Len(s) : Items(l)[k] = l.cells[s[k]].data
    BY <1>1, <1>3, ListFacts
  <2>3. /\ Append(Items(l), d) \in Seq(Data) /\ Len(Append(Items(l), d)) = Len(s) + 1
        /\ \A k \in 1..Len(s) : Append(Items(l), d)[k] = Items(l)[k]
        /\ Append(Items(l), d)[Len(s) + 1] = d
    BY <2>2, AppendProperties
  <2>4. \A k \in 1..Len(s) + 1 : Items(p)[k] = Append(Items(l), d)[k]
    <3> SUFFICES ASSUME NEW k \in 1..Len(s) + 1 PROVE Items(p)[k] = Append(Items(l), d)[k]
      OBVIOUS
    <3>1. CASE k \in 1..Len(s)
      BY <1>4, <1>7, <2>1, <2>2, <2>3, <3>1
    <3>2. CASE k = Len(s) + 1
      BY <1>4, <1>7, <2>1, <2>3, <3>2
    <3>3. k \in 1..Len(s) \/ k = Len(s) + 1
      <4>1. Len(s) \in Nat
        BY <1>3
      <4> QED
        BY <4>1
    <3> QED
      BY <3>1, <3>2, <3>3
  <2> QED
    BY <2>1, <2>3, <2>4, SeqEqual
<1> QED
  BY <1>3, <1>7, <1>9, <1>10 DEF IsList, p

(* The first item goes, the others stay in their order. *)
LEMMA PopFacts ==
  ASSUME NEW Data, NEW l, IsList(l, Data), l.length # 0
  PROVE  /\ IsList(Pop(l), Data)
         /\ Items(l) # <<>> /\ Items(Pop(l)) = Tail(Items(l))
<1> DEFINE p == Pop(l)
<1>1. PICK s : Layout(l, s, Data)
  BY DEF IsList
<1> DEFINE t == Tail(s)
<1>2. /\ s \in Seq(Nat \ {NULL}) /\ Len(s) \in Nat \ {0} /\ s \in [1..Len(s) -> Nat \ {NULL}]
      /\ l.length = Len(s) /\ l.cells \in [Along(s) -> [data : Data, next : Nat]]
      /\ \A k \in 1..Len(s) : s[k] \in Along(s)
      /\ \A m, n \in 1..Len(s) : s[m] = s[n] => m = n
  BY <1>1, LenProperties DEF Layout, Along, Distinct
<1>3. /\ t \in Seq(Nat \ {NULL}) /\ Len(t) = Len(s) - 1
      /\ \A k \in 1..Len(s) - 1 : t[k] = s[k + 1]
  <2>1. s # <<>>
    BY <1>2, EmptySeq
  <2> QED
    BY <1>2, <2>1, HeadTailProperties
<1> HIDE DEF t
<1>4. Distinct(t)
  <2> SUFFICES ASSUME NEW m \in 1..Len(t), NEW n \in 1..Len(t), t[m] = t[n] PROVE m = n
    BY DEF Distinct
  <2>1. Len(s) \in Nat /\ Len(t) = Len(s) - 1
    BY <1>2, <1>3
  <2>2. m \in 1..Len(s) - 1 /\ n \in 1..Len(s) - 1 /\ m + 1 \in 1..Len(s) /\ n + 1 \in 1..Len(s)
    BY <2>1
  <2>3. s[m + 1] = s[n + 1]
    BY <1>3, <2>2
  <2>4. m + 1 = n + 1
    BY <1>2, <2>2, <2>3
  <2> QED
    BY <2>1, <2>4
<1>5. Along(t) = Along(s) \ {s[1]}
  <2>1. Len(s) \in Nat /\ Len(t) = Len(s) - 1 /\ 1 \in 1..Len(s)
    BY <1>2, <1>3
  <2>2. ASSUME NEW k \in 1..Len(t) PROVE t[k] \in Along(s) /\ t[k] # s[1]
    <3>1. k \in 1..Len(s) - 1 /\ k + 1 \in 1..Len(s) /\ k + 1 # 1
      BY <2>1
    <3>2. t[k] = s[k + 1] /\ s[k + 1] \in Along(s)
      BY <1>2, <1>3, <3>1
    <3>3. s[k + 1] # s[1]
      BY <1>2, <2>1, <3>1
    <3> QED
      BY <3>2, <3>3
  <2>3. ASSUME NEW k \in 1..Len(s), s[k] # s[1] PROVE s[k] \in Along(t)
    <3>1. k # 1
      BY <2>3
    <3>2. k - 1 \in 1..Len(s) - 1 /\ k - 1 \in 1..Len(t) /\ (k - 1) + 1 = k
      BY <2>1, <3>1
    <3>3. t[k - 1] = s[(k - 1) + 1]
      BY <1>3, <3>2
    <3>4. s[k] = t[k - 1]
      BY <3>2, <3>3
    <3> QED
      BY <3>2, <3>4 DEF Along
  <2> QED
    BY <2>2, <2>3 DEF Along
<1>6. p = [head |-> l.cells[s[1]].next, length |-> l.length - 1,
           cells |-> [x \in Along(t) |-> l.cells[x]]]
  <2>1. l.head = s[1] /\ s[1] # NULL
    <3>1. 1 \in 1..Len(s) /\ ~(1 > Len(s))
      BY <1>2
    <3> QED
      BY <1>1, <1>2, <3>1 DEF Layout, From
  <2>2. DOMAIN l.cells = Along(s)
    BY <1>2
  <2> QED
    BY <1>5, <2>1, <2>2 DEF Pop, RemoveLL
<1>7. /\ p.cells \in [Along(t) -> [data : Data, next : Nat]]
      /\ \A x \in Along(t) : p.cells[x] = l.cells[x]
  BY <1>2, <1>5, <1>6
<1>8. p.head = From(t, 1) /\ p.length = Len(t)
  <2>1. 1 \in 1..Len(s) /\ Len(s) \in Nat /\ Len(t) = Len(s) - 1
    BY <1>2, <1>3
  <2>2. l.cells[s[1]].next = From(s, 1 + 1)
    BY <1>1, <2>1 DEF Layout
  <2>3. From(s, 1 + 1) = From(t, 1)
    <3>1. CASE Len(s) = 1
      BY <2>1, <3>1 DEF From
    <3>2. CASE Len(s) # 1
      <4>1. 1 \in 1..Len(s) - 1 /\ ~(1 > Len(t)) /\ ~(1 + 1 > Len(s))
        BY <2>1, <3>2
      <4>2. t[1] = s[1 + 1]
        BY <1>3, <4>1
      <4> QED
        BY <4>1, <4>2 DEF From
    <3> QED
      BY <3>1, <3>2
  <2> QED
    BY <1>2, <1>6, <2>1, <2>2, <2>3
<1> HIDE DEF p
<1>9. ASSUME NEW k \in 1..Len(t)
      PROVE  /\ p.cells[t[k]].next = From(t, k + 1)
             /\ t[k] = s[k + 1] /\ p.cells[t[k]].data = l.cells[s[k + 1]].data
  <2>1. Len(s) \in Nat /\ Len(t) = Len(s) - 1
    BY <1>2, <1>3
  <2>2. k \in 1..Len(s) - 1 /\ k + 1 \in 1..Len(s) /\ t[k] \in Along(t)
    BY <2>1 DEF Along
  <2>3. t[k] = s[k + 1] /\ p.cells[t[k]] = l.cells[s[k + 1]]
    BY <1>3, <1>7, <2>2
  <2>4. l.cells[s[k + 1]].next = From(s, (k + 1) + 1)
    BY <1>1, <2>2 DEF Layout
  <2>5. From(s, (k + 1) + 1) = From(t, k + 1)
    <3>1. CASE k = Len(t)
      <4>1. (k + 1) + 1 > Len(s) /\ k + 1 > Len(t)
        BY <2>1, <3>1
      <4> QED
        BY <4>1 DEF From
    <3>2. CASE k # Len(t)
      <4>1. k + 1 \in 1..Len(s) - 1 /\ ~(k + 1 > Len(t)) /\ ~((k + 1) + 1 > Len(s))
        BY <2>1, <3>2
      <4>2. t[k + 1] = s[(k + 1) + 1]
        BY <1>3, <4>1
      <4> QED
        BY <4>1, <4>2 DEF From
    <3> QED
      BY <3>1, <3>2
  <2> QED
    BY <2>3, <2>4, <2>5
<1>10. Layout(p, t, Data)
  BY <1>3, <1>4, <1>7, <1>8, <1>9 DEF Layout
<1>11. Items(l) # <<>> /\ Items(p) = Tail(Items(l))
  <2>0. Len(s) \in Nat \ {0} /\ Len(t) = Len(s) - 1
    BY <1>2, <1>3
  <2>1. /\ Items(p) \in Seq(Data) /\ Len(Items(p)) = Len(t)
        /\ \A k \in 1..Len(t) : Items(p)[k] = p.cells[t[k]].data
    BY <1>8, <1>10, ListFacts
  <2>2. /\ Items(l) \in Seq(Data) /\ Len(Items(l)) = Len(s)
        /\ \A k \in 1..Len(s) : Items(l)[k] = l.cells[s[k]].data
    BY <1>1, <1>2, ListFacts
  <2>3. Items(l) # <<>>
    BY <2>0, <2>2, EmptySeq
  <2>4. /\ Tail(Items(l)) \in Seq(Data) /\ Len(Tail(Items(l))) = Len(s) - 1
        /\ \A k \in 1..Len(s) - 1 : Tail(Items(l))[k] = Items(l)[k + 1]
    BY <2>2, <2>3, HeadTailProperties
  <2>5. \A k \in 1..Len(t) : Items(p)[k] = Tail(Items(l))[k]
    <3> SUFFICES ASSUME NEW k \in 1..Len(t) PROVE Items(p)[k] = Tail(Items(l))[k]
      OBVIOUS
    <3>1. k \in 1..Len(s) - 1 /\ k + 1 \in 1..Len(s)
      BY <2>0
    <3>2. Items(p)[k] = l.cells[s[k + 1]].data
      BY <1>9, <2>1
    <3>3. Tail(Items(l))[k] = l.cells[s[k + 1]].data
      BY <2>2, <2>4, <3>1
    <3> QED
      BY <3>2, <3>3
  <2>6. Items(p) = Tail(Items(l))
    BY <2>0, <2>1, <2>4, <2>5, SeqEqual
  <2> QED
    BY <2>3, <2>6
<1> QED
  BY <1>10, <1>11 DEF IsList, p

(* The destructor of an empty list has nothing to do. *)
LEMMA DestructFacts ==
  ASSUME NEW l, l.length = 0
  PROVE  DestructLL(l) = l
<1> DEFINE Solves(f) == f = [k \in 0..0 |-> IF k = 0 THEN l ELSE RemoveLL(f[k - 1], 0)]
           left == CHOOSE f : Solves(f)
           Done(k) == k >= left[k].length /\ \A j \in 0..k - 1 : j < left[j].length
<1>1. Solves([k \in 0..0 |-> l])
  OBVIOUS
<1>2. Solves(left)
  <2> HIDE DEF Solves
  <2> QED
    BY <1>1
<1>3. left[0] = l
  <2> HIDE DEF left
  <2> QED
    BY <1>2
<1>4. DestructLL(l) = left[CHOOSE k \in 0..0 : Done(k)]
  BY DEF DestructLL
<1> HIDE DEF left
<1>5. Done(0)
  BY <1>3
<1>6. (CHOOSE k \in 0..0 : Done(k)) \in 0..0
  <2> HIDE DEF Done
  <2>1. 0 \in 0..0
    OBVIOUS
  <2> QED
    BY <1>5, <2>1
<1>7. (CHOOSE k \in 0..0 : Done(k)) = 0
  <2> HIDE DEF Done
  <2> QED
    BY <1>6
<1> QED
  BY <1>3, <1>4, <1>7

-----------------------------------------------------------------------------
(* Trees.  Nodes are numbered as they were attached, so that pointers lead *)
(* to higher numbers and a search ends.                                    *)

Nodes(Values) == [key : Nat, value : Values, next : Nat, prev : Nat]

Grown(t, n, Values) ==
  /\ t \in [head : Nat, nodes : [1..n -> Nodes(Values)]]
  /\ t.head = IF n = 0 THEN NULL ELSE 1
  /\ \A c \in 1..n : /\ t.nodes[c].next = NULL \/ t.nodes[c].next \in c + 1..n
                     /\ t.nodes[c].prev = NULL \/ t.nodes[c].prev \in c + 1..n

IsTree(t, Values) == \E n \in Nat : Grown(t, n, Values)

(* One turn of the search, and a search that goes on from any node.        *)
Turn(t, k, f, c) ==
  IF t.nodes[c].key > k THEN IF t.nodes[c].next # NULL THEN f[t.nodes[c].next] ELSE <<c, 1>>
  ELSE IF t.nodes[c].key < k THEN IF t.nodes[c].prev # NULL THEN f[t.nodes[c].prev] ELSE <<c, -1>>
  ELSE <<c, 0>>
Descent(t, k, n, f) == \A c \in 1..n : f[c] = Turn(t, k, f, c)

(* The definition of the search has a solution: below a node that can be   *)
(* searched from, all can.                                                 *)
LEMMA DescentExists ==
  ASSUME NEW Values, NEW n \in Nat, NEW t, Grown(t, n, Values), NEW k \in Nat
  PROVE  \E f : f = [c \in 1..n |-> Turn(t, k, f, c)]
<1> DEFINE Solves(f, m) == f = [c \in n - m + 1..n |-> Turn(t, k, f, c)]
           Wrong == {m \in 0..n : ~\E f : Solves(f, m)}
<1>1. \A c \in 1..n : /\ t.nodes[c].next = NULL \/ t.nodes[c].next \in c + 1..n
                      /\ t.nodes[c].prev = NULL \/ t.nodes[c].prev \in c + 1..n
  BY DEF Grown
<1>2. Solves([c \in n - 0 + 1..n |-> 0], 0)
  <2>1. n - 0 + 1..n = {}
    OBVIOUS
  <2> QED
    BY <2>1
<1>3. ASSUME NEW m \in 0..n - 1, NEW f, Solves(f, m)
      PROVE  \E g : Solves(g, m + 1)
  <2> DEFINE b == n - m
             g == [c \in b..n |-> IF c = b THEN Turn(t, k, f, b) ELSE f[c]]
  <2>1. b \in 1..n /\ n - (m + 1) + 1 = b /\ n - m + 1 = b + 1
    OBVIOUS
  <2>2. \A c \in b + 1..n : f[c] = Turn(t, k, f, c)
    <3>1. f = [c \in b + 1..n |-> Turn(t, k, f, c)]
      BY <1>3, <2>1
    <3> HIDE DEF b, Turn
    <3> QED
      BY <3>1
  <2>3. \A c \in b + 1..n : g[c] = f[c]
    <3> HIDE DEF Turn
    <3> QED
      BY <2>1
  <2>4. g[b] = Turn(t, k, f, b)
    <3> HIDE DEF Turn
    <3> QED
      BY <2>1
  <2> HIDE DEF g, b
  <2>5. ASSUME NEW c \in b..n PROVE Turn(t, k, g, c) = Turn(t, k, f, c)
    <3>1. c \in 1..n /\ \A x \in c + 1..n : x \in b + 1..n
      BY <2>1
    <3>2. t.nodes[c].next # NULL => g[t.nodes[c].next] = f[t.nodes[c].next]
      BY <1>1, <2>3, <3>1
    <3>3. t.nodes[c].prev # NULL => g[t.nodes[c].prev] = f[t.nodes[c].prev]
      BY <1>1, <2>3, <3>1
    <3> QED
      BY <3>2, <3>3, Zenon DEF Turn
  <2>6. \A c \in b..n : g[c] = Turn(t, k, g, c)
    <3> SUFFICES ASSUME NEW c \in b..n PROVE g[c] = Turn(t, k, g, c)
      OBVIOUS
    <3>1. CASE c = b
      BY <2>4, <2>5, <3>1
    <3>2. CASE c # b
      <4>1. c \in b + 1..n
        BY <2>1, <3>2
      <4> QED
        BY <2>2, <2>3, <2>5, <4>1
    <3> QED
      BY <3>1, <3>2
  <2>7. g = [c \in b..n |-> g[c]]
    BY DEF g
  <2>8. g = [c \in b..n |-> Turn(t, k, g, c)]
    <3> HIDE DEF Turn
    <3> QED
      BY <2>6, <2>7
  <2>9. Solves(g, m + 1)
    <3> HIDE DEF Turn
    <3> QED
      BY <2>1, <2>8
  <2> QED
    BY <2>9
<1>4. Wrong = {}
  <2> SUFFICES ASSUME Wrong # {} PROVE FALSE
    OBVIOUS
  <2> HIDE DEF Solves
  <2>1. PICK m \in Wrong : \A j \in Wrong : m <= j
    <3>1. Wrong \in SUBSET Nat
      OBVIOUS
    <3> QED
      BY <3>1, LeastNumber
  <2>2. m # 0
    BY <1>2
  <2>3. m - 1 \in 0..n - 1 /\ m - 1 \in 0..n /\ ~(m <= m - 1) /\ (m - 1) + 1 = m
    BY <2>2
  <2>4. PICK f : Solves(f, m - 1)
    BY <2>1, <2>3
  <2>5. \E g : Solves(g, (m - 1) + 1)
    BY <1>3, <2>3, <2>4
  <2> QED
    BY <2>3, <2>5
<1>5. n \in 0..n /\ n - n + 1 = 1
  OBVIOUS
<1>6. \E f : Solves(f, n)
  <2> HIDE DEF Solves
  <2> QED
    BY <1>4, <1>5
<1> HIDE DEF Turn
<1> QED
  BY <1>5, <1>6

(* What iterate_bst gives is the end of such a search from the head. *)
LEMMA IterateDescends ==
  ASSUME NEW Values, NEW n \in Nat, NEW t, Grown(t, n, Values), NEW k \in Nat
  PROVE  /\ n = 0 => IterateBST(t, k) = <<NULL, 1>>
         /\ n # 0 => \E f : Descent(t, k, n, f) /\ IterateBST(t, k) = f[1]
<1> DEFINE Solves(f) == f = [c \in 1..n |->
             CASE t.nodes[c].key > k -> IF t.nodes[c].next # NULL THEN f[t.nodes[c].next] ELSE <<c, 1>>
               [] t.nodes[c].key < k -> IF t.nodes[c].prev # NULL THEN f[t.nodes[c].prev] ELSE <<c, -1>>
               [] OTHER -> <<c, 0>>]
           from == CHOOSE f : Solves(f)
<1>1. /\ DOMAIN t.nodes = 1..n /\ t.head = (IF n = 0 THEN NULL ELSE 1)
      /\ \A c \in 1..n : t.nodes[c].key \in Nat
  BY DEF Grown, Nodes
<1>2. IterateBST(t, k) = IF t.head = NULL THEN <<NULL, 1>> ELSE from[t.head]
  BY <1>1 DEF IterateBST
<1>3. PICK f : f = [c \in 1..n |-> Turn(t, k, f, c)]
  BY DescentExists
<1>4. ASSUME NEW g, NEW c \in 1..n
      PROVE  Turn(t, k, g, c) =
               (CASE t.nodes[c].key > k -> IF t.nodes[c].next # NULL THEN g[t.nodes[c].next] ELSE <<c, 1>>
                  [] t.nodes[c].key < k -> IF t.nodes[c].prev # NULL THEN g[t.nodes[c].prev] ELSE <<c, -1>>
                  [] OTHER -> <<c, 0>>)
  BY <1>1 DEF Turn
<1>5. Solves(f)
  BY <1>3, <1>4, Zenon
<1>6. Solves(from)
  <2> HIDE DEF Solves
  <2> QED
    BY <1>5
<1>7. Descent(t, k, n, from)
  <2> HIDE DEF from
  <2>1. \A c \in 1..n : from[c] =
          (CASE t.nodes[c].key > k -> IF t.nodes[c].next # NULL THEN from[t.nodes[c].next] ELSE <<c, 1>>
             [] t.nodes[c].key < k -> IF t.nodes[c].prev # NULL THEN from[t.nodes[c].prev] ELSE <<c, -1>>
             [] OTHER -> <<c, 0>>)
    BY <1>6, Zenon
  <2> QED
    BY <1>4, <2>1, Zenon DEF Descent
<1> HIDE DEF from
<1> QED
  BY <1>1, <1>2, <1>7 DEF NULL

(* A set of numbers up to n that is not empty has a greatest one. *)
LEMMA GreatestNumber ==
  ASSUME NEW n \in Nat, NEW T \in SUBSET (1..n), T # {}
  PROVE  \E c \in T : \A d \in T : d <= c
<1> DEFINE U == {m \in 0..n : n - m \in T}
<1>1. U \in SUBSET Nat /\ U # {}
  <2>1. PICK c \in T : TRUE
    OBVIOUS
  <2>2. PICK m \in 0..n : m = n - c /\ n - m = c
    OBVIOUS
  <2>3. m \in U
    BY <2>2
  <2>4. U \in SUBSET Nat
    OBVIOUS
  <2> QED
    BY <2>3, <2>4
<1>2. PICK m \in U : \A j \in U : m <= j
  BY <1>1, LeastNumber
<1>3. \A d \in T : d <= n - m
  <2> SUFFICES ASSUME NEW d \in T PROVE d <= n - m
    OBVIOUS
  <2>1. n - d \in 0..n /\ n - (n - d) = d
    OBVIOUS
  <2>2. n - d \in U
    BY <2>1
  <2>3. m <= n - d /\ m \in 0..n
    BY <1>2, <2>2
  <2>4. d \in 1..n
    OBVIOUS
  <2> QED
    BY <2>3, <2>4
<1> QED
  BY <1>2, <1>3

(* A search ends in a node: the one that has the key, or one that has no   *)
(* node on the side where the key would be.                                *)
EndsAt(t, k, n, end) ==
  \E c \in 1..n, way \in {-1, 0, 1} :
    /\ end = <<c, way>>
    /\ way = 0 => t.nodes[c].key = k
    /\ way = 1 => t.nodes[c].key > k /\ t.nodes[c].next = NULL
    /\ way = -1 => t.nodes[c].key < k /\ t.nodes[c].prev = NULL

(* The search ends at a node of the tree, in every case: the greatest of   *)
(* the nodes where it would not is above the one that it goes on to.       *)
LEMMA DescentEnds ==
  ASSUME NEW Values, NEW n \in Nat, NEW t, Grown(t, n, Values), NEW k \in Nat,
         NEW f, Descent(t, k, n, f)
  PROVE  \A c \in 1..n : EndsAt(t, k, n, f[c])
<1> DEFINE Wrong == {c \in 1..n : ~EndsAt(t, k, n, f[c])}
<1> SUFFICES ASSUME Wrong # {} PROVE FALSE
  OBVIOUS
<1>1. PICK c \in Wrong : \A d \in Wrong : d <= c
  BY GreatestNumber
<1>2. /\ t.nodes[c].next = NULL \/ t.nodes[c].next \in c + 1..n
      /\ t.nodes[c].prev = NULL \/ t.nodes[c].prev \in c + 1..n
      /\ t.nodes[c].key \in Nat
  BY DEF Grown, Nodes
<1>3. \A x \in c + 1..n : EndsAt(t, k, n, f[x])
  <2> SUFFICES ASSUME NEW x \in c + 1..n PROVE EndsAt(t, k, n, f[x])
    OBVIOUS
  <2>1. x \in 1..n /\ ~(x <= c)
    OBVIOUS
  <2> QED
    BY <1>1, <2>1
<1>4. f[c] = Turn(t, k, f, c)
  BY DEF Descent
<1>5. EndsAt(t, k, n, f[c])
  <2>1. CASE t.nodes[c].key > k
    <3>1. CASE t.nodes[c].next # NULL
      BY <1>2, <1>3, <1>4, <2>1, <3>1 DEF Turn
    <3>2. CASE t.nodes[c].next = NULL
      <4>1. f[c] = <<c, 1>>
        BY <1>4, <2>1, <3>2 DEF Turn
      <4> QED
        BY <2>1, <3>2, <4>1 DEF EndsAt
    <3> QED
      BY <3>1, <3>2
  <2>2. CASE t.nodes[c].key < k
    <3>0. ~(t.nodes[c].key > k)
      BY <1>2, <2>2
    <3>1. CASE t.nodes[c].prev # NULL
      BY <1>2, <1>3, <1>4, <2>2, <3>0, <3>1 DEF Turn
    <3>2. CASE t.nodes[c].prev = NULL
      <4>1. f[c] = <<c, -1>>
        BY <1>4, <2>2, <3>0, <3>2 DEF Turn
      <4> QED
        BY <2>2, <3>2, <4>1 DEF EndsAt
    <3> QED
      BY <3>1, <3>2
  <2>3. CASE t.nodes[c].key = k
    <3>1. f[c] = <<c, 0>>
      BY <1>4, <2>3 DEF Turn
    <3> QED
      BY <2>3, <3>1 DEF EndsAt
  <2> QED
    BY <1>2, <2>1, <2>2, <2>3
<1> QED
  BY <1>5

(* What attaching a node does: it hangs on the side where the search for   *)
(* its key came to an end, and nothing else changes.                       *)
Attached(t, k, v, n, e, way, u, Values) ==
  /\ Grown(u, n + 1, Values)
  /\ u.nodes[n + 1] = [key |-> k, value |-> v, next |-> NULL, prev |-> NULL]
  /\ \A c \in 1..n :
       /\ u.nodes[c].key = t.nodes[c].key /\ u.nodes[c].value = t.nodes[c].value
       /\ u.nodes[c].next = IF c = e /\ way = 1 THEN n + 1 ELSE t.nodes[c].next
       /\ u.nodes[c].prev = IF c = e /\ way = -1 THEN n + 1 ELSE t.nodes[c].prev

(* Attach adds one node, below the one where the search ended. *)
LEMMA AttachFacts ==
  ASSUME NEW Values, NEW n \in Nat, NEW t, Grown(t, n, Values), NEW k \in Nat, NEW v \in Values,
         NEW e \in 1..n, NEW way \in {-1, 1}, IterateBST(t, k) = <<e, way>>,
         EndsAt(t, k, n, <<e, way>>)
  PROVE  Attached(t, k, v, n, e, way, Attach(t, k, v), Values)
<1> DEFINE u == Attach(t, k, v)
           new == [key |-> k, value |-> v, next |-> NULL, prev |-> NULL]
           With == [x \in 1..n \cup {n + 1} |-> IF x = n + 1 THEN new ELSE t.nodes[x]]
<1>1. /\ t \in [head : Nat, nodes : [1..n -> Nodes(Values)]] /\ DOMAIN t.nodes = 1..n
      /\ t.head = 1 /\ n # 0 /\ \A c \in 1..n : t.nodes[c] \in Nodes(Values)
  BY DEF Grown
<1>2. Cardinality(DOMAIN t.nodes) = n
  BY <1>1, FS_Interval
<1>3. u = [t EXCEPT !.nodes = [With EXCEPT ![e][Side(way)] = n + 1]]
  <2>1. IterateBST(t, k)[1] = e /\ IterateBST(t, k)[2] = way /\ ~(t.head = NULL)
    BY <1>1 DEF NULL
  <2> QED
    BY <1>1, <1>2, <2>1, Zenon DEF Attach
<1>4. 1..n \cup {n + 1} = 1..n + 1 /\ n + 1 \notin 1..n
  OBVIOUS
<1>5. new \in Nodes(Values)
  BY DEF Nodes, NULL
<1>6. With \in [1..n + 1 -> Nodes(Values)] /\ With[n + 1] = new /\ \A c \in 1..n : With[c] = t.nodes[c]
  <2> HIDE DEF new
  <2> QED
    BY <1>1, <1>4, <1>5
<1>7. PICK N : N = [With EXCEPT ![e][Side(way)] = n + 1]
  OBVIOUS
<1>8. u.head = t.head /\ u.nodes = N /\ u \in [head : {t.head}, nodes : {N}]
  <2> HIDE DEF With, u
  <2>1. u = [t EXCEPT !.nodes = N]
    BY <1>3, <1>7
  <2> QED
    BY <1>1, <2>1
<1>9. N[n + 1] = new /\ \A c \in 1..n \ {e} : N[c] = t.nodes[c]
  <2> HIDE DEF With, new
  <2>1. N[n + 1] = With[n + 1] /\ \A c \in 1..n \ {e} : N[c] = With[c]
    BY <1>4, <1>6, <1>7
  <2> QED
    BY <1>6, <2>1
<1>10. /\ N \in [1..n + 1 -> Nodes(Values)]
       /\ N[e].key = t.nodes[e].key /\ N[e].value = t.nodes[e].value
       /\ N[e].next = IF way = 1 THEN n + 1 ELSE t.nodes[e].next
       /\ N[e].prev = IF way = -1 THEN n + 1 ELSE t.nodes[e].prev
  <2> HIDE DEF With, new
  <2>0. e \in 1..n + 1 /\ With[e] = t.nodes[e] /\ With[e] \in Nodes(Values)
    BY <1>1, <1>6
  <2>1. CASE way = 1
    <3>1. N = [With EXCEPT ![e] = [With[e] EXCEPT !.next = n + 1]]
      BY <1>7, <2>1 DEF Side
    <3>2. PICK r : r = [With[e] EXCEPT !.next = n + 1]
      OBVIOUS
    <3>3. /\ r \in Nodes(Values) /\ r.key = With[e].key /\ r.value = With[e].value
          /\ r.next = n + 1 /\ r.prev = With[e].prev
      BY <2>0, <3>2 DEF Nodes
    <3>4. N[e] = r /\ N \in [1..n + 1 -> Nodes(Values)]
      BY <1>6, <2>0, <3>1, <3>2, <3>3
    <3> QED
      BY <2>0, <2>1, <3>3, <3>4
  <2>2. CASE way = -1
    <3>0. Side(way) = "prev"
      BY <2>2 DEF Side
    <3>1. N = [With EXCEPT ![e] = [With[e] EXCEPT !.prev = n + 1]]
      BY <1>7, <3>0, Zenon
    <3>2. PICK r : r = [With[e] EXCEPT !.prev = n + 1]
      OBVIOUS
    <3>3. /\ r \in Nodes(Values) /\ r.key = With[e].key /\ r.value = With[e].value
          /\ r.prev = n + 1 /\ r.next = With[e].next
      BY <2>0, <3>2 DEF Nodes
    <3>4. N[e] = r /\ N \in [1..n + 1 -> Nodes(Values)]
      BY <1>6, <2>0, <3>1, <3>2, <3>3
    <3> QED
      BY <2>0, <2>2, <3>3, <3>4
  <2> QED
    BY <2>1, <2>2
<1> HIDE DEF u
<1>11. \A c \in 1..n :
              /\ N[c].key = t.nodes[c].key /\ N[c].value = t.nodes[c].value
              /\ N[c].next = IF c = e /\ way = 1 THEN n + 1 ELSE t.nodes[c].next
              /\ N[c].prev = IF c = e /\ way = -1 THEN n + 1 ELSE t.nodes[c].prev
  <2> SUFFICES ASSUME NEW c \in 1..n
               PROVE  /\ N[c].key = t.nodes[c].key /\ N[c].value = t.nodes[c].value
                      /\ N[c].next = IF c = e /\ way = 1 THEN n + 1 ELSE t.nodes[c].next
                      /\ N[c].prev = IF c = e /\ way = -1 THEN n + 1 ELSE t.nodes[c].prev
    OBVIOUS
  <2>1. CASE c = e
    BY <1>10, <2>1
  <2>2. CASE c # e
    BY <1>9, <2>2
  <2> QED
    BY <2>1, <2>2
<1>12. Grown(u, n + 1, Values)
  <2>1. \A c \in 1..n + 1 : /\ N[c].next = NULL \/ N[c].next \in c + 1..n + 1
                            /\ N[c].prev = NULL \/ N[c].prev \in c + 1..n + 1
    <3> SUFFICES ASSUME NEW c \in 1..n + 1
                 PROVE  /\ N[c].next = NULL \/ N[c].next \in c + 1..n + 1
                        /\ N[c].prev = NULL \/ N[c].prev \in c + 1..n + 1
      OBVIOUS
    <3>1. CASE c = n + 1
      BY <1>9, <3>1
    <3>2. CASE c # n + 1
      <4>1. c \in 1..n /\ n + 1 \in c + 1..n + 1 /\ \A x \in c + 1..n : x \in c + 1..n + 1
        BY <3>2
      <4>2. /\ t.nodes[c].next = NULL \/ t.nodes[c].next \in c + 1..n
            /\ t.nodes[c].prev = NULL \/ t.nodes[c].prev \in c + 1..n
        BY <4>1 DEF Grown
      <4> QED
        BY <1>11, <4>1, <4>2
    <3> QED
      BY <3>1, <3>2
  <2>2. u \in [head : Nat, nodes : [1..n + 1 -> Nodes(Values)]] /\ u.head = 1 /\ n + 1 # 0
    BY <1>1, <1>8, <1>10
  <2> QED
    BY <1>8, <2>1, <2>2 DEF Grown
<1> QED
  BY <1>8, <1>9, <1>11, <1>12 DEF u, Attached

(* Insertion keeps what is found; only a key that was not there is found   *)
(* then, with its value.  The order of the keys does not matter for it:    *)
(* every search runs as before, up to where the new node hangs.            *)
Find(t, k) ==
  LET found == IterateBST(t, k)
  IN IF found[2] = 0 THEN t.nodes[found[1]].value ELSE NoValue

(* What is found, by where the search ends. *)
LEMMA FindEnds ==
  ASSUME NEW Values, NEW n \in Nat, NEW t, Grown(t, n, Values), NEW k \in Nat
  PROVE  /\ n = 0 => Find(t, k) = NoValue /\ IterateBST(t, k)[2] # 0
         /\ n # 0 => EndsAt(t, k, n, IterateBST(t, k))
         /\ Find(t, k) \in Values \cup {NoValue}
         /\ NoValue \notin Values => (Find(t, k) = NoValue <=> IterateBST(t, k)[2] # 0)
<1>1. CASE n = 0
  <2>1. IterateBST(t, k) = <<NULL, 1>>
    BY <1>1, IterateDescends
  <2> QED
    BY <1>1, <2>1 DEF Find
<1>2. CASE n # 0
  <2>1. EndsAt(t, k, n, IterateBST(t, k))
    <3>1. PICK f : Descent(t, k, n, f) /\ IterateBST(t, k) = f[1]
      BY <1>2, IterateDescends
    <3>2. 1 \in 1..n
      BY <1>2
    <3> QED
      BY <3>1, <3>2, DescentEnds
  <2>2. PICK c \in 1..n, way \in {-1, 0, 1} : IterateBST(t, k) = <<c, way>>
    BY <2>1 DEF EndsAt
  <2>3. t.nodes[c].value \in Values
    BY DEF Grown, Nodes
  <2>4. Find(t, k) = IF way = 0 THEN t.nodes[c].value ELSE NoValue
    BY <2>2 DEF Find
  <2>5. IterateBST(t, k)[2] = way
    BY <2>2
  <2> QED
    BY <1>2, <2>1, <2>3, <2>4, <2>5
<1> QED
  BY <1>1, <1>2

(* After Attach the new key is found, and every other as before. *)
LEMMA AttachFinds ==
  ASSUME NEW Values, NEW n \in Nat, NEW t, Grown(t, n, Values), NEW k \in Nat, NEW v \in Values,
         IterateBST(t, k)[2] # 0, NoValue \notin Values, NEW q \in Nat
  PROVE  /\ Grown(Attach(t, k, v), n + 1, Values)
         /\ Find(Attach(t, k, v), q) = IF q = k THEN v ELSE Find(t, q)
<1> DEFINE u == Attach(t, k, v)
           new == [key |-> k, value |-> v, next |-> NULL, prev |-> NULL]
<1>1. CASE n = 0
  <2>1. DOMAIN t.nodes = {} /\ t.head = NULL
    <3>1. 1..n = {}
      BY <1>1
    <3> QED
      BY <1>1, <3>1 DEF Grown
  <2>2. Cardinality(DOMAIN t.nodes) = 0
    BY <2>1, FS_EmptySet
  <2>3. u = [head |-> 1, nodes |-> [x \in {1} |-> new]]
    <3>1. {} \cup {0 + 1} = {1}
      OBVIOUS
    <3> QED
      BY <2>1, <2>2, <3>1 DEF Attach
  <2>4. u.head = 1 /\ u.nodes[1] = new /\ n + 1 = 1
    BY <1>1, <2>3
  <2>5. Grown(u, 1, Values)
    <3>1. new \in Nodes(Values) /\ 1..1 = {1}
      BY DEF Nodes, NULL
    <3>2. u \in [head : Nat, nodes : [1..1 -> Nodes(Values)]]
      <4> HIDE DEF new
      <4> QED
        BY <2>3, <3>1
    <3>3. \A c \in 1..1 : u.nodes[c].next = NULL /\ u.nodes[c].prev = NULL
      BY <2>4, <3>1
    <3> HIDE DEF u
    <3> QED
      BY <2>4, <3>2, <3>3 DEF Grown
  <2>6. IterateBST(u, q) = IF k > q THEN <<1, 1>> ELSE IF k < q THEN <<1, -1>> ELSE <<1, 0>>
    <3> HIDE DEF u
    <3>1. PICK f : Descent(u, q, 1, f) /\ IterateBST(u, q) = f[1]
      BY <2>5, IterateDescends
    <3>2. f[1] = Turn(u, q, f, 1)
      BY <3>1 DEF Descent
    <3> QED
      BY <2>4, <3>1, <3>2 DEF Turn
  <2>7. Find(u, q) = IF q = k THEN v ELSE NoValue
    <3> HIDE DEF u
    <3>1. CASE q = k
      <4>1. IterateBST(u, q) = <<1, 0>>
        BY <2>6, <3>1
      <4> QED
        BY <2>4, <3>1, <4>1 DEF Find
    <3>2. CASE q # k
      <4>1. IterateBST(u, q)[2] # 0
        BY <2>6, <3>2
      <4> QED
        BY <3>2, <4>1 DEF Find
    <3> QED
      BY <3>1, <3>2
  <2>8. Find(t, q) = NoValue
    BY <1>1, FindEnds
  <2> QED
    BY <2>4, <2>5, <2>7, <2>8
<1>2. CASE n # 0
  <2>1. PICK e \in 1..n, way \in {-1, 1} : IterateBST(t, k) = <<e, way>> /\ EndsAt(t, k, n, <<e, way>>)
    <3>1. EndsAt(t, k, n, IterateBST(t, k))
      BY <1>2, FindEnds
    <3>2. PICK c \in 1..n, way \in {-1, 0, 1} : IterateBST(t, k) = <<c, way>>
      BY <3>1 DEF EndsAt
    <3>3. way # 0
      BY <3>2
    <3> QED
      BY <3>1, <3>2, <3>3
  <2>2. /\ Grown(u, n + 1, Values) /\ u.nodes[n + 1] = new
        /\ \A c \in 1..n :
              /\ u.nodes[c].key = t.nodes[c].key /\ u.nodes[c].value = t.nodes[c].value
              /\ u.nodes[c].next = IF c = e /\ way = 1 THEN n + 1 ELSE t.nodes[c].next
              /\ u.nodes[c].prev = IF c = e /\ way = -1 THEN n + 1 ELSE t.nodes[c].prev
    <3>1. Attached(t, k, v, n, e, way, u, Values)
      BY <2>1, AttachFacts
    <3> QED
      BY <3>1 DEF Attached
  <2> HIDE DEF u
  <2>3. PICK f : Descent(t, q, n, f) /\ IterateBST(t, q) = f[1]
    BY <1>2, IterateDescends
  <2>4. PICK g : Descent(u, q, n + 1, g) /\ IterateBST(u, q) = g[1]
    <3>1. n + 1 \in Nat /\ n + 1 # 0
      OBVIOUS
    <3> QED
      BY <2>2, <3>1, IterateDescends
  <2>5. g[n + 1] = IF k > q THEN <<n + 1, 1>> ELSE IF k < q THEN <<n + 1, -1>> ELSE <<n + 1, 0>>
    <3>1. n + 1 \in 1..n + 1
      OBVIOUS
    <3>2. g[n + 1] = Turn(u, q, g, n + 1)
      BY <2>4, <3>1 DEF Descent
    <3> QED
      BY <2>2, <3>2 DEF Turn
  <2>6. /\ t.nodes[e].next = NULL \/ way # 1
        /\ t.nodes[e].prev = NULL \/ way # -1
    BY <2>1 DEF EndsAt
  <2> DEFINE Same(c) == g[c] = IF f[c] = <<e, way>> THEN g[n + 1] ELSE f[c]
  <2>7. \A c \in 1..n : Same(c)
    <3> DEFINE Wrong == {c \in 1..n : ~Same(c)}
    <3> SUFFICES ASSUME Wrong # {} PROVE FALSE
      OBVIOUS
    <3>1. PICK c \in Wrong : \A d \in Wrong : d <= c
      <4> HIDE DEF Same
      <4> QED
        BY GreatestNumber
    <3>2. /\ t.nodes[c].next = NULL \/ t.nodes[c].next \in c + 1..n
          /\ t.nodes[c].prev = NULL \/ t.nodes[c].prev \in c + 1..n
          /\ t.nodes[c].key \in Nat
      BY DEF Grown, Nodes
    <3>3. \A x \in c + 1..n : Same(x)
      <4> HIDE DEF Same
      <4> SUFFICES ASSUME NEW x \in c + 1..n PROVE Same(x)
        OBVIOUS
      <4>1. x \in 1..n /\ ~(x <= c)
        OBVIOUS
      <4> QED
        BY <3>1, <4>1
    <3>4. f[c] = Turn(t, q, f, c) /\ g[c] = Turn(u, q, g, c)
      <4>1. c \in 1..n + 1
        OBVIOUS
      <4> QED
        BY <2>3, <2>4, <4>1 DEF Descent
    <3>5. CASE t.nodes[c].key > q
      <4>0. u.nodes[c].key > q /\ u.nodes[c].next = IF c = e /\ way = 1 THEN n + 1 ELSE t.nodes[c].next
        BY <2>2, <3>5
      <4>1. CASE t.nodes[c].next # NULL
        <5>1. u.nodes[c].next = t.nodes[c].next
          BY <2>6, <4>0, <4>1
        <5>2. f[c] = f[t.nodes[c].next] /\ g[c] = g[t.nodes[c].next]
          BY <3>4, <3>5, <4>0, <4>1, <5>1 DEF Turn
        <5>3. Same(t.nodes[c].next)
          BY <3>2, <3>3, <4>1
        <5>4. Same(c)
          BY <5>2, <5>3
        <5> QED
          BY <5>4
      <4>2. CASE t.nodes[c].next = NULL
        <5>1. f[c] = <<c, 1>>
          BY <3>4, <3>5, <4>2 DEF Turn
        <5>2. CASE c = e /\ way = 1
          <6>1. g[c] = g[n + 1]
            BY <3>4, <4>0, <5>2 DEF Turn, NULL
          <6>2. Same(c)
            BY <5>1, <5>2, <6>1
          <6> QED
            BY <6>2
        <5>3. CASE ~(c = e /\ way = 1)
          <6>1. g[c] = <<c, 1>>
            BY <3>4, <4>0, <4>2, <5>3 DEF Turn
          <6>2. Same(c)
            BY <5>1, <5>3, <6>1
          <6> QED
            BY <6>2
        <5> QED
          BY <5>2, <5>3
      <4> QED
        BY <4>1, <4>2
    <3>6. CASE t.nodes[c].key < q
      <4>0. /\ u.nodes[c].key < q /\ ~(u.nodes[c].key > q) /\ ~(t.nodes[c].key > q)
            /\ u.nodes[c].prev = IF c = e /\ way = -1 THEN n + 1 ELSE t.nodes[c].prev
        BY <2>2, <3>2, <3>6
      <4>1. CASE t.nodes[c].prev # NULL
        <5>1. u.nodes[c].prev = t.nodes[c].prev
          BY <2>6, <4>0, <4>1
        <5>2. f[c] = f[t.nodes[c].prev] /\ g[c] = g[t.nodes[c].prev]
          BY <3>4, <3>6, <4>0, <4>1, <5>1 DEF Turn
        <5>3. Same(t.nodes[c].prev)
          BY <3>2, <3>3, <4>1
        <5>4. Same(c)
          BY <5>2, <5>3
        <5> QED
          BY <5>4
      <4>2. CASE t.nodes[c].prev = NULL
        <5>1. f[c] = <<c, -1>>
          BY <3>4, <3>6, <4>0, <4>2 DEF Turn
        <5>2. CASE c = e /\ way = -1
          <6>1. g[c] = g[n + 1]
            BY <3>4, <4>0, <5>2 DEF Turn, NULL
          <6>2. Same(c)
            BY <5>1, <5>2, <6>1
          <6> QED
            BY <6>2
        <5>3. CASE ~(c = e /\ way = -1)
          <6>1. g[c] = <<c, -1>>
            BY <3>4, <4>0, <4>2, <5>3 DEF Turn
          <6>2. Same(c)
            BY <5>1, <5>3, <6>1
          <6> QED
            BY <6>2
        <5> QED
          BY <5>2, <5>3
      <4> QED
        BY <4>1, <4>2
    <3>7. CASE t.nodes[c].key = q
      <4>1. u.nodes[c].key = q
        BY <2>2, <3>7
      <4>2. f[c] = <<c, 0>> /\ g[c] = <<c, 0>>
        BY <3>4, <3>7, <4>1 DEF Turn
      <4>3. f[c] # <<e, way>>
        BY <4>2
      <4>4. Same(c)
        BY <4>2, <4>3
      <4> QED
        BY <4>4
    <3> QED
      BY <3>2, <3>5, <3>6, <3>7
  <2>8. 1 \in 1..n
    BY <1>2
  <2>9. g[1] = IF f[1] = <<e, way>> THEN g[n + 1] ELSE f[1]
    BY <2>7, <2>8
  <2>10. EndsAt(t, q, n, f[1])
    BY <2>3, <2>8, DescentEnds
  <2>11. PICK c \in 1..n, side \in {-1, 0, 1} :
           f[1] = <<c, side>> /\ (side = 0 => t.nodes[c].key = q)
                /\ (side = 1 => t.nodes[c].key > q) /\ (side = -1 => t.nodes[c].key < q)
    BY <2>10 DEF EndsAt
  <2>12. Find(u, q) = IF q = k THEN v ELSE Find(t, q)
    <3>1. CASE q = k
      <4>1. f[1] = <<e, way>>
        BY <2>1, <2>3, <3>1
      <4>2. IterateBST(u, q) = <<n + 1, 0>>
        BY <2>4, <2>5, <2>9, <3>1, <4>1
      <4> QED
        BY <2>2, <3>1, <4>2 DEF Find
    <3>2. CASE q # k /\ f[1] = <<e, way>>
      <4>1. IterateBST(u, q)[2] # 0
        BY <2>4, <2>5, <2>9, <3>2
      <4>2. IterateBST(t, q)[2] # 0
        BY <2>3, <3>2
      <4> QED
        BY <3>2, <4>1, <4>2 DEF Find
    <3>3. CASE q # k /\ f[1] # <<e, way>>
      <4>1. IterateBST(u, q) = <<c, side>> /\ IterateBST(t, q) = <<c, side>>
        BY <2>3, <2>4, <2>9, <2>11, <3>3
      <4>2. u.nodes[c].value = t.nodes[c].value
        BY <2>2
      <4> QED
        BY <3>3, <4>1, <4>2 DEF Find
    <3> QED
      BY <3>1, <3>2, <3>3
  <2> QED
    BY <2>2, <2>12 DEF u
<1> QED
  BY <1>1, <1>2

(* Nothing is found in the empty tree. *)
LEMMA EmptyTreeFacts ==
  ASSUME NEW Values
  PROVE  IsTree(EmptyTree, Values) /\ \A q \in Nat : Find(EmptyTree, q) = NoValue
<1>1. Grown(EmptyTree, 0, Values)
  <2>1. <<>> \in [1..0 -> Nodes(Values)]
    <3>1. 1..0 = {}
      OBVIOUS
    <3> QED
      BY <3>1
  <2> QED
    BY <2>1 DEF Grown, EmptyTree, NULL
<1>2. \A q \in Nat : Find(EmptyTree, q) = NoValue
  BY <1>1, FindEnds
<1> QED
  BY <1>1, <1>2 DEF IsTree

(* Inserting: the entry that was there stays, and the key is found.        *)
LEMMA InsertFacts ==
  ASSUME NEW Values, NEW t, IsTree(t, Values), NEW k \in Nat, NEW v \in Values, NoValue \notin Values
  PROVE  /\ IsTree(InsertBST(t, k, v), Values)
         /\ \A q \in Nat : Find(InsertBST(t, k, v), q) =
                             IF q = k /\ Find(t, k) = NoValue THEN v ELSE Find(t, q)
<1>1. PICK n \in Nat : Grown(t, n, Values)
  BY DEF IsTree
<1>2. Find(t, k) = NoValue <=> IterateBST(t, k)[2] # 0
  BY <1>1, FindEnds
<1>3. CASE IterateBST(t, k)[2] = 0
  <2>1. InsertBST(t, k, v) = t
    BY <1>3 DEF InsertBST
  <2> QED
    BY <1>2, <1>3, <2>1
<1>4. CASE IterateBST(t, k)[2] # 0
  <2>1. InsertBST(t, k, v) = Attach(t, k, v)
    BY <1>4 DEF InsertBST
  <2>2. n + 1 \in Nat /\ Grown(Attach(t, k, v), n + 1, Values)
    <3>1. 0 \in Nat
      OBVIOUS
    <3> QED
      BY <1>1, <1>4, <3>1, AttachFinds
  <2>3. \A q \in Nat : Find(Attach(t, k, v), q) = IF q = k THEN v ELSE Find(t, q)
    BY <1>1, <1>4, AttachFinds
  <2> QED
    BY <1>2, <1>4, <2>1, <2>2, <2>3 DEF IsTree
<1> QED
  BY <1>3, <1>4

-----------------------------------------------------------------------------
(* Dictionaries of a worker. *)

IsDict(d) == IsTree(d.bst, Owners) /\ IsList(d.keys, Heads)

(* A value that is found is never taken for none. *)
LEMMA NoValueOwner == NoValue \notin Owners
BY DEF NoValue, Owners

(* Keys are numbers, as those of a tree are. *)
LEMMA KeysAreNumbers == Heads \subseteq Nat
BY DEF Heads, NoKey, Keys

(* search_dict finds what the tree has. *)
LEMMA SearchIsFind ==
  ASSUME NEW d, NEW k
  PROVE  SearchDict(d, k) = Find(d.bst, k)
BY DEF SearchDict, Find

(* Nothing is in the empty dictionary. *)
LEMMA EmptyDictionaryFacts ==
  /\ IsDict(EmptyDictionary) /\ Items(EmptyDictionary.keys) = <<>>
  /\ \A q \in Heads : SearchDict(EmptyDictionary, q) = NoValue
<1>1. EmptyDictionary.bst = EmptyTree /\ EmptyDictionary.keys = EmptyList
  BY DEF EmptyDictionary
<1>2. IsTree(EmptyTree, Owners) /\ \A q \in Heads : Find(EmptyTree, q) = NoValue
  BY EmptyTreeFacts, KeysAreNumbers
<1>3. IsList(EmptyList, Heads) /\ Items(EmptyList) = <<>>
  BY EmptyListFacts DEF IsList
<1> QED
  BY <1>1, <1>2, <1>3, SearchIsFind DEF IsDict

(* Inserting: the key comes last in the list, and the tree has its first   *)
(* entry.                                                                  *)
LEMMA InsertDictFacts ==
  ASSUME NEW d, IsDict(d), NEW k \in Heads, NEW v \in Owners
  PROVE  LET e == InsertDict(d, k, v) IN
         /\ IsDict(e) /\ Items(e.keys) = Append(Items(d.keys), k)
         /\ \A q \in Heads :
              SearchDict(e, q) = IF q = k /\ SearchDict(d, k) = NoValue THEN v ELSE SearchDict(d, q)
<1> DEFINE e == InsertDict(d, k, v)
<1>1. e.bst = InsertBST(d.bst, k, v) /\ e.keys = Push(d.keys, k)
  BY DEF InsertDict, Push
<1> HIDE DEF e
<1>2. IsTree(d.bst, Owners) /\ IsList(d.keys, Heads) /\ k \in Nat
  BY KeysAreNumbers DEF IsDict
<1>3. /\ IsTree(InsertBST(d.bst, k, v), Owners)
      /\ \A q \in Nat : Find(InsertBST(d.bst, k, v), q) =
                          IF q = k /\ Find(d.bst, k) = NoValue THEN v ELSE Find(d.bst, q)
  BY <1>2, NoValueOwner, InsertFacts
<1>4. IsList(Push(d.keys, k), Heads) /\ Items(Push(d.keys, k)) = Append(Items(d.keys), k)
  BY <1>2, PushFacts
<1>5. \A q \in Heads :
        SearchDict(e, q) = IF q = k /\ SearchDict(d, k) = NoValue THEN v ELSE SearchDict(d, q)
  BY <1>1, <1>3, SearchIsFind, KeysAreNumbers
<1>6. IsDict(e) /\ Items(e.keys) = Append(Items(d.keys), k)
  BY <1>1, <1>3, <1>4 DEF IsDict
<1> QED
  BY <1>5, <1>6 DEF e

(* What iterate_dict visits: the keys in their order, each with the value  *)
(* that the search finds.                                                  *)
LEMMA IterateDictFacts ==
  ASSUME NEW d, IsDict(d)
  PROVE  /\ Items(d.keys) \in Seq(Heads)
         /\ IterateDict(d) = [j \in 1..Len(Items(d.keys)) |->
                                <<Items(d.keys)[j], SearchDict(d, Items(d.keys)[j])>>]
<1>1. PICK s : Layout(d.keys, s, Heads)
  BY DEF IsDict, IsList
<1>2. /\ Items(d.keys) \in Seq(Heads) /\ Len(Items(d.keys)) = d.keys.length
      /\ d.keys.length \in Nat
      /\ \A k \in 1..d.keys.length : Items(d.keys)[k] = d.keys.cells[s[k]].data
  BY <1>1, ListFacts
<1>3. \A index \in 0..d.keys.length - 1 : RetrieveLL(d.keys, index) = d.keys.cells[s[index + 1]].data
  BY <1>1, ReadAlong
<1>4. \A j \in 1..d.keys.length : RetrieveLL(d.keys, j - 1) = Items(d.keys)[j]
  <2> SUFFICES ASSUME NEW j \in 1..d.keys.length PROVE RetrieveLL(d.keys, j - 1) = Items(d.keys)[j]
    OBVIOUS
  <2>1. j - 1 \in 0..d.keys.length - 1 /\ (j - 1) + 1 = j
    BY <1>2
  <2> QED
    BY <1>2, <1>3, <2>1
<1>5. IterateDict(d) = [j \in 1..d.keys.length |->
                          <<RetrieveLL(d.keys, j - 1), SearchDict(d, RetrieveLL(d.keys, j - 1))>>]
  BY DEF IterateDict
<1> QED
  BY <1>2, <1>4, <1>5

-----------------------------------------------------------------------------
(* What is received. *)

(* The larger of two numbers. *)
LEMMA LargerOfTwo ==
  ASSUME NEW a \in Nat, NEW b \in Nat
  PROVE  Max({a, b}) = IF a >= b THEN a ELSE b
<1> DEFINE top == IF a >= b THEN a ELSE b
<1>1. top \in {a, b} /\ \A y \in {a, b} : top >= y
  OBVIOUS
<1>2. \A x \in {a, b} : (\A y \in {a, b} : x >= y) => x = top
  OBVIOUS
<1> HIDE DEF top
<1>3. Max({a, b}) \in {a, b} /\ \A y \in {a, b} : Max({a, b}) >= y
  BY <1>1 DEF Max
<1>4. Max({a, b}) = top
  BY <1>2, <1>3
<1> QED
  BY <1>4 DEF top

(* What is stored from a place within the text: the text is no shorter     *)
(* than before.                                                            *)
LEMMA StoredFacts ==
  ASSUME NEW text \in Seq(Heads), NEW piece \in Seq(Heads), NEW at \in 0..Len(text)
  PROVE  /\ Stored(text, at, piece) \in Seq(Heads)
         /\ Len(Stored(text, at, piece)) =
              IF Len(text) >= at + Len(piece) THEN Len(text) ELSE at + Len(piece)
         /\ \A j \in 1..Len(Stored(text, at, piece)) :
              Stored(text, at, piece)[j] = IF j \in at + 1..at + Len(piece) THEN piece[j - at] ELSE text[j]
<1> DEFINE n == IF Len(text) >= at + Len(piece) THEN Len(text) ELSE at + Len(piece)
           Entry(j) == IF j \in at + 1..at + Len(piece) THEN piece[j - at] ELSE text[j]
<1>1. /\ Len(text) \in Nat /\ Len(piece) \in Nat /\ at \in Nat /\ at + Len(piece) \in Nat
      /\ text \in [1..Len(text) -> Heads] /\ piece \in [1..Len(piece) -> Heads]
  BY LenProperties
<1>2. Max({Len(text), at + Len(piece)}) = n
  BY <1>1, LargerOfTwo
<1>3. Stored(text, at, piece) = [j \in 1..n |-> Entry(j)]
  BY <1>2 DEF Stored
<1>4. \A j \in 1..n : Entry(j) \in Heads
  <2> SUFFICES ASSUME NEW j \in 1..n PROVE Entry(j) \in Heads
    OBVIOUS
  <2>1. CASE j \in at + 1..at + Len(piece)
    <3>1. j - at \in 1..Len(piece)
      BY <1>1, <2>1
    <3> QED
      BY <1>1, <2>1, <3>1
  <2>2. CASE j \notin at + 1..at + Len(piece)
    <3>1. j \in 1..Len(text)
      BY <1>1, <2>2
    <3> QED
      BY <1>1, <2>2, <3>1
  <2> QED
    BY <2>1, <2>2
<1>5. n \in Nat
  BY <1>1
<1>6. Stored(text, at, piece) \in Seq(Heads) /\ Len(Stored(text, at, piece)) = n
  <2> HIDE DEF n, Entry
  <2> QED
    BY <1>3, <1>4, <1>5
<1>7. \A j \in 1..n : Stored(text, at, piece)[j] = Entry(j)
  <2> HIDE DEF n, Entry
  <2> QED
    BY <1>3
<1> QED
  BY <1>6, <1>7 DEF n, Entry

(* The cuts are pieces of the keys. *)
LEMMA CutFacts ==
  ASSUME NEW n \in Nat, NEW keys \in [1..n -> Heads], NEW from \in 1..n + 1, NEW to \in 0..n, to + 1 >= from
  PROVE  /\ SubSeq(keys, from, to) \in Seq(Heads) /\ Len(SubSeq(keys, from, to)) = to + 1 - from
         /\ \A j \in 1..to + 1 - from : SubSeq(keys, from, to)[j] = keys[from + j - 1]
<1>1. /\ keys \in Seq(Heads) /\ from \in Int /\ to \in Int
      /\ \A i \in from..to : keys[i] \in Heads
  OBVIOUS
<1>2. /\ SubSeq(keys, from, to) \in Seq(Heads)
      /\ Len(SubSeq(keys, from, to)) = IF from <= to THEN to - from + 1 ELSE 0
      /\ \A i \in 1..to - from + 1 : SubSeq(keys, from, to)[i] = keys[from + i - 1]
  BY <1>1, SubSeqProperties
<1>3. (IF from <= to THEN to - from + 1 ELSE 0) = to + 1 - from /\ to - from + 1 = to + 1 - from
  OBVIOUS
<1> QED
  BY <1>2, <1>3

(* What was sent is received when it came in two pieces at most and the    *)
(* text before was no longer.                                              *)
LEMMA ReceivedFacts ==
  ASSUME NEW text \in Seq(Heads), Len(text) <= MaxFields, NEW n \in 0..MaxFields,
         NEW keys \in [1..n -> Heads], NEW cut \in Cuts(n)
  PROVE  LET a == SubSeq(keys, 1, cut[1])
             b == SubSeq(keys, cut[1] + 1, cut[2])
             c == SubSeq(keys, cut[2] + 1, n)
         IN /\ Received(text, a, b, c) \in Seq(Heads)
            /\ Len(Received(text, a, b, c)) \in 0..MaxFields
            /\ c = <<>> /\ ~(n < Len(text)) => Received(text, a, b, c) = keys
<1> DEFINE a == SubSeq(keys, 1, cut[1])
           b == SubSeq(keys, cut[1] + 1, cut[2])
           c == SubSeq(keys, cut[2] + 1, n)
           i == cut[1]
           m == cut[2]
           one == Stored(text, 0, a)
           two == Stored(one, Len(a), b)
           three == Stored(two, Len(b), c)
<1>1. MaxFields \in Nat /\ n \in Nat /\ n <= MaxFields /\ i \in 0..n /\ m \in 0..n /\ i <= m
  BY BoundsAssumption DEF Cuts
<1>2. /\ a \in Seq(Heads) /\ Len(a) = i /\ \A j \in 1..i : a[j] = keys[j]
  <2>1. 1 \in 1..n + 1 /\ i + 1 >= 1 /\ i + 1 - 1 = i /\ \A j \in 1..i : 1 + j - 1 = j
    BY <1>1
  <2> HIDE DEF i
  <2>2. /\ SubSeq(keys, 1, i) \in Seq(Heads) /\ Len(SubSeq(keys, 1, i)) = i + 1 - 1
        /\ \A j \in 1..i + 1 - 1 : SubSeq(keys, 1, i)[j] = keys[1 + j - 1]
    BY <1>1, <2>1, CutFacts
  <2> QED
    BY <2>1, <2>2 DEF i
<1>3. /\ b \in Seq(Heads) /\ Len(b) = m - i /\ \A j \in 1..m - i : b[j] = keys[i + j]
  <2>1. /\ i + 1 \in 1..n + 1 /\ m + 1 >= i + 1 /\ m + 1 - (i + 1) = m - i
        /\ \A j \in 1..m - i : (i + 1) + j - 1 = i + j
    BY <1>1, SMTT(30)
  <2> HIDE DEF i, m
  <2>2. /\ SubSeq(keys, i + 1, m) \in Seq(Heads) /\ Len(SubSeq(keys, i + 1, m)) = m + 1 - (i + 1)
        /\ \A j \in 1..m + 1 - (i + 1) : SubSeq(keys, i + 1, m)[j] = keys[(i + 1) + j - 1]
    BY <1>1, <2>1, CutFacts
  <2> QED
    BY <2>1, <2>2 DEF i, m
<1>4. /\ c \in Seq(Heads) /\ Len(c) = n - m
  <2>1. m + 1 \in 1..n + 1 /\ n \in 0..n /\ n + 1 >= m + 1 /\ n + 1 - (m + 1) = n - m
    BY <1>1
  <2> HIDE DEF m
  <2>2. SubSeq(keys, m + 1, n) \in Seq(Heads) /\ Len(SubSeq(keys, m + 1, n)) = n + 1 - (m + 1)
    BY <1>1, <2>1, CutFacts
  <2> QED
    BY <2>1, <2>2 DEF m
<1>5. Received(text, a, b, c) = three
  BY DEF Received
<1> HIDE DEF a, b, c
<1>6. Len(text) \in Nat
  BY LenProperties
<1>7. /\ one \in Seq(Heads) /\ Len(one) = IF Len(text) >= i THEN Len(text) ELSE i
      /\ \A j \in 1..Len(one) : one[j] = IF j \in 1..i THEN a[j] ELSE text[j]
  <2>1. 0 \in 0..Len(text) /\ 0 + Len(a) = i /\ 0 + 1 = 1 /\ \A j \in 1..i : j - 0 = j
    BY <1>1, <1>2, <1>6
  <2>2. /\ one \in Seq(Heads)
        /\ Len(one) = IF Len(text) >= 0 + Len(a) THEN Len(text) ELSE 0 + Len(a)
        /\ \A j \in 1..Len(one) : one[j] = IF j \in 0 + 1..0 + Len(a) THEN a[j - 0] ELSE text[j]
    BY <1>2, <2>1, StoredFacts
  <2> HIDE DEF one
  <2> QED
    BY <2>1, <2>2
<1> HIDE DEF one, i, m
<1>8. /\ two \in Seq(Heads) /\ Len(two) = IF Len(one) >= m THEN Len(one) ELSE m
      /\ \A j \in 1..Len(two) : two[j] = IF j \in i + 1..m THEN b[j - i] ELSE one[j]
  <2>1. Len(a) = i /\ i \in 0..Len(one) /\ i + Len(b) = m
    BY <1>1, <1>2, <1>3, <1>6, <1>7
  <2>2. /\ two \in Seq(Heads)
        /\ Len(two) = IF Len(one) >= Len(a) + Len(b) THEN Len(one) ELSE Len(a) + Len(b)
        /\ \A j \in 1..Len(two) :
             two[j] = IF j \in Len(a) + 1..Len(a) + Len(b) THEN b[j - Len(a)] ELSE one[j]
    BY <1>3, <1>7, <2>1, StoredFacts
  <2> HIDE DEF two
  <2> QED
    BY <2>1, <2>2
<1> HIDE DEF two
<1>9. Len(one) \in Nat /\ Len(two) \in Nat /\ Len(one) <= MaxFields /\ Len(two) <= MaxFields
      /\ Len(two) >= m
  BY <1>1, <1>6, <1>7, <1>8
<1>10. /\ three \in Seq(Heads)
       /\ Len(three) = IF Len(two) >= Len(b) + Len(c) THEN Len(two) ELSE Len(b) + Len(c)
       /\ \A j \in 1..Len(three) :
            three[j] = IF j \in Len(b) + 1..Len(b) + Len(c) THEN c[j - Len(b)] ELSE two[j]
  <2>1. Len(b) \in 0..Len(two)
    BY <1>1, <1>3, <1>9
  <2> QED
    BY <1>4, <1>8, <2>1, StoredFacts
<1> HIDE DEF three
<1>11. Len(three) \in 0..MaxFields
  <2>1. Len(b) + Len(c) = n - i /\ n - i \in 0..MaxFields
    BY <1>1, <1>3, <1>4
  <2>2. Len(three) \in {Len(two), Len(b) + Len(c)}
    BY <1>10
  <2> QED
    BY <1>1, <1>9, <2>1, <2>2
<1>12. ASSUME c = <<>>, ~(n < Len(text)) PROVE three = keys
  <2>1. Len(c) = 0 /\ m = n
    BY <1>1, <1>4, <1>12
  <2>2. Len(one) <= n /\ Len(two) = n /\ Len(three) = n
    <3>1. Len(one) <= n
      BY <1>1, <1>6, <1>7, <1>12
    <3>2. Len(two) = n
      BY <1>1, <1>8, <1>9, <2>1, <3>1
    <3>3. Len(b) <= n /\ Len(b) + Len(c) <= n
      BY <1>1, <1>3, <2>1
    <3> QED
      BY <1>1, <1>10, <3>1, <3>2, <3>3
  <2>3. \A j \in 1..n : three[j] = keys[j]
    <3> SUFFICES ASSUME NEW j \in 1..n PROVE three[j] = keys[j]
      OBVIOUS
    <3>1. j \notin Len(b) + 1..Len(b) + Len(c)
      BY <1>1, <1>3, <2>1
    <3>2. three[j] = two[j]
      BY <1>10, <2>2, <3>1
    <3>3. CASE j \in i + 1..m
      <4>1. j - i \in 1..m - i /\ i + (j - i) = j
        BY <1>1, <3>3
      <4>2. b[j - i] = keys[j]
        BY <1>3, <4>1
      <4> QED
        BY <1>8, <2>2, <3>2, <3>3, <4>2
    <3>4. CASE j \notin i + 1..m
      <4>1. j \in 1..i /\ j \in 1..Len(one)
        BY <1>1, <1>6, <1>7, <2>1, <3>4
      <4>2. one[j] = keys[j]
        BY <1>2, <1>7, <4>1
      <4> QED
        BY <1>8, <2>2, <3>2, <3>4, <4>2
    <3> QED
      BY <3>3, <3>4
  <2>4. three \in [1..n -> Heads]
    BY <1>10, <2>2, LenProperties
  <2> QED
    BY <2>3, <2>4
<1> QED
  BY <1>5, <1>10, <1>11, <1>12 DEF a, b, c

-----------------------------------------------------------------------------
(* The invariant. *)

(* The first of the keys x up to the m-th that is k, as First finds it in  *)
(* all that was sent.                                                      *)
FirstIn(w, x, m, k) ==
  LET at == {j \in 1..m : x[j] = k}
  IN IF at = {} THEN NoValue ELSE <<w, CHOOSE j \in at : \A i \in at : j <= i>>

(* How many keys w has in its dictionary, and how many fields wait.        *)
Taken(w) == Len(Items(dict[w].keys))
Left(w)  == Len(Items(fields[w]))
Piece(w, j) == Field(w, buffer[w][j], j)

Typed ==
  /\ buffer \in [Workers -> Seq(Heads)] /\ sent \in [Workers -> Seq(Heads)]
  /\ \A w \in Workers : Len(buffer[w]) <= MaxFields
  /\ key \in [Workers -> Heads] /\ pc \in [Workers -> Labels]
  /\ fields = [w \in Workers |-> fields[w]] /\ \A w \in Workers : IsList(fields[w], Pieces)
  /\ dict = [w \in Workers |-> dict[w]] /\ \A w \in Workers : IsDict(dict[w])
  /\ token = [w \in Workers |-> token[w]]
  /\ saved \in Seq(Pieces) /\ up \in BOOLEAN /\ filled \subseteq Workers
  /\ last \in Workers /\ mixed \subseteq Workers /\ texts \in 0..MaxTexts

(* Where a worker has fields and keys, and where nothing is held against   *)
(* it.                                                                     *)
Stages ==
  \A w \in Workers :
    /\ pc[w] = "value" => fields[w].length # 0
    /\ pc[w] \notin {"split", "key", "value"} => fields[w].length = 0
    /\ pc[w] \in {"idle", "split"} => dict[w] = EmptyDictionary
    /\ pc[w] = "idle" => w \notin mixed /\ w \notin spliced /\ w \notin spoilt
    /\ pc[w] # "idle" /\ w \notin spliced => buffer[w] = sent[w]

(* strtok's text, for a worker that called it last.                        *)
TextLeft(w) ==
  CASE pc[w] = "split" -> saved = [i \in 1..Len(buffer[w]) - Left(w) |-> Piece(w, Left(w) + i)]
    [] pc[w] = "value" -> saved = IF buffer[w][Taken(w) + 1] = NoKey THEN <<>>
                                  ELSE <<ValueOf(Piece(w, Taken(w) + 1))>>
    [] pc[w] = "token" -> saved = <<Field(w, NoKey, 0)>>
    [] OTHER -> TRUE

(* The fields that wait are those of the buffer after the keys that were   *)
(* taken, and these are in the dictionary.                                 *)
FieldsInOrder(w) == \A i \in 1..Left(w) : Items(fields[w])[i] = Piece(w, Taken(w) + i)
KeysTaken(w) ==
  /\ \A i \in 1..Taken(w) : Items(dict[w].keys)[i] = buffer[w][i]
  /\ \A k \in Heads : SearchDict(dict[w], k) = FirstIn(w, buffer[w], Taken(w), k)

(* What a worker finds that nobody has disturbed. *)
Progress(w) ==
  /\ last = w => TextLeft(w)
  /\ pc[w] = "split" => Left(w) <= Len(buffer[w]) /\ FieldsInOrder(w)
  /\ pc[w] \in {"key", "value"} => Taken(w) + Left(w) = Len(buffer[w]) /\ FieldsInOrder(w)
  /\ pc[w] = "value" => key[w] = buffer[w][Taken(w) + 1]
  /\ pc[w] = "parsed" => Taken(w) = Len(buffer[w])
  /\ pc[w] \in {"key", "value", "parsed"} => KeysTaken(w)
  /\ pc[w] \in {"decode", "build", "fill", "use", "decoded"} /\ w \notin spoilt => token[w] = <<w, 0>>
Undisturbed == \A w \in Workers \ mixed : Progress(w)

(* The process dies only on a piece without a value.                       *)
Dies == ~up => \E w \in Workers : pc[w] = "value" /\ (w \in mixed \/ NoKey \in Range(buffer[w]))

(* A table that can be seen and is not filled is being filled by the one   *)
(* who allocated it.                                                       *)
Tables ==
  (table # None \/ \E w \in Workers : pc[w] \in {"fill", "use"}) /\ table \notin filled =>
    table \in Workers /\ pc[table] = "fill"

Inv == Typed /\ Stages /\ Undisturbed /\ Dies /\ Tables

(* The least of a set of numbers is the one that is chosen. *)
LEMMA LeastChosen ==
  ASSUME NEW T \in SUBSET Nat, NEW n \in T, \A m \in T : n <= m
  PROVE  (CHOOSE j \in T : \A i \in T : j <= i) = n
<1> DEFINE c == CHOOSE j \in T : \A i \in T : j <= i
<1>1. c \in T /\ \A i \in T : c <= i
  OBVIOUS
<1>2. c <= n /\ n <= c /\ c \in Nat /\ n \in Nat
  BY <1>1
<1> HIDE DEF c
<1>3. c = n
  BY <1>2
<1> QED
  BY <1>3 DEF c

(* One more key: it is the first of its kind, or changes nothing.          *)
LEMMA FirstStep ==
  ASSUME NEW w, NEW x, NEW m \in Nat, NEW k
  PROVE  FirstIn(w, x, m + 1, k) =
           IF k = x[m + 1] /\ FirstIn(w, x, m, x[m + 1]) = NoValue THEN <<w, m + 1>> ELSE FirstIn(w, x, m, k)
<1> DEFINE At1(n, q) == {j \in 1..n : x[j] = q}
<1>1. 1..m + 1 = 1..m \cup {m + 1} /\ m + 1 \in Nat
  OBVIOUS
<1>2. CASE k # x[m + 1]
  <2>1. At1(m + 1, k) = At1(m, k)
    BY <1>1, <1>2
  <2>2. FirstIn(w, x, m + 1, k) = FirstIn(w, x, m, k)
    <3> DEFINE Of(T) == IF T = {} THEN NoValue ELSE <<w, CHOOSE j \in T : \A i \in T : j <= i>>
    <3>1. FirstIn(w, x, m + 1, k) = Of(At1(m + 1, k)) /\ FirstIn(w, x, m, k) = Of(At1(m, k))
      BY DEF FirstIn
    <3> HIDE DEF At1, Of
    <3> QED
      BY <2>1, <3>1
  <2> QED
    BY <1>2, <2>2
<1>3. CASE k = x[m + 1] /\ At1(m, k) = {}
  <2>1. At1(m + 1, k) = {m + 1}
    BY <1>1, <1>3
  <2>2. (CHOOSE j \in {m + 1} : \A i \in {m + 1} : j <= i) = m + 1
    <3>1. {m + 1} \in SUBSET Nat /\ m + 1 \in {m + 1} /\ \A i \in {m + 1} : m + 1 <= i
      BY <1>1
    <3> QED
      BY <3>1, LeastChosen
  <2>3. FirstIn(w, x, m, k) = NoValue
    BY <1>3 DEF FirstIn
  <2>4. FirstIn(w, x, m + 1, k) = <<w, m + 1>>
    BY <2>1, <2>2 DEF FirstIn
  <2> QED
    BY <1>3, <2>3, <2>4
<1>4. CASE k = x[m + 1] /\ At1(m, k) # {}
  <2>1. PICK n \in At1(m, k) : \A j \in At1(m, k) : n <= j
    <3>1. At1(m, k) \in SUBSET Nat
      OBVIOUS
    <3> HIDE DEF At1
    <3> QED
      BY <1>4, <3>1, LeastNumber
  <2>2. n \in At1(m + 1, k) /\ \A j \in At1(m + 1, k) : n <= j
    BY <1>1, <2>1
  <2>3. At1(m, k) \in SUBSET Nat /\ At1(m + 1, k) \in SUBSET Nat
    OBVIOUS
  <2>4. FirstIn(w, x, m, k) = <<w, n>> /\ FirstIn(w, x, m + 1, k) = <<w, n>>
    <3>1. FirstIn(w, x, m, k) = IF At1(m, k) = {} THEN NoValue
                                ELSE <<w, CHOOSE j \in At1(m, k) : \A i \in At1(m, k) : j <= i>>
      BY DEF FirstIn
    <3>2. FirstIn(w, x, m + 1, k) = IF At1(m + 1, k) = {} THEN NoValue
                                ELSE <<w, CHOOSE j \in At1(m + 1, k) : \A i \in At1(m + 1, k) : j <= i>>
      BY DEF FirstIn
    <3> HIDE DEF At1
    <3>3. (CHOOSE j \in At1(m, k) : \A i \in At1(m, k) : j <= i) = n
      BY <2>1, <2>3, LeastChosen
    <3>4. (CHOOSE j \in At1(m + 1, k) : \A i \in At1(m + 1, k) : j <= i) = n
      BY <2>2, <2>3, LeastChosen
    <3> QED
      BY <2>1, <2>2, <3>1, <3>2, <3>3, <3>4
  <2>5. <<w, n>> # NoValue
    BY DEF NoValue
  <2> QED
    BY <1>4, <2>4, <2>5
<1> QED
  BY <1>2, <1>3, <1>4

(* Of no keys, none is the first. *)
LEMMA FirstNone ==
  ASSUME NEW w, NEW x, NEW k
  PROVE  FirstIn(w, x, 0, k) = NoValue
<1>1. {j \in 1..0 : x[j] = k} = {}
  OBVIOUS
<1> QED
  BY <1>1 DEF FirstIn

(* What can be read from a list. *)
LEMMA ListRead ==
  ASSUME NEW Data, NEW l, IsList(l, Data)
  PROVE  /\ WellFormed(l) /\ Items(l) \in Seq(Data) /\ Len(Items(l)) = l.length /\ l.length \in Nat
         /\ IterateLL(l, 0) = NULL <=> l.length = 0
         /\ l.length # 0 => Peek(l) = Items(l)[1] /\ Items(l)[1] \in Data
<1>1. PICK s : Layout(l, s, Data)
  BY DEF IsList
<1>2. /\ WellFormed(l) /\ Items(l) \in Seq(Data) /\ Len(Items(l)) = l.length /\ l.length \in Nat
      /\ \A k \in 1..l.length : Items(l)[k] = l.cells[s[k]].data
  BY <1>1, ListFacts
<1>3. /\ IterateLL(l, 0) = NULL <=> l.length = 0
      /\ \A index \in 0..l.length - 1 : RetrieveLL(l, index) = l.cells[s[index + 1]].data
  BY <1>1, ReadAlong
<1>4. ASSUME l.length # 0 PROVE Peek(l) = Items(l)[1] /\ Items(l)[1] \in Data
  <2>1. 0 \in 0..l.length - 1 /\ 0 + 1 = 1 /\ 1 \in 1..l.length
    BY <1>2, <1>4
  <2>2. RetrieveLL(l, 0) = l.cells[s[1]].data
    BY <1>3, <2>1
  <2> QED
    BY <1>2, <2>1, <2>2 DEF Peek
<1> QED
  BY <1>2, <1>3, <1>4

(* Assigning one entry leaves the others. *)
LEMMA Assigned ==
  ASSUME NEW f, NEW g, f = [v \in Workers |-> f[v]], NEW w \in Workers, NEW e, g = [f EXCEPT ![w] = e]
  PROVE  g = [v \in Workers |-> g[v]] /\ g[w] = e /\ \A v \in Workers \ {w} : g[v] = f[v]
OBVIOUS

(* What a worker holds, by its types. *)
LEMMA HeldFacts ==
  ASSUME Typed, NEW w \in Workers
  PROVE  /\ IsList(fields[w], Pieces) /\ IsDict(dict[w])
         /\ Items(fields[w]) \in Seq(Pieces) /\ Left(w) = fields[w].length /\ Left(w) \in Nat
         /\ NoField(w) <=> fields[w].length = 0
         /\ fields[w].length # 0 => Peek(fields[w]) = Items(fields[w])[1] /\ Peek(fields[w]) \in Pieces
         /\ Items(dict[w].keys) \in Seq(Heads) /\ Taken(w) \in Nat
         /\ buffer[w] \in [1..Len(buffer[w]) -> Heads] /\ Len(buffer[w]) \in 0..MaxFields
<1>1. /\ IsList(fields[w], Pieces) /\ IsDict(dict[w]) /\ buffer[w] \in Seq(Heads)
      /\ Len(buffer[w]) <= MaxFields
  BY DEF Typed
<1>2. /\ Items(fields[w]) \in Seq(Pieces) /\ Left(w) = fields[w].length /\ fields[w].length \in Nat
      /\ NoField(w) <=> fields[w].length = 0
      /\ fields[w].length # 0 => Peek(fields[w]) = Items(fields[w])[1] /\ Items(fields[w])[1] \in Pieces
  BY <1>1, ListRead DEF NoField, Left
<1>3. Items(dict[w].keys) \in Seq(Heads) /\ Taken(w) \in Nat
  <2>1. Items(dict[w].keys) \in Seq(Heads)
    BY <1>1, IterateDictFacts
  <2> QED
    BY <2>1, LenProperties DEF Taken
<1>4. Len(buffer[w]) \in 0..MaxFields /\ buffer[w] \in [1..Len(buffer[w]) -> Heads]
  BY <1>1, LenProperties, BoundsAssumption
<1> QED
  BY <1>1, <1>2, <1>3, <1>4

(* What comes in time is no more than was sent.                            *)
LEMMA InTimeFacts ==
  ASSUME NEW n \in 0..MaxFields, NEW keys \in [1..n -> Heads], NEW got \in InTime(keys)
  PROVE  got \in Seq(Heads) /\ Len(got) \in 0..MaxFields /\ got \in [1..Len(got) -> Heads]
<1>1. MaxFields \in Nat /\ n \in Nat /\ n <= MaxFields /\ keys \in Seq(Heads) /\ Len(keys) = n
  BY BoundsAssumption
<1>2. CASE got = keys
  BY <1>1, <1>2, LenProperties
<1>3. ASSUME NEW m \in 1..n, got \in {SubSeq(keys, 1, m), Append(SubSeq(keys, 1, m - 1), NoKey)}
      PROVE  got \in Seq(Heads) /\ Len(got) \in 0..MaxFields
  <2>1. /\ 1 \in 1..n + 1 /\ m \in 0..n /\ m - 1 \in 0..n /\ m + 1 >= 1 /\ m - 1 + 1 >= 1
        /\ m + 1 - 1 = m /\ m - 1 + 1 - 1 = m - 1 /\ m \in 0..MaxFields /\ m - 1 + 1 = m
    BY <1>1
  <2>2. SubSeq(keys, 1, m) \in Seq(Heads) /\ Len(SubSeq(keys, 1, m)) = m
    BY <1>1, <2>1, CutFacts
  <2>3. SubSeq(keys, 1, m - 1) \in Seq(Heads) /\ Len(SubSeq(keys, 1, m - 1)) = m - 1
    BY <1>1, <2>1, CutFacts
  <2>4. NoKey \in Heads
    BY DEF Heads
  <2>5. ASSUME NEW s \in Seq(Heads), Len(s) = m - 1
        PROVE  Append(s, NoKey) \in Seq(Heads) /\ Len(Append(s, NoKey)) = m
    BY <2>1, <2>4, <2>5
  <2> QED
    BY <1>3, <2>1, <2>2, <2>3, <2>5
<1> QED
  BY <1>1, <1>2, <1>3, LenProperties DEF InTime

(* What Begin has received, x, and the fields it has made of it.           *)
BeginsWith(w, keys, x) ==
  /\ up /\ pc[w] = "idle" /\ keys \in Seq(Heads) /\ x \in Seq(Heads) /\ Len(x) \in 0..MaxFields
  /\ w \notin spliced' => x = keys
  /\ spliced' \in {spliced, spliced \cup {w}}
  /\ sent' = [sent EXCEPT ![w] = keys] /\ buffer' = [buffer EXCEPT ![w] = x]
  /\ fields' = [fields EXCEPT ![w] = IF x = <<>> THEN fields[w] ELSE Push(fields[w], Field(w, x[1], 1))]
  /\ \A j \in 1..Len(x) : Field(w, x[j], j) \in Pieces
  /\ saved' = [i \in 1..(IF x = <<>> THEN 0 ELSE Len(x) - 1) |-> Field(w, x[i + 1], i + 1)]
  /\ last' = w /\ pc' = [pc EXCEPT ![w] = "split"] /\ texts' \in 0..MaxTexts
  /\ UNCHANGED <<dict, key, up, mixed, decoding>>

(* Begin, by what it receives. *)
LEMMA BeginFacts ==
  ASSUME Typed, NEW w \in Workers, Begin(w)
  PROVE  \E keys, x : BeginsWith(w, keys, x)
<1> DEFINE Begins(n, keys, got, cut) ==
        LET a == SubSeq(got, 1, cut[1])
            b == SubSeq(got, cut[1] + 1, cut[2])
            c == SubSeq(got, cut[2] + 1, Len(got))
            text == Received(buffer[w], a, b, c)
            pieces == [j \in 1..Len(text) |-> Field(w, text[j], j)]
        IN
        /\ b = <<>> => c = <<>>
        /\ sent' = [sent EXCEPT ![w] = keys]
        /\ buffer' = [buffer EXCEPT ![w] = text]
        /\ spliced' = IF got # keys \/ c # <<>> \/ Len(got) < Len(buffer[w])
                      THEN spliced \cup {w} ELSE spliced
        /\ fields' = [fields EXCEPT ![w] = IF text = <<>> THEN @ ELSE Push(@, pieces[1])]
        /\ saved' = IF text = <<>> THEN <<>> ELSE Tail(pieces)
<1>0. PICK n \in 0..MaxFields :
        \E keys \in [1..n -> Heads] : \E got \in InTime(keys) : \E cut \in Cuts(Len(got)) :
          Begins(n, keys, got, cut)
  BY DEF Begin
<1> HIDE DEF Begins
<1>1a. PICK keys \in [1..n -> Heads] :
         \E got \in InTime(keys) : \E cut \in Cuts(Len(got)) : Begins(n, keys, got, cut)
  BY <1>0
<1>1b. PICK got \in InTime(keys) : \E cut \in Cuts(Len(got)) : Begins(n, keys, got, cut)
  BY <1>1a
<1>1. PICK cut \in Cuts(Len(got)) : Begins(n, keys, got, cut)
  BY <1>1b
<1> USE DEF Begins
<1>13. got \in Seq(Heads) /\ Len(got) \in 0..MaxFields /\ got \in [1..Len(got) -> Heads]
  BY InTimeFacts
<1> DEFINE a == SubSeq(got, 1, cut[1])
           b == SubSeq(got, cut[1] + 1, cut[2])
           c == SubSeq(got, cut[2] + 1, Len(got))
           x == Received(buffer[w], a, b, c)
           pieces == [j \in 1..Len(x) |-> Field(w, x[j], j)]
<1>2. buffer[w] \in Seq(Heads) /\ Len(buffer[w]) <= MaxFields
  BY DEF Typed
<1>3. x \in Seq(Heads) /\ Len(x) \in 0..MaxFields /\ (c = <<>> /\ ~(Len(got) < Len(buffer[w])) => x = got)
  BY <1>2, <1>13, ReceivedFacts
<1>4. /\ up /\ pc[w] = "idle" /\ texts < MaxTexts /\ texts' = texts + 1
      /\ sent' = [sent EXCEPT ![w] = keys]
      /\ buffer' = [buffer EXCEPT ![w] = x]
      /\ spliced' = IF got # keys \/ c # <<>> \/ Len(got) < Len(buffer[w])
                    THEN spliced \cup {w} ELSE spliced
      /\ fields' = [fields EXCEPT ![w] = IF x = <<>> THEN @ ELSE Push(@, pieces[1])]
      /\ saved' = IF x = <<>> THEN <<>> ELSE Tail(pieces)
      /\ last' = w
      /\ pc' = [pc EXCEPT ![w] = "split"]
      /\ UNCHANGED <<dict, key, up, mixed, decoding>>
  <2>1. /\ up /\ pc[w] = "idle" /\ texts < MaxTexts /\ texts' = texts + 1 /\ last' = w
        /\ pc' = [pc EXCEPT ![w] = "split"] /\ UNCHANGED <<dict, key, up, mixed, decoding>>
    BY DEF Begin, At, Goto
  <2> QED
    BY <1>1, <2>1
<1> HIDE DEF x, c
<1>5. \A j \in 1..Len(x) : Field(w, x[j], j) \in Pieces
  <2> SUFFICES ASSUME NEW j \in 1..Len(x) PROVE Field(w, x[j], j) \in Pieces
    OBVIOUS
  <2>1. x[j] \in Heads /\ j \in 0..MaxFields
    BY <1>3, LenProperties, BoundsAssumption
  <2> QED
    BY <2>1 DEF Field, Pieces, Owners
<1>6. pieces \in Seq(Pieces) /\ Len(pieces) = Len(x)
  BY <1>3, <1>5
<1>7. ASSUME x # <<>>
      PROVE  /\ pieces[1] = Field(w, x[1], 1)
             /\ Tail(pieces) = [i \in 1..Len(x) - 1 |-> Field(w, x[i + 1], i + 1)]
  <2>1. Len(x) # 0 /\ Len(x) \in Nat
    BY <1>3, <1>7, EmptySeq
  <2>2. 1 \in 1..Len(x) /\ pieces # <<>>
    <3> HIDE DEF pieces
    <3> QED
      BY <1>6, <2>1, EmptySeq
  <2>3. pieces[1] = Field(w, x[1], 1)
    BY <2>2
  <2>4. /\ Tail(pieces) \in Seq(Pieces) /\ Len(Tail(pieces)) = Len(pieces) - 1
        /\ \A i \in 1..Len(pieces) - 1 : Tail(pieces)[i] = pieces[i + 1]
    <3> HIDE DEF pieces
    <3> QED
      BY <1>6, <2>2, HeadTailProperties
  <2>5. \A i \in 1..Len(x) - 1 : Tail(pieces)[i] = Field(w, x[i + 1], i + 1)
    <3>1. \A i \in 1..Len(x) - 1 : i + 1 \in 1..Len(x)
      BY <2>1
    <3>2. \A i \in 1..Len(x) - 1 : pieces[i + 1] = Field(w, x[i + 1], i + 1)
      BY <3>1
    <3> HIDE DEF pieces
    <3> QED
      BY <1>6, <2>4, <3>2
  <2>6. Tail(pieces) \in [1..Len(x) - 1 -> Pieces]
    <3> HIDE DEF pieces
    <3> QED
      BY <1>6, <2>4, LenProperties
  <2> HIDE DEF pieces
  <2> QED
    BY <2>3, <2>5, <2>6
<1>8. saved' = [i \in 1..(IF x = <<>> THEN 0 ELSE Len(x) - 1) |-> Field(w, x[i + 1], i + 1)]
  <2>1. CASE x = <<>>
    <3>1. saved' = <<>>
      BY <1>4, <2>1
    <3>2. [i \in 1..0 |-> Field(w, x[i + 1], i + 1)] = <<>>
      OBVIOUS
    <3> QED
      BY <2>1, <3>1, <3>2
  <2>2. CASE x # <<>>
    <3>1. saved' = Tail(pieces)
      BY <1>4, <2>2
    <3> QED
      BY <1>7, <2>2, <3>1
  <2> QED
    BY <2>1, <2>2
<1>9. fields' = [fields EXCEPT ![w] = IF x = <<>> THEN fields[w] ELSE Push(fields[w], Field(w, x[1], 1))]
  <2>1. fields' = [fields EXCEPT ![w] = IF x = <<>> THEN fields[w] ELSE Push(fields[w], pieces[1])]
    BY <1>4
  <2> HIDE DEF pieces
  <2>2. CASE x = <<>>
    BY <2>1, <2>2
  <2>3. CASE x # <<>>
    BY <1>7, <2>1, <2>3
  <2> QED
    BY <2>2, <2>3
<1>10. keys \in Seq(Heads) /\ texts' \in 0..MaxTexts
  <2>1. texts' \in 0..MaxTexts
    <3>1. texts \in 0..MaxTexts
      BY DEF Typed
    <3> QED
      BY <1>4, <3>1, BoundsAssumption
  <2>2. keys \in Seq(Heads)
    BY BoundsAssumption
  <2> QED
    BY <2>1, <2>2
<1>11. (w \notin spliced' => x = keys) /\ spliced' \in {spliced, spliced \cup {w}}
  <2>1. CASE got # keys \/ c # <<>> \/ Len(got) < Len(buffer[w])
    BY <1>4, <2>1
  <2>2. CASE got = keys /\ c = <<>> /\ ~(Len(got) < Len(buffer[w]))
    BY <1>3, <1>4, <2>2
  <2> QED
    BY <2>1, <2>2
<1>12. BeginsWith(w, keys, x)
  <2> HIDE DEF pieces
  <2> QED
    BY <1>3, <1>4, <1>5, <1>8, <1>9, <1>10, <1>11 DEF BeginsWith
<1> QED
  BY <1>12

-----------------------------------------------------------------------------
(* Steps.  A step is one worker's: it leaves what the others hold.         *)

Step(w) ==
  \/ Begin(w) \/ Split(w) \/ CutKey(w) \/ CutValue(w) \/ Parsed(w)
  \/ CutType(w) \/ CutToken(w)
  \/ TestTable(w) \/ BuildTable(w) \/ FillTable(w) \/ Decode(w)
  \/ Answer(w)

Keeps(w) ==
  /\ \A v \in Workers \ {w} :
       /\ buffer'[v] = buffer[v] /\ sent'[v] = sent[v] /\ fields'[v] = fields[v] /\ dict'[v] = dict[v]
       /\ key'[v] = key[v] /\ token'[v] = token[v] /\ pc'[v] = pc[v]
       /\ v \in mixed' <=> v \in mixed
       /\ v \in spliced' <=> v \in spliced
       /\ v \in spoilt' <=> v \in spoilt
  /\ last' = w \/ (last' = last /\ saved' = saved)

(* Text left in the order of a sequence. *)
LEMMA TailOfText ==
  ASSUME NEW S, NEW s \in Seq(S), s # <<>>
  PROVE  Head(s) \in S /\ Tail(s) \in Seq(S) /\ Len(s) \in Nat \ {0}
OBVIOUS

(* Each step keeps the types, and what the other workers hold: Begin. *)
LEMMA BeginTyped ==
  ASSUME Typed, Tables, NEW w \in Workers, Begin(w) PROVE Typed' /\ Keeps(w)
<1>1. PICK keys, x : BeginsWith(w, keys, x)
  BY BeginFacts
<1>2. /\ fields' = [v \in Workers |-> fields'[v]] /\ \A v \in Workers \ {w} : fields'[v] = fields[v]
      /\ fields'[w] = IF x = <<>> THEN fields[w] ELSE Push(fields[w], Field(w, x[1], 1))
  <2>1. fields = [v \in Workers |-> fields[v]]
    BY DEF Typed
  <2>2. fields' = [fields EXCEPT ![w] = IF x = <<>> THEN fields[w] ELSE Push(fields[w], Field(w, x[1], 1))]
    BY <1>1 DEF BeginsWith
  <2> QED
    BY <2>1, <2>2, Assigned
<1>3. IsList(fields'[w], Pieces)
  <2>1. IsList(fields[w], Pieces)
    BY DEF Typed
  <2>2. CASE x = <<>>
    BY <1>2, <2>1, <2>2
  <2>3. CASE x # <<>>
    <3>1. 1 \in 1..Len(x)
      BY <1>1, <2>3, EmptySeq DEF BeginsWith
    <3>2. Field(w, x[1], 1) \in Pieces
      BY <1>1, <3>1 DEF BeginsWith
    <3> QED
      BY <1>2, <2>1, <2>3, <3>2, PushFacts
  <2> QED
    BY <2>2, <2>3
<1>4. \A v \in Workers : IsList(fields'[v], Pieces)
  BY <1>2, <1>3 DEF Typed
<1>5. saved' \in Seq(Pieces)
  <2> DEFINE n == IF x = <<>> THEN 0 ELSE Len(x) - 1
  <2>1. n \in Nat /\ \A i \in 1..n : i + 1 \in 1..Len(x)
    BY <1>1, EmptySeq DEF BeginsWith
  <2>2. /\ saved' = [i \in 1..n |-> Field(w, x[i + 1], i + 1)]
        /\ \A i \in 1..n : Field(w, x[i + 1], i + 1) \in Pieces
    BY <1>1, <2>1 DEF BeginsWith
  <2> HIDE DEF n
  <2> QED
    BY <2>1, <2>2
<1>6. /\ buffer' \in [Workers -> Seq(Heads)] /\ sent' \in [Workers -> Seq(Heads)]
      /\ \A v \in Workers : Len(buffer'[v]) <= MaxFields
      /\ \A v \in Workers \ {w} : buffer'[v] = buffer[v] /\ sent'[v] = sent[v]
  BY <1>1, BoundsAssumption DEF BeginsWith, Typed
<1>7. /\ pc' \in [Workers -> Labels] /\ \A v \in Workers \ {w} : pc'[v] = pc[v]
  BY <1>1 DEF BeginsWith, Typed, Labels
<1>8. Typed'
  BY <1>1, <1>2, <1>4, <1>5, <1>6, <1>7 DEF BeginsWith, Typed, decoding
<1>9. Keeps(w)
  BY <1>1, <1>2, <1>6, <1>7 DEF BeginsWith, Keeps, decoding
<1> QED
  BY <1>8, <1>9

(* strtok(NULL, "&"): what is left of the text goes on being pieces. *)
LEMMA SplitTyped ==
  ASSUME Typed, Tables, NEW w \in Workers, Split(w) PROVE Typed' /\ Keeps(w)
<1>1. /\ pc' \in [Workers -> Labels] /\ \A v \in Workers \ {w} : pc'[v] = pc[v]
  BY DEF Split, Typed, Goto, Labels
<1>2. /\ fields' = [v \in Workers |-> fields'[v]] /\ \A v \in Workers \ {w} : fields'[v] = fields[v]
      /\ IsList(fields'[w], Pieces) /\ saved' \in Seq(Pieces)
  <2>1. fields = [v \in Workers |-> fields[v]] /\ IsList(fields[w], Pieces) /\ saved \in Seq(Pieces)
    BY DEF Typed
  <2>2. CASE saved = <<>>
    BY <2>1, <2>2 DEF Split
  <2>3. CASE saved # <<>>
    <3>1. fields' = [fields EXCEPT ![w] = Push(fields[w], Head(saved))] /\ saved' = Tail(saved)
      BY <2>3 DEF Split
    <3>2. Head(saved) \in Pieces /\ Tail(saved) \in Seq(Pieces)
      BY <2>1, <2>3, TailOfText
    <3>3. IsList(Push(fields[w], Head(saved)), Pieces)
      BY <2>1, <3>2, PushFacts
    <3> QED
      BY <2>1, <3>1, <3>2, <3>3, Assigned
  <2> QED
    BY <2>2, <2>3
<1>3. /\ last' = w /\ mixed' \in {mixed, mixed \cup {w}}
      /\ UNCHANGED <<buffer, sent, dict, key, up, spliced, texts, token, table, filled, spoilt>>
  BY DEF Split, Resume, decoding
<1>4. \A v \in Workers : IsList(fields'[v], Pieces)
  BY <1>2 DEF Typed
<1>5. Typed'
  BY <1>1, <1>2, <1>3, <1>4 DEF Typed
<1>6. Keeps(w)
  BY <1>1, <1>2, <1>3 DEF Keeps
<1> QED
  BY <1>5, <1>6

(* A key is cut off: the field that is cut is a piece. *)
LEMMA CutKeyTyped ==
  ASSUME Typed, Tables, NEW w \in Workers, CutKey(w) PROVE Typed' /\ Keeps(w)
<1>1. /\ pc' \in [Workers -> Labels] /\ \A v \in Workers \ {w} : pc'[v] = pc[v]
  BY DEF CutKey, Typed, Goto, Labels
<1>2. Peek(fields[w]) \in Pieces
  BY HeldFacts DEF CutKey
<1>3. /\ key' = [key EXCEPT ![w] = Peek(fields[w]).key]
      /\ saved' = IF Peek(fields[w]).key = NoKey THEN <<>> ELSE <<ValueOf(Peek(fields[w]))>>
      /\ last' = w
      /\ UNCHANGED <<buffer, sent, fields, dict, up, mixed, spliced, texts>>
      /\ UNCHANGED <<token, table, filled, spoilt>>
  BY DEF CutKey, decoding
<1>4. ValueOf(Peek(fields[w])) \in Pieces /\ Peek(fields[w]).key \in Heads
  BY <1>2 DEF Heads, ValueOf, Pieces
<1>5. saved' \in Seq(Pieces)
  BY <1>3, <1>4
<1>6. key' \in [Workers -> Heads] /\ \A v \in Workers \ {w} : key'[v] = key[v]
  BY <1>3, <1>4 DEF Typed
<1>7. Typed'
  BY <1>1, <1>3, <1>5, <1>6 DEF Typed
<1>8. Keeps(w)
  BY <1>1, <1>3, <1>6 DEF Keeps
<1> QED
  BY <1>7, <1>8

(* A value is cut off: the dictionary and the queue stay well formed. *)
LEMMA CutValueTyped ==
  ASSUME Typed, Stages, Tables, NEW w \in Workers, CutValue(w) PROVE Typed' /\ Keeps(w)
<1>1. /\ last' = w /\ mixed' \in {mixed, mixed \cup {w}} /\ pc[w] = "value"
      /\ UNCHANGED <<buffer, sent, spliced, texts, token, table, filled, spoilt>>
  BY DEF CutValue, Resume, decoding, At
<1>2. CASE saved = <<>>
  <2>1. up' = FALSE /\ UNCHANGED <<fields, dict, key, saved, pc>>
    BY <1>2 DEF CutValue
  <2>2. Typed'
    BY <1>1, <2>1 DEF Typed
  <2> QED
    BY <1>1, <2>1, <2>2 DEF Keeps
<1>3. CASE saved # <<>>
  <2>1. /\ dict' = [dict EXCEPT ![w] = InsertDict(dict[w], key[w], Head(saved).own)]
        /\ fields' = [fields EXCEPT ![w] = Pop(fields[w])]
        /\ key' = [key EXCEPT ![w] = NoKey]
        /\ saved' = <<>> /\ pc' = [pc EXCEPT ![w] = "key"] /\ up' = up
    BY <1>3 DEF CutValue, Goto
  <2>2. Head(saved).own \in Owners /\ key[w] \in Heads
    <3>1. Head(saved) \in Pieces
      BY <1>3, TailOfText DEF Typed
    <3> QED
      BY <3>1 DEF Typed, Pieces
  <2>3. IsDict(InsertDict(dict[w], key[w], Head(saved).own))
    <3>1. IsDict(dict[w])
      BY DEF Typed
    <3> QED
      BY <2>2, <3>1, InsertDictFacts
  <2>4. IsList(Pop(fields[w]), Pieces)
    <3>1. IsList(fields[w], Pieces) /\ fields[w].length # 0
      BY <1>1 DEF Typed, Stages
    <3> QED
      BY <3>1, PopFacts
  <2>5. /\ dict' = [v \in Workers |-> dict'[v]] /\ \A v \in Workers \ {w} : dict'[v] = dict[v]
        /\ dict'[w] = InsertDict(dict[w], key[w], Head(saved).own)
    <3>1. dict = [v \in Workers |-> dict[v]]
      BY DEF Typed
    <3> QED
      BY <2>1, <3>1, Assigned
  <2>6. /\ fields' = [v \in Workers |-> fields'[v]] /\ \A v \in Workers \ {w} : fields'[v] = fields[v]
        /\ fields'[w] = Pop(fields[w])
    <3>1. fields = [v \in Workers |-> fields[v]]
      BY DEF Typed
    <3> QED
      BY <2>1, <3>1, Assigned
  <2>7. /\ \A v \in Workers : IsDict(dict'[v])
        /\ \A v \in Workers : IsList(fields'[v], Pieces)
    BY <2>3, <2>4, <2>5, <2>6 DEF Typed
  <2>8. /\ pc' \in [Workers -> Labels] /\ key' \in [Workers -> Heads]
        /\ \A v \in Workers \ {w} : pc'[v] = pc[v] /\ key'[v] = key[v]
    BY <2>1 DEF Typed, Labels, Heads
  <2>9. Typed'
    <3>1. saved' \in Seq(Pieces)
      BY <2>1
    <3> QED
      BY <1>1, <2>1, <2>5, <2>6, <2>7, <2>8, <3>1 DEF Typed
  <2>10. Keeps(w)
    BY <1>1, <2>5, <2>6, <2>8 DEF Keeps
  <2> QED
    BY <2>9, <2>10
<1> QED
  BY <1>2, <1>3

(* The queue is destructed when it is empty, and is as before. *)
LEMMA ParsedTyped ==
  ASSUME Typed, Tables, NEW w \in Workers, Parsed(w)
  PROVE  Typed' /\ Keeps(w) /\ fields'[w] = fields[w] /\ fields[w].length = 0
<1>1. fields[w].length = 0
  BY HeldFacts DEF Parsed
<1>2. /\ pc' = [pc EXCEPT ![w] = "parsed"] /\ fields' = [fields EXCEPT ![w] = fields[w]]
      /\ UNCHANGED <<buffer, sent, dict, key, saved, up, last, mixed, spliced, texts>>
      /\ UNCHANGED <<token, table, filled, spoilt>>
  <2>1. DestructLL(fields[w]) = fields[w]
    BY <1>1, DestructFacts
  <2> QED
    BY <2>1 DEF Parsed, Goto, decoding
<1>3. /\ fields' = [v \in Workers |-> fields'[v]] /\ fields'[w] = fields[w]
      /\ \A v \in Workers \ {w} : fields'[v] = fields[v]
  <2>1. fields = [v \in Workers |-> fields[v]]
    BY DEF Typed
  <2> QED
    BY <1>2, <2>1, Assigned
<1>4. /\ pc' \in [Workers -> Labels] /\ \A v \in Workers \ {w} : pc'[v] = pc[v]
  BY <1>2 DEF Typed, Labels
<1>5. \A v \in Workers : IsList(fields'[v], Pieces)
  BY <1>3 DEF Typed
<1>6. Typed'
  BY <1>2, <1>3, <1>4, <1>5 DEF Typed
<1>7. Keeps(w)
  BY <1>2, <1>3, <1>4 DEF Keeps
<1> QED
  BY <1>1, <1>3, <1>6, <1>7

(* The steps that find and decode the token. *)
LEMMA TokenTyped ==
  ASSUME Typed, Tables, NEW w \in Workers,
         CutType(w) \/ CutToken(w) \/ TestTable(w) \/ BuildTable(w) \/ FillTable(w) \/ Decode(w)
  PROVE  Typed' /\ Keeps(w) /\ UNCHANGED parsing
<1>1. UNCHANGED <<buffer, sent, fields, dict, key, up, spliced, texts>> /\ UNCHANGED parsing
  BY DEF CutType, CutToken, TestTable, BuildTable, FillTable, Decode, parsing
<1>2. \E label \in Labels : pc' = [pc EXCEPT ![w] = label]
  BY DEF CutType, CutToken, TestTable, BuildTable, FillTable, Decode, Goto, Labels
<1>3. /\ pc' \in [Workers -> Labels] /\ \A v \in Workers \ {w} : pc'[v] = pc[v]
  BY <1>2 DEF Typed
<1>4. \/ UNCHANGED token
      \/ \E e : token' = [token EXCEPT ![w] = e]
  BY DEF CutType, CutToken, TestTable, BuildTable, FillTable, Decode, decoding
<1>5. token' = [v \in Workers |-> token'[v]] /\ \A v \in Workers \ {w} : token'[v] = token[v]
  <2>1. token = [v \in Workers |-> token[v]]
    BY DEF Typed
  <2>2. CASE UNCHANGED token
    BY <2>1, <2>2
  <2>3. ASSUME NEW e, token' = [token EXCEPT ![w] = e]
        PROVE  token' = [v \in Workers |-> token'[v]] /\ \A v \in Workers \ {w} : token'[v] = token[v]
    BY <2>1, <2>3, Assigned
  <2> QED
    BY <1>4, <2>2, <2>3
<1>6. saved' \in Seq(Pieces) /\ (last' = w \/ (last' = last /\ saved' = saved))
  <2>1. Field(w, NoKey, 0) \in Pieces
    BY BoundsAssumption DEF Heads, Field, Pieces, Owners
  <2>2. CASE CutType(w)
    BY <2>1, <2>2 DEF CutType
  <2>3. CASE CutToken(w)
    BY <2>3 DEF CutToken, Resume
  <2>4. CASE TestTable(w) \/ BuildTable(w) \/ FillTable(w) \/ Decode(w)
    BY <2>4 DEF TestTable, BuildTable, FillTable, Decode, Typed
  <2> QED
    BY <2>2, <2>3, <2>4
<1>7. mixed' \in {mixed, mixed \cup {w}} /\ spoilt' \in {spoilt, spoilt \cup {w}} /\ last' \in {last, w}
  BY DEF CutType, CutToken, TestTable, BuildTable, FillTable, Decode, decoding, Resume
<1>8. filled' \subseteq Workers
  <2>1. CASE FillTable(w)
    <3>1. table \in filled \/ table \in Workers
      BY <2>1 DEF FillTable, At, Tables
    <3> QED
      BY <2>1, <3>1 DEF FillTable, Typed
  <2>2. CASE ~FillTable(w)
    BY <2>2 DEF CutType, CutToken, TestTable, BuildTable, Decode, decoding, Typed
  <2> QED
    BY <2>1, <2>2
<1>9. Typed'
  BY <1>1, <1>3, <1>5, <1>6, <1>7, <1>8 DEF Typed
<1>10. Keeps(w)
  BY <1>1, <1>3, <1>5, <1>6, <1>7 DEF Keeps
<1> QED
  BY <1>1, <1>9, <1>10

(* The dictionary is given back. *)
LEMMA AnswerTyped ==
  ASSUME Typed, Tables, NEW w \in Workers, Answer(w)
  PROVE  Typed' /\ Keeps(w) /\ dict'[w] = EmptyDictionary
<1>1. /\ sent' = [sent EXCEPT ![w] = <<>>]
      /\ dict' = [dict EXCEPT ![w] = EmptyDictionary]
      /\ token' = [token EXCEPT ![w] = None]
      /\ mixed' = mixed \ {w} /\ spliced' = spliced \ {w} /\ spoilt' = spoilt \ {w}
      /\ pc' = [pc EXCEPT ![w] = "idle"]
      /\ UNCHANGED <<buffer, fields, key, saved, up, last, texts, table, filled>>
  BY DEF Answer, Goto
<1>2. /\ dict' = [v \in Workers |-> dict'[v]] /\ dict'[w] = EmptyDictionary
      /\ \A v \in Workers \ {w} : dict'[v] = dict[v]
  <2>1. dict = [v \in Workers |-> dict[v]]
    BY DEF Typed
  <2> QED
    BY <1>1, <2>1, Assigned
<1>3. /\ token' = [v \in Workers |-> token'[v]] /\ \A v \in Workers \ {w} : token'[v] = token[v]
  <2>1. token = [v \in Workers |-> token[v]]
    BY DEF Typed
  <2> QED
    BY <1>1, <2>1, Assigned
<1>4. /\ pc' \in [Workers -> Labels] /\ sent' \in [Workers -> Seq(Heads)]
      /\ \A v \in Workers \ {w} : pc'[v] = pc[v] /\ sent'[v] = sent[v]
  BY <1>1 DEF Typed, Labels
<1>5. \A v \in Workers : IsDict(dict'[v])
  BY <1>2, EmptyDictionaryFacts DEF Typed
<1>6. Typed'
  BY <1>1, <1>2, <1>3, <1>4, <1>5 DEF Typed
<1>7. Keeps(w)
  BY <1>1, <1>2, <1>3, <1>4 DEF Keeps
<1> QED
  BY <1>2, <1>6, <1>7

(* Every step keeps the types, and what the other workers hold.            *)
LEMMA StepKeeps ==
  ASSUME Typed, Stages, Tables, NEW w \in Workers, Step(w) PROVE Typed' /\ Keeps(w)
BY BeginTyped, SplitTyped, CutKeyTyped, CutValueTyped, ParsedTyped, TokenTyped, AnswerTyped DEF Step

(* What is true of the others stays so: no step of w is theirs, and who    *)
(* calls strtok is the last to have called it.                             *)
LEMMA KeptProgress ==
  ASSUME NEW w \in Workers, Keeps(w), Undisturbed, NEW v \in Workers \ {w}, v \notin mixed'
  PROVE  Progress(v)'
<1>1. /\ buffer'[v] = buffer[v] /\ fields'[v] = fields[v] /\ dict'[v] = dict[v]
      /\ key'[v] = key[v] /\ token'[v] = token[v] /\ pc'[v] = pc[v] /\ (v \in spoilt' <=> v \in spoilt)
      /\ last' = v => last = v /\ saved' = saved
  BY DEF Keeps
<1>2. Progress(v)
  BY DEF Keeps, Undisturbed
<1>3. Left(v)' = Left(v) /\ Taken(v)' = Taken(v) /\ \A j : Piece(v, j)' = Piece(v, j)
  BY <1>1 DEF Left, Taken, Piece
<1>4. (KeysTaken(v)' <=> KeysTaken(v)) /\ (FieldsInOrder(v)' <=> FieldsInOrder(v))
  BY <1>1, <1>3 DEF KeysTaken, FieldsInOrder
<1>5. last' = v => (TextLeft(v)' <=> TextLeft(v))
  BY <1>1, <1>3 DEF TextLeft
<1> QED
  BY <1>1, <1>2, <1>3, <1>4, <1>5 DEF Progress

(* The first field is in the queue, and the text after it is left. *)
LEMMA BeginProgress ==
  ASSUME Typed, Stages, Tables, NEW w \in Workers, Begin(w) PROVE Progress(w)'
<1>1. PICK keys, x : BeginsWith(w, keys, x)
  BY BeginFacts
<1>2. Typed' /\ buffer'[w] = x /\ pc'[w] = "split" /\ dict'[w] = dict[w]
  BY <1>1, BeginTyped DEF BeginsWith, Typed
<1>3. Items(fields[w]) = <<>> /\ fields[w].length = 0 /\ Taken(w)' = 0
  <2>1. dict[w] = EmptyDictionary /\ fields[w].length = 0
    BY <1>1 DEF BeginsWith, Stages
  <2>2. Items(fields[w]) = <<>>
    BY <2>1, HeldFacts, EmptySeq DEF Left
  <2>3. Taken(w)' = Len(Items(EmptyDictionary.keys))
    BY <1>2, <2>1 DEF Taken
  <2>4. Items(EmptyDictionary.keys) = <<>> /\ Len(<<>>) = 0
    BY EmptyDictionaryFacts
  <2> QED
    BY <2>1, <2>2, <2>3, <2>4
<1>4. fields'[w] = IF x = <<>> THEN fields[w] ELSE Push(fields[w], Field(w, x[1], 1))
  <2>1. fields = [v \in Workers |-> fields[v]]
    BY DEF Typed
  <2> QED
    BY <1>1, <2>1, Assigned DEF BeginsWith
<1>5. \A j : Piece(w, j)' = Field(w, x[j], j)
  BY <1>2 DEF Piece
<1>6. /\ Left(w)' = IF x = <<>> THEN 0 ELSE 1
      /\ x # <<>> => Items(fields'[w])[1] = Field(w, x[1], 1)
  <2>1. CASE x = <<>>
    <3>1. Left(w)' = Len(<<>>) /\ Len(<<>>) = 0
      BY <1>3, <1>4, <2>1 DEF Left
    <3> QED
      BY <2>1, <3>1
  <2>2. CASE x # <<>>
    <3>1. 1 \in 1..Len(x)
      BY <1>1, <2>2, EmptySeq DEF BeginsWith
    <3>2. Field(w, x[1], 1) \in Pieces /\ IsList(fields[w], Pieces)
      BY <1>1, <3>1 DEF BeginsWith, Typed
    <3>3. Items(fields'[w]) = Append(<<>>, Field(w, x[1], 1))
      BY <1>3, <1>4, <2>2, <3>2, PushFacts
    <3>4. Len(Append(<<>>, Field(w, x[1], 1))) = 1 /\ Append(<<>>, Field(w, x[1], 1))[1] = Field(w, x[1], 1)
      OBVIOUS
    <3>5. Left(w)' = 1
      BY <3>3, <3>4 DEF Left
    <3> QED
      BY <2>2, <3>3, <3>4, <3>5
  <2> QED
    BY <2>1, <2>2
<1>7. Len(x) \in Nat /\ (x = <<>> <=> Len(x) = 0)
  BY <1>1, EmptySeq DEF BeginsWith
<1>8. Left(w)' <= Len(x)
  BY <1>6, <1>7
<1>9. FieldsInOrder(w)'
  <2> SUFFICES ASSUME NEW i \in 1..Left(w)' PROVE Items(fields'[w])[i] = Piece(w, Taken(w) + i)'
    BY DEF FieldsInOrder
  <2>1. x # <<>> /\ i = 1 /\ Taken(w)' + i = 1
    BY <1>3, <1>6
  <2>2. Piece(w, Taken(w) + i)' = Field(w, x[1], 1)
    BY <1>2, <2>1 DEF Piece
  <2> QED
    BY <1>6, <2>1, <2>2
<1>10. TextLeft(w)'
  <2>1. saved' = [i \in 1..(IF x = <<>> THEN 0 ELSE Len(x) - 1) |-> Field(w, x[i + 1], i + 1)]
    BY <1>1 DEF BeginsWith
  <2>2. saved' = [i \in 1..Len(x) - Left(w)' |-> Field(w, x[Left(w)' + i], Left(w)' + i)]
    <3>1. CASE x = <<>>
      <4>1. Len(x) - Left(w)' = 0
        BY <1>6, <1>7, <3>1
      <4>2. saved' = <<>>
        BY <2>1, <3>1
      <4> QED
        BY <4>1, <4>2
    <3>2. CASE x # <<>>
      <4>1. Left(w)' = 1 /\ \A i \in 1..Len(x) - 1 : i + 1 = 1 + i
        BY <1>6, <1>7, <3>2
      <4>2. saved' = [i \in 1..Len(x) - 1 |-> Field(w, x[i + 1], i + 1)]
        BY <2>1, <3>2
      <4>3. saved' = [i \in 1..Len(x) - 1 |-> Field(w, x[1 + i], 1 + i)]
        BY <4>1, <4>2
      <4> QED
        BY <4>1, <4>3
    <3> QED
      BY <3>1, <3>2
  <2>3. saved' = [i \in 1..Len(buffer'[w]) - Left(w)' |-> Piece(w, Left(w) + i)']
    BY <1>2, <2>2 DEF Piece
  <2> QED
    BY <1>2, <2>3 DEF TextLeft
<1> QED
  BY <1>2, <1>8, <1>9, <1>10 DEF Progress

(* The next field of the worker's own text goes into the queue; when the   *)
(* text is at its end the queue has all of its fields.                     *)
LEMMA SplitProgress ==
  ASSUME Typed, Stages, Undisturbed, Tables, NEW w \in Workers, Split(w), w \notin mixed'
  PROVE  Progress(w)'
<1>1. last = w /\ w \notin mixed /\ pc[w] = "split" /\ UNCHANGED <<buffer, dict>>
  BY DEF Split, Resume, At
<1>2. /\ saved = [i \in 1..Len(buffer[w]) - Left(w) |-> Piece(w, Left(w) + i)]
      /\ Left(w) <= Len(buffer[w]) /\ FieldsInOrder(w) /\ dict[w] = EmptyDictionary
  BY <1>1 DEF Undisturbed, Progress, TextLeft, Stages
<1>3. Left(w) \in Nat /\ Len(buffer[w]) \in Nat /\ Items(fields[w]) \in Seq(Pieces) /\ saved \in Seq(Pieces)
  BY HeldFacts, BoundsAssumption DEF Typed
<1>4. Taken(w) = 0 /\ Taken(w)' = 0 /\ \A j : Piece(w, j)' = Piece(w, j)
  <2>1. Items(EmptyDictionary.keys) = <<>> /\ Len(<<>>) = 0
    BY EmptyDictionaryFacts
  <2> QED
    BY <1>1, <1>2, <2>1 DEF Taken, Piece
<1>5. Len(saved) = Len(buffer[w]) - Left(w)
  BY <1>2, <1>3
<1>6. CASE saved = <<>>
  <2>1. /\ pc'[w] = "key" /\ fields'[w] = fields[w]
    BY <1>6 DEF Split, Goto, Typed
  <2>2. Len(buffer[w]) - Left(w) = 0
    BY <1>5, <1>6
  <2>3. Left(w)' = Left(w) /\ FieldsInOrder(w)'
    BY <1>1, <1>2, <1>4, <2>1 DEF Left, FieldsInOrder
  <2>4. Taken(w)' + Left(w)' = Len(buffer'[w])
    BY <1>1, <1>3, <1>4, <2>2, <2>3
  <2>5. KeysTaken(w)'
    <3>1. 1..Taken(w)' = {}
      BY <1>4
    <3>2. \A k \in Heads : SearchDict(dict'[w], k) = FirstIn(w, buffer'[w], Taken(w)', k)
      BY <1>1, <1>2, <1>4, FirstNone, EmptyDictionaryFacts
    <3> QED
      BY <3>1, <3>2 DEF KeysTaken
  <2> QED
    BY <2>1, <2>3, <2>4, <2>5 DEF Progress, TextLeft
<1>7. CASE saved # <<>>
  <2>1. pc'[w] = "split" /\ saved' = Tail(saved) /\ fields'[w] = Push(fields[w], Head(saved))
    BY <1>1, <1>7 DEF Split, Typed
  <2> DEFINE q == Left(w)
             n == Len(buffer[w]) - q
  <2>2. q \in Nat /\ n \in Nat \ {0} /\ Len(saved) = n /\ q + 1 <= Len(buffer[w]) /\ 1 \in 1..n
    BY <1>2, <1>3, <1>5, <1>7, EmptySeq
  <2>3. Head(saved) = Piece(w, q + 1) /\ Head(saved) \in Pieces
    <3>1. Head(saved) = saved[1] /\ Head(saved) \in Pieces
      BY <1>3, <1>7, TailOfText
    <3>2. saved[1] = Piece(w, q + 1)
      BY <1>2, <2>2
    <3> QED
      BY <3>1, <3>2
  <2>4. Items(fields'[w]) = Append(Items(fields[w]), Piece(w, q + 1)) /\ Len(Items(fields[w])) = q
    <3>1. IsList(fields[w], Pieces)
      BY DEF Typed
    <3> QED
      BY <2>1, <2>3, <3>1, PushFacts DEF Left
  <2>5. /\ Len(Items(fields'[w])) = q + 1 /\ Items(fields'[w])[q + 1] = Piece(w, q + 1)
        /\ \A i \in 1..q : Items(fields'[w])[i] = Items(fields[w])[i]
    <3>1. Piece(w, q + 1) \in Pieces
      BY <2>3
    <3> HIDE DEF q
    <3> QED
      BY <1>3, <2>4, <3>1, AppendProperties
  <2>6. Left(w)' = q + 1 /\ q + 1 \in Nat
    BY <2>2, <2>5 DEF Left
  <2>7. FieldsInOrder(w)'
    <3> SUFFICES ASSUME NEW i \in 1..Left(w)' PROVE Items(fields'[w])[i] = Piece(w, Taken(w) + i)'
      BY DEF FieldsInOrder
    <3>1. Piece(w, Taken(w) + i)' = Piece(w, i)
      <4>1. Taken(w)' + i = i
        BY <1>4, <2>6
      <4> QED
        BY <1>1, <4>1 DEF Piece
    <3>2. CASE i = q + 1
      BY <2>5, <3>1, <3>2
    <3>3. CASE i # q + 1
      <4>1. i \in 1..q /\ Taken(w) + i = i
        BY <1>4, <2>2, <2>6, <3>3
      <4>2. Items(fields[w])[i] = Piece(w, i)
        BY <1>2, <4>1 DEF FieldsInOrder
      <4> QED
        BY <2>5, <3>1, <4>1, <4>2
    <3> QED
      BY <3>2, <3>3
  <2>8. TextLeft(w)'
    <3>1. /\ Tail(saved) \in Seq(Pieces) /\ Len(Tail(saved)) = n - 1
          /\ \A i \in 1..n - 1 : Tail(saved)[i] = saved[i + 1]
      <4> HIDE DEF n
      <4> QED
        BY <1>3, <1>7, <2>2, HeadTailProperties
    <3>2. \A i \in 1..n - 1 : Tail(saved)[i] = Piece(w, (q + 1) + i)
      <4> SUFFICES ASSUME NEW i \in 1..n - 1 PROVE Tail(saved)[i] = Piece(w, (q + 1) + i)
        OBVIOUS
      <4>1. i + 1 \in 1..n /\ q + (i + 1) = (q + 1) + i
        BY <2>2
      <4>2. saved[i + 1] = Piece(w, q + (i + 1))
        BY <1>2, <4>1
      <4> QED
        BY <3>1, <4>1, <4>2
    <3>3. Tail(saved) \in [1..n - 1 -> Pieces]
      <4> HIDE DEF n
      <4> QED
        BY <3>1, LenProperties
    <3>4. Tail(saved) = [i \in 1..n - 1 |-> Piece(w, (q + 1) + i)]
      <4> HIDE DEF n, q
      <4> QED
        BY <3>2, <3>3
    <3>5. Len(buffer'[w]) - Left(w)' = n - 1
      BY <1>1, <1>3, <2>6
    <3>6. saved' = [i \in 1..Len(buffer'[w]) - Left(w)' |-> Piece(w, Left(w) + i)']
      <4>1. \A i : Piece(w, Left(w) + i)' = Piece(w, (q + 1) + i)
        BY <1>1, <2>6 DEF Piece
      <4> HIDE DEF n, q
      <4> QED
        BY <2>1, <3>4, <3>5, <4>1
    <3> QED
      BY <2>1, <3>6 DEF TextLeft
  <2>9. Left(w)' <= Len(buffer'[w])
    BY <1>1, <2>2, <2>6
  <2> QED
    BY <2>1, <2>7, <2>8, <2>9 DEF Progress
<1> QED
  BY <1>6, <1>7

(* The first field that waits is cut: its key is the next of the buffer,   *)
(* and its value is what is left.                                          *)
LEMMA CutKeyProgress ==
  ASSUME Typed, Stages, Undisturbed, Tables, NEW w \in Workers, CutKey(w), w \notin mixed'
  PROVE  Progress(w)'
<1> DEFINE m == Taken(w)
           field == Piece(w, m + 1)
<1>1. /\ w \notin mixed /\ pc[w] = "key" /\ ~NoField(w) /\ pc'[w] = "value"
      /\ key' = [key EXCEPT ![w] = Peek(fields[w]).key]
      /\ saved' = IF Peek(fields[w]).key = NoKey THEN <<>> ELSE <<ValueOf(Peek(fields[w]))>>
      /\ UNCHANGED <<buffer, fields, dict>>
  BY DEF CutKey, At, Goto, Typed
<1>2. m + Left(w) = Len(buffer[w]) /\ FieldsInOrder(w) /\ KeysTaken(w)
  BY <1>1 DEF Undisturbed, Progress
<1>3. /\ Left(w) \in Nat \ {0} /\ m \in Nat /\ Len(buffer[w]) \in Nat
      /\ Peek(fields[w]) = Items(fields[w])[1]
      /\ buffer[w] \in [1..Len(buffer[w]) -> Heads]
  BY <1>1, HeldFacts, BoundsAssumption
<1>4. Peek(fields[w]) = field /\ m + 1 \in 1..Len(buffer[w])
  <2>1. 1 \in 1..Left(w) /\ m + 1 \in 1..Len(buffer[w])
    BY <1>2, <1>3
  <2> QED
    BY <1>2, <1>3, <2>1 DEF FieldsInOrder
<1>5. field.key = buffer[w][m + 1]
  BY DEF Piece, Field
<1>6. /\ Taken(w)' = m /\ Left(w)' = Left(w) /\ \A j : Piece(w, j)' = Piece(w, j)
      /\ KeysTaken(w)' <=> KeysTaken(w)
      /\ FieldsInOrder(w)' <=> FieldsInOrder(w)
  BY <1>1 DEF Taken, Left, Piece, KeysTaken, FieldsInOrder
<1>7. key'[w] = buffer'[w][Taken(w)' + 1]
  BY <1>1, <1>4, <1>5, <1>6 DEF Typed
<1>8. TextLeft(w)'
  <2>1. saved' = IF buffer'[w][Taken(w)' + 1] = NoKey THEN <<>> ELSE <<ValueOf(field)>>
    BY <1>1, <1>4, <1>5, <1>6
  <2>2. Piece(w, Taken(w) + 1)' = field
    BY <1>6
  <2>3. ValueOf(Piece(w, Taken(w) + 1))' = ValueOf(field)
    BY <2>2 DEF ValueOf
  <2> QED
    BY <1>1, <2>1, <2>3 DEF TextLeft
<1>9. Taken(w)' + Left(w)' = Len(buffer'[w])
  BY <1>1, <1>2, <1>6
<1> QED
  BY <1>1, <1>2, <1>6, <1>7, <1>8, <1>9 DEF Progress

(* The value that is left is the field's, and its entry is the next.       *)
LEMMA CutOwnValue ==
  ASSUME Typed, Stages, Undisturbed, Tables, NEW w \in Workers, CutValue(w), w \notin mixed',
         saved # <<>>
  PROVE  Progress(w)'
<1> DEFINE m == Taken(w)
           d == dict[w]
           e == InsertDict(d, key[w], <<w, m + 1>>)
<1>1. last = w /\ w \notin mixed /\ pc[w] = "value" /\ UNCHANGED buffer
  BY DEF CutValue, Resume, At
<1>2. /\ saved = <<ValueOf(Piece(w, m + 1))>> /\ m + Left(w) = Len(buffer[w]) /\ FieldsInOrder(w)
      /\ key[w] = buffer[w][m + 1] /\ KeysTaken(w) /\ fields[w].length # 0
  BY <1>1 DEF Undisturbed, Progress, TextLeft, Stages
<1>3. saved # <<>> /\ Head(saved).own = <<w, m + 1>>
  <2>1. ValueOf(Piece(w, m + 1)).own = <<w, m + 1>>
    BY DEF ValueOf, Piece, Field
  <2> QED
    BY <1>2, <2>1
<1>4. /\ Left(w) \in Nat /\ Left(w) = fields[w].length /\ m \in Nat /\ Len(buffer[w]) \in 0..MaxFields
      /\ IsList(fields[w], Pieces) /\ IsDict(d) /\ Items(fields[w]) \in Seq(Pieces)
      /\ Items(d.keys) \in Seq(Heads)
  BY HeldFacts
<1>5. m + 1 \in 1..Len(buffer[w]) /\ <<w, m + 1>> \in Owners
  <2>1. m + 1 \in 1..Len(buffer[w]) /\ m + 1 \in 0..MaxFields
    BY <1>2, <1>4, BoundsAssumption
  <2> QED
    BY <2>1 DEF Owners
<1>6. pc'[w] = "key" /\ dict'[w] = e /\ fields'[w] = Pop(fields[w]) /\ up' = up
  <2>1. /\ dict' = [dict EXCEPT ![w] = e] /\ fields' = [fields EXCEPT ![w] = Pop(fields[w])]
        /\ pc' = [pc EXCEPT ![w] = "key"] /\ up' = up
    BY <1>3 DEF CutValue, Goto
  <2>2. dict = [v \in Workers |-> dict[v]] /\ fields = [v \in Workers |-> fields[v]]
    BY DEF Typed
  <2> HIDE DEF e
  <2>3. dict'[w] = e /\ fields'[w] = Pop(fields[w])
    BY <2>1, <2>2, Assigned
  <2> QED
    BY <2>1, <2>3 DEF Typed
<1>7. key[w] \in Heads
  BY DEF Typed
<1>8. /\ IsDict(e) /\ Items(e.keys) = Append(Items(d.keys), key[w])
      /\ \A q \in Heads :
           SearchDict(e, q) = IF q = key[w] /\ SearchDict(d, key[w]) = NoValue THEN <<w, m + 1>>
                              ELSE SearchDict(d, q)
  <2> HIDE DEF d, m
  <2>1. ASSUME NEW v, v = <<w, m + 1>>
        PROVE  LET f == InsertDict(d, key[w], v) IN
               /\ IsDict(f) /\ Items(f.keys) = Append(Items(d.keys), key[w])
               /\ \A q \in Heads :
                    SearchDict(f, q) = IF q = key[w] /\ SearchDict(d, key[w]) = NoValue THEN v
                                       ELSE SearchDict(d, q)
    <3>1. v \in Owners
      BY <1>5, <2>1
    <3> QED
      BY <1>4, <1>7, <3>1, InsertDictFacts
  <2> QED
    BY <2>1
<1> HIDE DEF e
<1>9. /\ Taken(w)' = m + 1 /\ Items(dict'[w].keys)[m + 1] = key[w]
      /\ \A i \in 1..m : Items(dict'[w].keys)[i] = Items(d.keys)[i]
  <2>1. Items(dict'[w].keys) = Append(Items(d.keys), key[w]) /\ Len(Items(d.keys)) = m
    BY <1>6, <1>8 DEF Taken
  <2> HIDE DEF d, m
  <2>2. /\ Len(Append(Items(d.keys), key[w])) = m + 1
        /\ Append(Items(d.keys), key[w])[m + 1] = key[w]
        /\ \A i \in 1..m : Append(Items(d.keys), key[w])[i] = Items(d.keys)[i]
    BY <1>4, <1>7, <2>1, AppendProperties
  <2> QED
    BY <2>1, <2>2 DEF Taken
<1>10. KeysTaken(w)'
  <2>1. ASSUME NEW i \in 1..m + 1 PROVE Items(dict'[w].keys)[i] = buffer'[w][i]
    <3>1. CASE i = m + 1
      BY <1>1, <1>2, <1>9, <3>1
    <3>2. CASE i # m + 1
      <4>1. i \in 1..m
        BY <1>4, <3>2
      <4> QED
        BY <1>1, <1>2, <1>9, <4>1 DEF KeysTaken
    <3> QED
      BY <3>1, <3>2
  <2>2. ASSUME NEW k \in Heads
        PROVE  SearchDict(dict'[w], k) = FirstIn(w, buffer'[w], m + 1, k)
    <3>1. /\ SearchDict(d, k) = FirstIn(w, buffer[w], m, k)
          /\ SearchDict(d, key[w]) = FirstIn(w, buffer[w], m, key[w])
      BY <1>2, <1>7 DEF KeysTaken
    <3>2. FirstIn(w, buffer[w], m + 1, k) =
            IF k = key[w] /\ FirstIn(w, buffer[w], m, key[w]) = NoValue THEN <<w, m + 1>>
            ELSE FirstIn(w, buffer[w], m, k)
      BY <1>2, <1>4, FirstStep
    <3>3. SearchDict(e, k) = IF k = key[w] /\ SearchDict(d, key[w]) = NoValue THEN <<w, m + 1>>
                              ELSE SearchDict(d, k)
      BY <1>8
    <3> QED
      BY <1>1, <1>6, <3>1, <3>2, <3>3
  <2> QED
    BY <1>9, <2>1, <2>2 DEF KeysTaken
<1>11. Left(w)' = Left(w) - 1 /\ \A i \in 1..Left(w) - 1 : Items(fields'[w])[i] = Items(fields[w])[i + 1]
  <2>1. Items(fields[w]) # <<>> /\ Items(fields'[w]) = Tail(Items(fields[w]))
    BY <1>2, <1>4, <1>6, PopFacts
  <2> QED
    BY <1>4, <2>1, HeadTailProperties DEF Left
<1>12. Left(w) \in Nat /\ m \in Nat /\ Len(buffer[w]) \in Nat /\ Left(w)' = Left(w) - 1
  BY <1>4, <1>11, BoundsAssumption
<1>13. FieldsInOrder(w)'
  <2> SUFFICES ASSUME NEW i \in 1..Left(w)' PROVE Items(fields'[w])[i] = Piece(w, Taken(w) + i)'
    BY DEF FieldsInOrder
  <2>1. i \in 1..Left(w) - 1 /\ i + 1 \in 1..Left(w) /\ m + (i + 1) = (m + 1) + i
    <3> HIDE DEF m
    <3> QED
      BY <1>12
  <2>2. Items(fields'[w])[i] = Piece(w, m + (i + 1))
    BY <1>2, <1>11, <2>1 DEF FieldsInOrder
  <2>3. Piece(w, Taken(w) + i)' = Piece(w, (m + 1) + i)
    BY <1>1, <1>9 DEF Piece
  <2> QED
    BY <2>1, <2>2, <2>3
<1>14. Taken(w)' + Left(w)' = Len(buffer'[w])
  <2>1. m + Left(w) = Len(buffer[w]) /\ Taken(w)' = m + 1 /\ buffer' = buffer
    BY <1>1, <1>2, <1>9
  <2> HIDE DEF m
  <2> QED
    BY <1>12, <2>1
<1> QED
  BY <1>6, <1>10, <1>13, <1>14 DEF Progress, TextLeft

(* And without a value that is left, the field of the worker's own text had *)
(* none.                                                                   *)
LEMMA CutValueProgress ==
  ASSUME Typed, Stages, Undisturbed, Tables, NEW w \in Workers, CutValue(w), w \notin mixed'
  PROVE  /\ Progress(w)'
         /\ saved = <<>> => NoKey \in Range(buffer[w])
<1>a. CASE saved = <<>>
  <2>1. /\ last = w /\ last' = last /\ w \notin mixed /\ pc[w] = "value"
        /\ UNCHANGED <<fields, dict, key, saved, pc, buffer, token, spoilt>>
    BY <1>a DEF CutValue, Resume, At, decoding
  <2>2. Progress(w)
    BY <2>1 DEF Undisturbed
  <2>3. /\ Left(w)' = Left(w) /\ Taken(w)' = Taken(w) /\ \A j : Piece(w, j)' = Piece(w, j)
        /\ (KeysTaken(w)' <=> KeysTaken(w)) /\ (FieldsInOrder(w)' <=> FieldsInOrder(w))
    BY <2>1 DEF Left, Taken, Piece, KeysTaken, FieldsInOrder
  <2>4. TextLeft(w)' <=> TextLeft(w)
    BY <2>1, <2>3 DEF TextLeft
  <2>5. Progress(w)'
    BY <2>1, <2>2, <2>3, <2>4 DEF Progress
  <2>6. buffer[w][Taken(w) + 1] = NoKey /\ Taken(w) + Left(w) = Len(buffer[w])
    BY <1>a, <2>1, <2>2 DEF Progress, TextLeft
  <2>7. Taken(w) + 1 \in 1..Len(buffer[w]) /\ buffer[w] \in [1..Len(buffer[w]) -> Heads]
    <3>1. fields[w].length # 0
      BY <2>1 DEF Stages
    <3>2. Left(w) \in Nat \ {0} /\ Taken(w) \in Nat
      BY <3>1, HeldFacts
    <3> QED
      BY <2>6, <3>2, HeldFacts
  <2> QED
    BY <2>5, <2>6, <2>7 DEF Range
<1>b. CASE saved # <<>>
  BY <1>b, CutOwnValue
<1> QED
  BY <1>a, <1>b

(* No field waits: the keys of all have been taken. *)
LEMMA ParsedProgress ==
  ASSUME Typed, Stages, Undisturbed, Tables, NEW w \in Workers, Parsed(w), w \notin mixed'
  PROVE  Progress(w)'
<1>1. w \notin mixed /\ pc[w] = "key" /\ pc'[w] = "parsed" /\ UNCHANGED <<buffer, dict>>
  BY DEF Parsed, At, Goto, Typed
<1>2. Taken(w) + Left(w) = Len(buffer[w]) /\ KeysTaken(w)
  BY <1>1 DEF Undisturbed, Progress
<1>3. Left(w) = 0 /\ Taken(w) \in Nat
  BY HeldFacts, ParsedTyped
<1>4. Taken(w)' = Len(buffer'[w]) /\ KeysTaken(w)'
  BY <1>1, <1>2, <1>3 DEF Taken, KeysTaken
<1> QED
  BY <1>1, <1>4 DEF Progress, TextLeft

(* The token that is found is the worker's own, and stays so if the table  *)
(* is filled: it is, when nobody is filling one.                           *)
LEMMA TokenProgress ==
  ASSUME Typed, Stages, Undisturbed, Tables, NEW w \in Workers, w \notin mixed',
         CutType(w) \/ CutToken(w) \/ TestTable(w) \/ BuildTable(w) \/ FillTable(w) \/ Decode(w)
  PROVE  Progress(w)'
<1>1. token = [v \in Workers |-> token[v]] /\ pc \in [Workers -> Labels]
  BY DEF Typed
<1>2. CASE CutType(w)
  <2>1. pc'[w] = "token" /\ saved' = <<Field(w, NoKey, 0)>>
    BY <1>1, <1>2 DEF CutType, Goto
  <2> QED
    BY <2>1 DEF Progress, TextLeft
<1>3. CASE CutToken(w)
  <2>1. last = w /\ w \notin mixed /\ pc[w] = "token"
    BY <1>3 DEF CutToken, Resume, At
  <2>2. saved = <<Field(w, NoKey, 0)>>
    BY <2>1 DEF Undisturbed, Progress, TextLeft
  <2>3. Head(saved).own = <<w, 0>> /\ saved # <<>>
    BY <2>2 DEF Field
  <2>4. /\ pc' = [pc EXCEPT ![w] = "decode"]
        /\ token' = [token EXCEPT ![w] = <<w, 0>>] \/ w \in spoilt'
    BY <1>3, <2>3 DEF CutToken, Goto
  <2>5. w \notin spoilt' => token'[w] = <<w, 0>>
    <3>1. token = [v \in Workers |-> token[v]]
      BY <1>1 DEF Typed
    <3> QED
      BY <2>4, <3>1, Assigned
  <2>6. pc'[w] = "decode"
    BY <1>1, <2>4
  <2> QED
    BY <2>5, <2>6 DEF Progress, TextLeft
<1>4. CASE TestTable(w) \/ BuildTable(w) \/ FillTable(w)
  <2>1. /\ pc[w] \in {"decode", "build", "fill"} /\ pc'[w] \in {"build", "fill", "use"}
        /\ token' = token /\ w \notin mixed /\ spoilt' = spoilt
    BY <1>1, <1>4 DEF TestTable, BuildTable, FillTable, At, Goto, decoding
  <2>2. w \notin spoilt => token[w] = <<w, 0>>
    BY <2>1 DEF Undisturbed, Progress
  <2> QED
    BY <2>1, <2>2 DEF Progress, TextLeft
<1>5. CASE Decode(w)
  <2>1. /\ pc[w] = "use" /\ pc'[w] = "decoded" /\ w \notin mixed
        /\ token' = [token EXCEPT ![w] = IF table \in filled THEN token[w] ELSE Garbage]
        /\ spoilt' = IF \E v \in Workers : pc[v] = "fill" THEN spoilt \cup {w} ELSE spoilt
    BY <1>1, <1>5 DEF Decode, At, Goto
  <2>2. w \notin spoilt => token[w] = <<w, 0>>
    BY <2>1 DEF Undisturbed, Progress
  <2>3. ASSUME w \notin spoilt' PROVE token'[w] = <<w, 0>>
    <3>1. table \in filled
      BY <2>1, <2>3 DEF Tables
    <3>2. token' = [token EXCEPT ![w] = token[w]]
      BY <2>1, <3>1
    <3>3. token[w] = <<w, 0>>
      BY <2>1, <2>2, <2>3
    <3> QED
      BY <1>1, <3>2, <3>3, Assigned
  <2> QED
    BY <2>1, <2>3 DEF Progress, TextLeft
<1> QED
  BY <1>2, <1>3, <1>4, <1>5

(* Who has answered holds nothing. *)
LEMMA AnswerProgress ==
  ASSUME Typed, NEW w \in Workers, Answer(w) PROVE Progress(w)'
<1>1. pc'[w] = "idle"
  BY DEF Answer, Goto, Typed
<1> QED
  BY <1>1 DEF Progress, TextLeft

(* The step is one of an undisturbed worker, or leaves what it holds.      *)
LEMMA UndisturbedStep ==
  ASSUME Inv, NEW w \in Workers, Step(w) PROVE Undisturbed'
<1>1. Typed /\ Stages /\ Undisturbed /\ Tables
  BY DEF Inv
<1>2. Keeps(w)
  BY <1>1, StepKeeps
<1>3. ASSUME w \notin mixed' PROVE Progress(w)'
  BY <1>1, <1>3, BeginProgress, SplitProgress, CutKeyProgress, CutValueProgress, ParsedProgress,
     TokenProgress, AnswerProgress DEF Step
<1>4. ASSUME NEW v \in Workers \ {w}, v \notin mixed' PROVE Progress(v)'
  BY <1>1, <1>2, <1>4, KeptProgress
<1> QED
  BY <1>3, <1>4 DEF Undisturbed

(* Where a worker has fields, keys, and something held against it. *)
LEMMA StagesStep ==
  ASSUME Inv, NEW w \in Workers, Step(w) PROVE Stages'
<1>1. Typed /\ Stages /\ Tables /\ pc \in [Workers -> Labels]
  BY DEF Inv, Typed
<1>2. Keeps(w)
  BY <1>1, StepKeeps
<1> DEFINE Stage(v) ==
      /\ pc[v] = "value" => fields[v].length # 0
      /\ pc[v] \notin {"split", "key", "value"} => fields[v].length = 0
      /\ pc[v] \in {"idle", "split"} => dict[v] = EmptyDictionary
      /\ pc[v] = "idle" => v \notin mixed /\ v \notin spliced /\ v \notin spoilt
      /\ pc[v] # "idle" /\ v \notin spliced => buffer[v] = sent[v]
<1>3. \A v \in Workers : Stage(v)
  BY <1>1 DEF Stages
<1>4. ASSUME NEW v \in Workers \ {w} PROVE Stage(v)'
  <2>1. /\ buffer'[v] = buffer[v] /\ sent'[v] = sent[v] /\ fields'[v] = fields[v] /\ dict'[v] = dict[v]
        /\ pc'[v] = pc[v] /\ (v \in mixed' <=> v \in mixed)
        /\ (v \in spliced' <=> v \in spliced) /\ (v \in spoilt' <=> v \in spoilt)
    BY <1>2 DEF Keeps
  <2> QED
    BY <1>3, <2>1
<1> SUFFICES Stage(w)'
  BY <1>4 DEF Stages
<1>5. CASE Begin(w)
  <2>1. PICK keys, x : BeginsWith(w, keys, x)
    BY <1>1, <1>5, BeginFacts
  <2>2. /\ buffer'[w] = x /\ sent'[w] = keys /\ pc'[w] = "split" /\ dict'[w] = dict[w]
        /\ pc[w] = "idle" /\ (w \notin spliced' => x = keys)
    BY <1>1, <2>1 DEF BeginsWith, Typed
  <2> QED
    BY <1>3, <2>2
<1>6. CASE Split(w)
  <2>1. /\ pc[w] = "split" /\ pc'[w] \in {"split", "key"}
        /\ UNCHANGED <<buffer, sent, dict, spliced>>
    BY <1>1, <1>6 DEF Split, At, Goto
  <2> QED
    BY <1>3, <2>1
<1>7. CASE CutKey(w)
  <2>1. /\ pc[w] = "key" /\ pc'[w] = "value" /\ fields[w].length # 0
        /\ UNCHANGED <<buffer, sent, fields, dict, spliced>>
    BY <1>1, <1>7, HeldFacts DEF CutKey, At, Goto
  <2> QED
    BY <1>3, <2>1
<1>8. CASE CutValue(w)
  <2>1. /\ pc[w] = "value" /\ UNCHANGED <<buffer, sent, spliced>>
        /\ pc'[w] = "key" \/ (pc'[w] = "value" /\ fields' = fields)
    BY <1>1, <1>8 DEF CutValue, At, Goto
  <2> QED
    BY <1>3, <2>1
<1>9. CASE Parsed(w)
  <2>1. fields'[w].length = 0
    BY <1>1, <1>9, ParsedTyped
  <2>2. /\ pc[w] = "key" /\ pc'[w] = "parsed" /\ UNCHANGED <<buffer, sent, dict, spliced>>
    BY <1>1, <1>9 DEF Parsed, At, Goto
  <2> QED
    BY <1>3, <2>1, <2>2
<1>10. CASE CutType(w) \/ CutToken(w) \/ TestTable(w) \/ BuildTable(w) \/ FillTable(w) \/ Decode(w)
  <2>1. UNCHANGED parsing
    BY <1>1, <1>10, TokenTyped
  <2>2. /\ pc[w] \notin {"idle", "split", "key", "value"}
        /\ pc'[w] \notin {"idle", "split", "key", "value"}
    BY <1>1, <1>10 DEF CutType, CutToken, TestTable, BuildTable, FillTable, Decode, At, Goto
  <2> QED
    BY <1>3, <2>1, <2>2 DEF parsing
<1>11. CASE Answer(w)
  <2>1. dict'[w] = EmptyDictionary
    BY <1>1, <1>11, AnswerTyped
  <2>2. /\ pc[w] \notin {"split", "key", "value"} /\ pc'[w] = "idle" /\ fields' = fields
        /\ w \notin mixed' /\ w \notin spliced' /\ w \notin spoilt'
    BY <1>1, <1>11 DEF Answer, At, Goto
  <2> QED
    BY <1>3, <2>1, <2>2
<1> QED
  BY <1>5, <1>6, <1>7, <1>8, <1>9, <1>10, <1>11 DEF Step

(* Only a worker whose own text has a field without a value finds none, or *)
(* one that went on in the text of another.                                *)
LEMMA DiesStep ==
  ASSUME Inv, NEW w \in Workers, Step(w) PROVE Dies'
<1>1. Typed /\ Stages /\ Undisturbed /\ Tables
  BY DEF Inv
<1>2. up
  <2>1. CASE Begin(w)
    BY <1>1, <2>1, BeginFacts DEF BeginsWith
  <2>2. CASE ~Begin(w)
    BY <2>2 DEF Step, Split, CutKey, CutValue, Parsed, CutType, CutToken, TestTable, BuildTable,
       FillTable, Decode, Answer, At
  <2> QED
    BY <2>1, <2>2
<1>3. CASE CutValue(w)
  <2>1. CASE saved = <<>>
    <3>1. w \in mixed' \/ NoKey \in Range(buffer[w])
      BY <1>1, <1>3, <2>1, CutValueProgress
    <3>2. pc'[w] = "value" /\ buffer' = buffer
      BY <1>3, <2>1 DEF CutValue, At
    <3> QED
      BY <3>1, <3>2 DEF Dies
  <2>2. CASE saved # <<>>
    BY <1>2, <1>3, <2>2 DEF CutValue, Dies
  <2> QED
    BY <2>1, <2>2
<1>4. CASE ~CutValue(w)
  <2>1. up' = up
    <3>1. CASE Begin(w)
      BY <1>1, <3>1, BeginFacts DEF BeginsWith
    <3>2. CASE ~Begin(w)
      BY <1>4, <3>2 DEF Step, Split, CutKey, Parsed, CutType, CutToken, TestTable, BuildTable,
         FillTable, Decode, Answer, parsing
    <3> QED
      BY <3>1, <3>2
  <2> QED
    BY <1>2, <2>1 DEF Dies
<1> QED
  BY <1>3, <1>4

(* Nobody but who allocated a table makes it one that is not filled, and   *)
(* only by filling it goes on.                                             *)
LEMMA TablesStep ==
  ASSUME Inv, NEW w \in Workers, Step(w) PROVE Tables'
<1>1. Typed /\ Tables /\ Stages /\ pc \in [Workers -> Labels]
  BY DEF Inv, Typed
<1>2. \A v \in Workers \ {w} : pc'[v] = pc[v]
  BY <1>1, StepKeeps DEF Keeps
<1> DEFINE Seen == table # None \/ \E v \in Workers : pc[v] \in {"fill", "use"}
<1>3. Seen /\ table \notin filled => table \in Workers /\ pc[table] = "fill"
  BY <1>1 DEF Tables
<1>4. CASE \/ Begin(w) \/ Split(w) \/ CutKey(w) \/ CutValue(w) \/ Parsed(w)
           \/ CutType(w) \/ CutToken(w) \/ Answer(w)
  <2>1. table' = table /\ filled' = filled
    <3>1. CASE Begin(w)
      BY <1>1, <3>1, BeginFacts DEF BeginsWith, decoding
    <3>2. CASE ~Begin(w)
      BY <1>4, <3>2 DEF Split, CutKey, CutValue, Parsed, CutType, CutToken, Answer, decoding
    <3> QED
      BY <3>1, <3>2
  <2>2. pc[w] \notin {"fill", "use"} /\ pc'[w] \notin {"fill", "use"}
    <3>1. CASE Begin(w)
      BY <1>1, <3>1, BeginFacts DEF BeginsWith
    <3>2. CASE Split(w) \/ CutKey(w) \/ CutType(w) \/ CutToken(w)
      BY <1>1, <3>2 DEF Split, CutKey, CutType, CutToken, At, Goto
    <3>3. CASE CutValue(w) \/ Parsed(w) \/ Answer(w)
      BY <1>1, <3>3 DEF CutValue, Parsed, Answer, At, Goto
    <3> QED
      BY <1>4, <3>1, <3>2, <3>3
  <2>3. Seen' => Seen
    BY <1>2, <2>1, <2>2
  <2>4. ASSUME table \in Workers, pc[table] = "fill" PROVE pc'[table] = "fill"
    BY <1>2, <2>2, <2>4
  <2> QED
    BY <1>3, <2>1, <2>3, <2>4 DEF Tables
<1>5. CASE TestTable(w)
  <2>1. /\ table' = table /\ filled' = filled /\ pc[w] = "decode"
        /\ pc'[w] = IF table = None THEN "build" ELSE "use"
    BY <1>1, <1>5 DEF TestTable, At, Goto, decoding
  <2>2. Seen' => Seen
    BY <1>2, <2>1
  <2>3. ASSUME table \in Workers, pc[table] = "fill" PROVE pc'[table] = "fill"
    BY <1>2, <2>1, <2>3
  <2> QED
    BY <1>3, <2>1, <2>2, <2>3 DEF Tables
<1>6. CASE BuildTable(w)
  <2>1. table' = w /\ pc'[w] = "fill"
    BY <1>1, <1>6 DEF BuildTable, Goto
  <2> QED
    BY <2>1 DEF Tables
<1>7. CASE FillTable(w)
  <2>1. table' = table /\ filled' = filled \cup {table}
    BY <1>7 DEF FillTable
  <2> QED
    BY <2>1 DEF Tables
<1>8. CASE Decode(w)
  <2>1. table' = table /\ filled' = filled /\ pc[w] = "use" /\ pc'[w] = "decoded"
    BY <1>1, <1>8 DEF Decode, At, Goto
  <2>2. Seen' => Seen
    BY <1>2, <2>1
  <2>3. ASSUME table \in Workers, pc[table] = "fill" PROVE pc'[table] = "fill"
    BY <1>2, <2>1, <2>3
  <2> QED
    BY <1>3, <2>1, <2>2, <2>3 DEF Tables
<1> QED
  BY <1>4, <1>5, <1>6, <1>7, <1>8 DEF Step

-----------------------------------------------------------------------------
(* At first every list and every tree is empty, and nobody has a table.    *)
LEMMA InitInv == Init => Inv
<1> SUFFICES ASSUME Init PROVE Inv
  OBVIOUS
<1>1. /\ buffer = [w \in Workers |-> <<>>] /\ sent = [w \in Workers |-> <<>>]
      /\ fields = [w \in Workers |-> EmptyList]
      /\ dict = [w \in Workers |-> EmptyDictionary]
      /\ key = [w \in Workers |-> NoKey] /\ token = [w \in Workers |-> None]
      /\ pc = [w \in Workers |-> "idle"]
      /\ saved = <<>> /\ up = TRUE /\ table = None /\ filled = {}
      /\ last \in Workers /\ mixed = {} /\ spliced = {} /\ spoilt = {} /\ texts = 0
  BY DEF Init
<1>2. EmptyList.length = 0 /\ IsList(EmptyList, Pieces) /\ IsDict(EmptyDictionary)
  BY EmptyListFacts, EmptyDictionaryFacts DEF EmptyList, IsList
<1>3. Typed
  <2>1. /\ fields = [w \in Workers |-> fields[w]] /\ \A w \in Workers : IsList(fields[w], Pieces)
        /\ dict = [w \in Workers |-> dict[w]] /\ \A w \in Workers : IsDict(dict[w])
        /\ token = [w \in Workers |-> token[w]]
    BY <1>1, <1>2
  <2>2. /\ buffer \in [Workers -> Seq(Heads)] /\ sent \in [Workers -> Seq(Heads)]
        /\ \A w \in Workers : Len(buffer[w]) <= MaxFields
    BY <1>1, BoundsAssumption
  <2>3. key \in [Workers -> Heads] /\ pc \in [Workers -> Labels]
    BY <1>1 DEF Heads, Labels
  <2>4. /\ saved \in Seq(Pieces) /\ up \in BOOLEAN /\ filled \subseteq Workers
        /\ last \in Workers /\ mixed \subseteq Workers /\ texts \in 0..MaxTexts
    BY <1>1, BoundsAssumption
  <2> QED
    BY <2>1, <2>2, <2>3, <2>4 DEF Typed
<1>4. Stages
  BY <1>1, <1>2 DEF Stages
<1>5. Undisturbed
  BY <1>1 DEF Undisturbed, Progress, TextLeft
<1>6. Dies /\ Tables
  BY <1>1 DEF Dies, Tables
<1> QED
  BY <1>3, <1>4, <1>5, <1>6 DEF Inv

(* Inv is inductive. *)
LEMMA StepInv == Inv /\ [Next]_vars => Inv'
<1> SUFFICES ASSUME Inv, [Next]_vars PROVE Inv'
  OBVIOUS
<1>1. CASE Next
  <2>1. PICK w \in Workers : Step(w)
    BY <1>1 DEF Next, Step
  <2>2. Typed'
    BY <2>1, StepKeeps DEF Inv
  <2> QED
    BY <2>1, <2>2, UndisturbedStep, StagesStep, DiesStep, TablesStep DEF Inv
<1>2. CASE UNCHANGED vars
  <2>1. /\ buffer' = buffer /\ sent' = sent /\ fields' = fields /\ dict' = dict /\ key' = key
        /\ token' = token /\ pc' = pc /\ saved' = saved /\ table' = table /\ filled' = filled
        /\ up' = up /\ last' = last /\ mixed' = mixed /\ spliced' = spliced /\ spoilt' = spoilt
        /\ texts' = texts
    BY <1>2 DEF vars
  <2>2. Typed' /\ Stages' /\ Dies' /\ Tables'
    BY <2>1 DEF Inv, Typed, Stages, Dies, Tables
  <2>3. \A w : Progress(w)' <=> Progress(w)
    BY <2>1 DEF Progress, TextLeft, FieldsInOrder, KeysTaken, Left, Taken, Piece
  <2> QED
    BY <2>1, <2>2, <2>3 DEF Inv, Undisturbed
<1> QED
  BY <1>1, <1>2

(* Inv holds in every state that is reached. *)
LEMMA Invariant == Spec => []Inv
<1>1. Init => Inv
  BY InitInv
<1>2. Inv /\ [Next]_vars => Inv'
  BY StepInv
<1> QED
  BY <1>1, <1>2, PTL DEF Spec

-----------------------------------------------------------------------------
(* Theorems.                                                               *)

(* Every variable holds what the code can put there, and every list is a   *)
(* chain of length cells with none out of reach (linked_list.c), whatever  *)
(* the texts and however the workers disturb each other.                   *)
THEOREM TypeCorrect == Spec => []TypeOK
<1>1. Inv => TypeOK
  <2> SUFFICES ASSUME Inv PROVE TypeOK
    OBVIOUS
  <2>1. Typed
    BY DEF Inv
  <2>2. ASSUME NEW w \in Workers
        PROVE  /\ WellFormed(fields[w]) /\ Items(fields[w]) \in Seq(Pieces)
               /\ WellFormed(dict[w].keys) /\ Items(dict[w].keys) \in Seq(Heads)
               /\ \A c \in DOMAIN dict[w].bst.nodes : dict[w].bst.nodes[c].value \in Owners
    <3>1. /\ IsList(fields[w], Pieces) /\ IsTree(dict[w].bst, Owners)
          /\ IsList(dict[w].keys, Heads)
      BY <2>1 DEF Typed, IsDict
    <3>2. PICK n \in Nat : Grown(dict[w].bst, n, Owners)
      BY <3>1 DEF IsTree
    <3>3. dict[w].bst.nodes \in [1..n -> Nodes(Owners)]
      BY <3>2 DEF Grown
    <3>4. \A c \in DOMAIN dict[w].bst.nodes : dict[w].bst.nodes[c].value \in Owners
      BY <3>3 DEF Nodes
    <3> QED
      BY <3>1, <3>4, ListRead
  <2> QED
    BY <2>1, <2>2 DEF Typed, TypeOK
<1>2. Spec => []Inv
  BY Invariant
<1> QED
  BY <1>1, <1>2, PTL

(* A request that nobody disturbed, and all of which came in time, has     *)
(* exactly the keys that were sent, each with the value it came with       *)
(* first, and its own token; where fields are cut the process dies only of *)
(* a text with a field that has no value, or of one that a worker took     *)
(* over (http_request.c, helper.c).                                        *)
THEOREM UndisturbedIsParsed == Spec => []UndisturbedParse
<1>1. Inv => UndisturbedParse
  <2> SUFFICES ASSUME Inv PROVE UndisturbedParse
    OBVIOUS
  <2>1. ASSUME NEW w \in Workers, w \notin mixed, w \notin spliced, pc[w] = "parsed"
        PROVE  /\ \A k \in Heads : SearchDict(dict[w], k) = First(w, k)
               /\ IterateDict(dict[w]) = [j \in 1..Len(sent[w]) |-> <<sent[w][j], First(w, sent[w][j])>>]
    <3> DEFINE n == Len(sent[w])
    <3>1. buffer[w] = sent[w] /\ Taken(w) = n /\ KeysTaken(w)
      BY <2>1 DEF Inv, Stages, Undisturbed, Progress
    <3>2. \A k : First(w, k) = FirstIn(w, sent[w], n, k)
      BY DEF First, FirstIn
    <3>3. \A k \in Heads : SearchDict(dict[w], k) = First(w, k)
      BY <3>1, <3>2 DEF KeysTaken
    <3>4. \A j \in 1..n : Items(dict[w].keys)[j] = sent[w][j] /\ sent[w][j] \in Heads
      BY <3>1 DEF KeysTaken, Inv, Typed
    <3>5. IterateDict(dict[w]) = [j \in 1..n |-> <<Items(dict[w].keys)[j],
                                                   SearchDict(dict[w], Items(dict[w].keys)[j])>>]
      BY <3>1, IterateDictFacts DEF Inv, Typed, Taken
    <3> HIDE DEF n
    <3>6. IterateDict(dict[w]) = [j \in 1..n |-> <<sent[w][j], First(w, sent[w][j])>>]
      BY <3>3, <3>4, <3>5
    <3> QED
      BY <3>3, <3>6 DEF n
  <2>2. ASSUME NEW w \in Workers, w \notin mixed, w \notin spoilt, pc[w] = "decoded"
        PROVE  token[w] = <<w, 0>>
    BY <2>2 DEF Inv, Undisturbed, Progress
  <2>3. ~up => \E w \in Workers : pc[w] = "value" /\ (w \in mixed \/ NoKey \in Range(buffer[w]))
    BY DEF Inv, Dies
  <2> QED
    BY <2>1, <2>2, <2>3 DEF UndisturbedParse
<1>2. Spec => []Inv
  BY Invariant
<1> QED
  BY <1>1, <1>2, PTL

(* No insert hides or changes an entry of the tree                         *)
(* (binary_search_tree.c): it stays as long as the request lives.          *)
THEOREM InsertsLeaveEntries == Spec => EntriesStay
<1> DEFINE Stay == \A w \in Workers : pc'[w] # "idle" =>
                     \A k \in Heads :
                       SearchDict(dict[w], k) # NoValue =>
                         SearchDict(dict'[w], k) = SearchDict(dict[w], k)
<1>1. Inv /\ [Next]_vars => [Stay]_vars
  <2> SUFFICES ASSUME Inv, Next PROVE Stay
    BY DEF vars
  <2>1. PICK v \in Workers : Step(v)
    BY DEF Next, Step
  <2>2. Typed /\ Stages /\ Tables /\ Undisturbed
    BY DEF Inv
  <2> SUFFICES ASSUME NEW w \in Workers, pc'[w] # "idle", NEW k \in Heads,
                      SearchDict(dict[w], k) # NoValue
               PROVE  SearchDict(dict'[w], k) = SearchDict(dict[w], k)
    OBVIOUS
  <2>3. CASE w # v
    <3>1. dict'[w] = dict[w]
      BY <2>1, <2>2, <2>3, StepKeeps DEF Keeps
    <3> QED
      BY <3>1
  <2>4. CASE w = v /\ CutValue(w) /\ saved # <<>>
    <3>1. dict' = [dict EXCEPT ![w] = InsertDict(dict[w], key[w], Head(saved).own)]
      BY <2>4 DEF CutValue
    <3>2. dict'[w] = InsertDict(dict[w], key[w], Head(saved).own)
      <4>1. dict = [u \in Workers |-> dict[u]]
        BY <2>2 DEF Typed
      <4> QED
        BY <3>1, <4>1, Assigned
    <3>3. IsDict(dict[w]) /\ key[w] \in Heads /\ Head(saved).own \in Owners
      <4>1. Head(saved) \in Pieces
        BY <2>2, <2>4, TailOfText DEF Typed
      <4> QED
        BY <2>2, <4>1 DEF Typed, Pieces
    <3>4. ASSUME NEW d, IsDict(d), NEW q \in Heads, NEW o \in Owners,
                 NEW e, e = InsertDict(d, q, o),
                 SearchDict(d, k) # NoValue
          PROVE  SearchDict(e, k) = SearchDict(d, k)
      BY <3>4, InsertDictFacts
    <3> QED
      BY <3>2, <3>3, <3>4
  <2>5. CASE w = v /\ ~(CutValue(w) /\ saved # <<>>)
    <3>1. dict'[w] = dict[w]
      <4>1. CASE Begin(w)
        BY <2>2, <4>1, BeginFacts DEF BeginsWith
      <4>2. CASE Answer(w)
        <5>1. pc'[w] = "idle"
          BY <2>2, <4>2 DEF Answer, Goto, Typed
        <5> QED
          BY <5>1
      <4>3. CASE ~Begin(w) /\ ~Answer(w)
        BY <2>1, <2>5, <4>3 DEF Step, Split, CutKey, CutValue, Parsed, CutType, CutToken, TestTable,
           BuildTable, FillTable, Decode, parsing
      <4> QED
        BY <4>1, <4>2, <4>3
    <3> QED
      BY <3>1
  <2> QED
    BY <2>3, <2>4, <2>5
<1>2. Spec => []Inv
  BY Invariant
<1> QED
  BY <1>1, <1>2, PTL DEF Spec, EntriesStay
=============================================================================
