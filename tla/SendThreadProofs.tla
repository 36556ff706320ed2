--------------------------- MODULE SendThreadProofs ---------------------------
(***************************************************************************)
(* Proofs about SendThread: type correctness, that no command is lost, that *)
(* no generator is left suspended, that death clears the queue; what kind   *)
(* of order compareTo is; and, if all nodes that sleep announce their       *)
(* wakeups, that the queue stays in order and no command is in it twice.    *)
(***************************************************************************)
EXTENDS SendThread, SequenceTheorems, WellFoundedInduction, NaturalsInduction, TLAPS

-----------------------------------------------------------------------------
(* Folds.  A property of a fold is shown for the first k elements, by a     *)
(* smallest k for which it would fail.                                      *)

LEMMA FirstExists ==
    ASSUME NEW I \in SUBSET Nat, I # {}
    PROVE  \E x \in I : \A y \in I : x <= y
PROOF
<1> DEFINE less == {p \in Nat \X Nat : p[1] < p[2]}
<1>1. IsWellFoundedOn(less, Nat)
  BY NatLessThanWellFounded DEF OpToRel
<1>2. PICK x \in I : \A y \in I : <<y, x>> \notin less
  <2> HIDE DEF less
  <2> QED
    BY <1>1, WFMin
<1>3. ASSUME NEW y \in I
      PROVE  x <= y
  <2>1. y \in Nat /\ x \in Nat /\ ~(y < x)
    BY <1>2
  <2> QED
    BY <2>1
<1> QED
  BY <1>3

LEMMA MinIsIn ==
    ASSUME NEW I \in SUBSET Nat, I # {}
    PROVE  Min(I) \in I
PROOF
  BY FirstExists DEF Min

\* A set of numbers up to k that contains k has k as its largest.
LEMMA MaxIs ==
    ASSUME NEW k \in Nat, NEW s \in SUBSET (1..k), k \in s
    PROVE  Max(s) = k
PROOF
<1>1. \A x \in s : x \in Nat /\ x <= k
  OBVIOUS
<1>2. \A x \in s : (\A y \in s : x >= y) => x = k
  BY <1>1
<1>3. \A y \in s : k >= y
  BY <1>1
<1> QED
  BY <1>2, <1>3 DEF Max

\* Any set of them has one.
LEMMA LargestExists ==
    ASSUME NEW n \in Nat, NEW s \in SUBSET (1..n), s # {}
    PROVE  Max(s) \in s
PROOF
<1> DEFINE below == {n - x : x \in s}
<1>1. below \in SUBSET Nat /\ below # {}
  <2>1. \A x \in s : n - x \in Nat
    OBVIOUS
  <2>2. PICK x \in s : TRUE
    OBVIOUS
  <2>3. n - x \in below
    OBVIOUS
  <2> QED
    BY <2>1, <2>3
<1>2. PICK d \in below : \A e \in below : d <= e
  <2> HIDE DEF below
  <2> QED
    BY <1>1, FirstExists
<1>3. PICK x \in s : d = n - x
  BY <1>2
<1>4. ASSUME NEW y \in s
      PROVE  x >= y
  <2>1. n - y \in below
    OBVIOUS
  <2>2. n - x <= n - y /\ x \in 1..n /\ y \in 1..n
    BY <1>2, <1>3, <2>1
  <2> QED
    BY <2>2
<1> QED
  BY <1>4 DEF Max

\* "it" holds the results of folding g over the numbers of a set.
IsFold(it, n, V, base, g) ==
    /\ it \in [SUBSET (1..n) -> V]
    /\ \A s \in SUBSET (1..n) :
        it[s] = IF s = {} THEN base ELSE g[<<it[s \ {Max(s)}], Max(s)>>]

LEMMA ExtendFold ==
    ASSUME NEW V, NEW n \in Nat, NEW base \in V, NEW g \in [V \X (1..n) -> V],
           NEW k \in 1..n, NEW h, IsFold(h, k - 1, V, base, g)
    PROVE  \E it : IsFold(it, k, V, base, g)
PROOF
<1> DEFINE it == [s \in SUBSET (1..k) |-> IF k \in s THEN g[<<h[s \ {k}], k>>] ELSE h[s]]
<1>1. \A s \in SUBSET (1..k) : s \ {k} \in SUBSET (1..(k - 1))
  OBVIOUS
<1>2. h \in [SUBSET (1..(k - 1)) -> V]
  BY DEF IsFold
<1>3. \A s \in SUBSET (1..k) : it[s \ {k}] = h[s \ {k}]
  BY <1>1
<1>4. \A s \in SUBSET (1..k) : h[s \ {k}] \in V
  BY <1>1, <1>2
<1>5. it \in [SUBSET (1..k) -> V]
  <2>1. ASSUME NEW s \in SUBSET (1..k)
        PROVE  (IF k \in s THEN g[<<h[s \ {k}], k>>] ELSE h[s]) \in V
    <3>1. CASE k \in s
      <4>1. <<h[s \ {k}], k>> \in V \X (1..n)
        BY <1>4
      <4> QED
        BY <4>1, <3>1
    <3>2. CASE k \notin s
      <4>1. s \ {k} = s
        BY <3>2
      <4> QED
        BY <4>1, <1>4, <3>2
    <3> QED
      BY <3>1, <3>2
  <2> QED
    BY <2>1
<1>6. ASSUME NEW s \in SUBSET (1..k)
      PROVE  it[s] = IF s = {} THEN base ELSE g[<<it[s \ {Max(s)}], Max(s)>>]
  <2>1. CASE k \in s
    <3>1. Max(s) = k /\ s # {}
      BY <2>1, MaxIs
    <3>2. it[s] = g[<<h[s \ {k}], k>>]
      BY <2>1
    <3> HIDE DEF it
    <3> QED
      BY <3>1, <3>2, <1>3
  <2>2. CASE k \notin s
    <3>1. s \in SUBSET (1..(k - 1)) /\ s \ {k} = s
      BY <2>2, <1>1
    <3>2. it[s] = h[s]
      BY <2>2
    <3>3. h[s] = IF s = {} THEN base ELSE g[<<h[s \ {Max(s)}], Max(s)>>]
      BY <3>1 DEF IsFold
    <3>4. s \ {Max(s)} \in SUBSET (1..k) /\ k \notin s \ {Max(s)}
      BY <2>2
    <3>5. it[s \ {Max(s)}] = h[s \ {Max(s)}]
      BY <3>4
    <3> HIDE DEF it
    <3> QED
      BY <3>2, <3>3, <3>5
  <2> QED
    BY <2>1, <2>2
<1> HIDE DEF it
<1> QED
  BY <1>5, <1>6 DEF IsFold

LEMMA FoldExists ==
    ASSUME NEW V, NEW n \in Nat, NEW base \in V, NEW g \in [V \X (1..n) -> V]
    PROVE  \E it : IsFold(it, n, V, base, g)
PROOF
<1> DEFINE bad == {k \in 0..n : ~\E it : IsFold(it, k, V, base, g)}
<1>1. SUFFICES bad = {}
  BY <1>1
<1>2. SUFFICES ASSUME bad # {} PROVE FALSE
  OBVIOUS
<1>3. PICK k \in bad : \A j \in bad : k <= j
  <2>1. bad \in SUBSET Nat
    OBVIOUS
  <2> HIDE DEF bad
  <2> QED
    BY <1>2, <2>1, FirstExists
<1>4. CASE k = 0
  <2> DEFINE it == [s \in SUBSET (1..0) |-> base]
  <2>1. \A s \in SUBSET (1..0) : s = {}
    OBVIOUS
  <2>2. IsFold(it, 0, V, base, g)
    BY <2>1 DEF IsFold
  <2> HIDE DEF it
  <2> QED
    BY <2>2, <1>4
<1>5. CASE k # 0
  <2>1. k \in 1..n /\ k - 1 \in 0..n /\ k - 1 \notin bad
    BY <1>3, <1>5
  <2>2. PICK h : IsFold(h, k - 1, V, base, g)
    BY <2>1
  <2>3. \E it : IsFold(it, k, V, base, g)
    BY <2>1, <2>2, ExtendFold
  <2> QED
    BY <2>3
<1> QED
  BY <1>4, <1>5

-----------------------------------------------------------------------------
(* The operators on the queue *)

LEMMA ConcatIs ==
    ASSUME NEW S, NEW q \in Seq(S), NEW r \in Seq(S)
    PROVE  q \o r \in Seq(S) /\ ToSet(q \o r) = ToSet(q) \cup ToSet(r)
PROOF
<1>1. Len(q) \in Nat /\ Len(r) \in Nat /\ DOMAIN q = 1..Len(q) /\ DOMAIN r = 1..Len(r)
  OBVIOUS
<1> DEFINE t == q \o r
<1>2. /\ t \in Seq(S) /\ Len(t) = Len(q) + Len(r)
      /\ \A i \in 1..Len(q) + Len(r) :
            t[i] = IF i <= Len(q) THEN q[i] ELSE r[i - Len(q)]
  BY ConcatProperties, Zenon
<1> HIDE DEF t
<1>3. DOMAIN t = 1..Len(q) + Len(r)
  BY <1>2
<1>4. ASSUME NEW i \in DOMAIN t
      PROVE  t[i] \in ToSet(q) \cup ToSet(r)
  <2>1. CASE i <= Len(q)
    BY <1>1, <1>2, <1>3, <2>1 DEF ToSet
  <2>2. CASE ~(i <= Len(q))
    <3>1. i - Len(q) \in DOMAIN r /\ t[i] = r[i - Len(q)]
      BY <1>1, <1>2, <1>3, <2>2
    <3> QED
      BY <3>1 DEF ToSet
  <2> QED
    BY <2>1, <2>2
<1>5. ASSUME NEW i \in DOMAIN q
      PROVE  i \in DOMAIN t /\ t[i] = q[i]
  BY <1>1, <1>2, <1>3
<1>6. ASSUME NEW i \in DOMAIN r
      PROVE  i + Len(q) \in DOMAIN t /\ t[i + Len(q)] = r[i]
  <2>1. i + Len(q) \in 1..Len(q) + Len(r) /\ ~(i + Len(q) <= Len(q))
        /\ (i + Len(q)) - Len(q) = i
    BY <1>1
  <2> QED
    BY <1>2, <1>3, <2>1
<1>7. ToSet(t) \subseteq ToSet(q) \cup ToSet(r)
  BY <1>4 DEF ToSet
<1>8. ToSet(q) \subseteq ToSet(t)
  BY <1>5 DEF ToSet
<1>9. ToSet(r) \subseteq ToSet(t)
  BY <1>6 DEF ToSet
<1> QED
  BY <1>2, <1>7, <1>8, <1>9 DEF t

LEMMA SingleIs ==
    ASSUME NEW S, NEW e \in S
    PROVE  <<e>> \in Seq(S) /\ ToSet(<<e>>) = {e}
PROOF
<1>1. <<e>> \in Seq(S) /\ DOMAIN <<e>> = {1} /\ <<e>>[1] = e
  OBVIOUS
<1> QED
  BY <1>1 DEF ToSet

LEMMA EmptyIs ==
    ASSUME NEW S
    PROVE  <<>> \in Seq(S) /\ ToSet(<<>>) = {}
PROOF
<1>1. <<>> \in Seq(S) /\ DOMAIN <<>> = {}
  OBVIOUS
<1> QED
  BY <1>1 DEF ToSet

LEMMA AppendIs ==
    ASSUME NEW S, NEW q \in Seq(S), NEW e \in S
    PROVE  Append(q, e) \in Seq(S) /\ ToSet(Append(q, e)) = ToSet(q) \cup {e}
PROOF
<1>1. \A j \in DOMAIN q : j \in DOMAIN Append(q, e) /\ Append(q, e)[j] = q[j]
  OBVIOUS
<1>2. Len(q) + 1 \in DOMAIN Append(q, e) /\ Append(q, e)[Len(q) + 1] = e
  OBVIOUS
<1>3. \A j \in DOMAIN Append(q, e) : Append(q, e)[j] = IF j \in DOMAIN q THEN q[j] ELSE e
  OBVIOUS
<1> QED
  BY <1>1, <1>2, <1>3 DEF ToSet

LEMMA InsertAtIs ==
    ASSUME NEW S, NEW q \in Seq(S), NEW e \in S, NEW i \in 1..Len(q)
    PROVE  InsertAt(q, i, e) \in Seq(S) /\ ToSet(InsertAt(q, i, e)) = ToSet(q) \cup {e}
PROOF
<1> DEFINE front == SubSeq(q, 1, i - 1)
           back == SubSeq(q, i, Len(q))
<1>1. Len(q) \in Nat /\ i \in Nat /\ 1 <= i /\ i <= Len(q) /\ DOMAIN q = 1..Len(q)
  OBVIOUS
<1>2. /\ front \in Seq(S) /\ DOMAIN front = 1..i - 1
      /\ \A j \in 1..i - 1 : front[j] = q[j]
  BY <1>1, SubSeqProperties
<1>3. /\ back \in Seq(S) /\ DOMAIN back = 1..Len(q) - i + 1
      /\ \A j \in 1..Len(q) - i + 1 : back[j] = q[j + i - 1]
  BY <1>1, SubSeqProperties
<1>4. InsertAt(q, i, e) = (front \o <<e>>) \o back
  BY DEF InsertAt
<1> HIDE DEF front, back
<1>5. ToSet(front) \cup ToSet(back) = ToSet(q)
  <2>1. ASSUME NEW j \in DOMAIN q
        PROVE  q[j] \in ToSet(front) \cup ToSet(back)
    <3>1. CASE j < i
      BY <1>1, <1>2, <3>1 DEF ToSet
    <3>2. CASE ~(j < i)
      <4>1. j - i + 1 \in 1..Len(q) - i + 1 /\ (j - i + 1) + i - 1 = j
        BY <1>1, <3>2
      <4>2. j - i + 1 \in DOMAIN back /\ back[j - i + 1] = q[j]
        BY <1>3, <4>1
      <4> QED
        BY <4>2 DEF ToSet
    <3> QED
      BY <3>1, <3>2
  <2>2. \A j \in DOMAIN front : front[j] \in ToSet(q)
    BY <1>1, <1>2 DEF ToSet
  <2>3. \A j \in DOMAIN back : j + i - 1 \in DOMAIN q /\ back[j] = q[j + i - 1]
    <3>1. \A j \in 1..Len(q) - i + 1 : j + i - 1 \in 1..Len(q)
      BY <1>1
    <3> QED
      BY <1>1, <1>3, <3>1
  <2>4. \A j \in DOMAIN back : back[j] \in ToSet(q)
    BY <2>3 DEF ToSet
  <2>5. ToSet(front) \subseteq ToSet(q)
    BY <2>2 DEF ToSet
  <2>6. ToSet(back) \subseteq ToSet(q)
    BY <2>4 DEF ToSet
  <2>7. ToSet(q) \subseteq ToSet(front) \cup ToSet(back)
    <3> DEFINE both == ToSet(front) \cup ToSet(back)
    <3>1. \A j \in DOMAIN q : q[j] \in both
      BY <2>1
    <3> HIDE DEF both
    <3>2. ToSet(q) \subseteq both
      BY <3>1 DEF ToSet
    <3> QED
      BY <3>2 DEF both
  <2> QED
    BY <2>5, <2>6, <2>7
<1> DEFINE one == <<e>>
           start == front \o one
<1>6. one \in Seq(S) /\ ToSet(one) = {e}
  BY SingleIs
<1>7. InsertAt(q, i, e) = start \o back
  BY <1>4
<1> HIDE DEF one
<1>8. start \in Seq(S) /\ ToSet(start) = ToSet(front) \cup {e}
  BY <1>2, <1>6, ConcatIs
<1> HIDE DEF start
<1>9. start \o back \in Seq(S) /\ ToSet(start \o back) = ToSet(start) \cup ToSet(back)
  BY <1>3, <1>8, ConcatIs
<1>10. ToSet(start) \cup ToSet(back) = ToSet(q) \cup {e}
  BY <1>5, <1>8
<1> QED
  BY <1>7, <1>9, <1>10

\* Insert puts one entry into the queue and takes none out.
LEMMA InsertIs ==
    ASSUME NEW s, NEW q \in Seq(Entry), NEW e \in Entry
    PROVE  Insert(s, q, e) \in Seq(Entry) /\ ToSet(Insert(s, q, e)) = ToSet(q) \cup {e}
PROOF
<1> DEFINE I == {i \in 1..Len(q) : SortsBefore(s, e, q[i])}
           i == SelectInSeq(q, LAMBDA f : SortsBefore(s, e, f))
<1>1. i = IF I # {} THEN Min(I) ELSE 0
  BY DEF SelectInSeq
<1>2. I \in SUBSET Nat /\ I \subseteq 1..Len(q)
  OBVIOUS
<1>3. Insert(s, q, e) = IF i = 0 THEN Append(q, e) ELSE InsertAt(q, i, e)
  BY DEF Insert
<1> HIDE DEF I, i
<1>4. i = 0 \/ i \in 1..Len(q)
  BY <1>1, <1>2, MinIsIn
<1> QED
  BY <1>3, <1>4, InsertAtIs, AppendIs

\* What holds at the start and is passed on by each step holds at the end.
LEMMA StagesHold ==
    ASSUME NEW n \in Nat, NEW h, NEW V, h[0] \in V[0],
           \A k \in 1..n : h[k - 1] \in V[k - 1] => h[k] \in V[k]
    PROVE  h[n] \in V[n]
PROOF
<1> DEFINE bad == {k \in 0..n : h[k] \notin V[k]}
<1>1. SUFFICES ASSUME n \in bad PROVE FALSE
  OBVIOUS
<1>2. PICK k \in bad : \A j \in bad : k <= j
  <2>1. bad \in SUBSET Nat
    OBVIOUS
  <2> HIDE DEF bad
  <2> QED
    BY <1>1, <2>1, FirstExists
<1>3. k \in 1..n /\ k - 1 \in 0..n
  OBVIOUS
<1>4. k - 1 \notin bad
  <2> HIDE DEF bad
  <2> QED
    BY <1>2, <1>3
<1> QED
  BY <1>3, <1>4

\* InsertAll inserts one entry after the other.
Insertions(h, s, q, es) ==
    /\ h[0] = q /\ h[Len(es)] = InsertAll(s, q, es)
    /\ \A k \in 1..Len(es) : h[k] = Insert(s, h[k - 1], es[k])

LEMMA InsertAllStages ==
    ASSUME NEW s, NEW q \in Seq(Entry), NEW es \in Seq(Entry)
    PROVE  \E h : Insertions(h, s, q, es)
PROOF
<1> DEFINE n == Len(es)
           g == [p \in Seq(Entry) \X (1..n) |-> Insert(s, p[1], es[p[2]])]
           fold(it) == [x \in SUBSET DOMAIN es |->
                            IF x = {} THEN q ELSE Insert(s, it[x \ {Max(x)}], es[Max(x)])]
           iter == CHOOSE it : it = fold(it)
<1>1. n \in Nat /\ DOMAIN es = 1..n /\ \A i \in 1..n : es[i] \in Entry
  OBVIOUS
<1>2. g \in [Seq(Entry) \X (1..n) -> Seq(Entry)]
  BY <1>1, InsertIs
<1>3. \E it : it = fold(it)
  <2> HIDE DEF g, n
  <2>1. PICK it : IsFold(it, n, Seq(Entry), q, g)
    BY <1>1, <1>2, FoldExists
  <2>2. ASSUME NEW x \in SUBSET DOMAIN es
        PROVE  it[x] = IF x = {} THEN q ELSE Insert(s, it[x \ {Max(x)}], es[Max(x)])
    <3>1. it[x] = IF x = {} THEN q ELSE g[<<it[x \ {Max(x)}], Max(x)>>]
      BY <1>1, <2>1 DEF IsFold
    <3>2. CASE x # {}
      <4>1. Max(x) \in 1..n /\ it[x \ {Max(x)}] \in Seq(Entry)
        BY <1>1, <2>1, <3>2, LargestExists DEF IsFold
      <4>2. <<it[x \ {Max(x)}], Max(x)>> \in Seq(Entry) \X (1..n)
        BY <4>1
      <4>3. g[<<it[x \ {Max(x)}], Max(x)>>] = Insert(s, it[x \ {Max(x)}], es[Max(x)])
        BY <4>2 DEF g
      <4> QED
        BY <3>1, <3>2, <4>3
    <3> QED
      BY <3>1, <3>2
  <2>3. it = [x \in SUBSET DOMAIN es |-> it[x]]
    BY <1>1, <2>1 DEF IsFold
  <2>4. it = fold(it)
    BY <2>2, <2>3
  <2> QED
    BY <2>4
<1>4. iter = fold(iter)
  <2> HIDE DEF fold
  <2> QED
    BY <1>3
<1>5. InsertAll(s, q, es) = iter[DOMAIN es]
  BY Zenon DEF InsertAll, FoldLeft, MapThenFoldSet
<1> DEFINE h == [k \in 0..n |-> iter[1..k]]
<1>6. h[0] = q
  <2>1. 1..0 = {}
    OBVIOUS
  <2>2. iter[{}] = q
    BY <1>4
  <2> HIDE DEF iter
  <2> QED
    BY <2>1, <2>2, <1>1
<1>7. ASSUME NEW k \in 1..n
      PROVE  h[k] = Insert(s, h[k - 1], es[k])
  <2>1. 1..k \in SUBSET DOMAIN es /\ 1..k # {} /\ (1..k) \ {k} = 1..(k - 1) /\ k \in 0..n
        /\ k - 1 \in 0..n
    BY <1>1
  <2>2. Max(1..k) = k
    BY <1>1, MaxIs
  <2>3. iter[1..k] = Insert(s, iter[(1..k) \ {Max(1..k)}], es[Max(1..k)])
    <3> HIDE DEF iter
    <3> QED
      BY <1>4, <2>1
  <2> HIDE DEF iter
  <2> QED
    BY <2>1, <2>2, <2>3
<1>10. InsertAll(s, q, es) = h[n]
  <2>1. n \in 0..n
    BY <1>1
  <2> HIDE DEF iter
  <2> QED
    BY <1>1, <1>5, <2>1
<1> WITNESS h
<1> HIDE DEF h
<1> QED
  BY <1>6, <1>7, <1>10 DEF Insertions

LEMMA InsertAllIs ==
    ASSUME NEW s, NEW q \in Seq(Entry), NEW es \in Seq(Entry)
    PROVE  /\ InsertAll(s, q, es) \in Seq(Entry)
           /\ ToSet(InsertAll(s, q, es)) = ToSet(q) \cup ToSet(es)
PROOF
<1> DEFINE n == Len(es)
           V == [k \in 0..n |->
                    {r \in Seq(Entry) : ToSet(r) = ToSet(q) \cup {es[i] : i \in 1..k}}]
<1>1. PICK h : Insertions(h, s, q, es)
  BY InsertAllStages
<1>2. n \in Nat /\ 0 \in 0..n /\ n \in 0..n /\ DOMAIN es = 1..n /\ \A i \in 1..n : es[i] \in Entry
  OBVIOUS
<1>3. h[0] \in V[0]
  <2>1. h[0] = q /\ 1..0 = {}
    BY <1>1 DEF Insertions
  <2> QED
    BY <1>2, <2>1
<1>4. ASSUME NEW k \in 1..n, h[k - 1] \in V[k - 1]
      PROVE  h[k] \in V[k]
  <2>1. k \in 0..n /\ k - 1 \in 0..n /\ 1..k = (1..(k - 1)) \cup {k}
    OBVIOUS
  <2>2. h[k - 1] \in Seq(Entry) /\ ToSet(h[k - 1]) = ToSet(q) \cup {es[i] : i \in 1..(k - 1)}
    BY <1>4, <2>1
  <2>3. h[k] = Insert(s, h[k - 1], es[k]) /\ h[k - 1] \in Seq(Entry) /\ es[k] \in Entry
    BY <1>1, <1>2, <2>2 DEF Insertions
  <2>4. h[k] \in Seq(Entry) /\ ToSet(h[k]) = ToSet(h[k - 1]) \cup {es[k]}
    <3> HIDE DEF n, V
    <3> QED
      BY <2>3, InsertIs
  <2>5. {es[i] : i \in 1..k} = {es[i] : i \in 1..(k - 1)} \cup {es[k]}
    BY <2>1
  <2>6. ToSet(h[k]) = ToSet(q) \cup {es[i] : i \in 1..k}
    BY <2>2, <2>4, <2>5
  <2> QED
    BY <2>1, <2>4, <2>6
<1>5. h[n] \in V[n]
  <2> HIDE DEF n, V
  <2> QED
    BY <1>2, <1>3, <1>4, StagesHold
<1>6. ToSet(es) = {es[i] : i \in 1..n}
  BY <1>2 DEF ToSet
<1>7. h[n] = InsertAll(s, q, es)
  BY <1>1 DEF Insertions
<1> QED
  BY <1>2, <1>5, <1>6, <1>7

\* Selected appends what is chosen.
LEMMA SelectedStages ==
    ASSUME NEW q \in Seq(Entry), NEW chosen
    PROVE  \E h : /\ h[0] = <<>> /\ h[Len(q)] = Selected(q, chosen)
                  /\ \A k \in 1..Len(q) :
                        h[k] = IF q[k] \in chosen THEN Append(h[k - 1], q[k]) ELSE h[k - 1]
PROOF
<1> DEFINE n == Len(q)
           step(r, e) == IF e \in chosen THEN Append(r, e) ELSE r
           g == [p \in Seq(Entry) \X (1..n) |-> step(p[1], q[p[2]])]
           fold(it) == [x \in SUBSET DOMAIN q |->
                            IF x = {} THEN <<>> ELSE step(it[x \ {Max(x)}], q[Max(x)])]
           iter == CHOOSE it : it = fold(it)
<1>1. n \in Nat /\ DOMAIN q = 1..n /\ \A i \in 1..n : q[i] \in Entry
  OBVIOUS
<1>2. ASSUME NEW r \in Seq(Entry), NEW e \in Entry
      PROVE  /\ step(r, e) \in Seq(Entry)
             /\ ToSet(step(r, e)) = ToSet(r) \cup ({e} \cap chosen)
  BY AppendIs
<1>3. g \in [Seq(Entry) \X (1..n) -> Seq(Entry)]
  <2> HIDE DEF step
  <2> QED
    BY <1>1, <1>2
<1>4. \E it : it = fold(it)
  <2> HIDE DEF g, n, step
  <2>1. PICK it : IsFold(it, n, Seq(Entry), <<>>, g)
    <3>1. <<>> \in Seq(Entry)
      BY EmptyIs
    <3> QED
      BY <1>1, <1>3, <3>1, FoldExists
  <2>2. ASSUME NEW x \in SUBSET DOMAIN q
        PROVE  it[x] = IF x = {} THEN <<>> ELSE step(it[x \ {Max(x)}], q[Max(x)])
    <3>1. it[x] = IF x = {} THEN <<>> ELSE g[<<it[x \ {Max(x)}], Max(x)>>]
      BY <1>1, <2>1 DEF IsFold
    <3>2. CASE x # {}
      <4>1. Max(x) \in 1..n /\ it[x \ {Max(x)}] \in Seq(Entry)
        BY <1>1, <2>1, <3>2, LargestExists DEF IsFold
      <4>2. <<it[x \ {Max(x)}], Max(x)>> \in Seq(Entry) \X (1..n)
        BY <4>1
      <4>3. g[<<it[x \ {Max(x)}], Max(x)>>] = step(it[x \ {Max(x)}], q[Max(x)])
        BY <4>2 DEF g
      <4> QED
        BY <3>1, <3>2, <4>3
    <3> QED
      BY <3>1, <3>2
  <2>3. it = [x \in SUBSET DOMAIN q |-> it[x]]
    BY <1>1, <2>1 DEF IsFold
  <2>4. it = fold(it)
    BY <2>2, <2>3
  <2> QED
    BY <2>4
<1>5. iter = fold(iter)
  <2> HIDE DEF fold
  <2> QED
    BY <1>4
<1>6. Selected(q, chosen) = iter[DOMAIN q]
  BY Zenon DEF Selected, FoldLeft, MapThenFoldSet
<1> DEFINE h == [k \in 0..n |-> iter[1..k]]
<1>7. h[0] = <<>>
  <2>1. 1..0 = {}
    OBVIOUS
  <2>2. iter[{}] = <<>>
    BY <1>5
  <2> HIDE DEF iter
  <2> QED
    BY <2>1, <2>2, <1>1
<1>8. ASSUME NEW k \in 1..n
      PROVE  h[k] = step(h[k - 1], q[k])
  <2>1. 1..k \in SUBSET DOMAIN q /\ 1..k # {} /\ (1..k) \ {k} = 1..(k - 1) /\ k \in 0..n
        /\ k - 1 \in 0..n
    <3> HIDE DEF n
    <3>1. 1..k \in SUBSET (1..n) /\ k \in 1..k /\ k \in 0..n /\ k - 1 \in 0..n
      BY <1>1
    <3>2. (1..k) \ {k} = 1..(k - 1)
      BY <1>1
    <3> QED
      BY <1>1, <3>1, <3>2
  <2>2. Max(1..k) = k
    BY <1>1, MaxIs
  <2>3. iter[1..k] = step(iter[(1..k) \ {Max(1..k)}], q[Max(1..k)])
    <3> HIDE DEF iter, step
    <3> QED
      BY <1>5, <2>1
  <2> HIDE DEF iter, step
  <2> QED
    BY <2>1, <2>2, <2>3
<1>11. Selected(q, chosen) = h[n]
  <2>1. n \in 0..n
    BY <1>1
  <2> HIDE DEF iter
  <2> QED
    BY <1>1, <1>6, <2>1
<1> WITNESS h
<1> HIDE DEF h
<1> QED
  BY <1>7, <1>8, <1>11

LEMMA SelectedIs ==
    ASSUME NEW q \in Seq(Entry), NEW chosen
    PROVE  /\ Selected(q, chosen) \in Seq(Entry)
           /\ ToSet(Selected(q, chosen)) = ToSet(q) \cap chosen
PROOF
<1> DEFINE n == Len(q)
           V == [k \in 0..n |->
                    {r \in Seq(Entry) : ToSet(r) = {q[i] : i \in 1..k} \cap chosen}]
<1>1. PICK h : /\ h[0] = <<>> /\ h[n] = Selected(q, chosen)
               /\ \A k \in 1..n :
                    h[k] = IF q[k] \in chosen THEN Append(h[k - 1], q[k]) ELSE h[k - 1]
  BY SelectedStages
<1>2. n \in Nat /\ 0 \in 0..n /\ n \in 0..n /\ DOMAIN q = 1..n /\ \A i \in 1..n : q[i] \in Entry
  OBVIOUS
<1>3. h[0] \in V[0]
  <2>1. h[0] \in Seq(Entry) /\ ToSet(h[0]) = {}
    BY <1>1, EmptyIs
  <2> QED
    BY <1>2, <2>1
<1>4. ASSUME NEW k \in 1..n, h[k - 1] \in V[k - 1]
      PROVE  h[k] \in V[k]
  <2>1. k \in 0..n /\ k - 1 \in 0..n /\ 1..k = (1..(k - 1)) \cup {k}
    OBVIOUS
  <2>2. h[k - 1] \in Seq(Entry) /\ ToSet(h[k - 1]) = {q[i] : i \in 1..(k - 1)} \cap chosen
    BY <1>4, <2>1
  <2>3. h[k] \in Seq(Entry) /\ ToSet(h[k]) = ToSet(h[k - 1]) \cup ({q[k]} \cap chosen)
    <3>1. CASE q[k] \in chosen
      <4>1. h[k] = Append(h[k - 1], q[k]) /\ q[k] \in Entry
        BY <1>1, <1>2, <3>1
      <4> QED
        BY <2>2, <3>1, <4>1, AppendIs
    <3>2. CASE q[k] \notin chosen
      BY <1>1, <2>2, <3>2
    <3> QED
      BY <3>1, <3>2
  <2>4. {q[i] : i \in 1..k} = {q[i] : i \in 1..(k - 1)} \cup {q[k]}
    BY <2>1
  <2>5. ToSet(h[k]) = {q[i] : i \in 1..k} \cap chosen
    BY <2>2, <2>3, <2>4
  <2> QED
    BY <2>1, <2>3, <2>5
<1>5. h[n] \in V[n]
  <2> HIDE DEF n, V
  <2> QED
    BY <1>2, <1>3, <1>4, StagesHold
<1>6. ToSet(q) = {q[i] : i \in 1..n}
  BY <1>2 DEF ToSet
<1> QED
  BY <1>1, <1>2, <1>5, <1>6

-----------------------------------------------------------------------------
(* reduceQueue *)

Commands(q) == {e.command : e \in ToSet(q)}

\* What is kept or queued again, whatever the priority it gets.
Stays(what) == what \in {"keep", "requeue", "requeue reset"}
Requeued(what) == what \in {"requeue", "requeue reset"}

LEMMA RequeuedEntryIs ==
    ASSUME NEW e \in Entry, NEW isReset
    PROVE  RequeuedEntry(e, isReset) \in Entry /\ RequeuedEntry(e, isReset).command = e.command
PROOF
  BY DEF RequeuedEntry, Entry, Priority

LEMMA MembersAre ==
    ASSUME NEW S, NEW q \in Seq(S)
    PROVE  ToSet(q) \subseteq S
PROOF
  BY DEF ToSet

LEMMA ElementIs ==
    ASSUME NEW S, NEW q \in Seq(S), NEW i \in DOMAIN q
    PROVE  q[i] \in S
PROOF
  OBVIOUS

LEMMA NothingIsNoEntry == Nothing \notin Entry
PROOF
  BY SendThreadAssumption DEF Nothing, Entry

\* Replacing each entry by one for the same command.
LEMMA MappedIs ==
    ASSUME NEW q \in Seq(Entry), NEW r, DOMAIN r = DOMAIN q, r = [i \in DOMAIN q |-> r[i]],
           \A i \in DOMAIN q : r[i] \in Entry /\ r[i].command = q[i].command
    PROVE  r \in Seq(Entry) /\ Commands(r) = Commands(q)
PROOF
<1>1. DOMAIN q = 1..Len(q) /\ Len(q) \in Nat
  OBVIOUS
<1>2. r \in Seq(Entry)
  BY <1>1
<1>3. Commands(r) = {r[i].command : i \in DOMAIN q}
  BY DEF Commands, ToSet
<1>4. Commands(q) = {q[i].command : i \in DOMAIN q}
  BY DEF Commands, ToSet
<1> QED
  BY <1>2, <1>3, <1>4

LEMMA ReducedIs ==
    ASSUME NEW kind, NEW s, NEW q \in Seq(Entry), NEW current \in Entry \cup {Nothing}
    PROVE  /\ ReducedQueue(kind, s, q, current) \in Seq(Entry)
           /\ Commands(ReducedQueue(kind, s, q, current)) =
                {e.command : e \in {f \in ToSet(q) : Stays(kind.queue[f])}}
                \cup {e.command : e \in {f \in {current} \ {Nothing} : Requeued(kind.active[f])}}
PROOF
<1> DEFINE waiting == {e \in ToSet(q) : kind.queue[e] \in {"requeue", "requeue reset"}}
           running == {e \in {current} \ {Nothing} :
                            kind.active[e] \in {"requeue", "requeue reset"}}
           reset == {e \in waiting : kind.queue[e] = "requeue reset"}
                    \cup {e \in running : kind.active[e] = "requeue reset"}
           last == IF running = {} THEN <<>> ELSE <<current>>
           first == Selected(q, waiting)
           requeued == first \o last
           kept == Selected(q, {e \in ToSet(q) : kind.queue[e] = "keep"})
           added == [i \in DOMAIN requeued |-> RequeuedEntry(requeued[i], requeued[i] \in reset)]
<1>1. ReducedQueue(kind, s, q, current) = InsertAll(s, kept, added)
  BY Zenon DEF ReducedQueue
<1>2. last \in Seq(Entry) /\ ToSet(last) = running
  <2>1. CASE running = {}
    <3>1. last = <<>>
      BY <2>1
    <3> HIDE DEF last, running
    <3> QED
      BY <2>1, <3>1, EmptyIs
  <2>2. CASE running # {}
    <3>1. running = {current} /\ current \in Entry
      BY <2>2
    <3> HIDE DEF running
    <3> QED
      BY <2>2, <3>1, SingleIs
  <2> QED
    BY <2>1, <2>2
<1>3. first \in Seq(Entry) /\ ToSet(first) = waiting
  BY SelectedIs
<1>4. kept \in Seq(Entry) /\ ToSet(kept) = {e \in ToSet(q) : kind.queue[e] = "keep"}
  BY SelectedIs
<1> HIDE DEF last, first, kept, reset
<1>5. requeued \in Seq(Entry) /\ ToSet(requeued) = waiting \cup running
  <2> HIDE DEF waiting, running
  <2>1. requeued \in Seq(Entry) /\ ToSet(requeued) = ToSet(first) \cup ToSet(last)
    BY <1>2, <1>3, ConcatIs, Zenon
  <2> QED
    BY <1>2, <1>3, <2>1
<1> HIDE DEF requeued
<1>6. added \in Seq(Entry) /\ Commands(added) = Commands(requeued)
  <2>1. \A i \in DOMAIN requeued : requeued[i] \in Entry
    BY <1>5, ElementIs, Zenon
  <2>2. \A i \in DOMAIN requeued : added[i] \in Entry /\ added[i].command = requeued[i].command
    BY <2>1, RequeuedEntryIs
  <2>3. DOMAIN added = DOMAIN requeued /\ added = [i \in DOMAIN requeued |-> added[i]]
    OBVIOUS
  <2> HIDE DEF added
  <2> QED
    BY <1>5, <2>2, <2>3, MappedIs
<1> DEFINE result == InsertAll(s, kept, added)
<1>7. result \in Seq(Entry) /\ ToSet(result) = ToSet(kept) \cup ToSet(added)
  <2> HIDE DEF added
  <2> QED
    BY <1>4, <1>6, InsertAllIs
<1> HIDE DEF result, added
<1>8. Commands(result) = Commands(kept) \cup Commands(requeued)
  BY <1>6, <1>7 DEF Commands
<1>9. Commands(kept) = {e.command : e \in {f \in ToSet(q) : kind.queue[f] = "keep"}}
  BY <1>4 DEF Commands
<1>10. Commands(requeued) = {e.command : e \in waiting} \cup {e.command : e \in running}
  BY <1>5 DEF Commands
<1>11. {e.command : e \in {f \in ToSet(q) : Stays(kind.queue[f])}}
        = {e.command : e \in {f \in ToSet(q) : kind.queue[f] = "keep"}}
          \cup {e.command : e \in waiting}
  BY DEF Stays
<1>12. running = {f \in {current} \ {Nothing} : Requeued(kind.active[f])}
  BY DEF Requeued
<1> HIDE DEF waiting, running
<1> QED
  BY <1>1, <1>7, <1>8, <1>9, <1>10, <1>11, <1>12 DEF result

\* The same, for each entry.
LEMMA ReducedHas ==
    ASSUME NEW kind, NEW s, NEW q \in Seq(Entry), NEW current \in Entry \cup {Nothing}
    PROVE  LET reduced == ReducedQueue(kind, s, q, current) IN
           /\ reduced \in Seq(Entry)
           /\ \A e \in ToSet(q) : Stays(kind.queue[e]) => e.command \in Commands(reduced)
           /\ \A e \in {current} \ {Nothing} :
                Requeued(kind.active[e]) => e.command \in Commands(reduced)
           /\ \A c \in Commands(reduced) :
                \/ \E e \in ToSet(q) : e.command = c /\ Stays(kind.queue[e])
                \/ \E e \in {current} \ {Nothing} : e.command = c /\ Requeued(kind.active[e])
PROOF
<1> DEFINE reduced == ReducedQueue(kind, s, q, current)
           stay == {f \in ToSet(q) : Stays(kind.queue[f])}
           again == {f \in {current} \ {Nothing} : Requeued(kind.active[f])}
<1>1. /\ reduced \in Seq(Entry)
      /\ Commands(reduced) = {e.command : e \in stay} \cup {e.command : e \in again}
  BY ReducedIs
<1> HIDE DEF reduced
<1>2. /\ \A e \in ToSet(q) : Stays(kind.queue[e]) <=> e \in stay
      /\ \A e \in {current} \ {Nothing} : Requeued(kind.active[e]) <=> e \in again
      /\ stay \subseteq ToSet(q) /\ again \subseteq {current} \ {Nothing}
  BY Zenon
<1> HIDE DEF stay, again
<1>3. \A e \in stay \cup again : e.command \in Commands(reduced)
  BY <1>1
<1>4. \A c \in Commands(reduced) : \E e \in stay \cup again : e.command = c
  BY <1>1
<1>5. /\ \A e \in ToSet(q) : Stays(kind.queue[e]) => e.command \in Commands(reduced)
      /\ \A e \in {current} \ {Nothing} :
            Requeued(kind.active[e]) => e.command \in Commands(reduced)
  BY <1>2, <1>3
<1>6. \A c \in Commands(reduced) :
        \/ \E e \in ToSet(q) : e.command = c /\ Stays(kind.queue[e])
        \/ \E e \in {current} \ {Nothing} : e.command = c /\ Requeued(kind.active[e])
  BY <1>2, <1>4
<1> QED
  BY <1>1, <1>5, <1>6 DEF reduced

-----------------------------------------------------------------------------
(* The inductive invariant *)

\* A generator exists only while its command is being sent.
GeneratorIsActive ==
    \A c \in Command : generator[c] =>
        active.command = c /\ pc \in {"sending", "awaitingUpdate"}

BeingSent(c) == active.command = c /\ (generator[c] \/ pc \in {"taken", "awaitingUpdate"})
InBatch(c, batches) == \E i \in DOMAIN batches : c \in Commands(batches[i])

\* OpenIsHeld, in terms of sets of commands.
Held ==
    \A c \in ToSet(created) :
        settled[c] = "open" =>
            \/ c \in Commands(queue)
            \/ InBatch(c, deferred) \/ c \in Commands(returning)
            \/ BeingSent(c)

IInv == TypeOK /\ GeneratorIsActive /\ Held

LEMMA CommandsAre ==
    ASSUME NEW S, NEW q \in Seq(S)
    PROVE  \A c : c \in Commands(q) <=> \E i \in DOMAIN q : q[i].command = c
PROOF
  BY DEF Commands, ToSet

LEMMA CommandsOf ==
    ASSUME NEW q \in Seq(Entry)
    PROVE  Commands(q) \subseteq Command
PROOF
<1>1. \A i \in DOMAIN q : q[i] \in Entry
  BY ElementIs, Zenon
<1> QED
  BY <1>1 DEF Commands, ToSet, Entry

LEMMA HeldIs ==
    ASSUME TypeOK
    PROVE  Held <=> OpenIsHeld
PROOF
<1>1. \A c : c \in Commands(queue) <=> \E i \in DOMAIN queue : queue[i].command = c
  BY CommandsAre DEF TypeOK
<1>2. ASSUME NEW i \in DOMAIN deferred
      PROVE  \A c : c \in Commands(deferred[i])
                <=> \E j \in DOMAIN deferred[i] : deferred[i][j].command = c
  <2>1. deferred \in Seq(Seq(Entry))
    BY DEF TypeOK
  <2>2. deferred[i] \in Seq(Entry)
    BY <2>1, ElementIs
  <2> QED
    BY <2>2, CommandsAre
<1>3. \A c : c \in Commands(returning) <=> \E i \in DOMAIN returning : returning[i].command = c
  BY CommandsAre DEF TypeOK
<1> QED
  BY <1>1, <1>2, <1>3 DEF Held, OpenIsHeld, InBatch, BeingSent

LEMMA CreatedAre ==
    ASSUME TypeOK
    PROVE  ToSet(created) \subseteq Command
PROOF
  BY MembersAre DEF TypeOK

LEMMA ActiveIs ==
    ASSUME TypeOK, pc # "idle"
    PROVE  active \in Entry /\ active # Nothing /\ active.command \in Command
PROOF
  BY DEF TypeOK, Entry

-----------------------------------------------------------------------------
(* Steps that settle commands or queue them again *)

Outcomes == {"open", "resolved"} \cup Rejection

\* No command leaves the queue or loses its generator unless it settles or is queued
\* again, or its generator waits for an answer.
Keeps ==
    /\ queue' \in Seq(Entry)
    /\ generator' \in [Command -> BOOLEAN]
    /\ settled' \in [Command -> Outcomes]
    /\ \A c \in Command : settled'[c] = "open" => settled[c] = "open"
    /\ \A c \in Commands(queue) :
            c \in Commands(queue') \/ settled'[c] # "open" \/ ~Abortable(c)
    /\ \A c \in Command : generator'[c] => generator[c]
    /\ \A c \in Command :
            generator[c] /\ ~generator'[c] => settled'[c] # "open" \/ c \in Commands(queue')

\* What is being sent goes on.
LEMMA GoesOn ==
    ASSUME TypeOK, GeneratorIsActive, Held, Keeps,
           active'.command = active.command,
           pc' = pc \/ (pc = "sending" /\ pc' = "awaitingUpdate"),
           created' = created, deferred' = deferred, returning' = returning
    PROVE  GeneratorIsActive' /\ Held'
PROOF
<1>1. GeneratorIsActive'
  BY DEF GeneratorIsActive, Keeps
<1>2. ASSUME NEW c \in ToSet(created), settled'[c] = "open"
      PROVE  \/ c \in Commands(queue') \/ BeingSent(c)'
             \/ InBatch(c, deferred) \/ c \in Commands(returning)
  <2>1. c \in Command /\ settled[c] = "open"
    BY <1>2, CreatedAre DEF Keeps
  <2>2. \/ c \in Commands(queue) \/ BeingSent(c)
        \/ InBatch(c, deferred) \/ c \in Commands(returning)
    BY <1>2, <2>1 DEF Held
  <2>3. CASE c \in Commands(queue)
    BY <1>2, <2>1, <2>3 DEF Keeps, Abortable, BeingSent
  <2>4. CASE BeingSent(c)
    BY <1>2, <2>1, <2>4 DEF Keeps, BeingSent
  <2> QED
    BY <2>2, <2>3, <2>4
<1> QED
  BY <1>1, <1>2 DEF Held

\* What is being sent ends.
LEMMA Ends ==
    ASSUME TypeOK, GeneratorIsActive, Held, Keeps, Idle, pc # "idle",
           created' = created, deferred' = deferred, returning' = returning,
           ~generator'[active.command],
           \/ settled'[active.command] # "open"
           \/ active.command \in Commands(queue')
           \/ (pc = "sending" /\ ~generator[active.command])
    PROVE  GeneratorIsActive' /\ Held'
PROOF
<1>1. GeneratorIsActive'
  BY DEF GeneratorIsActive, Keeps
<1>2. ASSUME NEW c \in ToSet(created), settled'[c] = "open"
      PROVE  c \in Commands(queue') \/ InBatch(c, deferred) \/ c \in Commands(returning)
  <2>1. c \in Command /\ settled[c] = "open"
    BY <1>2, CreatedAre DEF Keeps
  <2>2. \/ c \in Commands(queue) \/ BeingSent(c)
        \/ InBatch(c, deferred) \/ c \in Commands(returning)
    BY <1>2, <2>1 DEF Held
  <2>3. CASE c \in Commands(queue)
    BY <1>2, <2>1, <2>3 DEF Keeps, Abortable
  <2>4. CASE BeingSent(c)
    BY <1>2, <2>1, <2>4 DEF Keeps, BeingSent
  <2> QED
    BY <2>2, <2>3, <2>4
<1> QED
  BY <1>1, <1>2 DEF Held

LEMMA SettledIs ==
    ASSUME TypeOK, NEW commands, NEW how \in Outcomes \ {"open"}
    PROVE  /\ Settled(commands, how) \in [Command -> Outcomes]
           /\ \A c \in Command : Settled(commands, how)[c] = "open" =>
                settled[c] = "open" /\ c \notin commands
PROOF
  BY DEF TypeOK, Settled, Outcomes

LEMMA WithoutIs ==
    ASSUME TypeOK, NEW commands
    PROVE  /\ WithoutGenerator(commands) \in [Command -> BOOLEAN]
           /\ \A c \in Command : WithoutGenerator(commands)[c] <=> generator[c] /\ c \notin commands
PROOF
  BY DEF TypeOK, WithoutGenerator

LEMMA RejectKeeps ==
    ASSUME TypeOK, NEW c \in Command, NEW how \in Outcomes \ {"open"}, Reject(c, how),
           queue' = queue
    PROVE  Keeps /\ settled'[c] # "open" /\ ~generator'[c]
PROOF
<1>1. settled' = Settled({c}, how) /\ generator' = WithoutGenerator({c})
  BY DEF Reject
<1> QED
  BY <1>1, SettledIs, WithoutIs DEF Keeps, TypeOK

LEMMA WakeUpKeeps ==
    ASSUME TypeOK, NEW n, NEW resolved \in SUBSET Command, NEW completed,
           WakeUp(n, resolved, completed)
    PROVE  Keeps /\ \A c \in resolved : settled'[c] # "open" /\ ~generator'[c]
PROOF
<1> DEFINE kind == [queue |-> [e \in ToSet(queue) |-> WakeUpKind(n, e, FALSE)],
                    active |-> [e \in {active} \ {Nothing} |-> WakeUpKind(n, e, completed)]]
           pings == {c \in ReducedTo("resolve", kind, queue, active) : Abortable(c)}
           reduced == ReducedQueue(kind, [status EXCEPT ![n] = "Awake"], queue, active)
<1>1. /\ queue' = reduced
      /\ settled' = Settled(pings \cup resolved, "resolved")
      /\ generator' = WithoutGenerator(pings \cup resolved)
  BY DEF WakeUp
<1>2. queue \in Seq(Entry) /\ active \in Entry \cup {Nothing}
  BY DEF TypeOK
<1>3. /\ reduced \in Seq(Entry)
      /\ \A e \in ToSet(queue) : Stays(kind.queue[e]) => e.command \in Commands(reduced)
  <2> HIDE DEF kind
  <2> QED
    BY <1>2, ReducedHas, Zenon
<1>4. ASSUME NEW c \in Commands(queue)
      PROVE  c \in Commands(reduced) \/ c \in pings \/ ~Abortable(c)
  <2>1. PICK e \in ToSet(queue) : e.command = c
    BY DEF Commands
  <2>2. kind.queue[e] = WakeUpKind(n, e, FALSE)
    OBVIOUS
  <2>3. kind.queue[e] \in {"keep", "resolve", "requeue"}
    BY <2>2 DEF WakeUpKind
  <2> HIDE DEF kind
  <2>4. CASE kind.queue[e] = "resolve"
    <3>1. c \in ReducedTo("resolve", kind, queue, active)
      BY <2>1, <2>4 DEF ReducedTo
    <3> QED
      BY <3>1
  <2>5. CASE kind.queue[e] \in {"keep", "requeue"}
    BY <1>3, <2>1, <2>5 DEF Stays
  <2> QED
    BY <2>3, <2>4, <2>5
<1> HIDE DEF pings, reduced
<1>5. /\ settled' \in [Command -> Outcomes]
      /\ \A c \in Command : settled'[c] = "open" =>
            settled[c] = "open" /\ c \notin pings \cup resolved
  <2>1. "resolved" \in Outcomes \ {"open"}
    BY DEF Outcomes
  <2> QED
    BY <1>1, <2>1, SettledIs
<1>6. /\ generator' \in [Command -> BOOLEAN]
      /\ \A c \in Command : generator'[c] <=> generator[c] /\ c \notin pings \cup resolved
  BY <1>1, WithoutIs
<1>7. Commands(queue) \subseteq Command
  BY <1>2, CommandsOf
<1> QED
  BY <1>1, <1>3, <1>4, <1>5, <1>6, <1>7 DEF Keeps

LEMMA FallAsleepKeeps ==
    ASSUME TypeOK, NEW n, NEW q \in Seq(Entry), Commands(queue) \subseteq Commands(q),
           NEW current \in Entry \cup {Nothing}, NEW rejected \in SUBSET Command,
           FallAsleep(n, q, current, rejected)
    PROVE  /\ Keeps
           /\ \A c \in rejected : settled'[c] # "open" /\ ~generator'[c]
           /\ \A e \in ToSet(q) : NodeOfEntry(e) = n /\ MayMoveToWakeupQueue(e.command) =>
                    ~generator'[e.command] /\ e.command \in Commands(queue')
PROOF
<1> DEFINE s == [status EXCEPT ![n] = "Asleep"]
           kind == [queue |-> [e \in ToSet(q) |-> SleepKind(n, e)],
                    active |-> [e \in {current} \ {Nothing} |-> SleepKind(n, e)]]
           reset == ReducedTo("requeue reset", kind, q, current)
           dropped == {c \in ReducedTo("reject", kind, q, current) : Abortable(c)}
           reduced == ReducedQueue(kind, s, q, current)
<1>1. /\ queue' = reduced
      /\ generator' = WithoutGenerator(reset \cup dropped \cup rejected)
      /\ settled' = [c \in Command |->
            IF settled[c] # "open" THEN settled[c]
            ELSE IF c \in dropped THEN "asleep"
            ELSE IF c \in rejected THEN "no ACK"
            ELSE "open"]
  BY DEF FallAsleep
<1>2. /\ reduced \in Seq(Entry)
      /\ \A e \in ToSet(q) : Stays(kind.queue[e]) => e.command \in Commands(reduced)
      /\ \A e \in {current} \ {Nothing} :
            Requeued(kind.active[e]) => e.command \in Commands(reduced)
  <2> HIDE DEF kind
  <2> QED
    BY ReducedHas, Zenon
<1>3. ASSUME NEW c \in Commands(queue)
      PROVE  c \in Commands(reduced) \/ c \in dropped \/ ~Abortable(c)
  <2>1. PICK e \in ToSet(q) : e.command = c
    BY DEF Commands
  <2>2. kind.queue[e] \in {"keep", "reject", "requeue reset"}
    BY DEF SleepKind
  <2> HIDE DEF kind
  <2>3. CASE kind.queue[e] = "reject"
    <3>1. c \in ReducedTo("reject", kind, q, current)
      BY <2>1, <2>3 DEF ReducedTo
    <3> QED
      BY <3>1
  <2>4. CASE kind.queue[e] \in {"keep", "requeue reset"}
    BY <1>2, <2>1, <2>4 DEF Stays
  <2> QED
    BY <2>2, <2>3, <2>4
<1>4. ASSUME NEW c \in reset
      PROVE  c \in Commands(reduced)
  <2> HIDE DEF kind, reduced
  <2> QED
    BY <1>2 DEF ReducedTo, Stays, Requeued
<1>5. ASSUME NEW e \in ToSet(q), NodeOfEntry(e) = n, MayMoveToWakeupQueue(e.command)
      PROVE  e.command \in reset
  <2>1. kind.queue[e] = "requeue reset"
    BY <1>5 DEF SleepKind
  <2> HIDE DEF kind
  <2> QED
    BY <2>1 DEF ReducedTo
<1> HIDE DEF reduced, reset, dropped
<1>6. settled' \in [Command -> Outcomes]
  BY <1>1 DEF TypeOK, Outcomes, Rejection
<1>7. \A c \in Command : settled'[c] = "open" =>
        settled[c] = "open" /\ c \notin dropped \cup rejected
  BY <1>1
<1>8. /\ generator' \in [Command -> BOOLEAN]
      /\ \A c \in Command :
            generator'[c] <=> generator[c] /\ c \notin reset \cup dropped \cup rejected
  BY <1>1, WithoutIs
<1>9. Commands(queue) \subseteq Command
  BY CommandsOf DEF TypeOK
<1>10. Keeps
  BY <1>1, <1>2, <1>3, <1>4, <1>6, <1>7, <1>8, <1>9 DEF Keeps
<1>11. \A e \in ToSet(q) : e.command \in Command
  BY MembersAre DEF Entry
<1> QED
  BY <1>1, <1>4, <1>5, <1>7, <1>8, <1>10, <1>11

LEMMA ExpireKeeps ==
    ASSUME TypeOK, NEW c \in Command, Expire(c)
    PROVE  Keeps
PROOF
<1> DEFINE expired(e) == IF e.command = c THEN "reject" ELSE "keep"
           kind == [queue |-> [e \in ToSet(queue) |-> expired(e)],
                    active |-> [e \in {active} \ {Nothing} |-> expired(e)]]
           dropped == {d \in ReducedTo("reject", kind, queue, active) : Abortable(d)}
           reduced == ReducedQueue(kind, status, queue, active)
<1>1. /\ queue' = reduced
      /\ settled' = Settled(dropped, "expired")
      /\ generator' = WithoutGenerator(dropped)
  BY DEF Expire
<1>2. queue \in Seq(Entry) /\ active \in Entry \cup {Nothing}
  BY DEF TypeOK
<1>3. /\ reduced \in Seq(Entry)
      /\ \A e \in ToSet(queue) : Stays(kind.queue[e]) => e.command \in Commands(reduced)
  <2> HIDE DEF kind
  <2> QED
    BY <1>2, ReducedHas, Zenon
<1>4. ASSUME NEW d \in Commands(queue)
      PROVE  d \in Commands(reduced) \/ d \in dropped \/ ~Abortable(d)
  <2>1. PICK e \in ToSet(queue) : e.command = d
    BY DEF Commands
  <2>2. kind.queue[e] \in {"keep", "reject"}
    OBVIOUS
  <2> HIDE DEF kind
  <2>3. CASE kind.queue[e] = "reject"
    <3>1. d \in ReducedTo("reject", kind, queue, active)
      BY <2>1, <2>3 DEF ReducedTo
    <3> QED
      BY <3>1
  <2>4. CASE kind.queue[e] = "keep"
    BY <1>3, <2>1, <2>4 DEF Stays
  <2> QED
    BY <2>2, <2>3, <2>4
<1> HIDE DEF dropped, reduced
<1>5. /\ settled' \in [Command -> Outcomes]
      /\ \A d \in Command : settled'[d] = "open" => settled[d] = "open" /\ d \notin dropped
  <2>1. "expired" \in Outcomes \ {"open"}
    BY DEF Outcomes, Rejection
  <2> QED
    BY <1>1, <2>1, SettledIs
<1>6. /\ generator' \in [Command -> BOOLEAN]
      /\ \A d \in Command : generator'[d] <=> generator[d] /\ d \notin dropped
  BY <1>1, WithoutIs
<1>7. Commands(queue) \subseteq Command
  BY <1>2, CommandsOf
<1> QED
  BY <1>1, <1>3, <1>4, <1>5, <1>6, <1>7 DEF Keeps

-----------------------------------------------------------------------------
(* The actions *)

Statuses(n) ==
    IF n \in CanSleep THEN {"Unknown", "Awake", "Asleep"} ELSE {"Unknown", "Alive", "Dead"}

LEMMA StatusIs ==
    ASSUME TypeOK, NEW n \in Node, NEW value \in Statuses(n),
           status' = [status EXCEPT ![n] = value]
    PROVE  /\ status' \in [Node -> {"Unknown", "Alive", "Dead", "Awake", "Asleep"}]
           /\ \A m \in Node : status'[m] \in (IF m \in CanSleep
                                              THEN {"Unknown", "Awake", "Asleep"}
                                              ELSE {"Unknown", "Alive", "Dead"})
PROOF
<1>1. /\ status \in [Node -> {"Unknown", "Alive", "Dead", "Awake", "Asleep"}]
      /\ \A m \in Node : status[m] \in Statuses(m)
  BY DEF TypeOK, Statuses
<1>2. value \in {"Unknown", "Alive", "Dead", "Awake", "Asleep"}
  BY DEF Statuses
<1>3. \A m \in Node : status'[m] \in Statuses(m)
  BY <1>1
<1> QED
  BY <1>1, <1>2, <1>3 DEF Statuses

LEMMA EnqueueKeeps ==
    ASSUME IInv, NEW c \in Command, Enqueue(c), leaving' \subseteq SupportsWakeUp
    PROVE  IInv'
PROOF
<1> USE DEF IInv
<1> DEFINE e == [command |-> c, priority |-> PriorityOf(c), busy |-> 0]
<1>1. e \in Entry /\ e.command = c
  BY SendThreadAssumption DEF Entry, Priority, PriorityOf
<1>2. queue' = Insert(status, queue, e) /\ queue \in Seq(Entry)
  BY DEF Enqueue, TypeOK
<1> HIDE DEF e
<1>3. queue' \in Seq(Entry) /\ ToSet(queue') = ToSet(queue) \cup {e}
  BY <1>1, <1>2, InsertIs
<1>4. created' \in Seq(Command) /\ ToSet(created') = ToSet(created) \cup {c}
  <2>1. created \in Seq(Command) /\ created' = Append(created, c)
    BY DEF Enqueue, TypeOK
  <2> QED
    BY <2>1, AppendIs
<1>5. UNCHANGED <<status, active, pc, attempt, generator, settled, deferred, returning, including,
                  gone>>
  BY DEF Enqueue
<1>6. TypeOK'
  <2> HIDE DEF Enqueue
  <2> QED
    BY <1>3, <1>4, <1>5 DEF TypeOK
<1>7. Commands(queue') = Commands(queue) \cup {c}
  BY <1>1, <1>3 DEF Commands
<1>8. Held'
  BY <1>4, <1>5, <1>7 DEF Held, BeingSent
<1>9. GeneratorIsActive'
  BY <1>5 DEF GeneratorIsActive
<1> QED
  BY <1>6, <1>8, <1>9

LEMMA SendKeeps ==
    ASSUME IInv, NEW c \in Command, Send(c) \/ SendToSleep(c)
    PROVE  IInv'
PROOF
<1>1. Enqueue(c)
  BY DEF Send, SendToSleep
<1>2. leaving' \subseteq SupportsWakeUp
  BY SendThreadAssumption DEF Send, SendToSleep, IInv, TypeOK
<1> QED
  BY <1>1, <1>2, EnqueueKeeps

LEMMA LeaveKeeps ==
    ASSUME IInv, NEW n \in Node, Leave(n)
    PROVE  IInv'
PROOF
<1> USE DEF IInv
<1>1. n \in SupportsWakeUp /\ n \in CanSleep
  BY SendThreadAssumption DEF Leave, LeaveDue, TypeOK
<1>2. leaving' \subseteq SupportsWakeUp
  BY DEF Leave, TypeOK
<1>3. UNCHANGED <<created, pc, attempt, deferred, returning, including, gone>>
  BY DEF Leave
<1>4. /\ active' \in Entry \cup {Nothing}
      /\ active'.command = active.command
      /\ active' = Nothing <=> active = Nothing
  <2>1. CASE active' = active
    BY <2>1 DEF TypeOK
  <2>2. CASE active # Nothing /\ active' = [active EXCEPT !.priority = "WakeUp"]
    <3>1. active \in Entry
      BY <2>2 DEF TypeOK
    <3>2. active' \in Entry /\ active'.command = active.command
      BY <2>2, <3>1 DEF Entry, Priority
    <3> QED
      BY <2>2, <3>2, NothingIsNoEntry
  <2> QED
    BY <2>1, <2>2 DEF Leave
<1>5. CASE status[n] = "Asleep"
  <2>1. UNCHANGED <<status, queue, generator, settled>>
    BY <1>5 DEF Leave
  <2>2. TypeOK'
    BY <1>2, <1>3, <1>4, <2>1 DEF TypeOK
  <2>3. GeneratorIsActive' /\ Held'
    BY <1>3, <1>4, <2>1 DEF GeneratorIsActive, Held, BeingSent
  <2> QED
    BY <2>2, <2>3
<1>6. CASE status[n] # "Asleep"
  <2>1. FallAsleep(n, queue, active, {})
    BY <1>6 DEF Leave
  <2>2. queue \in Seq(Entry) /\ active \in Entry \cup {Nothing}
    BY DEF TypeOK
  <2>3. Keeps
    BY <2>1, <2>2, FallAsleepKeeps
  <2>4. status' = [status EXCEPT ![n] = "Asleep"] /\ "Asleep" \in Statuses(n)
    BY <1>1, <2>1 DEF FallAsleep, Statuses
  <2>5. TypeOK'
    BY <1>2, <1>3, <1>4, <2>3, <2>4, StatusIs DEF TypeOK, Keeps, Outcomes
  <2>6. GeneratorIsActive' /\ Held'
    BY <1>3, <1>4, <2>3, GoesOn
  <2> QED
    BY <2>5, <2>6
<1> QED
  BY <1>5, <1>6

LEMMA ExpireIsKept ==
    ASSUME IInv, NEW c \in Command, Expire(c)
    PROVE  IInv'
PROOF
<1> USE DEF IInv
<1>1. /\ UNCHANGED <<status, created, active, pc, attempt, deferred, returning, including,
                     leaving>>
      /\ gone' = gone \cup {c}
  BY DEF Expire
<1>2. Keeps
  BY ExpireKeeps
<1>3. TypeOK'
  BY <1>1, <1>2 DEF TypeOK, Keeps, Outcomes
<1> QED
  BY <1>1, <1>2, <1>3, GoesOn

LEMMA HeadAndTail ==
    ASSUME NEW S, NEW q \in Seq(S), q # <<>>
    PROVE  /\ Head(q) \in S /\ Tail(q) \in Seq(S)
           /\ ToSet(q) = {Head(q)} \cup ToSet(Tail(q))
PROOF
<1>1. Len(q) \in Nat /\ Len(q) # 0 /\ DOMAIN q = 1..Len(q)
  BY EmptySeq
<1>2. Head(q) = q[1] /\ Tail(q) \in Seq(S)
  OBVIOUS
<1>3. /\ DOMAIN Tail(q) = 1..Len(q) - 1
      /\ \A i \in 1..Len(q) - 1 : Tail(q)[i] = q[i + 1]
  BY HeadTailProperties
<1> DEFINE rest == Tail(q)
<1>4. 1 \in DOMAIN q
  BY <1>1
<1>5. Head(q) \in S
  BY <1>2, <1>4, ElementIs
<1> HIDE DEF rest
<1>6. \A i \in DOMAIN q : i = 1 \/ (i - 1 \in DOMAIN rest /\ rest[i - 1] = q[i])
  BY <1>1, <1>3 DEF rest
<1>7. \A i \in DOMAIN rest : i + 1 \in DOMAIN q /\ rest[i] = q[i + 1]
  BY <1>1, <1>3 DEF rest
<1>8. ToSet(rest) \subseteq ToSet(q)
  BY <1>7 DEF ToSet
<1>9. ToSet(q) \subseteq {q[1]} \cup ToSet(rest)
  BY <1>6 DEF ToSet
<1>10. q[1] \in ToSet(q)
  BY <1>4 DEF ToSet
<1> QED
  BY <1>2, <1>5, <1>8, <1>9, <1>10 DEF rest

LEMMA TakeKeeps ==
    ASSUME IInv, Take
    PROVE  IInv'
PROOF
<1> USE DEF IInv
<1>1. queue \in Seq(Entry) /\ queue # <<>> /\ active = Nothing
  BY DEF Take, TakeDue, TypeOK
<1>2. active' = Head(queue) /\ queue' = Tail(queue) /\ pc' = "taken"
  BY DEF Take
<1>3. UNCHANGED <<status, created, attempt, generator, settled, deferred, returning, including,
                  leaving, gone>>
  BY DEF Take
<1>4. /\ Head(queue) \in Entry /\ Tail(queue) \in Seq(Entry)
      /\ ToSet(queue) = {Head(queue)} \cup ToSet(Tail(queue))
  BY <1>1, HeadAndTail
<1>5. TypeOK'
  BY <1>1, <1>2, <1>3, <1>4, NothingIsNoEntry DEF TypeOK
<1>6. Commands(queue) = {active'.command} \cup Commands(queue')
  BY <1>2, <1>4 DEF Commands
<1>7. \A c \in Command : ~generator[c]
  <2>1. NoCommand \notin Command /\ active.command = NoCommand
    BY <1>1, SendThreadAssumption DEF Nothing
  <2> QED
    BY <2>1 DEF GeneratorIsActive
<1>8. GeneratorIsActive'
  BY <1>3, <1>7 DEF GeneratorIsActive
<1>9. ASSUME NEW c \in ToSet(created), settled[c] = "open"
      PROVE  \/ c \in Commands(queue') \/ active'.command = c
             \/ InBatch(c, deferred) \/ c \in Commands(returning)
  <2>1. ~BeingSent(c)
    BY <1>1, <1>7, CreatedAre DEF BeingSent, TypeOK
  <2> QED
    BY <1>6, <1>9, <2>1 DEF Held
<1>10. Held'
  BY <1>2, <1>3, <1>9 DEF Held, BeingSent
<1> QED
  BY <1>5, <1>8, <1>10

LEMMA StartKeeps ==
    ASSUME IInv, Start
    PROVE  IInv'
PROOF
<1> USE DEF IInv
<1>1. pc = "taken" /\ pc' = "sending" /\ attempt' = 1
  BY DEF Start
<1>2. UNCHANGED <<status, created, queue, active, settled, deferred, returning, including,
                  leaving, gone>>
  BY DEF Start
<1>3. active \in Entry /\ active # Nothing /\ active.command \in Command
  BY <1>1, ActiveIs
<1>4. /\ generator' \in [Command -> BOOLEAN]
      /\ generator'[active.command]
      /\ \A c \in Command : generator'[c] => c = active.command \/ generator[c]
  BY <1>3 DEF Start, TypeOK
<1>5. 1 \in 0..MaxSendAttempts
  BY SendThreadAssumption
<1>6. TypeOK'
  BY <1>1, <1>2, <1>3, <1>4, <1>5 DEF TypeOK
<1>7. GeneratorIsActive'
  BY <1>1, <1>2, <1>4 DEF GeneratorIsActive
<1>8. Held'
  BY <1>1, <1>2, <1>4 DEF Held, BeingSent
<1> QED
  BY <1>6, <1>7, <1>8

LEMMA EndOfActive ==
    ASSUME IInv, Keeps, Idle, pc # "idle",
           UNCHANGED <<created, deferred, returning, including, leaving, gone>>,
           status' \in [Node -> {"Unknown", "Alive", "Dead", "Awake", "Asleep"}],
           \A m \in Node : status'[m] \in (IF m \in CanSleep
                                           THEN {"Unknown", "Awake", "Asleep"}
                                           ELSE {"Unknown", "Alive", "Dead"}),
           ~generator'[active.command],
           \/ settled'[active.command] # "open"
           \/ active.command \in Commands(queue')
           \/ (pc = "sending" /\ ~generator[active.command])
    PROVE  IInv'
PROOF
<1>1. 0 \in 0..MaxSendAttempts
  BY SendThreadAssumption
<1>2. TypeOK'
  BY <1>1 DEF IInv, TypeOK, Keeps, Idle, Outcomes
<1>3. GeneratorIsActive' /\ Held'
  BY Ends DEF IInv
<1> QED
  BY <1>2, <1>3 DEF IInv

LEMMA AcknowledgedKeeps ==
    ASSUME IInv, Acknowledged
    PROVE  IInv'
PROOF
<1> USE DEF IInv
<1> DEFINE c == active.command
           n == NodeOf[c]
           resolved == IF c \in NeedsUpdate THEN {} ELSE {c}
<1>1. pc = "sending" /\ UNCHANGED <<created, deferred, returning, including, leaving, gone>>
  BY DEF Acknowledged
<1>2. active \in Entry /\ c \in Command /\ n \in Node
  BY <1>1, ActiveIs, SendThreadAssumption
<1>3. IF generator[c] /\ c \in NeedsUpdate
      THEN pc' = "awaitingUpdate" /\ UNCHANGED <<active, attempt>>
      ELSE Idle
  BY Zenon DEF Acknowledged
<1>4. CASE ~generator[c]
  <2>1. UNCHANGED <<status, queue, settled, generator>> /\ Idle
    BY <1>3, <1>4 DEF Acknowledged
  <2>2. Keeps
    BY <2>1 DEF Keeps, TypeOK, Outcomes
  <2>3. status \in [Node -> {"Unknown", "Alive", "Dead", "Awake", "Asleep"}]
        /\ \A m \in Node : status[m] \in (IF m \in CanSleep
                                          THEN {"Unknown", "Awake", "Asleep"}
                                          ELSE {"Unknown", "Alive", "Dead"})
    BY DEF TypeOK
  <2> QED
    BY <1>1, <1>4, <2>1, <2>2, <2>3, EndOfActive
<1>5. CASE generator[c]
  <2>1. /\ Keeps
        /\ \A d \in resolved : settled'[d] # "open" /\ ~generator'[d]
        /\ status' \in [Node -> {"Unknown", "Alive", "Dead", "Awake", "Asleep"}]
        /\ \A m \in Node : status'[m] \in (IF m \in CanSleep
                                           THEN {"Unknown", "Awake", "Asleep"}
                                           ELSE {"Unknown", "Alive", "Dead"})
    <3>1. resolved \in SUBSET Command
      BY <1>2
    <3>2. CASE n \in CanSleep /\ status[n] = "Asleep"
      <4>1. WakeUp(n, resolved, TRUE)
        BY <1>5, <3>2 DEF Acknowledged
      <4> HIDE DEF resolved
      <4>2. Keeps /\ \A d \in resolved : settled'[d] # "open" /\ ~generator'[d]
        BY <3>1, <4>1, WakeUpKeeps
      <4>3. status' = [status EXCEPT ![n] = "Awake"] /\ "Awake" \in Statuses(n)
        BY <3>2, <4>1 DEF WakeUp, Statuses
      <4> QED
        BY <1>2, <4>2, <4>3, StatusIs
    <3>3. CASE ~(n \in CanSleep /\ status[n] = "Asleep")
      <4> DEFINE value == IF n \in CanSleep THEN "Awake" ELSE "Alive"
      <4>1. /\ status' = [status EXCEPT ![n] = value]
            /\ settled' = Settled(resolved, "resolved")
            /\ generator' = WithoutGenerator(resolved)
            /\ queue' = queue
        BY <1>5, <3>3 DEF Acknowledged
      <4>2. value \in Statuses(n)
        BY DEF Statuses
      <4>3. "resolved" \in Outcomes \ {"open"}
        BY DEF Outcomes
      <4> HIDE DEF resolved, value
      <4>4. /\ settled' \in [Command -> Outcomes]
            /\ \A d \in Command : settled'[d] = "open" =>
                    settled[d] = "open" /\ d \notin resolved
        BY <4>1, <4>3, SettledIs
      <4>5. /\ generator' \in [Command -> BOOLEAN]
            /\ \A d \in Command : generator'[d] <=> generator[d] /\ d \notin resolved
        BY <4>1, WithoutIs
      <4>6. Keeps
        BY <4>1, <4>4, <4>5 DEF Keeps, TypeOK
      <4> QED
        BY <1>2, <3>1, <4>1, <4>2, <4>4, <4>5, <4>6, StatusIs
    <3> QED
      BY <3>2, <3>3
  <2>2. CASE c \in NeedsUpdate
    <3>1. pc' = "awaitingUpdate" /\ UNCHANGED <<active, attempt>>
      BY <1>3, <1>5, <2>2
    <3>2. TypeOK'
      BY <1>1, <1>2, <2>1, <3>1, ActiveIs DEF TypeOK, Keeps, Outcomes
    <3>3. GeneratorIsActive' /\ Held'
      BY <1>1, <2>1, <3>1, GoesOn
    <3> QED
      BY <3>2, <3>3
  <2>3. CASE c \notin NeedsUpdate
    <3>1. Idle
      BY <1>3, <2>3
    <3>2. settled'[c] # "open" /\ ~generator'[c]
      BY <2>1, <2>3
    <3> QED
      BY <1>1, <2>1, <3>1, <3>2, EndOfActive
  <2> QED
    BY <2>2, <2>3
<1> QED
  BY <1>4, <1>5

LEMMA SendAgainKeeps ==
    ASSUME IInv, SendAgain
    PROVE  IInv'
PROOF
<1> USE DEF IInv
<1>1. UNCHANGED <<status, created, queue, active, pc, generator, settled, deferred, returning,
                  including, leaving, gone>>
  BY DEF SendAgain
<1>2. attempt' \in 0..MaxSendAttempts
  BY SendThreadAssumption DEF SendAgain, TypeOK
<1>3. TypeOK'
  BY <1>1, <1>2 DEF TypeOK
<1>4. GeneratorIsActive' /\ Held'
  BY <1>1 DEF GeneratorIsActive, Held, BeingSent
<1> QED
  BY <1>3, <1>4

\* The active command settles and leaves the queue alone.
LEMMA RejectEnds ==
    ASSUME IInv, pc # "idle", Idle, NEW how \in Outcomes \ {"open"},
           Reject(active.command, how), queue' = queue,
           UNCHANGED <<status, created, deferred, returning, including, leaving, gone>>
    PROVE  IInv'
PROOF
<1>1. active.command \in Command /\ TypeOK
  BY ActiveIs DEF IInv
<1>2. Keeps /\ settled'[active.command] # "open" /\ ~generator'[active.command]
  BY <1>1, RejectKeeps
<1>3. status' \in [Node -> {"Unknown", "Alive", "Dead", "Awake", "Asleep"}]
      /\ \A m \in Node : status'[m] \in (IF m \in CanSleep
                                         THEN {"Unknown", "Awake", "Asleep"}
                                         ELSE {"Unknown", "Alive", "Dead"})
  BY <1>1 DEF TypeOK
<1> QED
  BY <1>2, <1>3, EndOfActive

LEMMA DropKeeps ==
    ASSUME IInv, Drop \/ UpdateEnds
    PROVE  IInv'
PROOF
<1>1. pc # "idle" /\ Idle /\ UNCHANGED <<status, created, queue, deferred, returning, including,
                                         leaving, gone>>
  BY DEF Drop, UpdateEnds
<1>2. PICK how \in Outcomes \ {"open"} : Reject(active.command, how)
  <2>1. {"dropped", "resolved", "no response"} \subseteq Outcomes \ {"open"}
    BY DEF Outcomes, Rejection
  <2> QED
    BY <2>1 DEF Drop, UpdateEnds
<1> QED
  BY <1>1, <1>2, RejectEnds

\* What a dead node leaves behind: no entry of the node.
LEMMA DeadLeaves ==
    ASSUME TypeOK, NEW n,
           NEW kind, \A e \in ToSet(queue) : kind.queue[e] = DeadKind(n, e),
           NEW s
    PROVE  LET reduced == ReducedQueue(kind, s, queue, Nothing) IN
           /\ reduced \in Seq(Entry)
           /\ \A c \in Commands(reduced) : NodeOf[c] # n
           /\ \A c \in Commands(queue) :
                c \in Commands(reduced) \/ c \in ReducedTo("reject", kind, queue, Nothing)
PROOF
<1> DEFINE reduced == ReducedQueue(kind, s, queue, Nothing)
<1>1. queue \in Seq(Entry)
  BY DEF TypeOK
<1>2. /\ reduced \in Seq(Entry)
      /\ \A e \in ToSet(queue) : Stays(kind.queue[e]) => e.command \in Commands(reduced)
      /\ \A c \in Commands(reduced) :
            \/ \E e \in ToSet(queue) : e.command = c /\ Stays(kind.queue[e])
            \/ \E e \in {Nothing} \ {Nothing} : e.command = c /\ Requeued(kind.active[e])
  <2>1. Nothing \in Entry \cup {Nothing}
    OBVIOUS
  <2> QED
    BY <1>1, <2>1, ReducedHas, Zenon
<1>4. \A e \in ToSet(queue) : Stays(kind.queue[e]) => NodeOf[e.command] # n
  BY DEF DeadKind, Stays, NodeOfEntry
<1>5. \A c \in Commands(reduced) : NodeOf[c] # n
  <2> HIDE DEF reduced
  <2> QED
    BY <1>2, <1>4
<1>6. ASSUME NEW c \in Commands(queue)
      PROVE  c \in Commands(reduced) \/ c \in ReducedTo("reject", kind, queue, Nothing)
  <2>1. PICK e \in ToSet(queue) : e.command = c
    BY DEF Commands
  <2>2. Stays(kind.queue[e]) \/ kind.queue[e] = "reject"
    BY DEF DeadKind, Stays
  <2> HIDE DEF reduced
  <2> QED
    BY <1>2, <2>1, <2>2 DEF ReducedTo
<1> HIDE DEF reduced
<1> QED
  BY <1>2, <1>5, <1>6 DEF reduced

LEMMA RequeuedIs ==
    ASSUME TypeOK, active \in Entry
    PROVE  LET q == RequeuedAfterNoAck(active) IN
           /\ q \in Seq(Entry)
           /\ ToSet(queue) \subseteq ToSet(q)
           /\ MayMoveToWakeupQueue(active.command) => active \in ToSet(q)
PROOF
<1>1. queue \in Seq(Entry)
  BY DEF TypeOK
<1>2. CASE MayMoveToWakeupQueue(active.command)
  <2>1. RequeuedAfterNoAck(active) = Insert(status, queue, active)
    BY <1>2 DEF RequeuedAfterNoAck
  <2>2. /\ Insert(status, queue, active) \in Seq(Entry)
        /\ ToSet(Insert(status, queue, active)) = ToSet(queue) \cup {active}
    BY <1>1, InsertIs
  <2> QED
    BY <2>1, <2>2
<1>3. CASE ~MayMoveToWakeupQueue(active.command)
  BY <1>1, <1>3 DEF RequeuedAfterNoAck
<1> QED
  BY <1>2, <1>3

LEMMA NoAcknowledgementKeeps ==
    ASSUME IInv, NoAcknowledgement
    PROVE  /\ IInv'
           /\ \A n \in Node : status'[n] = "Dead" /\ status[n] # "Dead" =>
                \A c \in Commands(queue') : NodeOf[c] # n
PROOF
<1> USE DEF IInv
<1> DEFINE c == active.command
           n == NodeOf[c]
<1>1. pc = "sending" /\ Idle /\ UNCHANGED <<created, deferred, returning, including, leaving,
                                            gone>>
  BY DEF NoAcknowledgement
<1>2. active \in Entry /\ c \in Command /\ n \in Node /\ queue \in Seq(Entry)
  BY <1>1, ActiveIs, SendThreadAssumption DEF TypeOK
<1>3. \/ status[n] = "Asleep" /\ Reject(c, "no ACK") /\ UNCHANGED <<status, queue>>
      \/ /\ n \in CanSleep
         /\ FallAsleep(n, RequeuedAfterNoAck(active), Nothing,
                       IF MayMoveToWakeupQueue(c) THEN {} ELSE {c})
      \/ /\ n \notin CanSleep
         /\ status' = [status EXCEPT ![n] = "Dead"]
         /\ LET kind == [queue |-> [e \in ToSet(queue) |-> DeadKind(n, e)],
                         active |-> [e \in {} |-> DeadKind(n, e)]]
                doomed == ReducedTo("reject", kind, queue, Nothing)
            IN  /\ queue' = ReducedQueue(kind, status, queue, Nothing)
                /\ settled' = [d \in Command |->
                        IF settled[d] # "open" THEN settled[d]
                        ELSE IF d = c THEN "no ACK"
                        ELSE IF d \in doomed THEN "dead" ELSE "open"]
                /\ generator' = WithoutGenerator(doomed \cup {c})
  BY Zenon DEF NoAcknowledgement
<1>4. "no ACK" \in Outcomes \ {"open"}
  BY DEF Outcomes, Rejection
<1>5. CASE status[n] = "Asleep" /\ Reject(c, "no ACK") /\ UNCHANGED <<status, queue>>
  BY <1>1, <1>4, <1>5, RejectEnds
<1>6. CASE /\ n \in CanSleep
           /\ FallAsleep(n, RequeuedAfterNoAck(active), Nothing,
                         IF MayMoveToWakeupQueue(c) THEN {} ELSE {c})
  <2> DEFINE q == RequeuedAfterNoAck(active)
             rejected == IF MayMoveToWakeupQueue(c) THEN {} ELSE {c}
  <2>1. /\ q \in Seq(Entry) /\ ToSet(queue) \subseteq ToSet(q)
        /\ MayMoveToWakeupQueue(c) => active \in ToSet(q)
    BY <1>2, RequeuedIs
  <2>2. rejected \in SUBSET Command /\ Nothing \in Entry \cup {Nothing}
    BY <1>2
  <2>3. Commands(queue) \subseteq Commands(q)
    BY <2>1 DEF Commands
  <2>4. FallAsleep(n, q, Nothing, rejected)
    BY <1>6
  <2> HIDE DEF q, rejected
  <2>5. /\ Keeps
        /\ \A d \in rejected : settled'[d] # "open" /\ ~generator'[d]
        /\ \A e \in ToSet(q) : NodeOfEntry(e) = n /\ MayMoveToWakeupQueue(e.command) =>
                ~generator'[e.command] /\ e.command \in Commands(queue')
    BY <2>1, <2>2, <2>3, <2>4, FallAsleepKeeps
  <2>6. ~generator'[c] /\ (settled'[c] # "open" \/ c \in Commands(queue'))
    <3>1. CASE MayMoveToWakeupQueue(c)
      BY <2>1, <2>5, <3>1 DEF NodeOfEntry
    <3>2. CASE ~MayMoveToWakeupQueue(c)
      BY <2>5, <3>2 DEF rejected
    <3> QED
      BY <3>1, <3>2
  <2>7. status' = [status EXCEPT ![n] = "Asleep"] /\ "Asleep" \in Statuses(n)
    BY <1>6 DEF FallAsleep, Statuses
  <2>8. IInv'
    BY <1>1, <1>2, <2>5, <2>6, <2>7, StatusIs, EndOfActive
  <2>9. \A m \in Node : status'[m] = "Dead" => status[m] = "Dead"
    BY <2>7 DEF TypeOK
  <2> QED
    BY <2>8, <2>9
<1>7. CASE /\ n \notin CanSleep
           /\ status' = [status EXCEPT ![n] = "Dead"]
           /\ LET kind == [queue |-> [e \in ToSet(queue) |-> DeadKind(n, e)],
                           active |-> [e \in {} |-> DeadKind(n, e)]]
                  doomed == ReducedTo("reject", kind, queue, Nothing)
              IN  /\ queue' = ReducedQueue(kind, status, queue, Nothing)
                  /\ settled' = [d \in Command |->
                          IF settled[d] # "open" THEN settled[d]
                          ELSE IF d = c THEN "no ACK"
                          ELSE IF d \in doomed THEN "dead" ELSE "open"]
                  /\ generator' = WithoutGenerator(doomed \cup {c})
  <2> DEFINE kind == [queue |-> [e \in ToSet(queue) |-> DeadKind(n, e)],
                      active |-> [e \in {} |-> DeadKind(n, e)]]
             doomed == ReducedTo("reject", kind, queue, Nothing)
  <2>1. /\ queue' = ReducedQueue(kind, status, queue, Nothing)
        /\ settled' = [d \in Command |->
                IF settled[d] # "open" THEN settled[d]
                ELSE IF d = c THEN "no ACK"
                ELSE IF d \in doomed THEN "dead" ELSE "open"]
        /\ generator' = WithoutGenerator(doomed \cup {c})
    BY <1>7
  <2>2. /\ queue' \in Seq(Entry)
        /\ \A d \in Commands(queue') : NodeOf[d] # n
        /\ \A d \in Commands(queue) : d \in Commands(queue') \/ d \in doomed
    <3>1. \A e \in ToSet(queue) : kind.queue[e] = DeadKind(n, e)
      OBVIOUS
    <3> HIDE DEF kind
    <3> QED
      BY <2>1, <3>1, DeadLeaves
  <2> HIDE DEF doomed
  <2>3. /\ settled' \in [Command -> Outcomes]
        /\ \A d \in Command : settled'[d] = "open" =>
                settled[d] = "open" /\ d \notin doomed \cup {c}
    BY <2>1 DEF TypeOK, Outcomes, Rejection
  <2>4. /\ generator' \in [Command -> BOOLEAN]
        /\ \A d \in Command : generator'[d] <=> generator[d] /\ d \notin doomed \cup {c}
    BY <2>1, WithoutIs
  <2>5. Commands(queue) \subseteq Command
    BY <1>2, CommandsOf
  <2>6. Keeps
    BY <2>2, <2>3, <2>4, <2>5 DEF Keeps
  <2>7. status' = [status EXCEPT ![n] = "Dead"] /\ "Dead" \in Statuses(n)
    BY <1>7 DEF Statuses
  <2>8. ~generator'[c] /\ settled'[c] # "open"
    BY <1>2, <2>3, <2>4
  <2>9. IInv'
    BY <1>1, <1>2, <2>6, <2>7, <2>8, StatusIs, EndOfActive
  <2>10. \A m \in Node : status'[m] = "Dead" /\ status[m] # "Dead" => m = n
    BY <1>7 DEF TypeOK
  <2> QED
    BY <2>2, <2>9, <2>10
<1> QED
  BY <1>3, <1>5, <1>6, <1>7

-----------------------------------------------------------------------------
(* Busy nodes *)

\* What is delayed is in a batch, what is not stays in the queue.
LEMMA DelayIs ==
    ASSUME TypeOK, NEW n, NEW first \in Seq(Entry), Delay(n, first)
    PROVE  /\ queue' \in Seq(Entry) /\ deferred' \in Seq(Seq(Entry))
           /\ \A c \in Commands(queue) : c \in Commands(queue') \/ InBatch(c, deferred')
           /\ \A c \in Commands(first) : InBatch(c, deferred')
           /\ \A c : InBatch(c, deferred) => InBatch(c, deferred')
PROOF
<1> DEFINE mine == Selected(queue, EntriesFor(n))
           batch == first \o mine
           others == ToSet(queue) \ EntriesFor(n)
<1>1. queue \in Seq(Entry) /\ deferred \in Seq(Seq(Entry))
  BY DEF TypeOK
<1>2. /\ queue' = Selected(queue, others)
      /\ deferred' = IF batch = <<>> THEN deferred ELSE Append(deferred, batch)
  BY Zenon DEF Delay
<1>3. mine \in Seq(Entry) /\ ToSet(mine) = ToSet(queue) \cap EntriesFor(n)
  BY <1>1, SelectedIs
<1> HIDE DEF mine
<1>4. batch \in Seq(Entry) /\ ToSet(batch) = ToSet(first) \cup ToSet(mine)
  BY <1>3, ConcatIs
<1>5. queue' \in Seq(Entry) /\ ToSet(queue') = ToSet(queue) \cap others
  BY <1>1, <1>2, SelectedIs
<1> HIDE DEF batch
<1>6. /\ deferred' \in Seq(Seq(Entry))
      /\ \A i \in DOMAIN deferred : i \in DOMAIN deferred' /\ deferred'[i] = deferred[i]
      /\ batch # <<>> => \E i \in DOMAIN deferred' : deferred'[i] = batch
  <2>1. CASE batch = <<>>
    BY <1>1, <1>2, <2>1
  <2>2. CASE batch # <<>>
    <3>1. deferred' = Append(deferred, batch)
      BY <1>2, <2>2
    <3>2. Append(deferred, batch) \in Seq(Seq(Entry))
      BY <1>1, <1>4, AppendIs
    <3>3. /\ DOMAIN deferred = 1..Len(deferred) /\ Len(deferred) \in Nat
          /\ DOMAIN Append(deferred, batch) = 1..Len(deferred) + 1
          /\ \A i \in 1..Len(deferred) : Append(deferred, batch)[i] = deferred[i]
          /\ Append(deferred, batch)[Len(deferred) + 1] = batch
      BY <1>1, AppendProperties
    <3>4. Len(deferred) + 1 \in DOMAIN deferred'
      BY <3>1, <3>3
    <3> QED
      BY <3>1, <3>2, <3>3, <3>4
  <2> QED
    BY <2>1, <2>2
<1>7. ASSUME NEW c \in Commands(first) \cup Commands(mine)
      PROVE  InBatch(c, deferred')
  <2>1. c \in Commands(batch)
    BY <1>4, <1>7 DEF Commands
  <2>2. batch # <<>>
    <3>1. ToSet(batch) # {}
      BY <2>1 DEF Commands
    <3> QED
      BY <3>1, EmptyIs
  <2> QED
    BY <1>6, <2>1, <2>2 DEF InBatch
<1>8. ASSUME NEW c, InBatch(c, deferred)
      PROVE  InBatch(c, deferred')
  BY <1>6, <1>8 DEF InBatch
<1>9. ASSUME NEW c \in Commands(queue)
      PROVE  c \in Commands(queue') \/ c \in Commands(mine)
  BY <1>3, <1>5 DEF Commands
<1> QED
  BY <1>5, <1>6, <1>7, <1>8, <1>9

LEMMA NodeIsBusyKeeps ==
    ASSUME IInv, NodeIsBusy
    PROVE  IInv'
PROOF
<1> USE DEF IInv
<1> DEFINE c == active.command
<1>1. /\ pc = "awaitingUpdate" /\ Idle /\ UNCHANGED <<status, created, returning, including,
                                                      leaving, gone>>
  BY DEF NodeIsBusy
<1>2. active \in Entry /\ c \in Command
  BY <1>1, ActiveIs
<1>3. CASE MayTryAgain(active)
  <2> DEFINE e == [active EXCEPT !.busy = @ + 1]
             first == <<e>>
  <2>1. Delay(NodeOfEntry(active), first) /\ generator' = WithoutGenerator({c})
        /\ settled' = settled
    BY <1>3 DEF NodeIsBusy
  <2>2. e \in Entry /\ e.command = c
    BY <1>2, <1>3, SendThreadAssumption DEF MayTryAgain, Entry
  <2> HIDE DEF e
  <2>3. first \in Seq(Entry) /\ ToSet(first) = {e}
    BY <2>2, SingleIs
  <2> HIDE DEF first
  <2>4. /\ queue' \in Seq(Entry) /\ deferred' \in Seq(Seq(Entry))
        /\ \A d \in Commands(queue) : d \in Commands(queue') \/ InBatch(d, deferred')
        /\ \A d \in Commands(first) : InBatch(d, deferred')
        /\ \A d : InBatch(d, deferred) => InBatch(d, deferred')
    <3> DEFINE node == NodeOfEntry(active)
    <3>1. Delay(node, first)
      BY <2>1
    <3> HIDE DEF node
    <3> QED
      BY <2>3, <3>1, DelayIs
  <2>5. InBatch(c, deferred')
    BY <2>2, <2>3, <2>4 DEF Commands
  <2>6. /\ generator' \in [Command -> BOOLEAN]
        /\ \A d \in Command : generator'[d] <=> generator[d] /\ d \notin {c}
    BY <2>1, WithoutIs
  <2>7. 0 \in 0..MaxSendAttempts
    BY SendThreadAssumption
  <2>8. TypeOK'
    BY <1>1, <2>1, <2>4, <2>6, <2>7 DEF TypeOK, Idle
  <2>9. GeneratorIsActive'
    BY <2>6 DEF GeneratorIsActive
  <2>10. ASSUME NEW d \in ToSet(created), settled[d] = "open"
         PROVE  d \in Commands(queue') \/ InBatch(d, deferred') \/ d \in Commands(returning)
    <3>1. d \in Commands(queue) \/ InBatch(d, deferred) \/ d \in Commands(returning) \/ d = c
      BY <2>10 DEF Held, BeingSent
    <3> QED
      BY <2>4, <2>5, <3>1
  <2>11. Held'
    BY <1>1, <2>1, <2>10 DEF Held
  <2> QED
    BY <2>8, <2>9, <2>11
<1>4. CASE ~MayTryAgain(active)
  <2>1. Reject(c, "no response") /\ UNCHANGED <<queue, deferred>>
    BY <1>4 DEF NodeIsBusy
  <2>2. "no response" \in Outcomes \ {"open"}
    BY DEF Outcomes, Rejection
  <2> QED
    BY <1>1, <2>1, <2>2, RejectEnds
<1> QED
  BY <1>3, <1>4

LEMMA BusyReportKeeps ==
    ASSUME IInv, NEW n \in Node, BusyReport(n)
    PROVE  IInv'
PROOF
<1> USE DEF IInv
<1>1. /\ UNCHANGED <<status, created, active, pc, attempt, generator, settled, returning,
                     including, leaving, gone>>
      /\ Delay(n, <<>>)
  BY DEF BusyReport
<1>2. <<>> \in Seq(Entry)
  BY EmptyIs
<1>3. /\ queue' \in Seq(Entry) /\ deferred' \in Seq(Seq(Entry))
      /\ \A c \in Commands(queue) : c \in Commands(queue') \/ InBatch(c, deferred')
      /\ \A c : InBatch(c, deferred) => InBatch(c, deferred')
  BY <1>1, <1>2, DelayIs
<1>4. TypeOK'
  BY <1>1, <1>3 DEF TypeOK
<1>5. GeneratorIsActive'
  BY <1>1 DEF GeneratorIsActive
<1>6. Held'
  BY <1>1, <1>3 DEF Held, BeingSent
<1> QED
  BY <1>4, <1>5, <1>6

\* Removing one element of a sequence keeps the others.
LEMMA RemoveAtIs ==
    ASSUME NEW S, NEW q \in Seq(S), NEW i \in DOMAIN q
    PROVE  /\ RemoveAt(q, i) \in Seq(S)
           /\ ToSet(q) \subseteq ToSet(RemoveAt(q, i)) \cup {q[i]}
PROOF
<1> DEFINE front == SubSeq(q, 1, i - 1)
           back == SubSeq(q, i + 1, Len(q))
<1>1. Len(q) \in Nat /\ i \in Nat /\ 1 <= i /\ i <= Len(q) /\ DOMAIN q = 1..Len(q)
  OBVIOUS
<1>2. /\ front \in Seq(S) /\ DOMAIN front = 1..i - 1
      /\ \A j \in 1..i - 1 : front[j] = q[j]
  BY <1>1, SubSeqProperties
<1>3. /\ back \in Seq(S) /\ DOMAIN back = 1..Len(q) - i
      /\ \A j \in 1..Len(q) - i : back[j] = q[j + i]
  <2>1. i + 1 \in 1..Len(q) + 1
    BY <1>1
  <2>2. /\ SubSeq(q, i + 1, Len(q)) \in Seq(S)
        /\ Len(SubSeq(q, i + 1, Len(q))) = IF i + 1 <= Len(q) THEN Len(q) - (i + 1) + 1 ELSE 0
        /\ \A j \in 1..Len(q) - (i + 1) + 1 : SubSeq(q, i + 1, Len(q))[j] = q[i + 1 + j - 1]
    BY <1>1, <2>1, SubSeqProperties
  <2>3. Len(q) - (i + 1) + 1 = Len(q) - i
    BY <1>1
  <2>4. Len(back) = Len(q) - i
    BY <1>1, <2>2
  <2> QED
    BY <1>1, <2>2, <2>3, <2>4
<1>4. RemoveAt(q, i) = front \o back
  BY DEF RemoveAt
<1> HIDE DEF front, back
<1>5. RemoveAt(q, i) \in Seq(S) /\ ToSet(RemoveAt(q, i)) = ToSet(front) \cup ToSet(back)
  BY <1>2, <1>3, <1>4, ConcatIs
<1>6. ASSUME NEW j \in DOMAIN q
      PROVE  q[j] \in ToSet(front) \cup ToSet(back) \cup {q[i]}
  <2>1. CASE j < i
    BY <1>1, <1>2, <2>1 DEF ToSet
  <2>2. CASE j = i
    BY <2>2
  <2>3. CASE j > i
    <3>1. j - i \in 1..Len(q) - i /\ (j - i) + i = j
      BY <1>1, <2>3
    <3>2. j - i \in DOMAIN back /\ back[j - i] = q[j]
      BY <1>3, <3>1
    <3> QED
      BY <3>2 DEF ToSet
  <2> QED
    BY <1>1, <2>1, <2>2, <2>3
<1> DEFINE all == ToSet(front) \cup ToSet(back) \cup {q[i]}
<1>7. \A j \in DOMAIN q : q[j] \in all
  BY <1>6
<1> HIDE DEF all
<1>8. ToSet(q) \subseteq all
  BY <1>7 DEF ToSet
<1> QED
  BY <1>5, <1>8 DEF all

LEMMA RequeueTimerKeeps ==
    ASSUME IInv, NEW i \in DOMAIN deferred, RequeueTimer(i)
    PROVE  IInv'
PROOF
<1> USE DEF IInv
<1>1. /\ deferred' = RemoveAt(deferred, i)
      /\ returning' = deferred[i] /\ returning = <<>>
      /\ UNCHANGED <<status, created, queue, active, pc, attempt, generator, settled,
                     including, leaving, gone>>
  BY DEF RequeueTimer, RequeueDeferred, Quiet
<1>2. deferred \in Seq(Seq(Entry))
  BY DEF TypeOK
<1>3. returning' \in Seq(Entry)
  BY <1>1, <1>2, ElementIs, Zenon
<1>4. /\ deferred' \in Seq(Seq(Entry))
      /\ ToSet(deferred) \subseteq ToSet(deferred') \cup {deferred[i]}
  BY <1>1, <1>2, RemoveAtIs
<1>5. \A c : c \notin Commands(returning)
  BY <1>1, EmptyIs DEF Commands
<1>6. ASSUME NEW c, InBatch(c, deferred)
      PROVE  InBatch(c, deferred') \/ c \in Commands(returning')
  <2>1. PICK j \in DOMAIN deferred : c \in Commands(deferred[j])
    BY <1>6 DEF InBatch
  <2>2. deferred[j] \in ToSet(deferred)
    BY DEF ToSet
  <2>3. deferred[j] \in ToSet(deferred') \/ deferred[j] = deferred[i]
    BY <1>4, <2>2
  <2>4. CASE deferred[j] = deferred[i]
    BY <1>1, <2>1, <2>4
  <2>5. CASE deferred[j] \in ToSet(deferred')
    <3>1. PICK k \in DOMAIN deferred' : deferred'[k] = deferred[j]
      BY <2>5 DEF ToSet
    <3> QED
      BY <2>1, <3>1 DEF InBatch
  <2> QED
    BY <2>3, <2>4, <2>5
<1>7. TypeOK'
  BY <1>1, <1>3, <1>4 DEF TypeOK
<1>8. GeneratorIsActive'
  BY <1>1 DEF GeneratorIsActive
<1>9. Held'
  BY <1>1, <1>5, <1>6 DEF Held, BeingSent
<1> QED
  BY <1>7, <1>8, <1>9

\* The first clone of a batch is queued, and the others follow.
LEMMA ReturnKeeps ==
    ASSUME IInv, Return
    PROVE  IInv'
PROOF
<1> USE DEF IInv
<1>1. /\ returning # <<>> /\ returning' = Tail(returning)
      /\ queue' = Insert(status, queue, Head(returning))
      /\ UNCHANGED <<status, created, active, pc, attempt, generator, settled, deferred,
                     including, leaving, gone>>
  BY DEF Return
<1>2. queue \in Seq(Entry) /\ returning \in Seq(Entry)
  BY DEF TypeOK
<1>3. /\ Head(returning) \in Entry /\ Tail(returning) \in Seq(Entry)
      /\ ToSet(returning) = {Head(returning)} \cup ToSet(Tail(returning))
  BY <1>1, <1>2, HeadAndTail
<1>4. queue' \in Seq(Entry) /\ ToSet(queue') = ToSet(queue) \cup {Head(returning)}
  BY <1>1, <1>2, <1>3, InsertIs
<1>5. /\ Commands(queue') = Commands(queue) \cup {Head(returning).command}
      /\ Commands(returning) = {Head(returning).command} \cup Commands(returning')
  BY <1>1, <1>3, <1>4 DEF Commands
<1>6. TypeOK'
  BY <1>1, <1>3, <1>4 DEF TypeOK
<1>7. GeneratorIsActive'
  BY <1>1 DEF GeneratorIsActive
<1>8. Held'
  BY <1>1, <1>5 DEF Held, BeingSent
<1> QED
  BY <1>6, <1>7, <1>8

-----------------------------------------------------------------------------
(* Nodes *)

LEMMA NodeWakesUpKeeps ==
    ASSUME IInv, NEW n \in Node, NodeWakesUp(n)
    PROVE  IInv'
PROOF
<1> USE DEF IInv
<1>1. /\ UNCHANGED <<created, active, pc, attempt, deferred, returning, including, leaving, gone>>
      /\ n \in CanSleep
      /\ WakeUp(n, {}, pc = "awaitingUpdate")
  BY DEF NodeWakesUp
<1>2. Keeps
  <2>1. {} \in SUBSET Command
    OBVIOUS
  <2> QED
    BY <1>1, <2>1, WakeUpKeeps
<1>3. status' = [status EXCEPT ![n] = "Awake"] /\ "Awake" \in Statuses(n)
  BY <1>1 DEF WakeUp, Statuses
<1>4. TypeOK'
  BY <1>1, <1>2, <1>3, StatusIs DEF TypeOK, Keeps, Outcomes
<1> QED
  BY <1>1, <1>2, <1>4, GoesOn

LEMMA NodeIsAliveKeeps ==
    ASSUME IInv, NEW n \in Node, NodeIsAlive(n)
    PROVE  IInv'
PROOF
<1> USE DEF IInv
<1>1. /\ UNCHANGED <<created, queue, active, pc, attempt, generator, settled, deferred, returning,
                     including, leaving, gone>>
      /\ status' = [status EXCEPT ![n] = "Alive"]
      /\ "Alive" \in Statuses(n)
  BY DEF NodeIsAlive, Statuses
<1>2. TypeOK'
  BY <1>1, StatusIs DEF TypeOK
<1>3. GeneratorIsActive' /\ Held'
  BY <1>1 DEF GeneratorIsActive, Held, BeingSent
<1> QED
  BY <1>2, <1>3

LEMMA ChangeInclusionKeeps ==
    ASSUME IInv, ChangeInclusion
    PROVE  IInv'
PROOF
<1> USE DEF IInv
<1>1. UNCHANGED <<status, created, queue, active, pc, attempt, generator, settled, deferred,
                  returning, leaving, gone>>
  BY DEF ChangeInclusion
<1>2. including' \in BOOLEAN
  BY DEF ChangeInclusion
<1>3. TypeOK'
  BY <1>1, <1>2 DEF TypeOK
<1>4. GeneratorIsActive' /\ Held'
  BY <1>1 DEF GeneratorIsActive, Held, BeingSent
<1> QED
  BY <1>3, <1>4

LEMMA StepKeeps ==
    ASSUME IInv, [Next]_vars
    PROVE  IInv'
PROOF
<1>1. CASE LoopStep
  <2>1. CASE Take
    BY <2>1, TakeKeeps
  <2>2. CASE Start
    BY <2>2, StartKeeps
  <2>3. CASE Acknowledged
    BY <2>3, AcknowledgedKeeps
  <2>4. CASE SendAgain
    BY <2>4, SendAgainKeeps
  <2>5. CASE NoAcknowledgement
    BY <2>5, NoAcknowledgementKeeps
  <2>6. CASE Drop \/ UpdateEnds
    BY <2>6, DropKeeps
  <2>7. CASE NodeIsBusy
    BY <2>7, NodeIsBusyKeeps
  <2> QED
    BY <1>1, <2>1, <2>2, <2>3, <2>4, <2>5, <2>6, <2>7 DEF LoopStep
<1>2. CASE \E c \in Command : Send(c) \/ SendToSleep(c) \/ Expire(c)
  BY <1>2, SendKeeps, ExpireIsKept
<1>3. CASE \E n \in Node : Leave(n) \/ BusyReport(n) \/ NodeWakesUp(n) \/ NodeIsAlive(n)
  BY <1>3, LeaveKeeps, BusyReportKeeps, NodeWakesUpKeeps, NodeIsAliveKeeps
<1>4. CASE \E i \in DOMAIN deferred : RequeueTimer(i)
  BY <1>4, RequeueTimerKeeps
<1>5. CASE Return \/ ChangeInclusion
  BY <1>5, ReturnKeeps, ChangeInclusionKeeps
<1>6. CASE UNCHANGED vars
  <2>1. UNCHANGED <<status, created, queue, active, pc, attempt, generator, settled, deferred,
                    returning, including, leaving, gone>>
    BY <1>6 DEF vars
  <2>2. TypeOK'
    BY <2>1 DEF IInv, TypeOK
  <2>3. GeneratorIsActive' /\ Held'
    BY <2>1 DEF IInv, GeneratorIsActive, Held, BeingSent
  <2> QED
    BY <2>2, <2>3 DEF IInv
<1> QED
  BY <1>1, <1>2, <1>3, <1>4, <1>5, <1>6 DEF Next

LEMMA StartsRight == Init => IInv
PROOF
<1> SUFFICES ASSUME Init PROVE IInv
  OBVIOUS
<1>1. /\ created = <<>> /\ queue = <<>> /\ deferred = <<>> /\ active = Nothing /\ pc = "idle"
      /\ returning = <<>> /\ including = FALSE
      /\ attempt = 0 /\ leaving = {} /\ gone = {}
      /\ generator = [c \in Command |-> FALSE] /\ settled = [c \in Command |-> "open"]
  BY DEF Init
<1>2. /\ created \in Seq(Command) /\ ToSet(created) = {}
      /\ queue \in Seq(Entry) /\ deferred \in Seq(Seq(Entry)) /\ returning \in Seq(Entry)
  BY <1>1, EmptyIs
<1>3. /\ status \in [Node -> {"Unknown", "Alive", "Dead", "Awake", "Asleep"}]
      /\ \A n \in Node : status[n] \in (IF n \in CanSleep
                                        THEN {"Unknown", "Awake", "Asleep"}
                                        ELSE {"Unknown", "Alive", "Dead"})
  <2>1. /\ status \in [Node -> {"Unknown", "Awake", "Asleep", "Alive", "Dead"}]
        /\ \A n \in Node : status[n] \in (IF n \in CanSleep THEN {"Awake", "Asleep"}
                                                            ELSE {"Unknown", "Alive", "Dead"})
    BY DEF Init
  <2>2. {"Unknown", "Awake", "Asleep", "Alive", "Dead"}
            = {"Unknown", "Alive", "Dead", "Awake", "Asleep"}
    OBVIOUS
  <2> QED
    BY <2>1, <2>2
<1>4. 0 \in 0..MaxSendAttempts
  BY SendThreadAssumption
<1>5. TypeOK
  BY <1>1, <1>2, <1>3, <1>4 DEF TypeOK, Rejection
<1>6. GeneratorIsActive /\ Held
  BY <1>1, <1>2 DEF GeneratorIsActive, Held
<1> QED
  BY <1>5, <1>6 DEF IInv

-----------------------------------------------------------------------------
(* Theorems *)

\* What reduceQueue, the loop and the timers do keeps to the invariant.
THEOREM Invariance == Spec => []IInv
PROOF
<1>1. Init => IInv
  BY StartsRight
<1>2. IInv /\ [Next]_vars => IInv'
  BY StepKeeps
<1> QED
  BY <1>1, <1>2, PTL DEF Spec

\* The variables of the send thread hold what their comments say.
THEOREM TypeCorrect == Spec => []TypeOK
PROOF
<1>1. IInv => TypeOK
  BY DEF IInv
<1> QED
  BY <1>1, Invariance, PTL

\* Whatever nodes and callers do, a command that did not settle is in the queue, in a
\* batch that waits for a timer, or being sent (Driver.ts, reduceQueue and
\* drainTransactionQueue).
THEOREM CommandsNeverLost == Spec => []OpenIsHeld
PROOF
<1>1. IInv => OpenIsHeld
  BY HeldIs DEF IInv
<1> QED
  BY <1>1, Invariance, PTL

\* Between two transactions no message generator is left in the middle, so that a command
\* that is queued again starts from its first message (Transaction.reset, Driver.ts).
THEOREM NoneIsContinued == Spec => []NothingIsContinued
PROOF
<1>1. ASSUME IInv
      PROVE  NothingIsContinued
  <2>1. ASSUME active = Nothing, NEW c \in Command
        PROVE  ~generator[c]
    <3>1. active.command \notin Command
      BY <2>1, SendThreadAssumption DEF Nothing
    <3> QED
      BY <1>1, <3>1 DEF IInv, GeneratorIsActive
  <2> QED
    BY <2>1 DEF NothingIsContinued
<1> QED
  BY <1>1, Invariance, PTL

\* Only a missing acknowledgement lets a node die, and then its commands leave the queue.
LEMMA StepClears ==
    ASSUME IInv, [Next]_vars, NEW n \in Node, status'[n] = "Dead", status[n] # "Dead"
    PROVE  \A c \in Commands(queue') : NodeOf[c] # n
PROOF
<1> DEFINE KeepsLife == \A m \in Node : status'[m] = "Dead" => status[m] = "Dead"
<1>1. status \in [Node -> {"Unknown", "Alive", "Dead", "Awake", "Asleep"}]
  BY DEF IInv, TypeOK
<1>2. \A m, v : status' = [status EXCEPT ![m] = v] /\ v # "Dead" => KeepsLife
  BY <1>1
<1>3. status' = status => KeepsLife
  OBVIOUS
<1> HIDE DEF KeepsLife
<1>4. NoAcknowledgement \/ KeepsLife
  <2>1. ASSUME LoopStep, ~NoAcknowledgement
        PROVE  KeepsLife
    <3>1. CASE Acknowledged
      <4> DEFINE c == active.command
                 m == NodeOf[c]
                 value == IF m \in CanSleep THEN "Awake" ELSE "Alive"
      <4>1. \/ status' = status
            \/ status' = [status EXCEPT ![m] = "Awake"]
            \/ status' = [status EXCEPT ![m] = value]
        BY <3>1 DEF Acknowledged, WakeUp
      <4> QED
        BY <1>2, <1>3, <4>1
    <3>2. CASE Take \/ Start \/ SendAgain \/ Drop \/ UpdateEnds \/ NodeIsBusy
      BY <1>3, <3>2 DEF Take, Start, SendAgain, Drop, UpdateEnds, NodeIsBusy
    <3> QED
      BY <2>1, <3>1, <3>2 DEF LoopStep
  <2>2. ASSUME NEW c \in Command, Send(c) \/ SendToSleep(c) \/ Expire(c)
        PROVE  KeepsLife
    BY <1>3, <2>2 DEF Send, SendToSleep, Enqueue, Expire
  <2>3. ASSUME NEW m \in Node,
               Leave(m) \/ BusyReport(m) \/ NodeWakesUp(m) \/ NodeIsAlive(m)
        PROVE  KeepsLife
    <3>1. CASE Leave(m)
      BY <1>2, <1>3, <3>1 DEF Leave, FallAsleep
    <3>2. CASE BusyReport(m)
      BY <1>3, <3>2 DEF BusyReport
    <3>3. CASE NodeWakesUp(m)
      BY <1>2, <3>3 DEF NodeWakesUp, WakeUp
    <3>4. CASE NodeIsAlive(m)
      BY <1>2, <3>4 DEF NodeIsAlive
    <3> QED
      BY <2>3, <3>1, <3>2, <3>3, <3>4
  <2>4. ASSUME NEW i \in DOMAIN deferred, RequeueTimer(i)
        PROVE  KeepsLife
    BY <1>3, <2>4 DEF RequeueTimer
  <2>5. Return \/ ChangeInclusion \/ UNCHANGED vars => KeepsLife
    BY <1>3 DEF Return, ChangeInclusion, vars
  <2> QED
    BY <2>1, <2>2, <2>3, <2>4, <2>5 DEF Next
<1>5. NoAcknowledgement
  BY <1>4 DEF KeepsLife
<1> QED
  BY <1>5, NoAcknowledgementKeeps

\* When a node is given up as dead, reduceQueue takes all its commands out of the queue
\* (Driver.rejectAllTransactionsForNode).
THEOREM DeadClearsQueue == Spec => DeadNodeIsCleared
PROOF
<1> DEFINE Cleared == \A n \in Node : status'[n] = "Dead" /\ status[n] # "Dead" =>
                            \A i \in DOMAIN queue' : NodeOfEntry(queue'[i]) # n
<1>1. IInv /\ [Next]_vars => Cleared
  <2> SUFFICES ASSUME IInv, [Next]_vars, NEW n \in Node, status'[n] = "Dead",
                      status[n] # "Dead", NEW i \in DOMAIN queue'
               PROVE  NodeOfEntry(queue'[i]) # n
    OBVIOUS
  <2>1. \A c \in Commands(queue') : NodeOf[c] # n
    BY StepClears
  <2>2. queue'[i].command \in Commands(queue')
    BY DEF Commands, ToSet
  <2> QED
    BY <2>1, <2>2 DEF NodeOfEntry
<1>2. Spec => [][Cleared]_vars
  <2> HIDE DEF Cleared
  <2> QED
    BY <1>1, Invariance, PTL DEF Spec
<1> QED
  BY <1>2 DEF DeadNodeIsCleared

-----------------------------------------------------------------------------
(* Relations between the entries of a queue *)

\* Each entry is related to those behind it.
Pairs(R, q) == \A i, j \in DOMAIN q : i < j => <<q[i], q[j]>> \in R

\* If e is inserted before the first of the entries of F before which it sorts, it is related to
\* those behind it, and those in front of it are related to it.
MayJoin(s, e, F, R) ==
    \A f \in F :
        /\ ~SortsBefore(s, e, f) => <<f, e>> \in R
        /\ SortsBefore(s, e, f) =>
                <<e, f>> \in R /\ \A g \in F : <<f, g>> \in R => <<e, g>> \in R

LEMMA AppendPairs ==
    ASSUME NEW S, NEW q \in Seq(S), NEW e \in S, NEW R, Pairs(R, q),
           \A j \in DOMAIN q : <<q[j], e>> \in R
    PROVE  Pairs(R, Append(q, e))
PROOF
<1>1. /\ DOMAIN q = 1..Len(q) /\ Len(q) \in Nat
      /\ DOMAIN Append(q, e) = 1..Len(q) + 1
      /\ \A j \in 1..Len(q) : Append(q, e)[j] = q[j]
      /\ Append(q, e)[Len(q) + 1] = e
  BY AppendProperties
<1>2. ASSUME NEW i \in 1..Len(q) + 1, NEW j \in 1..Len(q) + 1, i < j
      PROVE  <<Append(q, e)[i], Append(q, e)[j]>> \in R
  <2>1. i \in 1..Len(q) /\ (j \in 1..Len(q) \/ j = Len(q) + 1)
    BY <1>1, <1>2
  <2> QED
    BY <1>1, <1>2, <2>1 DEF Pairs
<1> QED
  BY <1>1, <1>2 DEF Pairs

LEMMA InsertAtElements ==
    ASSUME NEW S, NEW q \in Seq(S), NEW e \in S, NEW i \in 1..Len(q)
    PROVE  /\ DOMAIN InsertAt(q, i, e) = 1..Len(q) + 1
           /\ \A j \in 1..Len(q) + 1 : InsertAt(q, i, e)[j] =
                    IF j < i THEN q[j] ELSE IF j = i THEN e ELSE q[j - 1]
PROOF
<1> DEFINE front == SubSeq(q, 1, i - 1)
           back == SubSeq(q, i, Len(q))
           start == front \o <<e>>
           all == start \o back
<1>1. Len(q) \in Nat /\ i \in Nat /\ 1 <= i /\ i <= Len(q) /\ DOMAIN q = 1..Len(q)
  OBVIOUS
<1>2. /\ front \in Seq(S) /\ Len(front) = i - 1
      /\ \A j \in 1..i - 1 : front[j] = q[j]
  BY <1>1, SubSeqProperties
<1>3. /\ back \in Seq(S) /\ Len(back) = Len(q) - i + 1
      /\ \A j \in 1..Len(q) - i + 1 : back[j] = q[j + i - 1]
  BY <1>1, SubSeqProperties
<1>4. InsertAt(q, i, e) = all
  BY DEF InsertAt
<1>5. <<e>> \in Seq(S) /\ Len(<<e>>) = 1 /\ <<e>>[1] = e
  OBVIOUS
<1> HIDE DEF front, back
<1>6. /\ start \in Seq(S) /\ Len(start) = Len(front) + 1
      /\ \A j \in 1..Len(front) + 1 :
            start[j] = IF j <= Len(front) THEN front[j] ELSE <<e>>[j - Len(front)]
  <2> DEFINE one == <<e>>
  <2>1. one \in Seq(S) /\ Len(one) = 1
    BY <1>5
  <2> HIDE DEF one
  <2>2. /\ front \o one \in Seq(S) /\ Len(front \o one) = Len(front) + Len(one)
        /\ \A j \in 1..Len(front) + Len(one) :
            (front \o one)[j] = IF j <= Len(front) THEN front[j] ELSE one[j - Len(front)]
    BY <1>2, <2>1, ConcatProperties, Zenon
  <2> QED
    BY <2>1, <2>2 DEF one
<1>7. \A j \in 1..i : start[j] = IF j < i THEN q[j] ELSE e
  <2> HIDE DEF start
  <2> TAKE j \in 1..i
  <2>1. CASE j < i
    BY <1>1, <1>2, <1>6, <2>1
  <2>2. CASE ~(j < i)
    <3>1. j = i /\ j - Len(front) = 1
      BY <1>1, <1>2, <2>2
    <3> QED
      BY <1>1, <1>2, <1>5, <1>6, <2>2, <3>1
  <2> QED
    BY <2>1, <2>2
<1> HIDE DEF start
<1>8. Len(start) = i
  BY <1>1, <1>2, <1>6
<1>9. /\ all \in Seq(S) /\ Len(all) = Len(start) + Len(back)
      /\ \A j \in 1..Len(start) + Len(back) :
            all[j] = IF j <= Len(start) THEN start[j] ELSE back[j - Len(start)]
  BY <1>3, <1>6, ConcatProperties, Zenon
<1> HIDE DEF all
<1>10. Len(start) + Len(back) = Len(q) + 1
  BY <1>1, <1>3, <1>8
<1>11. DOMAIN all = 1..Len(q) + 1
  BY <1>9, <1>10
<1>12. ASSUME NEW j \in 1..Len(q) + 1
       PROVE  all[j] = IF j < i THEN q[j] ELSE IF j = i THEN e ELSE q[j - 1]
  <2>1. CASE j <= i
    BY <1>1, <1>7, <1>8, <1>9, <1>10, <2>1
  <2>2. CASE ~(j <= i)
    <3>1. j - i \in 1..Len(q) - i + 1 /\ (j - i) + i - 1 = j - 1
      BY <1>1, <2>2
    <3>2. all[j] = back[j - i]
      BY <1>1, <1>8, <1>9, <1>10, <2>2
    <3> QED
      BY <1>1, <1>3, <2>2, <3>1, <3>2
  <2> QED
    BY <2>1, <2>2
<1> QED
  BY <1>4, <1>11, <1>12

LEMMA InsertPairs ==
    ASSUME NEW s, NEW S, NEW q \in Seq(S), NEW e \in S, NEW R, Pairs(R, q),
           MayJoin(s, e, ToSet(q), R)
    PROVE  Pairs(R, Insert(s, q, e))
PROOF
<1> DEFINE I == {i \in 1..Len(q) : SortsBefore(s, e, q[i])}
           i == SelectInSeq(q, LAMBDA f : SortsBefore(s, e, f))
<1>1. i = IF I # {} THEN Min(I) ELSE 0
  BY DEF SelectInSeq
<1>2. I \in SUBSET Nat /\ Len(q) \in Nat /\ DOMAIN q = 1..Len(q)
  OBVIOUS
<1>3. Insert(s, q, e) = IF i = 0 THEN Append(q, e) ELSE InsertAt(q, i, e)
  BY DEF Insert
<1>4. \A j \in 1..Len(q) : q[j] \in ToSet(q)
  BY <1>2 DEF ToSet
<1>5. \A j \in 1..Len(q) : j \in I <=> SortsBefore(s, e, q[j])
  OBVIOUS
<1> HIDE DEF I, i
<1>6. CASE I = {}
  <2>1. \A j \in DOMAIN q : <<q[j], e>> \in R
    BY <1>2, <1>4, <1>5, <1>6 DEF MayJoin
  <2>2. Insert(s, q, e) = Append(q, e)
    BY <1>1, <1>3, <1>6
  <2> QED
    BY <2>1, <2>2, AppendPairs
<1>7. CASE I # {}
  <2>1. i \in I /\ \A j \in I : i <= j
    <3>1. PICK k \in I : \A j \in I : k <= j
      BY <1>2, <1>7, FirstExists
    <3>2. i = Min(I)
      BY <1>1, <1>7
    <3>3. \E l \in I : \A j \in I : l <= j
      BY <3>1
    <3> QED
      BY <3>2, <3>3 DEF Min
  <2>2. i \in 1..Len(q) /\ i # 0
    BY <2>1 DEF I
  <2>3. SortsBefore(s, e, q[i])
    BY <1>5, <2>1, <2>2
  <2> DEFINE r == InsertAt(q, i, e)
  <2>4. /\ DOMAIN r = 1..Len(q) + 1
        /\ \A j \in 1..Len(q) + 1 : r[j] = IF j < i THEN q[j] ELSE IF j = i THEN e ELSE q[j - 1]
    BY <2>2, InsertAtElements
  <2> HIDE DEF r
  <2>5. ASSUME NEW j \in 1..Len(q), j < i
        PROVE  <<q[j], e>> \in R
    <3>1. j \notin I
      BY <1>2, <2>1, <2>2, <2>5
    <3> QED
      BY <1>4, <1>5, <3>1 DEF MayJoin
  <2>6. ASSUME NEW j \in 1..Len(q), i <= j
        PROVE  <<e, q[j]>> \in R
    <3>1. <<e, q[i]>> \in R /\ \A g \in ToSet(q) : <<q[i], g>> \in R => <<e, g>> \in R
      BY <1>4, <2>2, <2>3 DEF MayJoin
    <3>2. CASE i < j
      BY <1>2, <1>4, <2>2, <3>1, <3>2 DEF Pairs
    <3> QED
      BY <2>2, <2>6, <3>1, <3>2
  <2>7. ASSUME NEW j \in 1..Len(q) + 1, NEW k \in 1..Len(q) + 1, j < k
        PROVE  <<r[j], r[k]>> \in R
    <3>1. CASE k < i
      <4>1. j \in 1..Len(q) /\ k \in 1..Len(q) /\ j < i
        BY <1>2, <2>2, <2>7, <3>1
      <4> QED
        BY <1>2, <2>4, <2>7, <3>1, <4>1 DEF Pairs
    <3>2. CASE k = i
      <4>1. j \in 1..Len(q) /\ j < i /\ r[j] = q[j] /\ r[k] = e
        BY <1>2, <2>2, <2>4, <2>7, <3>2
      <4> QED
        BY <2>5, <4>1
    <3>3. CASE i < k
      <4>1. k - 1 \in 1..Len(q) /\ i <= k - 1 /\ r[k] = q[k - 1]
        BY <1>2, <2>2, <2>4, <3>3
      <4>2. CASE j < i
        <5>1. j \in 1..Len(q) /\ j < k - 1 /\ r[j] = q[j]
          BY <1>2, <2>2, <2>4, <4>1, <4>2
        <5> QED
          BY <1>2, <4>1, <5>1 DEF Pairs
      <4>3. CASE j = i
        <5>1. r[j] = e
          BY <2>4, <4>3
        <5> QED
          BY <2>6, <4>1, <5>1
      <4>4. CASE i < j
        <5>1. j - 1 \in 1..Len(q) /\ j - 1 < k - 1 /\ r[j] = q[j - 1]
          BY <1>2, <2>2, <2>4, <2>7, <4>4
        <5> QED
          BY <1>2, <4>1, <5>1 DEF Pairs
      <4> QED
        BY <2>2, <4>2, <4>3, <4>4
    <3> QED
      BY <2>2, <3>1, <3>2, <3>3
  <2>8. Pairs(R, r)
    BY <2>4, <2>7 DEF Pairs
  <2>9. Insert(s, q, e) = r
    BY <1>3, <2>2 DEF r
  <2> QED
    BY <2>8, <2>9
<1> QED
  BY <1>6, <1>7

LEMMA InsertAllPairs ==
    ASSUME NEW s, NEW q \in Seq(Entry), NEW es \in Seq(Entry), NEW R, Pairs(R, q),
           \A k \in 1..Len(es) : MayJoin(s, es[k], ToSet(q) \cup {es[i] : i \in 1..(k - 1)}, R)
    PROVE  Pairs(R, InsertAll(s, q, es))
PROOF
<1> DEFINE n == Len(es)
           members(k) == ToSet(q) \cup {es[i] : i \in 1..k}
           V == [k \in 0..n |-> {r \in Seq(Entry) : ToSet(r) = members(k) /\ Pairs(R, r)}]
<1>1. PICK h : Insertions(h, s, q, es)
  BY InsertAllStages
<1>2. n \in Nat /\ 0 \in 0..n /\ n \in 0..n /\ \A i \in 1..n : es[i] \in Entry
  OBVIOUS
<1>3. h[0] \in V[0]
  <2>1. h[0] = q /\ 1..0 = {}
    BY <1>1 DEF Insertions
  <2> QED
    BY <1>2, <2>1
<1>4. ASSUME NEW k \in 1..n, h[k - 1] \in V[k - 1]
      PROVE  h[k] \in V[k]
  <2>1. k \in 0..n /\ k - 1 \in 0..n /\ 1..k = (1..(k - 1)) \cup {k}
    OBVIOUS
  <2>2. h[k - 1] \in Seq(Entry) /\ ToSet(h[k - 1]) = members(k - 1) /\ Pairs(R, h[k - 1])
    BY <1>4, <2>1
  <2>3. h[k] = Insert(s, h[k - 1], es[k]) /\ es[k] \in Entry
    BY <1>1, <1>2 DEF Insertions
  <2>4. MayJoin(s, es[k], members(k - 1), R)
    OBVIOUS
  <2>5. members(k) = members(k - 1) \cup {es[k]}
    BY <2>1
  <2> DEFINE all == members(k)
             before == members(k - 1)
  <2> HIDE DEF n, V, members
  <2>6. h[k] \in Seq(Entry) /\ ToSet(h[k]) = members(k)
    BY <2>2, <2>3, <2>5, InsertIs
  <2>7. Pairs(R, h[k])
    BY <2>2, <2>3, <2>4, InsertPairs
  <2> QED
    BY <2>1, <2>6, <2>7 DEF V
<1>5. h[n] \in V[n]
  <2> HIDE DEF n, V
  <2> QED
    BY <1>2, <1>3, <1>4, StagesHold
<1>6. h[n] = InsertAll(s, q, es)
  BY <1>1 DEF Insertions
<1> QED
  BY <1>2, <1>5, <1>6

LEMMA SelectedPairs ==
    ASSUME NEW q \in Seq(Entry), NEW chosen, NEW R, Pairs(R, q)
    PROVE  Pairs(R, Selected(q, chosen))
PROOF
<1> DEFINE n == Len(q)
           V == [k \in 0..n |->
                    {r \in Seq(Entry) : ToSet(r) \subseteq {q[i] : i \in 1..k} /\ Pairs(R, r)}]
<1>1. PICK h : /\ h[0] = <<>> /\ h[n] = Selected(q, chosen)
               /\ \A k \in 1..n :
                    h[k] = IF q[k] \in chosen THEN Append(h[k - 1], q[k]) ELSE h[k - 1]
  BY SelectedStages
<1>2. n \in Nat /\ 0 \in 0..n /\ n \in 0..n /\ DOMAIN q = 1..n /\ \A i \in 1..n : q[i] \in Entry
  OBVIOUS
<1>3. h[0] \in V[0]
  <2>1. h[0] \in Seq(Entry) /\ ToSet(h[0]) = {}
    BY <1>1, EmptyIs
  <2>2. Pairs(R, h[0])
    BY <1>1 DEF Pairs
  <2> QED
    BY <1>2, <2>1, <2>2
<1>4. ASSUME NEW k \in 1..n, h[k - 1] \in V[k - 1]
      PROVE  h[k] \in V[k]
  <2>1. k \in 0..n /\ k - 1 \in 0..n /\ 1..k = (1..(k - 1)) \cup {k}
    OBVIOUS
  <2> DEFINE r == h[k - 1]
  <2>2. r \in Seq(Entry) /\ ToSet(r) \subseteq {q[i] : i \in 1..(k - 1)} /\ Pairs(R, r)
    BY <1>4, <2>1
  <2>3. q[k] \in Entry /\ h[k] = IF q[k] \in chosen THEN Append(r, q[k]) ELSE r
    BY <1>1, <1>2
  <2>4. {q[i] : i \in 1..k} = {q[i] : i \in 1..(k - 1)} \cup {q[k]}
    BY <2>1
  <2> HIDE DEF r
  <2>5. CASE q[k] \in chosen
    <3>1. \A j \in DOMAIN r : <<r[j], q[k]>> \in R
      <4> TAKE j \in DOMAIN r
      <4>1. r[j] \in {q[i] : i \in 1..(k - 1)}
        BY <2>2 DEF ToSet
      <4>2. PICK i \in 1..(k - 1) : r[j] = q[i]
        BY <4>1
      <4>3. i \in DOMAIN q /\ k \in DOMAIN q /\ i < k
        BY <1>2
      <4> QED
        BY <4>2, <4>3 DEF Pairs
    <3>2. h[k] = Append(r, q[k])
      BY <2>3, <2>5
    <3>3. Pairs(R, h[k])
      BY <2>2, <2>3, <3>1, <3>2, AppendPairs
    <3>4. h[k] \in Seq(Entry) /\ ToSet(h[k]) = ToSet(r) \cup {q[k]}
      BY <2>2, <2>3, <3>2, AppendIs
    <3>5. ToSet(h[k]) \subseteq {q[i] : i \in 1..k}
      BY <2>2, <2>4, <3>4
    <3> QED
      BY <2>1, <3>3, <3>4, <3>5
  <2>6. CASE q[k] \notin chosen
    <3>1. h[k] = r /\ ToSet(r) \subseteq {q[i] : i \in 1..k}
      BY <2>2, <2>3, <2>4, <2>6
    <3> QED
      BY <2>1, <2>2, <3>1
  <2> QED
    BY <2>5, <2>6
<1>5. h[n] \in V[n]
  <2> HIDE DEF n, V
  <2> QED
    BY <1>2, <1>3, <1>4, StagesHold
<1> QED
  BY <1>1, <1>2, <1>5

LEMMA ConcatPairs ==
    ASSUME NEW S, NEW q \in Seq(S), NEW r \in Seq(S), NEW R, Pairs(R, q), Pairs(R, r),
           \A e \in ToSet(q), f \in ToSet(r) : <<e, f>> \in R
    PROVE  Pairs(R, q \o r)
PROOF
<1>1. Len(q) \in Nat /\ Len(r) \in Nat /\ DOMAIN q = 1..Len(q) /\ DOMAIN r = 1..Len(r)
  OBVIOUS
<1> DEFINE t == q \o r
<1>2. /\ t \in Seq(S) /\ Len(t) = Len(q) + Len(r)
      /\ \A i \in 1..Len(q) + Len(r) :
            t[i] = IF i <= Len(q) THEN q[i] ELSE r[i - Len(q)]
  BY ConcatProperties, Zenon
<1> HIDE DEF t
<1>3. DOMAIN t = 1..Len(q) + Len(r)
  BY <1>2
<1>4. ASSUME NEW i \in DOMAIN t, i <= Len(q)
      PROVE  i \in DOMAIN q /\ t[i] = q[i] /\ t[i] \in ToSet(q)
  BY <1>1, <1>2, <1>3, <1>4 DEF ToSet
<1>5. ASSUME NEW i \in DOMAIN t, ~(i <= Len(q))
      PROVE  i - Len(q) \in DOMAIN r /\ t[i] = r[i - Len(q)] /\ t[i] \in ToSet(r)
  BY <1>1, <1>2, <1>3, <1>5 DEF ToSet
<1>6. ASSUME NEW i \in DOMAIN t, NEW j \in DOMAIN t, i < j
      PROVE  <<t[i], t[j]>> \in R
  <2>1. CASE j <= Len(q)
    <3>1. i <= Len(q)
      BY <1>1, <1>3, <1>6, <2>1
    <3> QED
      BY <1>4, <1>6, <2>1, <3>1 DEF Pairs
  <2>2. CASE i <= Len(q) /\ ~(j <= Len(q))
    BY <1>4, <1>5, <2>2
  <2>3. CASE ~(i <= Len(q))
    <3>1. ~(j <= Len(q)) /\ i - Len(q) < j - Len(q)
      BY <1>1, <1>3, <1>6, <2>3
    <3> QED
      BY <1>5, <2>3, <3>1 DEF Pairs
  <2> QED
    BY <2>1, <2>2, <2>3
<1> QED
  BY <1>6 DEF Pairs, t

LEMMA RemoveAtElements ==
    ASSUME NEW S, NEW q \in Seq(S), NEW i \in DOMAIN q
    PROVE  /\ DOMAIN RemoveAt(q, i) = 1..(Len(q) - 1)
           /\ \A j \in 1..(Len(q) - 1) :
                RemoveAt(q, i)[j] = q[IF j < i THEN j ELSE j + 1]
PROOF
<1> DEFINE front == SubSeq(q, 1, i - 1)
           back == SubSeq(q, i + 1, Len(q))
           t == front \o back
<1>1. Len(q) \in Nat /\ i \in Nat /\ 1 <= i /\ i <= Len(q) /\ DOMAIN q = 1..Len(q)
  OBVIOUS
<1>2. /\ front \in Seq(S) /\ Len(front) = i - 1
      /\ \A j \in 1..i - 1 : front[j] = q[j]
  BY <1>1, SubSeqProperties
<1>3. /\ back \in Seq(S) /\ Len(back) = Len(q) - i
      /\ \A j \in 1..Len(q) - i : back[j] = q[j + i]
  <2>1. i + 1 \in 1..Len(q) + 1
    BY <1>1
  <2>2. /\ SubSeq(q, i + 1, Len(q)) \in Seq(S)
        /\ Len(SubSeq(q, i + 1, Len(q))) = IF i + 1 <= Len(q) THEN Len(q) - (i + 1) + 1 ELSE 0
        /\ \A j \in 1..Len(q) - (i + 1) + 1 : SubSeq(q, i + 1, Len(q))[j] = q[i + 1 + j - 1]
    BY <1>1, <2>1, SubSeqProperties
  <2>3. Len(q) - (i + 1) + 1 = Len(q) - i
    BY <1>1
  <2>4. Len(back) = Len(q) - i
    BY <1>1, <2>2
  <2> QED
    BY <1>1, <2>2, <2>3, <2>4
<1> HIDE DEF front, back
<1>4. /\ t \in Seq(S) /\ Len(t) = Len(front) + Len(back)
      /\ \A j \in 1..Len(front) + Len(back) :
            t[j] = IF j <= Len(front) THEN front[j] ELSE back[j - Len(front)]
  BY <1>2, <1>3, ConcatProperties, Zenon
<1>5. RemoveAt(q, i) = t
  BY DEF RemoveAt, front, back
<1> HIDE DEF t
<1>6. Len(t) = Len(q) - 1 /\ DOMAIN t = 1..(Len(q) - 1)
  BY <1>1, <1>2, <1>3, <1>4
<1>7. ASSUME NEW j \in 1..(Len(q) - 1)
      PROVE  t[j] = q[IF j < i THEN j ELSE j + 1]
  <2>1. CASE j < i
    BY <1>1, <1>2, <1>3, <1>4, <2>1
  <2>2. CASE ~(j < i)
    <3>1. /\ ~(j <= Len(front)) /\ j - Len(front) \in 1..(Len(q) - i)
          /\ (j - Len(front)) + i = j + 1
      BY <1>1, <1>2, <2>2
    <3>2. j \in 1..Len(front) + Len(back)
      BY <1>1, <1>2, <1>3
    <3>3. t[j] = back[j - Len(front)]
      BY <1>4, <3>1, <3>2
    <3>4. back[j - Len(front)] = q[(j - Len(front)) + i]
      BY <1>3, <3>1
    <3> QED
      BY <2>2, <3>1, <3>3, <3>4
  <2> QED
    BY <2>1, <2>2
<1> QED
  BY <1>5, <1>6, <1>7

LEMMA RemoveAtPairs ==
    ASSUME NEW S, NEW q \in Seq(S), NEW i \in DOMAIN q, NEW R, Pairs(R, q)
    PROVE  /\ Pairs(R, RemoveAt(q, i))
           /\ \A k \in DOMAIN RemoveAt(q, i) :
                \E j \in DOMAIN q : j # i /\ RemoveAt(q, i)[k] = q[j]
PROOF
<1> DEFINE t == RemoveAt(q, i)
           place(k) == IF k < i THEN k ELSE k + 1
<1>1. Len(q) \in Nat /\ i \in Nat /\ DOMAIN q = 1..Len(q)
  OBVIOUS
<1>2. DOMAIN t = 1..(Len(q) - 1) /\ \A k \in 1..(Len(q) - 1) : t[k] = q[place(k)]
  BY RemoveAtElements
<1> HIDE DEF t
<1>3. \A k \in 1..(Len(q) - 1) : place(k) \in DOMAIN q /\ place(k) # i
  BY <1>1
<1>4. \A k, l \in 1..(Len(q) - 1) : k < l => place(k) < place(l)
  BY <1>1
<1> HIDE DEF place
<1>5. Pairs(R, t)
  BY <1>2, <1>3, <1>4 DEF Pairs
<1> QED
  BY <1>2, <1>3, <1>5 DEF t

-----------------------------------------------------------------------------
(* The order of the queue *)

(***************************************************************************)
(* The loop looks at the head of the list only, which is sorted by the     *)
(* status that the nodes had when entries were inserted.  So every change  *)
(* of a status has to leave the list as sorting by the new status would.   *)
(* SleepersAnnounce and OnePinged are what this needs of the network, and  *)
(* that nobody is interviewed (Calm), or that the commands are of one kind *)
(* (OneKind), is what it needs of the commands: without them compareTo is  *)
(* no order, or the driver does not keep to it, and the results do not     *)
(* hold.                                                                   *)
(***************************************************************************)

\* All nodes that can sleep announce that they woke up.
SleepersAnnounce == CanSleep = SupportsWakeUp
\* Pings for several nodes make compareTo intransitive.
OnePinged == \A c, d \in Ping : NodeOf[c] = NodeOf[d]

\* The entries that the driver makes.
Proper == {e \in Entry : e.priority = PriorityOf(e.command)}

\* Those of some commands.
Of(commands) == {e \in Proper : e.command \in commands}
\* No command is part of an interview.
Calm == ToSet(created) \cap Interview = {}

Sleeping(s, e) == s[NodeOfEntry(e)] = "Asleep"
Listening(e) == NodeOfEntry(e) \notin CanSleep
Blocked(s, e) == e.command \notin Ping /\ Sleeping(s, e) /\ NodeOfEntry(e) \in SupportsWakeUp

\* e may be in front of f, where there are the commands of a set.
InOrder(s, commands, e, f) ==
    /\ Blocked(s, e) => Blocked(s, f)
    /\ OnePinged /\ OneKind(commands) => ~SortsBefore(s, f, e)
Order(s, commands) == {p \in Entry \X Entry : InOrder(s, commands, p[1], p[2])}

\* Only nodes that can sleep are asleep.
OnlySleepersAsleep(s) == \A n \in Node : s[n] = "Asleep" => n \in CanSleep

LEMMA TimeIs ==
    ASSUME TypeOK, NEW c \in Command
    PROVE  CreationTime(c) \in Nat
PROOF
<1> DEFINE r == Append(created, c)
           I == {i \in 1..Len(r) : r[i] = c}
<1>1. CreationTime(c) = IF I # {} THEN Min(I) ELSE 0
  BY DEF CreationTime, SelectInSeq
<1>2. I \in SUBSET Nat
  OBVIOUS
<1> HIDE DEF I
<1>3. I # {} => Min(I) \in Nat
  BY <1>2, MinIsIn
<1> QED
  BY <1>1, <1>3

\* What compareTo computes when both transactions are held back, or none is.
Precedes(s, e, f) ==
    \/ /\ e.priority = "WakeUp" \/ f.priority = "WakeUp"
       /\ ~Sleeping(s, e) /\ Sleeping(s, f)
    \/ /\ e.priority = "WakeUp" \/ f.priority = "WakeUp" => (Sleeping(s, e) <=> Sleeping(s, f))
       /\ e.priority = "NodeQuery" \/ f.priority = "NodeQuery"
       /\ Listening(e) /\ ~Listening(f)
    \/ /\ e.priority = "WakeUp" \/ f.priority = "WakeUp" => (Sleeping(s, e) <=> Sleeping(s, f))
       /\ e.priority = "NodeQuery" \/ f.priority = "NodeQuery" => (Listening(e) <=> Listening(f))
       /\ \/ e.priority = "Ping" /\ f.priority \in {"WakeUp", "Normal", "NodeQuery"}
          \/ e.priority = "WakeUp" /\ f.priority \in {"Normal", "NodeQuery"}
          \/ e.priority = "Normal" /\ f.priority = "NodeQuery"
          \/ /\ e.priority = f.priority
             /\ CreationTime(e.command) < CreationTime(f.command)

LEMMA SortsIs ==
    ASSUME NEW s, NEW e \in Entry, NEW f \in Entry
    PROVE  SortsBefore(s, e, f) <=> \/ ~MustHold(e) /\ MustHold(f)
                                    \/ (MustHold(e) <=> MustHold(f)) /\ Precedes(s, e, f)
PROOF
<1>1. /\ e.priority \in {"Ping", "WakeUp", "Normal", "NodeQuery"}
      /\ f.priority \in {"Ping", "WakeUp", "Normal", "NodeQuery"}
  BY DEF Entry, Priority
<1>2. Rank("Ping") = 1 /\ Rank("WakeUp") = 2 /\ Rank("Normal") = 3 /\ Rank("NodeQuery") = 4
  BY DEF Rank
<1> DEFINE early == CreationTime(e.command) < CreationTime(f.command)
           urgent == IF e.priority # f.priority THEN Rank(e.priority) < Rank(f.priority)
                     ELSE early
<1>3. SortsBefore(s, e, f) <=>
        IF MustHold(e) # MustHold(f) THEN MustHold(f)
        ELSE IF "WakeUp" \in {e.priority, f.priority} /\ (Sleeping(s, e) # Sleeping(s, f))
        THEN Sleeping(s, f)
        ELSE IF "NodeQuery" \in {e.priority, f.priority} /\ (Listening(e) # Listening(f))
        THEN Listening(e)
        ELSE urgent
  BY Zenon DEF SortsBefore, Sleeping, Listening
<1>4. /\ Sleeping(s, e) \in BOOLEAN /\ Sleeping(s, f) \in BOOLEAN
      /\ Listening(e) \in BOOLEAN /\ Listening(f) \in BOOLEAN
      /\ MustHold(e) \in BOOLEAN /\ MustHold(f) \in BOOLEAN
  BY DEF Sleeping, Listening, MustHold
<1> HIDE DEF early
<1>5. urgent <=> \/ e.priority = "Ping" /\ f.priority \in {"WakeUp", "Normal", "NodeQuery"}
                 \/ e.priority = "WakeUp" /\ f.priority \in {"Normal", "NodeQuery"}
                 \/ e.priority = "Normal" /\ f.priority = "NodeQuery"
                 \/ e.priority = f.priority /\ early
  <2>1. CASE e.priority = "Ping"
    BY <1>1, <1>2, <2>1
  <2>2. CASE e.priority = "WakeUp"
    BY <1>1, <1>2, <2>2
  <2>3. CASE e.priority = "Normal"
    BY <1>1, <1>2, <2>3
  <2>4. CASE e.priority = "NodeQuery"
    BY <1>1, <1>2, <2>4
  <2> QED
    BY <1>1, <2>1, <2>2, <2>3, <2>4
<1> HIDE DEF urgent
<1>6. Precedes(s, e, f) <=>
        IF (e.priority = "WakeUp" \/ f.priority = "WakeUp") /\ (Sleeping(s, e) # Sleeping(s, f))
        THEN Sleeping(s, f)
        ELSE IF /\ e.priority = "NodeQuery" \/ f.priority = "NodeQuery"
                /\ Listening(e) # Listening(f)
        THEN Listening(e)
        ELSE urgent
  BY <1>4, <1>5 DEF Precedes, early
<1> QED
  BY <1>3, <1>4, <1>6

\* Nothing is held back where nobody is interviewed.
LEMMA NoneIsHeld ==
    ASSUME NEW C, C \cap Interview = {}, NEW s, NEW e \in Of(C), NEW f \in Of(C)
    PROVE  /\ ~MustHold(e)
           /\ SortsBefore(s, e, f) <=> Precedes(s, e, f)
PROOF
<1>1. ~MustHold(e) /\ ~MustHold(f) /\ e \in Entry /\ f \in Entry
  BY DEF MustHold, Of, Proper
<1> QED
  BY <1>1, SortsIs

LEMMA ProperIs ==
    ASSUME SleepersAnnounce, NEW s, OnlySleepersAsleep(s), NEW e \in Proper
    PROVE  /\ e \in Entry /\ e.command \in Command /\ NodeOfEntry(e) \in Node
           /\ e.priority \in {"Ping", "WakeUp", "Normal", "NodeQuery"}
           /\ e.priority = "Ping" <=> e.command \in Ping
           /\ e.priority = "NodeQuery" => e.command \in NodeQuery
           /\ e.priority \in {"Normal", "NodeQuery"} => Listening(e)
           /\ Listening(e) => ~Sleeping(s, e)
           /\ Blocked(s, e) <=> e.priority = "WakeUp" /\ Sleeping(s, e)
PROOF
<1>1. e \in Entry /\ e.command \in Command /\ e.priority = PriorityOf(e.command)
  BY DEF Proper, Entry
<1>2. NodeOfEntry(e) \in Node
  BY <1>1, SendThreadAssumption DEF NodeOfEntry
<1>3. e.priority = IF e.command \in Ping THEN "Ping"
                   ELSE IF NodeOfEntry(e) \in SupportsWakeUp THEN "WakeUp"
                   ELSE IF e.command \in NodeQuery THEN "NodeQuery" ELSE "Normal"
  BY <1>1 DEF PriorityOf, NodeOfEntry
<1>4. Sleeping(s, e) => NodeOfEntry(e) \in SupportsWakeUp
  BY <1>2 DEF Sleeping, OnlySleepersAsleep, SleepersAnnounce
<1>5. Listening(e) <=> NodeOfEntry(e) \notin SupportsWakeUp
  BY DEF Listening, SleepersAnnounce
<1> QED
  BY <1>1, <1>2, <1>3, <1>4, <1>5 DEF Blocked

LEMMA PrecedesAcross ==
    ASSUME TypeOK, SleepersAnnounce, OnePinged, NEW s, OnlySleepersAsleep(s),
           NEW e \in Proper, NEW f \in Proper, NEW g \in Proper,
           OneKind({e.command, f.command, g.command}),
           Precedes(s, g, e), Precedes(s, e, f)
    PROVE  Precedes(s, g, f)
PROOF
<1> DEFINE priorities == {"Ping", "WakeUp", "Normal", "NodeQuery"}
<1>1. /\ e \in Entry /\ e.command \in Command /\ e.priority \in priorities
      /\ f \in Entry /\ f.command \in Command /\ f.priority \in priorities
      /\ g \in Entry /\ g.command \in Command /\ g.priority \in priorities
  BY ProperIs
<1>2. /\ e.priority = "Normal" => ~Sleeping(s, e)
      /\ f.priority = "Normal" => ~Sleeping(s, f)
      /\ g.priority = "Normal" => ~Sleeping(s, g)
  BY ProperIs
<1>3. \A x, y \in Proper : x.priority = "Ping" /\ y.priority = "Ping" =>
            (Sleeping(s, x) <=> Sleeping(s, y))
  <2> SUFFICES ASSUME NEW x \in Proper, NEW y \in Proper,
                      x.priority = "Ping", y.priority = "Ping"
               PROVE  Sleeping(s, x) <=> Sleeping(s, y)
    OBVIOUS
  <2>1. x.command \in Ping /\ y.command \in Ping
    BY ProperIs
  <2> QED
    BY <2>1 DEF OnePinged, Sleeping, NodeOfEntry
<1> DEFINE a == CreationTime(e.command)
           b == CreationTime(f.command)
           c == CreationTime(g.command)
<1>4. a \in Nat /\ b \in Nat /\ c \in Nat
  BY <1>1, TimeIs
<1>5. /\ e.priority = "Ping" /\ f.priority = "Ping" => (Sleeping(s, e) <=> Sleeping(s, f))
      /\ e.priority = "Ping" /\ g.priority = "Ping" => (Sleeping(s, e) <=> Sleeping(s, g))
      /\ f.priority = "Ping" /\ g.priority = "Ping" => (Sleeping(s, f) <=> Sleeping(s, g))
  BY <1>3
<1>6. \/ /\ e.priority # "NodeQuery" /\ f.priority # "NodeQuery" /\ g.priority # "NodeQuery"
      \/ /\ Listening(e) /\ Listening(f) /\ Listening(g)
         /\ ~Sleeping(s, e) /\ ~Sleeping(s, f) /\ ~Sleeping(s, g)
  <2>1. CASE {e.command, f.command, g.command} \cap NodeQuery = {}
    BY <2>1, ProperIs
  <2>2. CASE \A d \in {e.command, f.command, g.command} : NodeOf[d] \notin CanSleep
    <3>1. Listening(e) /\ Listening(f) /\ Listening(g)
      BY <2>2 DEF Listening, NodeOfEntry
    <3> QED
      BY <3>1, ProperIs
  <2> QED
    BY <2>1, <2>2 DEF OneKind
<1>7. CASE e.priority # "NodeQuery" /\ f.priority # "NodeQuery" /\ g.priority # "NodeQuery"
  <2>1. \/ (g.priority = "WakeUp" \/ e.priority = "WakeUp") /\ ~Sleeping(s, g) /\ Sleeping(s, e)
        \/ /\ (g.priority = "WakeUp" \/ e.priority = "WakeUp") =>
                    (Sleeping(s, g) <=> Sleeping(s, e))
           /\ \/ g.priority = "Ping" /\ e.priority \in {"WakeUp", "Normal"}
              \/ g.priority = "WakeUp" /\ e.priority = "Normal"
              \/ g.priority = e.priority /\ c < a
    BY <1>7 DEF Precedes
  <2>2. \/ (e.priority = "WakeUp" \/ f.priority = "WakeUp") /\ ~Sleeping(s, e) /\ Sleeping(s, f)
        \/ /\ (e.priority = "WakeUp" \/ f.priority = "WakeUp") =>
                    (Sleeping(s, e) <=> Sleeping(s, f))
           /\ \/ e.priority = "Ping" /\ f.priority \in {"WakeUp", "Normal"}
              \/ e.priority = "WakeUp" /\ f.priority = "Normal"
              \/ e.priority = f.priority /\ a < b
    BY <1>7 DEF Precedes
  <2>3. Precedes(s, g, f) <=>
        \/ (g.priority = "WakeUp" \/ f.priority = "WakeUp") /\ ~Sleeping(s, g) /\ Sleeping(s, f)
        \/ /\ (g.priority = "WakeUp" \/ f.priority = "WakeUp") =>
                    (Sleeping(s, g) <=> Sleeping(s, f))
           /\ \/ g.priority = "Ping" /\ f.priority \in {"WakeUp", "Normal"}
              \/ g.priority = "WakeUp" /\ f.priority = "Normal"
              \/ g.priority = f.priority /\ c < b
    BY <1>7 DEF Precedes
  <2>4. c < a /\ a < b => c < b
    BY <1>4
  <2> HIDE DEF a, b, c
  <2> QED
    BY <1>1, <1>2, <1>5, <1>7, <2>1, <2>2, <2>3, <2>4
<1>8. CASE /\ Listening(e) /\ Listening(f) /\ Listening(g)
           /\ ~Sleeping(s, e) /\ ~Sleeping(s, f) /\ ~Sleeping(s, g)
  <2>1. \/ g.priority = "Ping" /\ e.priority \in {"WakeUp", "Normal", "NodeQuery"}
        \/ g.priority = "WakeUp" /\ e.priority \in {"Normal", "NodeQuery"}
        \/ g.priority = "Normal" /\ e.priority = "NodeQuery"
        \/ g.priority = e.priority /\ c < a
    BY <1>8 DEF Precedes
  <2>2. \/ e.priority = "Ping" /\ f.priority \in {"WakeUp", "Normal", "NodeQuery"}
        \/ e.priority = "WakeUp" /\ f.priority \in {"Normal", "NodeQuery"}
        \/ e.priority = "Normal" /\ f.priority = "NodeQuery"
        \/ e.priority = f.priority /\ a < b
    BY <1>8 DEF Precedes
  <2>3. Precedes(s, g, f) <=>
        \/ g.priority = "Ping" /\ f.priority \in {"WakeUp", "Normal", "NodeQuery"}
        \/ g.priority = "WakeUp" /\ f.priority \in {"Normal", "NodeQuery"}
        \/ g.priority = "Normal" /\ f.priority = "NodeQuery"
        \/ g.priority = f.priority /\ c < b
    BY <1>8 DEF Precedes
  <2>4. c < a /\ a < b => c < b
    BY <1>4
  <2> HIDE DEF a, b, c
  <2> QED
    BY <1>1, <2>1, <2>2, <2>3, <2>4
<1> QED
  BY <1>6, <1>7, <1>8

\* No two transactions precede each other.
LEMMA PrecedesOnce ==
    ASSUME TypeOK, NEW s, NEW e \in Entry, NEW f \in Entry, Precedes(s, e, f)
    PROVE  ~Precedes(s, f, e)
PROOF
<1> DEFINE a == CreationTime(e.command)
           b == CreationTime(f.command)
<1>1. a \in Nat /\ b \in Nat
  BY TimeIs DEF Entry
<1>2. a < b => ~(b < a)
  BY <1>1
<1>3. CASE (e.priority = "WakeUp" \/ f.priority = "WakeUp") /\ (Sleeping(s, e) # Sleeping(s, f))
  BY <1>3 DEF Precedes, Sleeping
<1>4. CASE /\ e.priority = "WakeUp" \/ f.priority = "WakeUp" => (Sleeping(s, e) <=> Sleeping(s, f))
           /\ e.priority = "NodeQuery" \/ f.priority = "NodeQuery"
           /\ Listening(e) # Listening(f)
  BY <1>4 DEF Precedes, Listening
<1>5. CASE /\ e.priority = "WakeUp" \/ f.priority = "WakeUp" => (Sleeping(s, e) <=> Sleeping(s, f))
           /\ e.priority = "NodeQuery" \/ f.priority = "NodeQuery" =>
                    (Listening(e) <=> Listening(f))
  <2>1. \/ e.priority = "Ping" /\ f.priority \in {"WakeUp", "Normal", "NodeQuery"}
        \/ e.priority = "WakeUp" /\ f.priority \in {"Normal", "NodeQuery"}
        \/ e.priority = "Normal" /\ f.priority = "NodeQuery"
        \/ e.priority = f.priority /\ a < b
    BY <1>5 DEF Precedes
  <2>2. Precedes(s, f, e) =>
        \/ f.priority = "Ping" /\ e.priority \in {"WakeUp", "Normal", "NodeQuery"}
        \/ f.priority = "WakeUp" /\ e.priority \in {"Normal", "NodeQuery"}
        \/ f.priority = "Normal" /\ e.priority = "NodeQuery"
        \/ f.priority = e.priority /\ b < a
    BY <1>5 DEF Precedes
  <2> HIDE DEF a, b
  <2> QED
    BY <1>2, <2>1, <2>2
<1> QED
  BY <1>3, <1>4, <1>5 DEF Sleeping, Listening

\* Inserting keeps to the order.
LEMMA JoinsInOrder ==
    ASSUME TypeOK, SleepersAnnounce, NEW s, OnlySleepersAsleep(s), NEW C, C \cap Interview = {},
           NEW e \in Of(C), NEW F \in SUBSET Of(C)
    PROVE  MayJoin(s, e, F, Order(s, C))
PROOF
<1>1. \A f \in F : f \in Of(C) /\ <<e, f>> \in Entry \X Entry /\ <<f, e>> \in Entry \X Entry
  BY DEF Of, Proper
<1>2. ASSUME NEW f \in Of(C)
      PROVE  /\ ~SortsBefore(s, e, f) => InOrder(s, C, f, e)
             /\ SortsBefore(s, e, f) => InOrder(s, C, e, f)
  <2>1. e \in Proper /\ f \in Proper /\ e \in Entry /\ f \in Entry
    BY DEF Of, Proper
  <2>2. /\ e.priority \in {"Ping", "WakeUp", "Normal", "NodeQuery"}
        /\ f.priority \in {"Ping", "WakeUp", "Normal", "NodeQuery"}
        /\ e.priority \in {"Normal", "NodeQuery"} => ~Sleeping(s, e)
        /\ f.priority \in {"Normal", "NodeQuery"} => ~Sleeping(s, f)
        /\ Blocked(s, e) <=> e.priority = "WakeUp" /\ Sleeping(s, e)
        /\ Blocked(s, f) <=> f.priority = "WakeUp" /\ Sleeping(s, f)
    BY <2>1, ProperIs
  <2>3. /\ SortsBefore(s, e, f) <=> Precedes(s, e, f)
        /\ SortsBefore(s, f, e) <=> Precedes(s, f, e)
    BY NoneIsHeld
  <2>4. ~Precedes(s, e, f) => (Blocked(s, f) => Blocked(s, e))
    BY <2>2 DEF Precedes
  <2>5. Precedes(s, e, f) => (Blocked(s, e) => Blocked(s, f))
    BY <2>2 DEF Precedes
  <2>6. Precedes(s, e, f) => ~Precedes(s, f, e)
    BY <2>1, PrecedesOnce
  <2> QED
    BY <2>3, <2>4, <2>5, <2>6 DEF InOrder
<1>3. ASSUME NEW f \in Of(C), NEW g \in Of(C), SortsBefore(s, e, f), InOrder(s, C, f, g)
      PROVE  InOrder(s, C, e, g)
  <2>1. InOrder(s, C, e, f)
    BY <1>2, <1>3
  <2>2. ASSUME OnePinged, OneKind(C), SortsBefore(s, g, e)
        PROVE  FALSE
    <3>1. e \in Proper /\ f \in Proper /\ g \in Proper
      BY DEF Of
    <3>2. OneKind({e.command, f.command, g.command})
      BY <2>2 DEF OneKind, Of
    <3>3. Precedes(s, g, e) /\ Precedes(s, e, f)
      BY <1>3, <2>2, NoneIsHeld
    <3>4. Precedes(s, g, f)
      BY <2>2, <3>1, <3>2, <3>3, PrecedesAcross
    <3>5. SortsBefore(s, g, f)
      BY <3>4, NoneIsHeld
    <3> QED
      BY <1>3, <2>2, <3>5 DEF InOrder
  <2> QED
    BY <1>3, <2>1, <2>2 DEF InOrder
<1>4. \A f \in F : ~SortsBefore(s, e, f) => <<f, e>> \in Order(s, C)
  BY <1>1, <1>2 DEF Order
<1>5. \A f \in F : SortsBefore(s, e, f) => <<e, f>> \in Order(s, C)
  BY <1>1, <1>2 DEF Order
<1>6. \A f, g \in F : SortsBefore(s, e, f) /\ <<f, g>> \in Order(s, C) => <<e, g>> \in Order(s, C)
  BY <1>1, <1>3 DEF Order
<1> QED
  BY <1>4, <1>5, <1>6 DEF MayJoin

LEMMA EntriesIn ==
    ASSUME NEW q \in Seq(Entry), NEW E, ToSet(q) \subseteq E
    PROVE  q \in Seq(E)
PROOF
<1>1. Len(q) \in Nat /\ DOMAIN q = 1..Len(q) /\ q = [i \in 1..Len(q) |-> q[i]]
  OBVIOUS
<1>2. \A i \in 1..Len(q) : q[i] \in E
  BY <1>1 DEF ToSet
<1> QED
  BY <1>1, <1>2

LEMMA EntriesOf ==
    ASSUME NEW E \in SUBSET Entry, NEW q \in Seq(E)
    PROVE  q \in Seq(Entry) /\ ToSet(q) \subseteq E
PROOF
<1>1. Len(q) \in Nat /\ DOMAIN q = 1..Len(q) /\ q = [i \in 1..Len(q) |-> q[i]]
      /\ \A i \in 1..Len(q) : q[i] \in E
  OBVIOUS
<1> QED
  BY <1>1 DEF ToSet

\* The order of entries whose nodes keep sleeping, or being awake, stays.
LEMMA OrderStays ==
    ASSUME NEW s, NEW t, NEW C, NEW q \in Seq(Entry), Pairs(Order(s, C), q),
           \A e \in ToSet(q) : Sleeping(t, e) <=> Sleeping(s, e)
    PROVE  Pairs(Order(t, C), q)
PROOF
<1>1. ASSUME NEW e \in Entry, NEW f \in Entry, InOrder(s, C, e, f),
             Sleeping(t, e) <=> Sleeping(s, e), Sleeping(t, f) <=> Sleeping(s, f)
      PROVE  InOrder(t, C, e, f)
  <2>0. Precedes(t, f, e) <=> Precedes(s, f, e)
    BY <1>1 DEF Precedes
  <2>1. SortsBefore(t, f, e) <=> SortsBefore(s, f, e)
    BY <2>0, SortsIs
  <2>2. (Blocked(t, e) <=> Blocked(s, e)) /\ (Blocked(t, f) <=> Blocked(s, f))
    BY <1>1 DEF Blocked
  <2> QED
    BY <1>1, <2>1, <2>2 DEF InOrder
<1>2. \A i \in DOMAIN q : q[i] \in Entry /\ q[i] \in ToSet(q)
  BY ElementIs DEF ToSet
<1> QED
  BY <1>1, <1>2 DEF Pairs, Order

LEMMA InsertInOrder ==
    ASSUME TypeOK, SleepersAnnounce, NEW s, OnlySleepersAsleep(s), NEW C,
           C \cap Interview = {}, NEW E \in SUBSET Of(C),
           NEW q \in Seq(E), Pairs(Order(s, C), q), NEW e \in E
    PROVE  Insert(s, q, e) \in Seq(E) /\ Pairs(Order(s, C), Insert(s, q, e))
PROOF
<1>1. q \in Seq(Entry) /\ ToSet(q) \subseteq E /\ e \in Entry /\ e \in Of(C)
  <2>1. E \in SUBSET Entry
    BY DEF Of, Proper
  <2> QED
    BY <2>1, EntriesOf
<1>2. MayJoin(s, e, ToSet(q), Order(s, C))
  BY <1>1, JoinsInOrder
<1>3. Pairs(Order(s, C), Insert(s, q, e))
  BY <1>2, InsertPairs
<1>4. Insert(s, q, e) \in Seq(Entry) /\ ToSet(Insert(s, q, e)) = ToSet(q) \cup {e}
  BY <1>1, InsertIs
<1>5. ToSet(Insert(s, q, e)) \subseteq E
  BY <1>1, <1>4
<1> QED
  BY <1>3, <1>4, <1>5, EntriesIn

LEMMA InsertAllInOrder ==
    ASSUME TypeOK, SleepersAnnounce, NEW s, OnlySleepersAsleep(s), NEW C,
           C \cap Interview = {}, NEW E \in SUBSET Of(C),
           NEW q \in Seq(E), Pairs(Order(s, C), q), NEW es \in Seq(E)
    PROVE  InsertAll(s, q, es) \in Seq(E) /\ Pairs(Order(s, C), InsertAll(s, q, es))
PROOF
<1>1. E \in SUBSET Entry
  BY DEF Of, Proper
<1>2. q \in Seq(Entry) /\ ToSet(q) \subseteq E
  BY <1>1, EntriesOf
<1>3. es \in Seq(Entry) /\ ToSet(es) \subseteq E
  BY <1>1, EntriesOf
<1>4. ASSUME NEW k \in 1..Len(es)
      PROVE  MayJoin(s, es[k], ToSet(q) \cup {es[i] : i \in 1..(k - 1)}, Order(s, C))
  <2> DEFINE F == ToSet(q) \cup {es[i] : i \in 1..(k - 1)}
  <2>1. \A i \in 1..Len(es) : es[i] \in E
    OBVIOUS
  <2>2. \A i \in 1..(k - 1) : i \in 1..Len(es)
    OBVIOUS
  <2>3. F \subseteq Of(C) /\ es[k] \in Of(C)
    BY <1>2, <2>1, <2>2
  <2> HIDE DEF F
  <2>4. MayJoin(s, es[k], F, Order(s, C))
    BY <2>3, JoinsInOrder
  <2> QED
    BY <2>4 DEF F
<1>5. Pairs(Order(s, C), InsertAll(s, q, es))
  BY <1>2, <1>3, <1>4, InsertAllPairs
<1>6. /\ InsertAll(s, q, es) \in Seq(Entry)
      /\ ToSet(InsertAll(s, q, es)) = ToSet(q) \cup ToSet(es)
  BY <1>2, <1>3, InsertAllIs
<1>7. ToSet(InsertAll(s, q, es)) \subseteq E
  BY <1>2, <1>3, <1>6
<1> QED
  BY <1>5, <1>6, <1>7, EntriesIn

LEMMA SelectedInOrder ==
    ASSUME NEW E \in SUBSET Entry, NEW R, NEW q \in Seq(E), Pairs(R, q), NEW chosen
    PROVE  /\ Selected(q, chosen) \in Seq(E) /\ Pairs(R, Selected(q, chosen))
           /\ ToSet(Selected(q, chosen)) = ToSet(q) \cap chosen
PROOF
<1>1. ToSet(q) \subseteq E
  BY EntriesOf
<1>2. q \in Seq(Entry)
  BY EntriesOf
<1>3. /\ Selected(q, chosen) \in Seq(Entry)
      /\ ToSet(Selected(q, chosen)) = ToSet(q) \cap chosen
  BY <1>2, SelectedIs
<1>4. Pairs(R, Selected(q, chosen))
  BY <1>2, SelectedPairs
<1>5. ToSet(Selected(q, chosen)) \subseteq E
  BY <1>1, <1>3
<1> QED
  BY <1>3, <1>4, <1>5, EntriesIn

\* What is kept is for nodes whose sleep does not start or end, and what is reset has the
\* priority of the wakeup queue.
FitsOrder(kind, s, t, q, current) ==
    /\ \A e \in ToSet(q) : kind.queue[e] = "keep" => (Sleeping(t, e) <=> Sleeping(s, e))
    /\ \A e \in ToSet(q) : kind.queue[e] = "requeue reset" => e.priority = "WakeUp"
    /\ \A e \in {current} \ {Nothing} :
            kind.active[e] = "requeue reset" => e.priority = "WakeUp"

\* reduceQueue keeps to the order then.
LEMMA ReducedInOrder ==
    ASSUME TypeOK, SleepersAnnounce, NEW s, NEW t, OnlySleepersAsleep(t),
           NEW C, C \cap Interview = {}, NEW E \in SUBSET Of(C),
           NEW q \in Seq(E), Pairs(Order(s, C), q),
           NEW current \in E \cup {Nothing}, NEW kind, FitsOrder(kind, s, t, q, current)
    PROVE  LET reduced == ReducedQueue(kind, t, q, current) IN
           reduced \in Seq(E) /\ Pairs(Order(t, C), reduced)
PROOF
<1> DEFINE waiting == {e \in ToSet(q) : kind.queue[e] \in {"requeue", "requeue reset"}}
           running == {e \in {current} \ {Nothing} :
                            kind.active[e] \in {"requeue", "requeue reset"}}
           reset == {e \in waiting : kind.queue[e] = "requeue reset"}
                    \cup {e \in running : kind.active[e] = "requeue reset"}
           last == IF running = {} THEN <<>> ELSE <<current>>
           first == Selected(q, waiting)
           requeued == first \o last
           staying == {e \in ToSet(q) : kind.queue[e] = "keep"}
           kept == Selected(q, staying)
           added == [i \in DOMAIN requeued |-> RequeuedEntry(requeued[i], requeued[i] \in reset)]
<1>1. ReducedQueue(kind, t, q, current) = InsertAll(t, kept, added)
  BY Zenon DEF ReducedQueue
<1>2. last \in Seq(E)
  <2>1. running = {} => last = <<>>
    BY Zenon
  <2>2. running # {} => last = <<current>> /\ current \in E
    BY Zenon
  <2> HIDE DEF last, running
  <2>3. current \in E => <<current>> \in Seq(E)
    BY SingleIs
  <2>4. <<>> \in Seq(E)
    BY EmptyIs
  <2> QED
    BY <2>1, <2>2, <2>3, <2>4, Zenon
<1>3. E \in SUBSET Entry /\ ToSet(q) \subseteq E
  <2>1. E \in SUBSET Entry
    BY DEF Of, Proper
  <2> QED
    BY <2>1, EntriesOf
<1>4. first \in Seq(E)
  <2> HIDE DEF waiting
  <2> QED
    BY <1>3, SelectedInOrder
<1>5. kept \in Seq(E) /\ Pairs(Order(s, C), kept) /\ ToSet(kept) = ToSet(q) \cap staying
  <2> HIDE DEF staying
  <2> QED
    BY <1>3, SelectedInOrder
<1>6. \A e \in reset : e.priority = "WakeUp"
  BY Zenon DEF FitsOrder
<1>7. \A e \in ToSet(kept) : Sleeping(t, e) <=> Sleeping(s, e)
  BY <1>5, Zenon DEF FitsOrder
<1> HIDE DEF last, first, kept, reset, staying
<1>8. requeued \in Seq(E)
  BY <1>2, <1>4, ConcatIs, Zenon
<1> HIDE DEF requeued
<1>9. ASSUME NEW e \in E
      PROVE  RequeuedEntry(e, e \in reset) = e
  <2>1. CASE e \in reset
    <3>1. e \in Entry /\ e.priority = "WakeUp"
      BY <1>3, <1>6, <2>1
    <3>2. [e EXCEPT !.priority = "WakeUp"] = e
      BY <3>1 DEF Entry
    <3> QED
      BY <2>1, <3>2 DEF RequeuedEntry
  <2>2. CASE e \notin reset
    BY <2>2 DEF RequeuedEntry
  <2> QED
    BY <2>1, <2>2
<1>10. added \in Seq(E)
  <2>1. \A i \in DOMAIN requeued : requeued[i] \in E
    BY <1>8, ElementIs, Zenon
  <2>2. \A i \in DOMAIN requeued : added[i] = requeued[i]
    BY <1>9, <2>1
  <2>3. DOMAIN requeued = 1..Len(requeued) /\ Len(requeued) \in Nat
    BY <1>8
  <2>4. DOMAIN added = DOMAIN requeued /\ added = [i \in DOMAIN requeued |-> added[i]]
    OBVIOUS
  <2> HIDE DEF added
  <2> QED
    BY <2>1, <2>2, <2>3, <2>4
<1> HIDE DEF added, waiting, running
<1>11. Pairs(Order(t, C), kept)
  <2>1. kept \in Seq(Entry)
    BY <1>3, <1>5, EntriesOf
  <2> QED
    BY <1>5, <1>7, <2>1, OrderStays
<1>12. InsertAll(t, kept, added) \in Seq(E) /\ Pairs(Order(t, C), InsertAll(t, kept, added))
  BY <1>5, <1>10, <1>11, InsertAllInOrder
<1> QED
  BY <1>1, <1>12

-----------------------------------------------------------------------------
(* Every step keeps to the order *)

\* The entries of the commands that exist.
Known == Of(ToSet(created))
Knows == /\ queue \in Seq(Known)
         /\ deferred \in Seq(Seq(Known))
         /\ returning \in Seq(Known)
         /\ active \in Known \cup {Nothing}
QueueInOrder == Pairs(Order(status, ToSet(created)), queue)

\* The first place of an element.
Place(q, c) == SelectInSeq(q, LAMBDA d : d = c)

LEMMA FirstIs ==
    ASSUME NEW S, NEW q \in Seq(S), NEW c, NEW k \in 1..Len(q), q[k] = c,
           \A j \in 1..(k - 1) : q[j] # c
    PROVE  Place(q, c) = k
PROOF
<1> DEFINE I == {i \in 1..Len(q) : q[i] = c}
<1>1. Place(q, c) = IF I # {} THEN Min(I) ELSE 0
  BY DEF Place, SelectInSeq
<1>2. Len(q) \in Nat /\ k \in I
  OBVIOUS
<1>3. ASSUME NEW j \in I
      PROVE  k <= j
  <2>1. j \in 1..Len(q) /\ q[j] = c
    OBVIOUS
  <2>2. j \notin 1..(k - 1)
    BY <2>1
  <2> QED
    BY <1>2, <2>1, <2>2
<1>4. \A j \in I : j \in Nat
  OBVIOUS
<1> HIDE DEF I
<1>5. \A x \in I : (\A y \in I : x <= y) => x = k
  BY <1>2, <1>3, <1>4
<1>6. Min(I) = k
  BY <1>2, <1>3, <1>5 DEF Min
<1> QED
  BY <1>1, <1>2, <1>6

\* Later commands do not change when a command was created.
LEMMA TimesStay ==
    ASSUME TypeOK, NEW c \in Command, c \notin ToSet(created), created' = Append(created, c),
           NEW d \in ToSet(created) \cup {c}
    PROVE  CreationTime(d)' = CreationTime(d)
PROOF
<1>1. created \in Seq(Command) /\ d \in Command /\ d' = d
  BY MembersAre DEF TypeOK
<1> DEFINE n == Len(created)
           q == Append(created, d)
           r == Append(Append(created, c), d)
<1>2. n \in Nat /\ DOMAIN created = 1..n
  BY <1>1
<1>3. q \in Seq(Command) /\ Len(q) = n + 1 /\ q[n + 1] = d
      /\ \A i \in 1..n : q[i] = created[i]
  BY <1>1
<1>4. r \in Seq(Command) /\ Len(r) = n + 2 /\ r[n + 1] = c
      /\ \A i \in 1..n : r[i] = created[i]
  BY <1>1
<1>5. CreationTime(d) = Place(q, d)
  BY DEF CreationTime, Place
<1>6. CreationTime(d)' = Place(r, d)
  <2>1. CreationTime(d)' = Place(Append(created', d), d)
    BY DEF CreationTime, Place, SelectInSeq
  <2> QED
    BY <2>1
<1>7. PICK k \in 1..(n + 1) : /\ k \in 1..n => created[k] = d
                              /\ k = n + 1 => d = c
                              /\ \A j \in 1..(k - 1) : created[j] # d
  <2>1. CASE d \in ToSet(created)
    <3> DEFINE I == {i \in 1..n : created[i] = d}
    <3>1. I \in SUBSET Nat /\ I # {}
      BY <1>2, <2>1 DEF ToSet
    <3>2. PICK k \in I : \A j \in I : k <= j
      <4> HIDE DEF I
      <4> QED
        BY <3>1, FirstExists
    <3>3. ASSUME NEW j \in 1..(k - 1)
          PROVE  created[j] # d
      <4>1. j \in 1..n /\ ~(k <= j)
        BY <1>2
      <4> QED
        BY <3>2, <4>1
    <3>4. k \in 1..(n + 1) /\ k # n + 1 /\ created[k] = d
      BY <1>2
    <3> QED
      BY <3>3, <3>4
  <2>2. CASE d \notin ToSet(created)
    <3>1. d = c /\ n + 1 \in 1..(n + 1) /\ n + 1 \notin 1..n /\ (n + 1) - 1 = n
      BY <1>2, <2>2
    <3>2. \A j \in 1..n : created[j] # d
      BY <1>2, <2>2 DEF ToSet
    <3> QED
      BY <3>1, <3>2
  <2> QED
    BY <2>1, <2>2
<1> HIDE DEF q, r, n
<1>8. k \in 1..n \/ k = n + 1
  BY <1>2
<1>9. Place(q, d) = k
  <2>1. q[k] = d /\ k \in 1..Len(q)
    BY <1>2, <1>3, <1>7, <1>8
  <2>2. \A j \in 1..(k - 1) : q[j] # d
    BY <1>2, <1>3, <1>7
  <2> QED
    BY <1>3, <2>1, <2>2, FirstIs
<1>10. Place(r, d) = k
  <2>1. r[k] = d /\ k \in 1..Len(r)
    BY <1>2, <1>4, <1>7, <1>8
  <2>2. \A j \in 1..(k - 1) : r[j] # d
    BY <1>2, <1>4, <1>7
  <2> QED
    BY <1>4, <2>1, <2>2, FirstIs
<1> QED
  BY <1>5, <1>6, <1>9, <1>10

LEMMA OrderFollows ==
    ASSUME NEW E \in SUBSET Entry, \A e \in E : e.command \notin Interview, queue' \in Seq(E),
           NEW t, t = status', NEW C, C = ToSet(created'), Pairs(Order(t, C), queue'),
           \A e \in E : CreationTime(e.command)' = CreationTime(e.command)
    PROVE  QueueInOrder'
PROOF
<1>1. ASSUME NEW e \in E, NEW f \in E
      PROVE  SortsBefore(status, e, f)' <=> SortsBefore(t, e, f)
  <2>1. CreationTime(e.command)' = CreationTime(e.command)
        /\ CreationTime(f.command)' = CreationTime(f.command)
    OBVIOUS
  <2>2. e.command \notin Interview /\ f.command \notin Interview
    OBVIOUS
  <2> QED
    BY <2>1, <2>2 DEF SortsBefore, MustHold, NodeOfEntry
<1>2. ASSUME NEW e \in E, NEW f \in E, InOrder(t, C, e, f)
      PROVE  InOrder(status, ToSet(created), e, f)'
  <2>1. SortsBefore(status, f, e)' <=> SortsBefore(t, f, e)
    BY <1>1
  <2>2. Blocked(status, e)' <=> Blocked(t, e)
    BY DEF Blocked, Sleeping, NodeOfEntry
  <2>3. Blocked(status, f)' <=> Blocked(t, f)
    BY DEF Blocked, Sleeping, NodeOfEntry
  <2>4. OneKind(ToSet(created))' <=> OneKind(C)
    BY DEF OneKind, ToSet
  <2> QED
    BY <1>2, <2>1, <2>2, <2>3, <2>4 DEF InOrder, OnePinged
<1>3. \A i \in DOMAIN queue' : queue'[i] \in E
  BY ElementIs, Zenon
<1>4. ASSUME NEW i \in DOMAIN queue', NEW j \in DOMAIN queue', i < j
      PROVE  <<queue'[i], queue'[j]>> \in Order(status, ToSet(created))'
  <2>1. <<queue'[i], queue'[j]>> \in Order(t, C)
    BY <1>4 DEF Pairs
  <2>2. InOrder(t, C, queue'[i], queue'[j])
    BY <2>1 DEF Order
  <2>3. queue'[i] \in E /\ queue'[j] \in E
    BY <1>3
  <2>4. InOrder(status, ToSet(created), queue[i], queue[j])'
    BY <1>2, <2>2, <2>3
  <2> QED
    BY <2>3, <2>4 DEF Order
<1> QED
  BY <1>4 DEF QueueInOrder, Pairs

LEMMA KnownIs == Known \in SUBSET Entry /\ Known \in SUBSET Of(ToSet(created))
PROOF
  BY DEF Known, Of, Proper

\* As long as no command is created.
LEMMA OrderKept ==
    ASSUME Calm, created' = created, queue' \in Seq(Known), NEW t, t = status',
           Pairs(Order(t, ToSet(created)), queue')
    PROVE  QueueInOrder'
PROOF
<1>1. \A e \in Known : CreationTime(e.command)' = CreationTime(e.command)
  BY DEF CreationTime, SelectInSeq
<1>2. \A e \in Known : e.command \notin Interview
  BY DEF Calm, Known, Of
<1>3. ToSet(created) = ToSet(created')
  OBVIOUS
<1> QED
  BY <1>1, <1>2, <1>3, KnownIs, OrderFollows

\* Nobody falls asleep or wakes up, and the queue stays as it is.
LEMMA NothingMoves ==
    ASSUME Calm, Knows, QueueInOrder, created' = created, queue' = queue,
           \A n \in Node : status'[n] = "Asleep" <=> status[n] = "Asleep"
    PROVE  QueueInOrder'
PROOF
<1>1. queue \in Seq(Entry) /\ ToSet(queue) \subseteq Known
  BY KnownIs, EntriesOf DEF Knows
<1>2. ASSUME NEW t, t = status'
      PROVE  Pairs(Order(t, ToSet(created)), queue')
  <2>1. ASSUME NEW e \in ToSet(queue)
        PROVE  Sleeping(t, e) <=> Sleeping(status, e)
    <3>1. NodeOfEntry(e) \in Node
      BY <1>1, SendThreadAssumption DEF Known, Of, Proper, Entry, NodeOfEntry
    <3> QED
      BY <1>2, <3>1 DEF Sleeping
  <2>2. Pairs(Order(t, ToSet(created)), queue)
    BY <1>1, <2>1, OrderStays DEF QueueInOrder
  <2> QED
    BY <2>2
<1> QED
  BY <1>2, OrderKept DEF Knows

LEMMA SleepersFit ==
    ASSUME TypeOK
    PROVE  OnlySleepersAsleep(status)
PROOF
  BY DEF TypeOK, OnlySleepersAsleep

LEMMA WakeUpInOrder ==
    ASSUME TypeOK, SleepersAnnounce, Calm, Knows, QueueInOrder, NEW n \in Node,
           NEW resolved, NEW completed, WakeUp(n, resolved, completed), created' = created
    PROVE  queue' \in Seq(Known) /\ QueueInOrder'
PROOF
<1> DEFINE t == [status EXCEPT ![n] = "Awake"]
           kind == [queue |-> [e \in ToSet(queue) |-> WakeUpKind(n, e, FALSE)],
                    active |-> [e \in {active} \ {Nothing} |-> WakeUpKind(n, e, completed)]]
           reduced == ReducedQueue(kind, t, queue, active)
<1>1. status' = t /\ queue' = reduced
  BY DEF WakeUp
<1>2. \A m \in Node : m # n => t[m] = status[m]
  BY DEF TypeOK
<1>3. OnlySleepersAsleep(t)
  BY SleepersFit DEF OnlySleepersAsleep, TypeOK
<1>4. ToSet(queue) \subseteq Known
  BY KnownIs, EntriesOf DEF Knows
<1>5. ASSUME NEW e \in ToSet(queue)
      PROVE  /\ kind.queue[e] \in {"keep", "resolve", "requeue"}
             /\ kind.queue[e] = "keep" => NodeOfEntry(e) # n
  <2>1. kind.queue[e] = WakeUpKind(n, e, FALSE)
    OBVIOUS
  <2> QED
    BY <2>1 DEF WakeUpKind
<1>6. ASSUME NEW e \in {active} \ {Nothing}
      PROVE  kind.active[e] # "requeue reset"
  <2>1. kind.active[e] = WakeUpKind(n, e, completed)
    OBVIOUS
  <2> QED
    BY <2>1 DEF WakeUpKind
<1> HIDE DEF kind, t
<1>7. \A e \in ToSet(queue) : NodeOfEntry(e) # n => (Sleeping(t, e) <=> Sleeping(status, e))
  <2>1. \A e \in ToSet(queue) : NodeOfEntry(e) \in Node
    BY <1>4, SendThreadAssumption DEF Known, Of, Proper, Entry, NodeOfEntry
  <2> QED
    BY <1>2, <2>1 DEF Sleeping
<1>8. FitsOrder(kind, status, t, queue, active)
  BY <1>5, <1>6, <1>7, Zenon DEF FitsOrder
<1>9. reduced \in Seq(Known) /\ Pairs(Order(t, ToSet(created)), reduced)
  BY <1>3, <1>8, KnownIs, ReducedInOrder DEF Knows, QueueInOrder, Calm
<1> HIDE DEF reduced
<1>10. queue' \in Seq(Known) /\ Pairs(Order(t, ToSet(created)), queue')
  BY <1>1, <1>9
<1> QED
  BY <1>1, <1>10, OrderKept

LEMMA FallAsleepInOrder ==
    ASSUME TypeOK, SleepersAnnounce, Calm, NEW n \in CanSleep,
           NEW q \in Seq(Known), Pairs(Order(status, ToSet(created)), q),
           NEW current \in Known \cup {Nothing}, NEW rejected, FallAsleep(n, q, current, rejected), created' = created
    PROVE  queue' \in Seq(Known) /\ QueueInOrder'
PROOF
<1> DEFINE t == [status EXCEPT ![n] = "Asleep"]
           kind == [queue |-> [e \in ToSet(q) |-> SleepKind(n, e)],
                    active |-> [e \in {current} \ {Nothing} |-> SleepKind(n, e)]]
           reduced == ReducedQueue(kind, t, q, current)
<1>1. status' = t /\ queue' = reduced
  BY Zenon DEF FallAsleep
<1>2. \A m \in Node : m # n => t[m] = status[m]
  BY DEF TypeOK
<1>3. OnlySleepersAsleep(t)
  BY SleepersFit DEF OnlySleepersAsleep, TypeOK
<1>4. ToSet(q) \subseteq Known
  BY KnownIs, EntriesOf
<1>5. ASSUME NEW e \in Known
      PROVE  /\ SleepKind(n, e) = "keep" => NodeOfEntry(e) # n
             /\ SleepKind(n, e) = "requeue reset" => e.priority = "WakeUp"
  BY DEF SleepKind, MayMoveToWakeupQueue, Known, Of, Proper, PriorityOf, NodeOfEntry,
         SleepersAnnounce
<1>6. ASSUME NEW e \in ToSet(q)
      PROVE  /\ kind.queue[e] = "keep" => NodeOfEntry(e) # n
             /\ kind.queue[e] = "requeue reset" => e.priority = "WakeUp"
  <2>1. kind.queue[e] = SleepKind(n, e)
    OBVIOUS
  <2> QED
    BY <1>4, <1>5, <2>1, Zenon
<1>7. ASSUME NEW e \in {current} \ {Nothing}
      PROVE  kind.active[e] = "requeue reset" => e.priority = "WakeUp"
  <2>1. kind.active[e] = SleepKind(n, e) /\ e \in Known
    OBVIOUS
  <2> QED
    BY <1>5, <2>1, Zenon
<1> HIDE DEF kind, t
<1>8. \A e \in ToSet(q) : NodeOfEntry(e) # n => (Sleeping(t, e) <=> Sleeping(status, e))
  <2>1. \A e \in ToSet(q) : NodeOfEntry(e) \in Node
    BY <1>4, SendThreadAssumption DEF Known, Of, Proper, Entry, NodeOfEntry
  <2> QED
    BY <1>2, <2>1 DEF Sleeping
<1>9. FitsOrder(kind, status, t, q, current)
  BY <1>6, <1>7, <1>8, Zenon DEF FitsOrder
<1>10. reduced \in Seq(Known) /\ Pairs(Order(t, ToSet(created)), reduced)
  BY <1>3, <1>9, KnownIs, ReducedInOrder DEF Calm
<1> HIDE DEF reduced
<1>11. queue' \in Seq(Known) /\ Pairs(Order(t, ToSet(created)), queue')
  BY <1>1, <1>10
<1> QED
  BY <1>1, <1>11, OrderKept

\* The queue without the entries that are rejected.
LEMMA RejectedInOrder ==
    ASSUME TypeOK, SleepersAnnounce, Calm, Knows, QueueInOrder, NEW kind,
           \A e \in ToSet(queue) : kind.queue[e] \in {"keep", "reject"},
           NEW current \in Known \cup {Nothing},
           \A e \in {current} \ {Nothing} : kind.active[e] \in {"keep", "reject"}
    PROVE  LET reduced == ReducedQueue(kind, status, queue, current) IN
           reduced \in Seq(Known) /\ Pairs(Order(status, ToSet(created)), reduced)
PROOF
<1>1. FitsOrder(kind, status, status, queue, current)
  BY Zenon DEF FitsOrder
<1> QED
  BY <1>1, SleepersFit, KnownIs, ReducedInOrder DEF Knows, QueueInOrder, Calm

SInv == TypeOK /\ Calm /\ Knows /\ QueueInOrder

\* More commands take nothing away from the order of the others.
LEMMA OrderOfMore ==
    ASSUME NEW s, NEW C, NEW D, C \subseteq D, NEW q, Pairs(Order(s, C), q)
    PROVE  Pairs(Order(s, D), q)
PROOF
<1>1. OneKind(D) => OneKind(C)
  BY DEF OneKind
<1>2. Order(s, C) \subseteq Order(s, D)
  BY <1>1 DEF Order, InOrder
<1> QED
  BY <1>2 DEF Pairs

LEMMA EnqueueInOrder ==
    ASSUME SleepersAnnounce, SInv, Calm', NEW c \in Command, Enqueue(c)
    PROVE  Knows' /\ QueueInOrder'
PROOF
<1> USE DEF SInv
<1> DEFINE e == [command |-> c, priority |-> PriorityOf(c), busy |-> 0]
           C == ToSet(created) \cup {c}
           E == Known \cup {e}
<1>1. /\ created' = Append(created, c) /\ queue' = Insert(status, queue, e)
      /\ UNCHANGED <<status, active, deferred, returning>>
  BY DEF Enqueue
<1>2. created \in Seq(Command) /\ c \notin ToSet(created)
  BY DEF Enqueue, TypeOK, Contains, ToSet
<1>3. e \in Proper /\ e.command = c
  BY SendThreadAssumption DEF Proper, Entry, Priority, PriorityOf
<1> HIDE DEF e
<1>4. ToSet(created') = C /\ ToSet(created) \subseteq C
  BY <1>1, <1>2, AppendIs
<1>5. Known' = {x \in Proper : x.command \in ToSet(created')}
  BY DEF Known, Of, Proper, Entry, PriorityOf
<1>6. E \in SUBSET Of(C) /\ E \in SUBSET Entry /\ E \subseteq Known' /\ Known \subseteq Known'
  BY <1>3, <1>4, <1>5 DEF Known, Of, Proper
<1>7. /\ queue \in Seq(Known) /\ deferred \in Seq(Seq(Known)) /\ active \in Known \cup {Nothing}
      /\ returning \in Seq(Known) /\ Pairs(Order(status, C), queue)
  BY <1>4, OrderOfMore DEF Knows, QueueInOrder
<1>8. C \cap Interview = {}
  BY <1>4 DEF Calm
<1> HIDE DEF C
<1>9. queue \in Seq(E)
  BY <1>7
<1>10. queue' \in Seq(E) /\ Pairs(Order(status, C), queue')
  <2> HIDE DEF E
  <2>1. e \in E
    BY DEF E
  <2> QED
    BY <1>1, <1>6, <1>7, <1>8, <1>9, <2>1, SleepersFit, InsertInOrder
<1>11. \A x \in E : CreationTime(x.command)' = CreationTime(x.command)
  <2> SUFFICES ASSUME NEW x \in E
               PROVE  CreationTime(x.command)' = CreationTime(x.command)
    OBVIOUS
  <2>1. x.command \in ToSet(created) \cup {c}
    BY <1>3 DEF Known, Of
  <2> DEFINE d == x.command
  <2> HIDE DEF d
  <2>2. CreationTime(d)' = CreationTime(d)
    BY <1>1, <1>2, <2>1, TimesStay DEF d
  <2> QED
    BY <2>2 DEF d
<1>12. \A x \in E : x.command \notin Interview
  BY <1>6, <1>8 DEF Of
<1> HIDE DEF E
<1>13. QueueInOrder'
  BY <1>1, <1>4, <1>6, <1>10, <1>11, <1>12, OrderFollows
<1>14. /\ queue' \in Seq(Known') /\ deferred' \in Seq(Seq(Known'))
       /\ returning' \in Seq(Known') /\ active' \in Known' \cup {Nothing}
  BY <1>1, <1>6, <1>7, <1>10
<1> QED
  BY <1>13, <1>14 DEF Knows

\* Known commands stay known.
LEMMA KnowsStays ==
    ASSUME created' = created, queue' \in Seq(Known), deferred' \in Seq(Seq(Known)),
           returning' \in Seq(Known), active' \in Known \cup {Nothing}
    PROVE  Knows'
PROOF
<1>1. Known' = Known
  BY DEF Known, Of, Proper, Entry, PriorityOf
<1> QED
  BY <1>1 DEF Knows, Nothing

LEMMA LeaveInOrder ==
    ASSUME SleepersAnnounce, SInv, NEW n \in Node, Leave(n)
    PROVE  Knows' /\ QueueInOrder'
PROOF
<1> USE DEF SInv
<1> DEFINE isReset == SleepKind(n, active) = "requeue reset"
<1>1. /\ n \in leaving
      /\ UNCHANGED <<created, pc, attempt, deferred, returning, including, gone>>
      /\ \/ status[n] = "Asleep" /\ UNCHANGED <<status, queue, generator, settled>>
         \/ status[n] # "Asleep" /\ FallAsleep(n, queue, active, {})
      /\ \/ active' = active
         \/ active # Nothing /\ isReset /\ active' = [active EXCEPT !.priority = "WakeUp"]
  BY Zenon DEF Leave, LeaveDue
<1>2. isReset => active.command \notin Ping /\ NodeOf[active.command] = n
  BY Zenon DEF SleepKind, MayMoveToWakeupQueue, NodeOfEntry
<1> HIDE DEF isReset
<1>3. n \in SupportsWakeUp /\ n \in CanSleep
  BY <1>1, SendThreadAssumption DEF TypeOK
<1>4. /\ queue \in Seq(Known) /\ deferred \in Seq(Seq(Known)) /\ active \in Known \cup {Nothing}
      /\ returning' \in Seq(Known)
  BY <1>1 DEF Knows
<1>5. active' = active
  <2>1. ASSUME active # Nothing, isReset, active' = [active EXCEPT !.priority = "WakeUp"]
        PROVE  active' = active
    <3>1. active \in Entry /\ active \in Known
      BY <1>4, <2>1 DEF Known, Of, Proper
    <3>2. active.priority = "WakeUp"
      BY <1>2, <1>3, <2>1, <3>1 DEF Known, Of, Proper, PriorityOf
    <3> QED
      BY <2>1, <3>1, <3>2 DEF Entry
  <2> QED
    BY <1>1, <2>1
<1>6. CASE status[n] = "Asleep"
  <2>1. status' = status /\ queue' = queue /\ created' = created /\ deferred' = deferred
    BY <1>1, <1>6
  <2>2. QueueInOrder'
    BY <2>1, NothingMoves
  <2> QED
    BY <1>4, <1>5, <2>1, <2>2, KnowsStays
<1>7. CASE status[n] # "Asleep"
  <2>1. FallAsleep(n, queue, active, {}) /\ created' = created /\ deferred' = deferred
    BY <1>1, <1>7
  <2>2. queue' \in Seq(Known) /\ QueueInOrder'
    BY <1>3, <1>4, <2>1, FallAsleepInOrder DEF QueueInOrder
  <2> QED
    BY <1>4, <1>5, <2>1, <2>2, KnowsStays
<1> QED
  BY <1>6, <1>7

LEMMA ExpireInOrder ==
    ASSUME SleepersAnnounce, SInv, NEW c \in Command, Expire(c)
    PROVE  Knows' /\ QueueInOrder'
PROOF
<1> USE DEF SInv
<1> DEFINE expired(e) == IF e.command = c THEN "reject" ELSE "keep"
           kind == [queue |-> [e \in ToSet(queue) |-> expired(e)],
                    active |-> [e \in {active} \ {Nothing} |-> expired(e)]]
           reduced == ReducedQueue(kind, status, queue, active)
<1>1. queue' = reduced
  BY Zenon DEF Expire
<1>2. UNCHANGED <<status, created, active, deferred, returning>>
  BY DEF Expire
<1>3. \A e \in ToSet(queue) : kind.queue[e] \in {"keep", "reject"}
  OBVIOUS
<1>4. \A e \in {active} \ {Nothing} : kind.active[e] \in {"keep", "reject"}
  OBVIOUS
<1>5. /\ active \in Known \cup {Nothing} /\ deferred \in Seq(Seq(Known))
      /\ returning \in Seq(Known)
  BY DEF Knows
<1> HIDE DEF kind
<1>6. reduced \in Seq(Known) /\ Pairs(Order(status, ToSet(created)), reduced)
  BY <1>3, <1>4, <1>5, RejectedInOrder
<1> HIDE DEF reduced
<1>7. QueueInOrder'
  BY <1>1, <1>2, <1>6, OrderKept
<1> QED
  BY <1>1, <1>2, <1>5, <1>6, <1>7, KnowsStays

LEMMA TailPairs ==
    ASSUME NEW S, NEW q \in Seq(S), q # <<>>, NEW R, Pairs(R, q)
    PROVE  /\ Tail(q) \in Seq(S) /\ Head(q) \in S /\ Head(q) = q[1]
           /\ Len(q) \in Nat /\ DOMAIN q = 1..Len(q) /\ 1 \in DOMAIN q
           /\ DOMAIN Tail(q) = 1..(Len(q) - 1)
           /\ \A i \in 1..(Len(q) - 1) : i + 1 \in DOMAIN q /\ Tail(q)[i] = q[i + 1]
           /\ Pairs(R, Tail(q))
PROOF
<1>1. Len(q) \in Nat /\ Len(q) # 0 /\ DOMAIN q = 1..Len(q)
  BY EmptySeq
<1>2. Head(q) = q[1] /\ Tail(q) \in Seq(S) /\ 1 \in DOMAIN q
  BY <1>1
<1>3. /\ DOMAIN Tail(q) = 1..(Len(q) - 1)
      /\ \A i \in 1..(Len(q) - 1) : Tail(q)[i] = q[i + 1]
  BY HeadTailProperties
<1>4. \A i \in 1..(Len(q) - 1) : i + 1 \in DOMAIN q
  BY <1>1
<1>5. Head(q) \in S
  BY <1>2
<1>6. ASSUME NEW i \in DOMAIN Tail(q), NEW j \in DOMAIN Tail(q), i < j
      PROVE  <<Tail(q)[i], Tail(q)[j]>> \in R
  <2>1. i + 1 < j + 1 /\ i + 1 \in DOMAIN q /\ j + 1 \in DOMAIN q
    BY <1>1, <1>3, <1>4, <1>6
  <2>2. Tail(q)[i] = q[i + 1] /\ Tail(q)[j] = q[j + 1]
    BY <1>3
  <2> QED
    BY <2>1, <2>2 DEF Pairs
<1>7. Pairs(R, Tail(q))
  BY <1>6 DEF Pairs
<1> QED
  BY <1>1, <1>2, <1>3, <1>4, <1>5, <1>7

LEMMA TakeInOrder ==
    ASSUME SInv, Take
    PROVE  Knows' /\ QueueInOrder'
PROOF
<1> USE DEF SInv
<1>1. queue # <<>> /\ active' = Head(queue) /\ queue' = Tail(queue)
      /\ UNCHANGED <<status, created, deferred, returning>>
  BY DEF Take, TakeDue
<1>2. /\ queue \in Seq(Known) /\ deferred \in Seq(Seq(Known)) /\ returning \in Seq(Known)
      /\ Pairs(Order(status, ToSet(created)), queue)
  BY DEF Knows, QueueInOrder
<1>3. /\ Tail(queue) \in Seq(Known) /\ Head(queue) \in Known
      /\ Pairs(Order(status, ToSet(created)), Tail(queue))
  BY <1>1, <1>2, TailPairs
<1>4. /\ queue' \in Seq(Known) /\ active' \in Known \cup {Nothing}
      /\ Pairs(Order(status, ToSet(created)), queue')
  BY <1>1, <1>3
<1>5. QueueInOrder'
  BY <1>1, <1>4, OrderKept
<1> QED
  BY <1>1, <1>2, <1>4, <1>5, KnowsStays

\* Steps of the loop, and of nodes, that leave the queue alone.
LEMMA UntouchedInOrder ==
    ASSUME SInv, created' = created, queue' = queue, deferred' = deferred,
           returning' = returning, active' \in {active, Nothing},
           \A n \in Node : status'[n] = "Asleep" <=> status[n] = "Asleep"
    PROVE  Knows' /\ QueueInOrder'
PROOF
<1> USE DEF SInv
<1>1. QueueInOrder'
  BY NothingMoves
<1>2. /\ queue \in Seq(Known) /\ deferred \in Seq(Seq(Known)) /\ returning \in Seq(Known)
      /\ active' \in Known \cup {Nothing}
  BY DEF Knows
<1> QED
  BY <1>1, <1>2, KnowsStays

LEMMA AcknowledgedInOrder ==
    ASSUME SleepersAnnounce, SInv, Acknowledged
    PROVE  Knows' /\ QueueInOrder'
PROOF
<1> USE DEF SInv
<1> DEFINE c == active.command
           n == NodeOf[c]
           resolved == IF c \in NeedsUpdate THEN {} ELSE {c}
<1>1. pc = "sending" /\ UNCHANGED <<created, deferred, returning>>
  BY DEF Acknowledged
<1>2. n \in Node
  BY <1>1, ActiveIs, SendThreadAssumption
<1>3. active' \in {active, Nothing}
  BY DEF Acknowledged, Idle
<1>4. \/ status' = status /\ queue' = queue
      \/ WakeUp(n, resolved, TRUE)
      \/ /\ ~(n \in CanSleep /\ status[n] = "Asleep")
         /\ status' = [status EXCEPT ![n] = IF n \in CanSleep THEN "Awake" ELSE "Alive"]
         /\ queue' = queue
  BY DEF Acknowledged
<1>5. CASE status' = status /\ queue' = queue
  BY <1>1, <1>3, <1>5, UntouchedInOrder
<1>6. CASE WakeUp(n, resolved, TRUE)
  <2>1. queue' \in Seq(Known) /\ QueueInOrder'
    <3> HIDE DEF resolved
    <3> QED
      BY <1>1, <1>2, <1>6, WakeUpInOrder
  <2>2. /\ deferred' \in Seq(Seq(Known)) /\ returning' \in Seq(Known)
        /\ active' \in Known \cup {Nothing}
    BY <1>1, <1>3 DEF Knows
  <2> QED
    BY <1>1, <2>1, <2>2, KnowsStays
<1>7. CASE /\ ~(n \in CanSleep /\ status[n] = "Asleep")
           /\ status' = [status EXCEPT ![n] = IF n \in CanSleep THEN "Awake" ELSE "Alive"]
           /\ queue' = queue
  <2>1. /\ status[n] # "Asleep" /\ status'[n] # "Asleep"
        /\ \A m \in Node : m # n => status'[m] = status[m]
    BY <1>2, <1>7 DEF TypeOK
  <2>2. \A m \in Node : status'[m] = "Asleep" <=> status[m] = "Asleep"
    BY <2>1
  <2> QED
    BY <1>1, <1>3, <1>7, <2>2, UntouchedInOrder
<1> QED
  BY <1>4, <1>5, <1>6, <1>7

LEMMA NoAcknowledgementInOrder ==
    ASSUME SleepersAnnounce, SInv, NoAcknowledgement
    PROVE  Knows' /\ QueueInOrder'
PROOF
<1> USE DEF SInv
<1> DEFINE c == active.command
           n == NodeOf[c]
           kind == [queue |-> [e \in ToSet(queue) |-> DeadKind(n, e)],
                    active |-> [e \in {} |-> DeadKind(n, e)]]
           rejected == IF MayMoveToWakeupQueue(c) THEN {} ELSE {c}
           reduced == ReducedQueue(kind, status, queue, Nothing)
<1>1. pc = "sending" /\ Idle /\ UNCHANGED <<created, deferred, returning>>
  BY Zenon DEF NoAcknowledgement
<1>2. active \in Entry /\ active # Nothing /\ n \in Node
  BY <1>1, ActiveIs, SendThreadAssumption
<1>3. /\ queue \in Seq(Known) /\ deferred \in Seq(Seq(Known)) /\ active \in Known
      /\ returning \in Seq(Known)
      /\ Pairs(Order(status, ToSet(created)), queue)
  BY <1>2 DEF Knows, QueueInOrder
<1>4. active' = Nothing
  BY <1>1 DEF Idle
<1>5. \/ UNCHANGED <<status, queue>>
      \/ /\ n \in CanSleep
         /\ FallAsleep(n, RequeuedAfterNoAck(active), Nothing, rejected)
      \/ /\ n \notin CanSleep
         /\ status' = [status EXCEPT ![n] = "Dead"]
         /\ queue' = reduced
  BY Zenon DEF NoAcknowledgement
<1>6. CASE UNCHANGED <<status, queue>>
  BY <1>1, <1>4, <1>6, UntouchedInOrder
<1>7. CASE n \in CanSleep /\ FallAsleep(n, RequeuedAfterNoAck(active), Nothing, rejected)
  <2> DEFINE q == RequeuedAfterNoAck(active)
  <2>1. q \in Seq(Known) /\ Pairs(Order(status, ToSet(created)), q)
    <3>1. /\ Insert(status, queue, active) \in Seq(Known)
          /\ Pairs(Order(status, ToSet(created)), Insert(status, queue, active))
      BY <1>3, SleepersFit, KnownIs, InsertInOrder DEF Calm
    <3> QED
      BY <1>3, <3>1 DEF RequeuedAfterNoAck
  <2>2. n \in CanSleep /\ FallAsleep(n, q, Nothing, rejected)
    BY <1>7
  <2> HIDE DEF q, rejected
  <2>3. queue' \in Seq(Known) /\ QueueInOrder'
    BY <1>1, <2>1, <2>2, FallAsleepInOrder
  <2> QED
    BY <1>1, <1>3, <1>4, <2>3, KnowsStays
<1>8. CASE /\ n \notin CanSleep
           /\ status' = [status EXCEPT ![n] = "Dead"]
           /\ queue' = reduced
  <2>1. \A e \in ToSet(queue) : kind.queue[e] \in {"keep", "reject"}
    BY DEF DeadKind
  <2> HIDE DEF kind
  <2>2. reduced \in Seq(Known) /\ Pairs(Order(status, ToSet(created)), reduced)
    BY <2>1, RejectedInOrder
  <2> HIDE DEF reduced
  <2>3. queue' \in Seq(Entry) /\ ToSet(queue') \subseteq Known
    BY <1>8, <2>2, KnownIs, EntriesOf
  <2>4. \A m \in Node : status'[m] = "Asleep" <=> status[m] = "Asleep"
    BY <1>2, <1>8 DEF TypeOK
  <2>5. ASSUME NEW t, t = status'
        PROVE  Pairs(Order(t, ToSet(created)), queue')
    <3>1. ASSUME NEW e \in ToSet(queue')
          PROVE  Sleeping(t, e) <=> Sleeping(status, e)
      <4>1. NodeOfEntry(e) \in Node
        BY <2>3, SendThreadAssumption DEF Known, Of, Proper, Entry, NodeOfEntry
      <4> QED
        BY <2>4, <2>5, <4>1 DEF Sleeping
    <3>2. Pairs(Order(status, ToSet(created)), queue')
      BY <1>8, <2>2
    <3> QED
      BY <2>3, <3>1, <3>2, OrderStays
  <2>6. QueueInOrder'
    BY <1>1, <1>8, <2>2, <2>5, OrderKept
  <2> QED
    BY <1>1, <1>3, <1>4, <1>8, <2>2, <2>6, KnowsStays
<1> QED
  BY <1>5, <1>6, <1>7, <1>8

\* delayTransactionsForNode takes the entries for a node out of the queue.
LEMMA DelayInOrder ==
    ASSUME SInv, NEW n \in Node, NEW first \in Seq(Known), Delay(n, first),
           UNCHANGED <<status, created, returning>>, active' \in {active, Nothing}
    PROVE  Knows' /\ QueueInOrder'
PROOF
<1> USE DEF SInv
<1> DEFINE batch == first \o Selected(queue, EntriesFor(n))
           rest == Selected(queue, ToSet(queue) \ EntriesFor(n))
<1>1. /\ queue \in Seq(Known) /\ deferred \in Seq(Seq(Known)) /\ active' \in Known \cup {Nothing}
      /\ returning \in Seq(Known) /\ Pairs(Order(status, ToSet(created)), queue)
  BY DEF Knows, QueueInOrder
<1>2. queue' = rest /\ (deferred' = deferred \/ deferred' = Append(deferred, batch))
  BY DEF Delay
<1>3. Selected(queue, EntriesFor(n)) \in Seq(Known)
  BY <1>1, KnownIs, SelectedInOrder
<1>4. rest \in Seq(Known) /\ Pairs(Order(status, ToSet(created)), rest)
  BY <1>1, KnownIs, SelectedInOrder
<1>5. batch \in Seq(Known)
  BY <1>3, ConcatProperties, Zenon
<1> HIDE DEF batch, rest
<1>6. deferred' \in Seq(Seq(Known))
  <2>1. Append(deferred, batch) \in Seq(Seq(Known))
    BY <1>1, <1>5, AppendIs, Zenon
  <2> QED
    BY <1>1, <1>2, <2>1
<1>7. queue' \in Seq(Known) /\ QueueInOrder'
  BY <1>2, <1>4, OrderKept
<1> QED
  BY <1>1, <1>6, <1>7, KnowsStays

LEMMA NodeIsBusyInOrder ==
    ASSUME SInv, NodeIsBusy
    PROVE  Knows' /\ QueueInOrder'
PROOF
<1> USE DEF SInv
<1> DEFINE again == [active EXCEPT !.busy = @ + 1]
<1>1. pc = "awaitingUpdate" /\ Idle /\ UNCHANGED <<status, created, returning>>
  BY Zenon DEF NodeIsBusy
<1>2. active \in Entry /\ active # Nothing /\ NodeOfEntry(active) \in Node
  BY <1>1, ActiveIs, SendThreadAssumption DEF NodeOfEntry
<1>3. active \in Known
  BY <1>2 DEF Knows
<1>4. active' = Nothing
  BY <1>1 DEF Idle
<1>5. \/ MayTryAgain(active) /\ Delay(NodeOfEntry(active), <<again>>)
      \/ UNCHANGED <<queue, deferred>>
  BY Zenon DEF NodeIsBusy
<1>6. CASE MayTryAgain(active) /\ Delay(NodeOfEntry(active), <<again>>)
  <2>1. /\ again = [command |-> active.command, priority |-> active.priority,
                    busy |-> active.busy + 1]
        /\ active.busy + 1 \in 0..(MaxBusy - 1)
    BY <1>2, <1>6, SendThreadAssumption DEF Entry, MayTryAgain
  <2>2. again \in Known
    BY <1>3, <2>1 DEF Known, Of, Proper, Entry
  <2> HIDE DEF again
  <2>3. <<again>> \in Seq(Known)
    BY <2>2
  <2> QED
    BY <1>1, <1>2, <1>4, <1>6, <2>3, DelayInOrder
<1>7. CASE UNCHANGED <<queue, deferred>>
  BY <1>1, <1>4, <1>7, UntouchedInOrder
<1> QED
  BY <1>5, <1>6, <1>7

LEMMA RequeueTimerInOrder ==
    ASSUME SInv, NEW i \in DOMAIN deferred, RequeueTimer(i)
    PROVE  Knows' /\ QueueInOrder'
PROOF
<1> USE DEF SInv
<1>1. /\ deferred' = RemoveAt(deferred, i) /\ returning' = deferred[i]
      /\ UNCHANGED <<status, created, queue, active>>
  BY DEF RequeueTimer, RequeueDeferred
<1>2. /\ queue \in Seq(Known) /\ deferred \in Seq(Seq(Known)) /\ active \in Known \cup {Nothing}
  BY DEF Knows
<1>3. deferred[i] \in Seq(Known)
  BY <1>2, ElementIs
<1>4. RemoveAt(deferred, i) \in Seq(Seq(Known))
  BY <1>2, RemoveAtIs
<1>5. QueueInOrder'
  BY <1>1, NothingMoves
<1> QED
  BY <1>1, <1>2, <1>3, <1>4, <1>5, KnowsStays

LEMMA ReturnInOrder ==
    ASSUME SleepersAnnounce, SInv, Return
    PROVE  Knows' /\ QueueInOrder'
PROOF
<1> USE DEF SInv
<1>1. /\ returning # <<>> /\ returning' = Tail(returning)
      /\ queue' = Insert(status, queue, Head(returning))
      /\ UNCHANGED <<status, created, active, deferred>>
  BY DEF Return
<1>2. /\ queue \in Seq(Known) /\ deferred \in Seq(Seq(Known)) /\ active \in Known \cup {Nothing}
      /\ returning \in Seq(Known) /\ Pairs(Order(status, ToSet(created)), queue)
  BY DEF Knows, QueueInOrder
<1>3. Head(returning) \in Known /\ Tail(returning) \in Seq(Known)
  BY <1>1, <1>2, EmptySeq
<1>4. /\ Insert(status, queue, Head(returning)) \in Seq(Known)
      /\ Pairs(Order(status, ToSet(created)), Insert(status, queue, Head(returning)))
  BY <1>2, <1>3, KnownIs, SleepersFit, InsertInOrder DEF Calm
<1>5. queue' \in Seq(Known) /\ QueueInOrder'
  BY <1>1, <1>4, OrderKept
<1> QED
  BY <1>1, <1>2, <1>3, <1>5, KnowsStays

LEMMA StepInOrder ==
    ASSUME SleepersAnnounce, SInv, [Next]_vars, Calm'
    PROVE  Knows' /\ QueueInOrder'
PROOF
<1>1. ASSUME NEW c \in Command, Send(c) \/ SendToSleep(c)
      PROVE  Knows' /\ QueueInOrder'
  BY <1>1, EnqueueInOrder DEF Send, SendToSleep
<1>2. ASSUME NEW c \in Command, Expire(c)
      PROVE  Knows' /\ QueueInOrder'
  BY <1>2, ExpireInOrder
<1>3. ASSUME NEW n \in Node, Leave(n)
      PROVE  Knows' /\ QueueInOrder'
  BY <1>3, LeaveInOrder
<1>4. ASSUME NEW n \in Node, BusyReport(n)
      PROVE  Knows' /\ QueueInOrder'
  <2>1. /\ Delay(n, <<>>) /\ UNCHANGED <<status, created, active, returning>>
        /\ <<>> \in Seq(Known)
    BY <1>4 DEF BusyReport
  <2> QED
    BY <2>1, DelayInOrder
<1>5. ASSUME NEW n \in Node, NodeWakesUp(n)
      PROVE  Knows' /\ QueueInOrder'
  <2> DEFINE completed == pc = "awaitingUpdate"
  <2>1. WakeUp(n, {}, completed) /\ UNCHANGED <<created, active, deferred, returning>>
    BY <1>5 DEF NodeWakesUp
  <2> HIDE DEF completed
  <2>2. queue' \in Seq(Known) /\ QueueInOrder'
    BY <2>1, WakeUpInOrder DEF SInv
  <2>3. /\ deferred' \in Seq(Seq(Known)) /\ returning' \in Seq(Known)
        /\ active' \in Known \cup {Nothing}
    BY <2>1 DEF SInv, Knows
  <2> QED
    BY <2>1, <2>2, <2>3, KnowsStays
<1>6. ASSUME NEW n \in Node, NodeIsAlive(n)
      PROVE  Knows' /\ QueueInOrder'
  <2>1. /\ UNCHANGED <<created, queue, active, deferred, returning>>
        /\ status' = [status EXCEPT ![n] = "Alive"] /\ status[n] # "Asleep"
    BY <1>6 DEF NodeIsAlive
  <2>2. \A m \in Node : status'[m] = "Asleep" <=> status[m] = "Asleep"
    BY <2>1 DEF SInv, TypeOK
  <2> QED
    BY <2>1, <2>2, UntouchedInOrder
<1>7. ASSUME NEW i \in DOMAIN deferred, RequeueTimer(i)
      PROVE  Knows' /\ QueueInOrder'
  BY <1>7, RequeueTimerInOrder
<1>8. CASE Take
  BY <1>8, TakeInOrder
<1>9. CASE Start \/ SendAgain \/ Drop \/ UpdateEnds
  <2>1. UNCHANGED <<status, created, queue, deferred, returning>>
    BY <1>9, Zenon DEF Start, SendAgain, Drop, UpdateEnds
  <2>2. active' \in {active, Nothing}
    BY <1>9, Zenon DEF Start, SendAgain, Drop, UpdateEnds, Idle
  <2> QED
    BY <2>1, <2>2, UntouchedInOrder
<1>10. CASE Acknowledged
  BY <1>10, AcknowledgedInOrder
<1>11. CASE NoAcknowledgement
  BY <1>11, NoAcknowledgementInOrder
<1>12. CASE NodeIsBusy
  BY <1>12, NodeIsBusyInOrder
<1>13. CASE UNCHANGED vars
  BY <1>13, UntouchedInOrder DEF vars
<1>15. CASE Return
  BY <1>15, ReturnInOrder
<1>16. CASE ChangeInclusion
  <2>1. UNCHANGED <<status, created, queue, active, deferred, returning>>
    BY <1>16 DEF ChangeInclusion
  <2> QED
    BY <2>1, UntouchedInOrder
<1>14. CASE LoopStep
  BY <1>8, <1>9, <1>10, <1>11, <1>12, <1>14, Zenon DEF LoopStep
<1> QED
  BY <1>1, <1>2, <1>3, <1>4, <1>5, <1>6, <1>7, <1>13, <1>14, <1>15, <1>16, Zenon DEF Next

LEMMA StartsInOrder == Init => Calm /\ Knows /\ QueueInOrder
PROOF
<1> SUFFICES ASSUME Init
             PROVE  Calm /\ Knows /\ QueueInOrder
  OBVIOUS
<1>1. queue = <<>> /\ deferred = <<>> /\ active = Nothing /\ returning = <<>> /\ created = <<>>
  BY DEF Init
<1>2. <<>> \in Seq(Known) /\ <<>> \in Seq(Seq(Known)) /\ DOMAIN <<>> = {} /\ ToSet(<<>>) = {}
  BY DEF ToSet
<1> QED
  BY <1>1, <1>2 DEF Calm, Knows, QueueInOrder, Pairs

LEMMA CreatedIs ==
    ASSUME [Next]_vars
    PROVE  \/ created' = created
           \/ \E c \in Command \ ToSet(created) : created' = Append(created, c)
PROOF
<1>1. ASSUME NEW c \in Command, Send(c) \/ SendToSleep(c)
      PROVE  c \notin ToSet(created) /\ created' = Append(created, c)
  BY <1>1 DEF Send, SendToSleep, Enqueue, Contains, ToSet
<1>2. CASE LoopStep
  BY <1>2, Zenon
     DEF LoopStep, Take, Start, Acknowledged, SendAgain, NoAcknowledgement, Drop, UpdateEnds,
         NodeIsBusy
<1>3. ASSUME NEW c \in Command, Expire(c)
      PROVE  created' = created
  BY <1>3, Zenon DEF Expire
<1>4. ASSUME NEW n \in Node, Leave(n) \/ BusyReport(n) \/ NodeWakesUp(n) \/ NodeIsAlive(n)
      PROVE  created' = created
  BY <1>4, Zenon DEF Leave, BusyReport, NodeWakesUp, NodeIsAlive
<1>5. ASSUME NEW i \in DOMAIN deferred, RequeueTimer(i)
      PROVE  created' = created
  BY <1>5, Zenon DEF RequeueTimer
<1>6. CASE Return \/ ChangeInclusion \/ UNCHANGED vars
  BY <1>6, Zenon DEF Return, ChangeInclusion, vars
<1> QED
  BY <1>1, <1>2, <1>3, <1>4, <1>5, <1>6 DEF Next

LEMMA CreatedGrows ==
    ASSUME TypeOK, [Next]_vars
    PROVE  ToSet(created) \subseteq ToSet(created')
PROOF
<1>1. ASSUME NEW c \in Command, created' = Append(created, c)
      PROVE  ToSet(created) \subseteq ToSet(created')
  BY <1>1, AppendIs DEF TypeOK
<1> QED
  BY <1>1, CreatedIs

\* If only nodes with Wake Up support sleep, the queue is always sorted by the present status
\* of the nodes, however their status changed since its entries were inserted, until a node is
\* interviewed.
LEMMA AlwaysInOrder ==
    ASSUME SleepersAnnounce
    PROVE  Spec => [](Calm => SInv)
PROOF
<1>1. Init => SInv
  BY StartsInOrder, StartsRight DEF SInv, IInv
<1>2. IInv /\ (Calm => SInv) /\ [Next]_vars => (Calm' => SInv')
  <2> SUFFICES ASSUME IInv, Calm => SInv, [Next]_vars, Calm'
               PROVE  SInv'
    OBVIOUS
  <2>1. Calm
    BY CreatedGrows DEF Calm, IInv
  <2> QED
    BY <2>1, StepInOrder, StepKeeps DEF SInv, IInv
<1> QED
  BY <1>1, <1>2, Invariance, PTL DEF Spec

\* compareTo is asymmetric on the transactions that the driver makes, and transitive on those of
\* one kind.
CompareToIsConsistent ==
    \A e, f, g \in Proper :
        /\ ~SortsBefore(status, e, e)
        /\ SortsBefore(status, e, f) => ~SortsBefore(status, f, e)
        /\ OneKind({e.command, f.command, g.command}) =>
            (SortsBefore(status, e, f) /\ SortsBefore(status, f, g) => SortsBefore(status, e, g))

\* Whatever the status of the nodes, and whether an inclusion holds back interviews or not,
\* Transaction.compareTo does not contradict itself, if only nodes with Wake Up support sleep,
\* all pings are for one node, and there are no node queries or no nodes that can sleep among
\* the three.  With a ping to a sleeping node, a younger one to a node that is awake, and a
\* command for the wakeup queue to that, it goes round in a circle; CompareToIsCyclic is the
\* other case.
THEOREM ConsistentOrder ==
    ASSUME SleepersAnnounce, OnePinged
    PROVE  Spec => []CompareToIsConsistent
PROOF
<1>1. ASSUME TypeOK
      PROVE  CompareToIsConsistent
  <2>1. OnlySleepersAsleep(status)
    BY <1>1, SleepersFit
  <2>2. ASSUME NEW e \in Proper, NEW f \in Proper
        PROVE  SortsBefore(status, e, f) <=>
                    \/ ~MustHold(e) /\ MustHold(f)
                    \/ (MustHold(e) <=> MustHold(f)) /\ Precedes(status, e, f)
    BY SortsIs DEF Proper
  <2>3. ASSUME NEW e \in Proper, NEW f \in Proper, Precedes(status, e, f)
        PROVE  ~Precedes(status, f, e)
    BY <1>1, <2>3, PrecedesOnce DEF Proper
  <2>4. ASSUME NEW e \in Proper, NEW f \in Proper, NEW g \in Proper,
               OneKind({e.command, f.command, g.command}),
               SortsBefore(status, e, f), SortsBefore(status, f, g)
        PROVE  SortsBefore(status, e, g)
    <3>1. {f.command, g.command, e.command} = {e.command, f.command, g.command}
      OBVIOUS
    <3>2. Precedes(status, e, f) /\ Precedes(status, f, g) => Precedes(status, e, g)
      BY <1>1, <2>1, <2>4, <3>1, PrecedesAcross
    <3> QED
      BY <2>2, <2>4, <3>2
  <2> QED
    BY <2>2, <2>3, <2>4 DEF CompareToIsConsistent
<1> QED
  BY <1>1, TypeCorrect, PTL

\* Node queries make Transaction.compareTo go round in a circle: one to a listening node sorts
\* before a command of the wakeup queue to a node that is awake, that before another command to
\* a listening node, and this before the node query.
THEOREM CompareToIsCyclic ==
    ASSUME NEW e \in Proper, NEW f \in Proper, NEW g \in Proper,
           e.priority = "WakeUp", f.priority = "Normal", g.priority = "NodeQuery",
           NodeOfEntry(e) \in CanSleep, NodeOfEntry(f) \notin CanSleep,
           NodeOfEntry(g) \notin CanSleep,
           \A x \in {e, f, g} : status[NodeOfEntry(x)] # "Asleep" /\ ~MustHold(x)
    PROVE  /\ SortsBefore(status, e, f)
           /\ SortsBefore(status, f, g)
           /\ SortsBefore(status, g, e)
PROOF
<1>1. e \in Entry /\ f \in Entry /\ g \in Entry
  BY DEF Proper
<1>2. Precedes(status, e, f) /\ Precedes(status, f, g) /\ Precedes(status, g, e)
  BY DEF Precedes, Sleeping, Listening
<1> QED
  BY <1>1, <1>2, SortsIs

\* What the loop may start, where nobody is interviewed.
LEMMA StartableIs ==
    ASSUME Calm, NEW e \in Known
    PROVE  MayStart(e) <=> ~Blocked(status, e)
PROOF
<1>1. ~MustHold(e)
  BY DEF MustHold, Calm, Known, Of
<1> QED
  BY <1>1 DEF MayStart, Blocked, Sleeping

\* The loop stops at the head of the queue when its node sleeps.  If only nodes with Wake Up
\* support sleep and nobody is interviewed, there is nothing behind it then that could be sent
\* (Driver.ts, mayStartTransaction, and Queue.ts).
THEOREM SleepersStandBehind ==
    ASSUME SleepersAnnounce
    PROVE  Spec => []SleepersDoNotBlock
PROOF
<1>1. ASSUME Calm => SInv
      PROVE  SleepersDoNotBlock
  <2> SUFFICES ASSUME Calm, NEW i \in DOMAIN queue, NEW j \in DOMAIN queue, i < j,
                      ~MayStart(queue[i])
               PROVE  ~MayStart(queue[j])
    BY DEF SleepersDoNotBlock, Calm
  <2>1. SInv
    BY <1>1
  <2>2. queue[i] \in Known /\ queue[j] \in Known
    BY <2>1, ElementIs DEF SInv, Knows
  <2>3. Blocked(status, queue[i])
    BY <2>2, StartableIs
  <2>4. Blocked(status, queue[j])
    BY <2>1, <2>3 DEF SInv, QueueInOrder, Pairs, Order, InOrder
  <2> QED
    BY <2>2, <2>4, StartableIs
<1> QED
  BY <1>1, AlwaysInOrder, PTL

LEMMA OnlyTakeTakes ==
    ASSUME IInv, [Next]_vars, active = Nothing, active' # Nothing
    PROVE  Take
PROOF
<1>1. pc = "idle"
  BY DEF IInv, TypeOK
<1>2. CASE LoopStep
  BY <1>1, <1>2, Zenon
     DEF LoopStep, Start, Acknowledged, SendAgain, NoAcknowledgement, Drop, UpdateEnds, NodeIsBusy
<1>3. ASSUME NEW c \in Command, Send(c) \/ SendToSleep(c) \/ Expire(c)
      PROVE  active' = active
  BY <1>3, Zenon DEF Send, SendToSleep, Enqueue, Expire
<1>4. ASSUME NEW n \in Node, Leave(n) \/ BusyReport(n) \/ NodeWakesUp(n) \/ NodeIsAlive(n)
      PROVE  active' = active \/ active # Nothing
  BY <1>4, Zenon DEF Leave, BusyReport, NodeWakesUp, NodeIsAlive
<1>5. ASSUME NEW i \in DOMAIN deferred, RequeueTimer(i)
      PROVE  active' = active
  BY <1>5, Zenon DEF RequeueTimer
<1>6. Return \/ ChangeInclusion \/ UNCHANGED vars => active' = active
  BY DEF vars, Return, ChangeInclusion
<1> QED
  BY <1>2, <1>3, <1>4, <1>5, <1>6, Zenon DEF Next

-----------------------------------------------------------------------------
(* What the batches do to the order.  The timer of a batch inserts one     *)
(* entry after the other, and the loop may take one in between.  A batch   *)
(* was cut out of the queue, and has its order, except for the transaction *)
(* at its beginning that the node was too busy for.                        *)

\* Pairs of entries that may start one after the other.
Late == {p \in Entry \X Entry : p[1].busy > 0 \/ ~Overtakes(p[1], p[2])}

BatchesInOrder ==
    /\ \A i \in DOMAIN deferred : Pairs(Late, deferred[i])
    /\ Pairs(Late, returning)
\* A transaction that the loop is about to take is not in front of its turn.
Behind ==
    active = Nothing => \A t \in ToSet(queue) : MayStart(t) =>
        \A e \in ToSet(returning) : <<t, e>> \in Late
\* Nobody has to be marked as asleep meanwhile.
NobodyLeaves == returning # <<>> => \A n \in Node : ~LeaveDue(n)

\* The queue may hand out what is in order.
LEMMA OrderIsLate ==
    ASSUME SInv, OnePinged, OneKind(ToSet(created)), NEW e \in Known, NEW f \in Known,
           <<e, f>> \in Order(status, ToSet(created))
    PROVE  <<e, f>> \in Late
PROOF
<1> DEFINE C == ToSet(created)
<1>1. C \cap Interview = {} /\ e \in Of(C) /\ f \in Of(C)
  BY DEF SInv, Calm, Known
<1>2. ~SortsBefore(status, f, e)
  BY DEF Order, InOrder
<1>3. ~Precedes(status, f, e)
  BY <1>1, <1>2, NoneIsHeld
<1>4. NodeOfEntry(e) = NodeOfEntry(f) =>
            /\ Sleeping(status, e) <=> Sleeping(status, f)
            /\ Listening(e) <=> Listening(f)
  BY DEF Sleeping, Listening
<1>5. ~Overtakes(e, f)
  BY <1>3, <1>4 DEF Overtakes, Precedes
<1> QED
  BY <1>5, KnownIs DEF Late

LEMMA NothingStarts ==
    ASSUME SInv, active = Nothing, ~TakeDue, NEW t \in ToSet(queue)
    PROVE  ~MayStart(t)
PROOF
<1> USE DEF SInv
<1>1. queue \in Seq(Known)
  BY DEF Knows
<1>2. PICK i \in DOMAIN queue : queue[i] = t
  BY DEF ToSet
<1>3. Len(queue) \in Nat /\ DOMAIN queue = 1..Len(queue)
  BY <1>1
<1>4. queue # <<>>
  BY <1>2
<1>5. 1 \in DOMAIN queue /\ Head(queue) = queue[1] /\ (i = 1 \/ 1 < i)
  BY <1>2, <1>3, <1>4
<1>6. queue[1] \in Known /\ t \in Known
  BY <1>1, <1>2, <1>5, ElementIs
<1>7. Blocked(status, queue[1])
  BY <1>4, <1>5, <1>6, StartableIs DEF TakeDue
<1>8. Blocked(status, t)
  <2>1. CASE i = 1
    BY <1>2, <1>7, <2>1
  <2>2. CASE 1 < i
    BY <1>2, <1>5, <1>7, <2>2 DEF QueueInOrder, Pairs, Order, InOrder
  <2> QED
    BY <1>5, <2>1, <2>2
<1> QED
  BY <1>6, <1>8, StartableIs

\* The age of a command does not change.
LEMMA TimesKept ==
    ASSUME TypeOK, [Next]_vars, NEW d \in ToSet(created)
    PROVE  CreationTime(d)' = CreationTime(d)
PROOF
<1>1. created' = created => CreationTime(d)' = CreationTime(d)
  BY DEF CreationTime, SelectInSeq
<1> QED
  BY <1>1, CreatedIs, TimesStay

\* The batches keep their order when they hold no other entries than before.
LEMMA LateStays ==
    ASSUME TypeOK, [Next]_vars, NEW q \in Seq(Known), Pairs(Late, q)
    PROVE  Pairs(Late', q)
PROOF
<1>1. ASSUME NEW e \in Known, NEW f \in Known, <<e, f>> \in Late
      PROVE  <<e, f>> \in Late'
  <2>1. e.command \in ToSet(created) /\ f.command \in ToSet(created)
    BY DEF Known, Of
  <2> DEFINE c == e.command
             d == f.command
  <2> HIDE DEF c, d
  <2>2. CreationTime(c)' = CreationTime(c) /\ CreationTime(d)' = CreationTime(d)
    BY <2>1, TimesKept DEF c, d
  <2>3. Overtakes(e, f)' <=> Overtakes(e, f)
    BY <2>2 DEF Overtakes, NodeOfEntry, c, d
  <2> QED
    BY <1>1, <2>3 DEF Late, Entry
<1>2. \A i \in DOMAIN q : q[i] \in Known
  BY ElementIs
<1> QED
  BY <1>1, <1>2 DEF Pairs

LEMMA BatchesFollow ==
    ASSUME TypeOK, Knows, [Next]_vars,
           \A i \in DOMAIN deferred' : deferred'[i] \in Seq(Known) /\ Pairs(Late, deferred'[i]),
           returning' \in Seq(Known), Pairs(Late, returning')
    PROVE  BatchesInOrder'
PROOF
<1>1. ASSUME NEW i \in DOMAIN deferred'
      PROVE  Pairs(Late', deferred'[i])
  BY LateStays
<1>2. Pairs(Late', returning')
  BY LateStays
<1> QED
  BY <1>1, <1>2 DEF BatchesInOrder, Pairs

\* The batch of a busy node.
LEMMA DelayedInOrder ==
    ASSUME SInv, OnePinged, OneKind(ToSet(created)), BatchesInOrder, [Next]_vars,
           NEW n, NEW first \in Seq(Known), Delay(n, first), returning' = returning,
           Pairs(Late, first), \A e \in ToSet(first) : e.busy > 0
    PROVE  BatchesInOrder'
PROOF
<1> USE DEF SInv
<1> DEFINE mine == Selected(queue, EntriesFor(n))
           batch == first \o mine
<1>1. deferred' = deferred \/ deferred' = Append(deferred, batch)
  BY DEF Delay
<1>2. /\ queue \in Seq(Known) /\ deferred \in Seq(Seq(Known)) /\ returning \in Seq(Known)
      /\ Pairs(Order(status, ToSet(created)), queue)
  BY DEF Knows, QueueInOrder
<1>3. mine \in Seq(Known) /\ Pairs(Order(status, ToSet(created)), mine)
  BY <1>2, KnownIs, SelectedInOrder
<1> HIDE DEF mine
<1>4. \A i \in DOMAIN mine : mine[i] \in Known
  BY <1>3, ElementIs
<1>5. Pairs(Late, mine)
  BY <1>3, <1>4, OrderIsLate DEF Pairs
<1>6. ToSet(first) \subseteq Known /\ ToSet(mine) \subseteq Known
  BY <1>3, KnownIs, EntriesOf
<1>7. \A e \in ToSet(first), f \in ToSet(mine) : <<e, f>> \in Late
  BY <1>6, KnownIs DEF Late
<1>8. Pairs(Late, batch)
  BY <1>3, <1>5, <1>7, ConcatPairs
<1>9. batch \in Seq(Known)
  BY <1>3, ConcatIs
<1> HIDE DEF batch
<1>10. \A i \in DOMAIN deferred : deferred[i] \in Seq(Known) /\ Pairs(Late, deferred[i])
  BY <1>2, ElementIs DEF BatchesInOrder
<1>11. \A i \in DOMAIN deferred' :
            \/ i \in DOMAIN deferred /\ deferred'[i] = deferred[i]
            \/ deferred'[i] = batch
  <2>1. \A i \in DOMAIN Append(deferred, batch) :
            \/ i \in DOMAIN deferred /\ Append(deferred, batch)[i] = deferred[i]
            \/ Append(deferred, batch)[i] = batch
    BY <1>2, <1>9, AppendProperties
  <2> QED
    BY <1>1, <2>1
<1>12. \A i \in DOMAIN deferred' : deferred'[i] \in Seq(Known) /\ Pairs(Late, deferred'[i])
  BY <1>8, <1>9, <1>10, <1>11
<1> QED
  BY <1>2, <1>12, BatchesFollow DEF BatchesInOrder

LEMMA BusyInOrder ==
    ASSUME SInv, OnePinged, OneKind(ToSet(created)), BatchesInOrder, [Next]_vars, NodeIsBusy
    PROVE  BatchesInOrder'
PROOF
<1> USE DEF SInv
<1> DEFINE again == [active EXCEPT !.busy = @ + 1]
<1>1. pc = "awaitingUpdate" /\ returning' = returning
  BY Zenon DEF NodeIsBusy
<1>2. active \in Entry /\ active # Nothing
  BY <1>1, ActiveIs
<1>3. active \in Known
  BY <1>2 DEF Knows
<1>4. \/ MayTryAgain(active) /\ Delay(NodeOfEntry(active), <<again>>)
      \/ UNCHANGED <<queue, deferred>>
  BY Zenon DEF NodeIsBusy
<1>5. CASE MayTryAgain(active) /\ Delay(NodeOfEntry(active), <<again>>)
  <2>1. /\ again = [command |-> active.command, priority |-> active.priority,
                    busy |-> active.busy + 1]
        /\ active.busy + 1 \in 0..(MaxBusy - 1) /\ active.busy + 1 > 0
    BY <1>2, <1>5, SendThreadAssumption DEF Entry, MayTryAgain
  <2>2. again \in Known /\ again.busy > 0
    BY <1>3, <2>1 DEF Known, Of, Proper, Entry
  <2> HIDE DEF again
  <2>3. <<again>> \in Seq(Known) /\ ToSet(<<again>>) = {again}
    BY <2>2, SingleIs
  <2>4. Pairs(Late, <<again>>)
    BY DEF Pairs
  <2> QED
    BY <1>1, <1>5, <2>2, <2>3, <2>4, DelayedInOrder
<1>6. CASE UNCHANGED <<queue, deferred>>
  <2>1. /\ \A i \in DOMAIN deferred' : deferred'[i] \in Seq(Known) /\ Pairs(Late, deferred'[i])
        /\ returning' \in Seq(Known)
    BY <1>1, <1>6, ElementIs DEF Knows, BatchesInOrder
  <2> QED
    BY <1>1, <2>1, BatchesFollow DEF BatchesInOrder
<1> QED
  BY <1>4, <1>5, <1>6

LEMMA StepBatches ==
    ASSUME SInv, OnePinged, OneKind(ToSet(created)), BatchesInOrder, [Next]_vars
    PROVE  BatchesInOrder'
PROOF
<1> USE DEF SInv
<1>1. /\ deferred \in Seq(Seq(Known)) /\ returning \in Seq(Known) /\ Pairs(Late, returning)
      /\ \A i \in DOMAIN deferred : deferred[i] \in Seq(Known) /\ Pairs(Late, deferred[i])
  BY ElementIs DEF Knows, BatchesInOrder
<1>2. CASE UNCHANGED <<deferred, returning>>
  BY <1>1, <1>2, BatchesFollow
<1>3. ASSUME NEW c \in Command, Send(c) \/ SendToSleep(c) \/ Expire(c)
      PROVE  UNCHANGED <<deferred, returning>>
  BY <1>3, Zenon DEF Send, SendToSleep, Enqueue, Expire
<1>4. ASSUME NEW n \in Node, Leave(n) \/ NodeWakesUp(n) \/ NodeIsAlive(n)
      PROVE  UNCHANGED <<deferred, returning>>
  BY <1>4, Zenon DEF Leave, NodeWakesUp, NodeIsAlive
<1>5. ASSUME NEW n \in Node, BusyReport(n)
      PROVE  BatchesInOrder'
  <2>1. Delay(n, <<>>) /\ returning' = returning
    BY <1>5 DEF BusyReport
  <2>2. <<>> \in Seq(Known) /\ Pairs(Late, <<>>) /\ ToSet(<<>>) = {}
    BY DEF Pairs, ToSet
  <2> QED
    BY <2>1, <2>2, DelayedInOrder
<1>6. ASSUME NEW i \in DOMAIN deferred, RequeueTimer(i)
      PROVE  BatchesInOrder'
  <2>1. deferred' = RemoveAt(deferred, i) /\ returning' = deferred[i]
    BY <1>6 DEF RequeueTimer, RequeueDeferred
  <2>2. /\ DOMAIN RemoveAt(deferred, i) = 1..(Len(deferred) - 1)
        /\ \A j \in 1..(Len(deferred) - 1) :
                RemoveAt(deferred, i)[j] = deferred[IF j < i THEN j ELSE j + 1]
    BY <1>1, RemoveAtElements
  <2>3. /\ Len(deferred) \in Nat /\ DOMAIN deferred = 1..Len(deferred) /\ i \in Nat
        /\ \A j \in 1..(Len(deferred) - 1) : (IF j < i THEN j ELSE j + 1) \in DOMAIN deferred
    BY <1>1
  <2>4. \A j \in DOMAIN deferred' : deferred'[j] \in Seq(Known) /\ Pairs(Late, deferred'[j])
    BY <1>1, <2>1, <2>2, <2>3
  <2> QED
    BY <1>1, <2>1, <2>4, BatchesFollow
<1>7. CASE Return
  <2>1. returning # <<>> /\ returning' = Tail(returning) /\ deferred' = deferred
    BY <1>7 DEF Return
  <2>2. Tail(returning) \in Seq(Known) /\ Pairs(Late, Tail(returning))
    BY <1>1, <2>1, TailPairs
  <2> QED
    BY <1>1, <2>1, <2>2, BatchesFollow
<1>8. CASE ChangeInclusion \/ UNCHANGED vars
  BY <1>2, <1>8, Zenon DEF ChangeInclusion, vars
<1>9. CASE NodeIsBusy
  BY <1>9, BusyInOrder
<1>10. CASE LoopStep
  <2>1. CASE Take \/ Start \/ Acknowledged \/ SendAgain \/ NoAcknowledgement \/ Drop \/ UpdateEnds
    <3>1. UNCHANGED <<deferred, returning>>
      BY <2>1, Zenon
         DEF Take, Start, Acknowledged, SendAgain, NoAcknowledgement, Drop, UpdateEnds
    <3> QED
      BY <1>2, <3>1
  <2> QED
    BY <1>9, <1>10, <2>1, Zenon DEF LoopStep
<1> QED
  BY <1>2, <1>3, <1>4, <1>5, <1>6, <1>7, <1>8, <1>10, Zenon DEF Next

\* Nothing else happens while the entries of a batch are inserted.
LEMMA WhileReturning ==
    ASSUME TypeOK, NobodyLeaves, [Next]_vars, returning' # <<>>
    PROVE  \/ Take \/ Return \/ UNCHANGED vars
           \/ \E i \in DOMAIN deferred : RequeueTimer(i)
PROOF
<1>1. ASSUME returning = <<>>
      PROVE  \/ UNCHANGED vars
             \/ \E i \in DOMAIN deferred : RequeueTimer(i)
  <2>1. returning' # returning
    BY <1>1
  <2>2. CASE LoopStep
    BY <2>1, <2>2, Zenon
       DEF LoopStep, Take, Start, Acknowledged, SendAgain, NoAcknowledgement, Drop, UpdateEnds,
           NodeIsBusy
  <2>3. ASSUME NEW c \in Command, Send(c) \/ SendToSleep(c) \/ Expire(c)
        PROVE  FALSE
    BY <2>1, <2>3, Zenon DEF Send, SendToSleep, Enqueue, Expire
  <2>4. ASSUME NEW n \in Node, Leave(n) \/ BusyReport(n) \/ NodeWakesUp(n) \/ NodeIsAlive(n)
        PROVE  FALSE
    BY <2>1, <2>4, Zenon DEF Leave, BusyReport, NodeWakesUp, NodeIsAlive
  <2>5. ~Return /\ ~ChangeInclusion
    BY <1>1, <2>1, Zenon DEF Return, ChangeInclusion
  <2> QED
    BY <2>2, <2>3, <2>4, <2>5, Zenon DEF Next
<1>2. ASSUME returning # <<>>
      PROVE  Take \/ Return \/ UNCHANGED vars
  <2>1. ~Quiet /\ \A n \in Node : ~LeaveDue(n)
    BY <1>2 DEF Quiet, NobodyLeaves
  <2>2. LoopStep => Take
    BY <1>2, <2>1, Zenon
       DEF LoopStep, Start, Acknowledged, SendAgain, NoAcknowledgement, Drop, UpdateEnds,
           NodeIsBusy
  <2>3. ASSUME NEW c \in Command, Send(c) \/ SendToSleep(c) \/ Expire(c)
        PROVE  FALSE
    BY <2>1, <2>3, Zenon DEF Send, SendToSleep, Enqueue, Expire
  <2>4. ASSUME NEW n \in Node, Leave(n) \/ BusyReport(n) \/ NodeWakesUp(n) \/ NodeIsAlive(n)
        PROVE  FALSE
    BY <2>1, <2>4, Zenon DEF Leave, BusyReport, NodeWakesUp, NodeIsAlive
  <2>5. ASSUME NEW i \in DOMAIN deferred, RequeueTimer(i)
        PROVE  FALSE
    BY <2>1, <2>5, Zenon DEF RequeueTimer
  <2>6. ~ChangeInclusion
    BY <2>1, Zenon DEF ChangeInclusion
  <2> QED
    BY <2>2, <2>3, <2>4, <2>5, <2>6, Zenon DEF Next
<1> QED
  BY <1>1, <1>2

LEMMA StepNobodyLeaves ==
    ASSUME TypeOK, NobodyLeaves, [Next]_vars
    PROVE  NobodyLeaves'
PROOF
<1> SUFFICES ASSUME returning' # <<>>
             PROVE  \A n \in Node : ~LeaveDue(n)'
  BY DEF NobodyLeaves
<1>1. \/ Take \/ Return \/ UNCHANGED vars
      \/ \E i \in DOMAIN deferred : RequeueTimer(i)
  BY WhileReturning
<1>2. UNCHANGED <<leaving, settled>>
  BY <1>1, Zenon DEF Take, Return, RequeueTimer, vars
<1>3. \A n \in Node : ~LeaveDue(n)
  <2>1. CASE Take \/ UNCHANGED vars
    BY <2>1 DEF NobodyLeaves, Take, vars
  <2>2. CASE Return
    BY <2>2 DEF NobodyLeaves, Return
  <2>3. CASE \E i \in DOMAIN deferred : RequeueTimer(i)
    BY <2>3, Zenon DEF RequeueTimer, Quiet
  <2> QED
    BY <1>1, <2>1, <2>2, <2>3
<1> QED
  BY <1>2, <1>3 DEF LeaveDue

LEMMA StepBehind ==
    ASSUME IInv, SInv, OneKind(ToSet(created)), BatchesInOrder, BatchesInOrder', Behind,
           NobodyLeaves, [Next]_vars
    PROVE  Behind'
PROOF
<1> SUFFICES ASSUME active' = Nothing, NEW t \in ToSet(queue'), MayStart(t)',
                    NEW e \in ToSet(returning')
             PROVE  <<t, e>> \in Late'
  BY DEF Behind
<1>1. TypeOK /\ queue \in Seq(Known) /\ returning \in Seq(Known)
  BY DEF SInv, Knows
<1>2. returning' # <<>>
  BY DEF ToSet
<1>3. \/ Take \/ Return \/ UNCHANGED vars
      \/ \E i \in DOMAIN deferred : RequeueTimer(i)
  BY <1>1, <1>2, WhileReturning
<1>4. ~Take
  <2> SUFFICES ASSUME Take
               PROVE  FALSE
    OBVIOUS
  <2>1. queue # <<>> /\ active' = Head(queue)
    BY DEF Take, TakeDue
  <2>2. active' \in Known
    BY <1>1, <2>1, HeadAndTail
  <2> QED
    BY <2>2, KnownIs, NothingIsNoEntry
<1>5. UNCHANGED <<status, created, active, including>>
  BY <1>3, <1>4, Zenon DEF Return, RequeueTimer, vars
<1>6. MayStart(t)
  BY <1>5 DEF MayStart, MustHold, NodeOfEntry
<1>7. CASE \E i \in DOMAIN deferred : RequeueTimer(i)
  <2>1. ~TakeDue /\ queue' = queue
    BY <1>7, Zenon DEF RequeueTimer, Quiet
  <2> QED
    BY <1>5, <1>6, <2>1, NothingStarts
<1>8. CASE Return
  <2>1. /\ ~TakeDue /\ returning # <<>> /\ returning' = Tail(returning)
        /\ queue' = Insert(status, queue, Head(returning))
    BY <1>8 DEF Return
  <2>2. Head(returning) \in Known /\ ToSet(queue') = ToSet(queue) \cup {Head(returning)}
    <3>1. Head(returning) \in Known
      BY <1>1, <2>1, HeadAndTail
    <3>2. queue \in Seq(Entry) /\ Head(returning) \in Entry
      BY <1>1, <3>1, KnownIs, EntriesOf
    <3> QED
      BY <2>1, <3>1, <3>2, InsertIs
  <2>3. t = Head(returning)
    BY <1>5, <1>6, <2>1, <2>2, NothingStarts
  <2>4. PICK k \in DOMAIN Tail(returning) : Tail(returning)[k] = e
    BY <2>1 DEF ToSet
  <2>5. /\ Head(returning) = returning[1] /\ 1 \in DOMAIN returning /\ Len(returning) \in Nat
        /\ DOMAIN Tail(returning) = 1..(Len(returning) - 1)
        /\ k + 1 \in DOMAIN returning /\ Tail(returning)[k] = returning[k + 1]
    BY <1>1, <2>1, <2>4, TailPairs DEF BatchesInOrder
  <2>6. 1 < k + 1
    BY <2>4, <2>5
  <2>7. <<t, e>> \in Late
    BY <2>3, <2>4, <2>5, <2>6 DEF BatchesInOrder, Pairs
  <2>8. Late' = Late
    BY <1>5 DEF Late, Overtakes, CreationTime, SelectInSeq, NodeOfEntry, Entry
  <2> QED
    BY <2>7, <2>8
<1>9. CASE UNCHANGED vars
  <2>1. UNCHANGED <<queue, returning, created, active>>
    BY <1>9 DEF vars
  <2>2. Late' = Late
    BY <2>1 DEF Late, Overtakes, CreationTime, SelectInSeq, NodeOfEntry, Entry
  <2> QED
    BY <1>6, <2>1, <2>2 DEF Behind
<1> QED
  BY <1>3, <1>4, <1>7, <1>8, <1>9

\* Orderly: the premises of OlderFirst.
Orderly == Calm /\ OneKind(ToSet(created))
BInv == Orderly => BatchesInOrder /\ Behind

LEMMA AlwaysBehind ==
    ASSUME SleepersAnnounce, OnePinged
    PROVE  Spec => [](NobodyLeaves /\ BInv)
PROOF
<1>1. Init => NobodyLeaves /\ BInv
  <2> SUFFICES ASSUME Init
               PROVE  NobodyLeaves /\ BInv
    OBVIOUS
  <2>1. deferred = <<>> /\ returning = <<>> /\ DOMAIN <<>> = {} /\ ToSet(<<>>) = {}
    BY DEF Init, ToSet
  <2> QED
    BY <2>1 DEF NobodyLeaves, BInv, BatchesInOrder, Behind, Pairs
<1>2. ASSUME IInv, Calm => SInv, NobodyLeaves, BInv, [Next]_vars
      PROVE  NobodyLeaves' /\ BInv'
  <2>1. NobodyLeaves'
    BY <1>2, StepNobodyLeaves DEF IInv
  <2>2. ASSUME Orderly'
        PROVE  BatchesInOrder' /\ Behind'
    <3>1. ToSet(created) \subseteq ToSet(created')
      BY <1>2, CreatedGrows DEF IInv
    <3>2. Orderly
      BY <2>2, <3>1 DEF Orderly, Calm, OneKind
    <3>3. SInv /\ OneKind(ToSet(created)) /\ BatchesInOrder /\ Behind
      BY <1>2, <3>2 DEF Orderly, BInv
    <3>4. BatchesInOrder'
      BY <1>2, <3>3, StepBatches
    <3> QED
      BY <1>2, <3>3, <3>4, StepBehind
  <2> QED
    BY <2>1, <2>2 DEF BInv
<1> QED
  BY <1>1, <1>2, Invariance, AlwaysInOrder, PTL DEF Spec

\* If also all pings are for one node, and the commands are of one kind, the transaction that is
\* taken is the oldest of those for its node with its priority in the queue, whatever was queued
\* again, and how often.  Unless the node was too busy for it before, it is also older than those
\* that a batch has yet to queue (Transaction.compareTo, Driver.reduceQueue,
\* Driver.delayTransactionsForNode).
THEOREM OlderIsFirst ==
    ASSUME SleepersAnnounce, OnePinged
    PROVE  Spec => OlderFirst
PROOF
<1> DEFINE Older ==
        /\ active = Nothing /\ active' # Nothing
        /\ ToSet(created) \cap Interview = {} /\ OneKind(ToSet(created))
        => /\ \A e \in ToSet(queue) : ~Overtakes(active', e)
           /\ active'.busy = 0 => \A e \in ToSet(returning) : ~Overtakes(active', e)
<1>1. IInv /\ (Calm => SInv) /\ BInv /\ [Next]_vars => Older
  <2> SUFFICES ASSUME IInv, Calm => SInv, BInv, [Next]_vars,
                      active = Nothing, active' # Nothing, Calm, OneKind(ToSet(created))
               PROVE  /\ \A e \in ToSet(queue) : ~Overtakes(active', e)
                      /\ active'.busy = 0 =>
                            \A e \in ToSet(returning) : ~Overtakes(active', e)
    BY DEF Calm
  <2>1. SInv /\ BatchesInOrder /\ Behind
    BY DEF BInv, Orderly
  <2>2. queue # <<>> /\ active' = Head(queue) /\ MayStart(Head(queue))
    BY OnlyTakeTakes DEF Take, TakeDue
  <2>3. queue \in Seq(Known) /\ Pairs(Order(status, ToSet(created)), queue)
    BY <2>1 DEF SInv, Knows, QueueInOrder
  <2>4. /\ Head(queue) = queue[1] /\ Len(queue) \in Nat /\ DOMAIN queue = 1..Len(queue)
        /\ 1 \in DOMAIN queue
    BY <2>2, <2>3, TailPairs
  <2>5. active' = queue[1] /\ queue[1] \in Known /\ queue[1] \in ToSet(queue)
    BY <2>2, <2>3, <2>4, ElementIs DEF ToSet
  <2>6. ASSUME NEW e \in ToSet(queue)
        PROVE  ~Overtakes(queue[1], e)
    <3>1. PICK i \in DOMAIN queue : queue[i] = e
      BY DEF ToSet
    <3>2. e \in Known
      BY <2>3, <3>1, ElementIs
    <3>3. CASE i = 1
      <4>1. CreationTime(e.command) \in Nat
        BY <2>1, <3>2, TimeIs DEF SInv, Known, Of, Proper, Entry
      <4>2. ~(CreationTime(e.command) < CreationTime(e.command))
        BY <4>1
      <4> QED
        BY <3>1, <3>3, <4>2 DEF Overtakes
    <3>4. CASE 1 < i
      <4> DEFINE C == ToSet(created)
      <4>1. <<queue[1], e>> \in Order(status, C)
        BY <2>3, <2>4, <3>1, <3>4 DEF Pairs
      <4>2. ~SortsBefore(status, e, queue[1])
        BY <4>1 DEF Order, InOrder
      <4>3. ~Precedes(status, e, queue[1])
        BY <2>5, <3>2, <4>2, NoneIsHeld DEF Calm, Known
      <4>4. NodeOfEntry(queue[1]) = NodeOfEntry(e) =>
                /\ Sleeping(status, queue[1]) <=> Sleeping(status, e)
                /\ Listening(queue[1]) <=> Listening(e)
        BY DEF Sleeping, Listening
      <4> QED
        BY <4>3, <4>4 DEF Overtakes, Precedes
    <3> QED
      BY <2>4, <3>1, <3>3, <3>4
  <2>7. ASSUME queue[1].busy = 0, NEW e \in ToSet(returning)
        PROVE  ~Overtakes(queue[1], e)
    <3>1. <<queue[1], e>> \in Late
      BY <2>1, <2>2, <2>4, <2>5 DEF Behind
    <3> QED
      BY <2>7, <3>1 DEF Late
  <2>8. /\ \A e \in ToSet(queue) : ~Overtakes(queue[1], e)
        /\ queue[1].busy = 0 => \A e \in ToSet(returning) : ~Overtakes(queue[1], e)
    BY <2>6, <2>7
  <2>9. \A e : Overtakes(active', e) <=> Overtakes(queue[1], e)
    BY <2>5
  <2> QED
    BY <2>5, <2>8, <2>9
<1>2. Spec => [][Older]_vars
  <2> HIDE DEF Older
  <2> QED
    BY <1>1, Invariance, AlwaysInOrder, AlwaysBehind, PTL DEF Spec
<1> QED
  BY <1>2 DEF OlderFirst

-----------------------------------------------------------------------------
(* No second copy *)

\* Entries, and batches, of different commands.
Apart == {p \in Entry \X Entry : p[1].command # p[2].command}
ApartBatches == {p \in Seq(Entry) \X Seq(Entry) : Commands(p[1]) \cap Commands(p[2]) = {}}

NobodyIsSentToSleep == ToSet(created) \cap NoMoreInformation = {}

\* Every entry is of a command that exists.
AllCreated ==
    /\ Commands(queue) \cup Commands(returning) \subseteq ToSet(created)
    /\ \A c : InBatch(c, deferred) => c \in ToSet(created)
    /\ active # Nothing => active.command \in ToSet(created)

\* No command is twice in the queue, the batches, on its way back from one, and in the hands of
\* the loop together.
Unique ==
    /\ AllCreated
    /\ leaving = {}
    /\ Pairs(Apart, queue)
    /\ Pairs(Apart, returning)
    /\ Commands(returning) \cap Commands(queue) = {}
    /\ Pairs(ApartBatches, deferred)
    /\ \A i \in DOMAIN deferred :
        /\ Pairs(Apart, deferred[i])
        /\ Commands(deferred[i]) \cap Commands(queue) = {}
        /\ Commands(deferred[i]) \cap Commands(returning) = {}
    /\ active # Nothing =>
        /\ ~Blocked(status, active)
        /\ active.command \notin Commands(queue)
        /\ active.command \notin Commands(returning)
        /\ ~InBatch(active.command, deferred)

UInv == NobodyIsSentToSleep => Unique

\* Where an entry of another command is inserted does not matter.
LEMMA JoinsApart ==
    ASSUME NEW s, NEW e \in Entry, NEW F \in SUBSET Entry, \A f \in F : f.command # e.command
    PROVE  MayJoin(s, e, F, Apart)
PROOF
  BY DEF MayJoin, Apart

LEMMA InsertApart ==
    ASSUME NEW s, NEW q \in Seq(Entry), Pairs(Apart, q), NEW e \in Entry,
           e.command \notin Commands(q)
    PROVE  Pairs(Apart, Insert(s, q, e))
PROOF
<1>1. ToSet(q) \in SUBSET Entry /\ \A f \in ToSet(q) : f.command # e.command
  BY MembersAre DEF Commands
<1> QED
  BY <1>1, JoinsApart, InsertPairs

LEMMA ApartIs ==
    ASSUME NEW q \in Seq(Entry), Pairs(Apart, q)
    PROVE  /\ \A i, j \in DOMAIN q : i # j => q[i].command # q[j].command
           /\ \A e, f \in ToSet(q) : e # f => e.command # f.command
PROOF
<1>1. DOMAIN q = 1..Len(q) /\ Len(q) \in Nat
  OBVIOUS
<1>2. ASSUME NEW i \in DOMAIN q, NEW j \in DOMAIN q, i < j
      PROVE  q[i].command # q[j].command
  BY <1>2 DEF Pairs, Apart
<1>3. ASSUME NEW i \in DOMAIN q, NEW j \in DOMAIN q, i # j
      PROVE  q[i].command # q[j].command
  <2>1. i < j \/ j < i
    BY <1>1, <1>3
  <2> QED
    BY <1>2, <2>1
<1>4. ASSUME NEW e \in ToSet(q), NEW f \in ToSet(q), e # f
      PROVE  e.command # f.command
  <2>1. PICK i \in DOMAIN q : q[i] = e
    BY DEF ToSet
  <2>2. PICK j \in DOMAIN q : q[j] = f
    BY DEF ToSet
  <2> QED
    BY <1>3, <1>4, <2>1, <2>2
<1> QED
  BY <1>3, <1>4

LEMMA InsertAllApart ==
    ASSUME NEW s, NEW q \in Seq(Entry), Pairs(Apart, q), NEW es \in Seq(Entry),
           Pairs(Apart, es), Commands(q) \cap Commands(es) = {}
    PROVE  Pairs(Apart, InsertAll(s, q, es))
PROOF
<1>1. ASSUME NEW k \in 1..Len(es)
      PROVE  MayJoin(s, es[k], ToSet(q) \cup {es[i] : i \in 1..(k - 1)}, Apart)
  <2> DEFINE before == {es[i] : i \in 1..(k - 1)}
  <2>1. DOMAIN es = 1..Len(es) /\ Len(es) \in Nat /\ es[k] \in Entry
    OBVIOUS
  <2>2. \A i \in 1..(k - 1) : i \in DOMAIN es /\ i # k /\ es[i] \in Entry
    BY <2>1
  <2>3. \A i \in 1..(k - 1) : es[i].command # es[k].command
    BY <2>1, <2>2, ApartIs
  <2>4. \A f \in before : f \in Entry /\ f.command # es[k].command
    BY <2>2, <2>3
  <2>5. es[k].command \in Commands(es)
    BY <2>1 DEF Commands, ToSet
  <2>6. \A f \in ToSet(q) : f \in Entry /\ f.command # es[k].command
    BY <2>5, MembersAre DEF Commands
  <2> HIDE DEF before
  <2>7. MayJoin(s, es[k], ToSet(q) \cup before, Apart)
    BY <2>1, <2>4, <2>6, JoinsApart
  <2> QED
    BY <2>7 DEF before
<1> QED
  BY <1>1, InsertAllPairs

\* reduceQueue copies nothing, unless the active command is queued again.
LEMMA ReducedApart ==
    ASSUME NEW kind, NEW s, NEW q \in Seq(Entry), Pairs(Apart, q),
           NEW current \in Entry \cup {Nothing},
           \A e \in {current} \ {Nothing} : ~Requeued(kind.active[e])
    PROVE  LET reduced == ReducedQueue(kind, s, q, current) IN
           /\ reduced \in Seq(Entry) /\ Pairs(Apart, reduced)
           /\ Commands(reduced) \subseteq Commands(q)
PROOF
<1> DEFINE waiting == {e \in ToSet(q) : kind.queue[e] \in {"requeue", "requeue reset"}}
           running == {e \in {current} \ {Nothing} :
                            kind.active[e] \in {"requeue", "requeue reset"}}
           reset == {e \in waiting : kind.queue[e] = "requeue reset"}
                    \cup {e \in running : kind.active[e] = "requeue reset"}
           last == IF running = {} THEN <<>> ELSE <<current>>
           first == Selected(q, waiting)
           requeued == first \o last
           staying == {e \in ToSet(q) : kind.queue[e] = "keep"}
           kept == Selected(q, staying)
           added == [i \in DOMAIN requeued |-> RequeuedEntry(requeued[i], requeued[i] \in reset)]
           reduced == ReducedQueue(kind, s, q, current)
<1>1. reduced = InsertAll(s, kept, added)
  BY Zenon DEF ReducedQueue
<1>2. last = <<>>
  BY Zenon DEF Requeued
<1>3. waiting \cap staying = {} /\ waiting \subseteq ToSet(q) /\ staying \subseteq ToSet(q)
  <2>1. "keep" \notin {"requeue", "requeue reset"}
    BY Zenon
  <2> QED
    BY <2>1, Zenon
<1> HIDE DEF waiting, staying, last, reset, running
<1>4. first \in Seq(Entry) /\ ToSet(first) = waiting /\ Pairs(Apart, first)
  <2>1. first \in Seq(Entry) /\ ToSet(first) = ToSet(q) \cap waiting
    BY SelectedIs
  <2>2. Pairs(Apart, first)
    BY SelectedPairs
  <2> HIDE DEF first
  <2> QED
    BY <1>3, <2>1, <2>2
<1>5. kept \in Seq(Entry) /\ ToSet(kept) = staying /\ Pairs(Apart, kept)
  <2>1. kept \in Seq(Entry) /\ ToSet(kept) = ToSet(q) \cap staying
    BY SelectedIs
  <2>2. Pairs(Apart, kept)
    BY SelectedPairs
  <2> HIDE DEF kept
  <2> QED
    BY <1>3, <2>1, <2>2
<1> HIDE DEF first, kept
<1>6. requeued = first
  BY <1>2, <1>4
<1> HIDE DEF requeued
<1>7. /\ added \in Seq(Entry) /\ Commands(added) = Commands(first)
      /\ DOMAIN added = DOMAIN first
      /\ \A i \in DOMAIN first : added[i] \in Entry /\ added[i].command = first[i].command
  <2>1. \A i \in DOMAIN first : first[i] \in Entry
    BY <1>4, ElementIs, Zenon
  <2>2. \A i \in DOMAIN first : added[i] \in Entry /\ added[i].command = first[i].command
    BY <1>6, <2>1, RequeuedEntryIs
  <2>3. DOMAIN added = DOMAIN first /\ added = [i \in DOMAIN first |-> added[i]]
    BY <1>6
  <2> HIDE DEF added
  <2> QED
    BY <1>4, <2>2, <2>3, MappedIs
<1> HIDE DEF added
<1>8. Pairs(Apart, added)
  <2>1. ASSUME NEW i \in DOMAIN first, NEW j \in DOMAIN first, i < j
        PROVE  added[i].command # added[j].command
    <3>1. first[i].command # first[j].command
      BY <1>4, <2>1 DEF Pairs, Apart
    <3>2. added[i].command = first[i].command /\ added[j].command = first[j].command
      BY <1>7
    <3> QED
      BY <3>1, <3>2
  <2> QED
    BY <1>7, <2>1 DEF Pairs, Apart
<1>9. Commands(kept) \cap Commands(added) = {}
  <2>1. ASSUME NEW e \in staying, NEW f \in waiting
        PROVE  e.command # f.command
    BY <1>3, ApartIs
  <2> QED
    BY <1>4, <1>5, <1>7, <2>1 DEF Commands
<1>10. reduced \in Seq(Entry) /\ ToSet(reduced) = ToSet(kept) \cup ToSet(added)
  BY <1>1, <1>5, <1>7, InsertAllIs
<1>11. Pairs(Apart, reduced)
  BY <1>1, <1>5, <1>7, <1>8, <1>9, InsertAllApart
<1>12. Commands(reduced) \subseteq Commands(q)
  BY <1>3, <1>4, <1>5, <1>7, <1>10 DEF Commands
<1> QED
  BY <1>10, <1>11, <1>12

\* Nothing is added to the queue, except the command that stops being active.
LEMMA FewerUnique ==
    ASSUME TypeOK, Unique, UNCHANGED <<created, leaving, deferred, returning>>,
           active' \in {active, Nothing}, Pairs(Apart, queue'),
           \A c \in Commands(queue') :
                c \in Commands(queue) \/ (active' # active /\ c = active.command),
           NEW t, t = status', active' # Nothing => ~Blocked(t, active)
    PROVE  Unique'
PROOF
<1>1. \A c \in Commands(queue') :
            c \in Commands(queue) \/ (active # Nothing /\ c = active.command)
  OBVIOUS
<1>2. ASSUME NEW i \in DOMAIN deferred
      PROVE  Commands(deferred[i]) \cap Commands(queue') = {}
  <2>1. Commands(deferred[i]) \cap Commands(queue) = {}
    BY DEF Unique
  <2>2. active # Nothing => active.command \notin Commands(deferred[i])
    BY DEF Unique, InBatch
  <2> QED
    BY <1>1, <2>1, <2>2
<1>3. active' # Nothing => /\ active' = active
                           /\ active'.command \notin Commands(queue')
                           /\ active'.command \notin Commands(returning')
                           /\ ~InBatch(active'.command, deferred')
  BY DEF Unique
<1>4. active' # Nothing => ~Blocked(status', active')
  BY <1>3
<1>5. \A i \in DOMAIN deferred' :
        /\ Pairs(Apart, deferred'[i]) /\ Commands(deferred'[i]) \cap Commands(queue') = {}
        /\ Commands(deferred'[i]) \cap Commands(returning') = {}
  BY <1>2 DEF Unique
<1>6. /\ leaving' = {} /\ Pairs(ApartBatches, deferred') /\ Pairs(Apart, returning')
      /\ Commands(returning') \cap Commands(queue') = {}
  BY <1>1 DEF Unique
<1>7. AllCreated'
  BY <1>1, <1>3 DEF Unique, AllCreated
<1> QED
  BY <1>3, <1>4, <1>5, <1>6, <1>7 DEF Unique

LEMMA UntouchedUnique ==
    ASSUME TypeOK, Unique, UNCHANGED <<created, leaving, deferred, returning, queue>>,
           active' \in {active, Nothing},
           \A n \in Node : status'[n] = "Asleep" => status[n] = "Asleep"
    PROVE  Unique'
PROOF
<1>1. ASSUME NEW t, t = status', active' # Nothing
      PROVE  ~Blocked(t, active)
  <2>1. active \in Entry /\ ~Blocked(status, active)
    BY <1>1 DEF TypeOK, Unique
  <2>2. NodeOfEntry(active) \in Node
    BY <2>1, SendThreadAssumption DEF Entry, NodeOfEntry
  <2> QED
    BY <1>1, <2>1, <2>2 DEF Blocked, Sleeping
<1>2. Pairs(Apart, queue') /\ \A c \in Commands(queue') : c \in Commands(queue)
  BY DEF Unique
<1> QED
  BY <1>1, <1>2, FewerUnique

LEMMA EnqueueUnique ==
    ASSUME TypeOK, Unique, NEW c \in Command, Enqueue(c), leaving' = leaving
    PROVE  Unique'
PROOF
<1> DEFINE e == [command |-> c, priority |-> PriorityOf(c), busy |-> 0]
<1>1. /\ queue' = Insert(status, queue, e) /\ created' = Append(created, c)
      /\ UNCHANGED <<status, active, deferred, returning>>
  BY DEF Enqueue
<1>2. c \notin ToSet(created)
  BY DEF Enqueue, Contains, ToSet
<1>3. e \in Entry /\ e.command = c
  BY SendThreadAssumption DEF Entry, Priority, PriorityOf
<1> HIDE DEF e
<1>4. queue \in Seq(Entry) /\ Pairs(Apart, queue) /\ e.command \notin Commands(queue)
  BY <1>2, <1>3 DEF TypeOK, Unique, AllCreated
<1>5. Pairs(Apart, queue')
  BY <1>1, <1>3, <1>4, InsertApart
<1>6. Commands(queue') = Commands(queue) \cup {c}
  <2>1. ToSet(queue') = ToSet(queue) \cup {e}
    BY <1>1, <1>3, <1>4, InsertIs
  <2> QED
    BY <1>3, <2>1 DEF Commands
<1>7. /\ ~InBatch(c, deferred) /\ (active # Nothing => active.command # c)
      /\ c \notin Commands(returning)
  BY <1>2 DEF Unique, AllCreated
<1>8. \A i \in DOMAIN deferred' :
        /\ Pairs(Apart, deferred'[i]) /\ Commands(deferred'[i]) \cap Commands(queue') = {}
        /\ Commands(deferred'[i]) \cap Commands(returning') = {}
  BY <1>1, <1>6, <1>7 DEF Unique, InBatch
<1>9. active' # Nothing => /\ ~Blocked(status', active')
                           /\ active'.command \notin Commands(queue')
                           /\ active'.command \notin Commands(returning')
                           /\ ~InBatch(active'.command, deferred')
  BY <1>1, <1>6, <1>7 DEF Unique
<1>10. /\ leaving' = {} /\ Pairs(ApartBatches, deferred') /\ Pairs(Apart, returning')
       /\ Commands(returning') \cap Commands(queue') = {}
  BY <1>1, <1>6, <1>7 DEF Unique
<1>11. AllCreated'
  <2>1. ToSet(created') = ToSet(created) \cup {c}
    BY <1>1, AppendIs DEF TypeOK
  <2>2. /\ Commands(queue') \cup Commands(returning') \subseteq ToSet(created')
        /\ active' # Nothing => active'.command \in ToSet(created')
    BY <1>1, <1>6, <2>1 DEF Unique, AllCreated
  <2>3. \A d : InBatch(d, deferred') => d \in ToSet(created')
    BY <1>1, <2>1 DEF Unique, AllCreated
  <2> QED
    BY <2>2, <2>3 DEF AllCreated
<1> QED
  BY <1>5, <1>8, <1>9, <1>10, <1>11 DEF Unique

LEMMA ExpireUnique ==
    ASSUME TypeOK, Unique, NEW c \in Command, Expire(c)
    PROVE  Unique'
PROOF
<1> DEFINE expired(e) == IF e.command = c THEN "reject" ELSE "keep"
           kind == [queue |-> [e \in ToSet(queue) |-> expired(e)],
                    active |-> [e \in {active} \ {Nothing} |-> expired(e)]]
           reduced == ReducedQueue(kind, status, queue, active)
<1>1. queue' = reduced
  BY Zenon DEF Expire
<1>2. UNCHANGED <<status, created, active, deferred, returning, leaving>>
  BY DEF Expire
<1>3. \A e \in {active} \ {Nothing} : ~Requeued(kind.active[e])
  <2>1. \A e \in {active} \ {Nothing} : kind.active[e] \in {"keep", "reject"}
    OBVIOUS
  <2> HIDE DEF kind
  <2> QED
    BY <2>1, Zenon DEF Requeued
<1>4. queue \in Seq(Entry) /\ Pairs(Apart, queue) /\ active \in Entry \cup {Nothing}
  BY DEF TypeOK, Unique
<1> HIDE DEF kind
<1>5. Pairs(Apart, reduced) /\ Commands(reduced) \subseteq Commands(queue)
  BY <1>3, <1>4, ReducedApart
<1> HIDE DEF reduced
<1>6. active' # Nothing => ~Blocked(status', active)
  BY <1>2 DEF Unique
<1> QED
  BY <1>1, <1>2, <1>5, <1>6, FewerUnique

LEMMA TakeUnique ==
    ASSUME TypeOK, Unique, Take
    PROVE  Unique'
PROOF
<1>1. /\ queue # <<>> /\ MayStart(Head(queue)) /\ active' = Head(queue) /\ queue' = Tail(queue)
      /\ UNCHANGED <<status, created, deferred, returning, leaving>>
  BY DEF Take, TakeDue
<1>2. queue \in Seq(Entry) /\ Pairs(Apart, queue)
  BY DEF TypeOK, Unique
<1>3. /\ Head(queue) = queue[1] /\ 1 \in DOMAIN queue /\ Len(queue) \in Nat
      /\ DOMAIN Tail(queue) = 1..(Len(queue) - 1)
      /\ \A i \in 1..(Len(queue) - 1) :
            i + 1 \in DOMAIN queue /\ Tail(queue)[i] = queue[i + 1]
      /\ Pairs(Apart, Tail(queue))
  BY <1>1, <1>2, TailPairs
<1>4. active' = queue[1]
  BY <1>1, <1>3
<1>5. \A c \in Commands(queue') : \E i \in DOMAIN queue : i # 1 /\ queue[i].command = c
  <2>1. \A i \in 1..(Len(queue) - 1) : i + 1 # 1
    BY <1>3
  <2> QED
    BY <1>1, <1>3, <2>1 DEF Commands, ToSet
<1>6. active'.command \notin Commands(queue')
  BY <1>2, <1>3, <1>4, <1>5, ApartIs
<1>7. Commands(queue') \subseteq Commands(queue) /\ active'.command \in Commands(queue)
  BY <1>3, <1>4, <1>5 DEF Commands, ToSet
<1>8. \A i \in DOMAIN deferred' :
        /\ Pairs(Apart, deferred'[i]) /\ Commands(deferred'[i]) \cap Commands(queue') = {}
        /\ Commands(deferred'[i]) \cap Commands(returning') = {}
  BY <1>1, <1>7 DEF Unique
<1>9. ~InBatch(active'.command, deferred') /\ active'.command \notin Commands(returning')
  BY <1>1, <1>7 DEF Unique, InBatch
<1>10. ~Blocked(status', active')
  BY <1>1 DEF MayStart, Blocked, Sleeping
<1>11. /\ leaving' = {} /\ Pairs(ApartBatches, deferred') /\ Pairs(Apart, queue')
       /\ Pairs(Apart, returning') /\ Commands(returning') \cap Commands(queue') = {}
  BY <1>1, <1>3, <1>7 DEF Unique
<1>12. AllCreated'
  BY <1>1, <1>7 DEF Unique, AllCreated
<1> QED
  BY <1>6, <1>8, <1>9, <1>10, <1>11, <1>12 DEF Unique

\* The active command of a node that sleeps is a ping, which is settled instead of queued again.
LEMMA WakeUpUnique ==
    ASSUME TypeOK, SleepersAnnounce, Unique, NEW n \in CanSleep, status[n] = "Asleep",
           NEW resolved, NEW completed, WakeUp(n, resolved, completed),
           UNCHANGED <<created, deferred, returning, leaving>>, active' \in {active, Nothing}
    PROVE  Unique'
PROOF
<1> DEFINE t == [status EXCEPT ![n] = "Awake"]
           kind == [queue |-> [e \in ToSet(queue) |-> WakeUpKind(n, e, FALSE)],
                    active |-> [e \in {active} \ {Nothing} |-> WakeUpKind(n, e, completed)]]
           reduced == ReducedQueue(kind, t, queue, active)
<1>1. status' = t /\ queue' = reduced
  BY DEF WakeUp
<1>2. queue \in Seq(Entry) /\ Pairs(Apart, queue) /\ active \in Entry \cup {Nothing}
  BY DEF TypeOK, Unique
<1>3. \A m \in Node : t[m] = "Asleep" => status[m] = "Asleep"
  BY DEF TypeOK
<1>4. ASSUME NEW e \in {active} \ {Nothing}
      PROVE  ~Requeued(kind.active[e])
  <2>1. kind.active[e] = WakeUpKind(n, e, completed)
    OBVIOUS
  <2>2. NodeOfEntry(e) = n => e.command \in Ping
    BY DEF Unique, Blocked, Sleeping, SleepersAnnounce
  <2>3. WakeUpKind(n, e, completed) \in {"keep", "resolve"}
    BY <2>2 DEF WakeUpKind
  <2> HIDE DEF kind
  <2> QED
    BY <2>1, <2>3, Zenon DEF Requeued
<1> HIDE DEF kind, t
<1>5. Pairs(Apart, reduced) /\ Commands(reduced) \subseteq Commands(queue)
  BY <1>2, <1>4, ReducedApart
<1>6. ASSUME active' # Nothing
      PROVE  ~Blocked(t, active)
  <2>1. active \in Entry /\ ~Blocked(status, active)
    BY <1>2, <1>6 DEF Unique
  <2>2. NodeOfEntry(active) \in Node
    BY <2>1, SendThreadAssumption DEF Entry, NodeOfEntry
  <2> QED
    BY <1>3, <2>1, <2>2 DEF Blocked, Sleeping
<1> HIDE DEF reduced
<1> QED
  BY <1>1, <1>5, <1>6, FewerUnique

LEMMA AcknowledgedUnique ==
    ASSUME TypeOK, SleepersAnnounce, Unique, Acknowledged
    PROVE  Unique'
PROOF
<1> DEFINE c == active.command
           n == NodeOf[c]
           resolved == IF c \in NeedsUpdate THEN {} ELSE {c}
<1>1. pc = "sending" /\ UNCHANGED <<created, deferred, returning, leaving>>
  BY DEF Acknowledged
<1>2. n \in Node
  BY <1>1, ActiveIs, SendThreadAssumption
<1>3. active' \in {active, Nothing}
  BY DEF Acknowledged, Idle
<1>4. \/ status' = status /\ queue' = queue
      \/ n \in CanSleep /\ status[n] = "Asleep" /\ WakeUp(n, resolved, TRUE)
      \/ /\ status' = [status EXCEPT ![n] = IF n \in CanSleep THEN "Awake" ELSE "Alive"]
         /\ queue' = queue
  BY DEF Acknowledged
<1>5. CASE n \in CanSleep /\ status[n] = "Asleep" /\ WakeUp(n, resolved, TRUE)
  <2> HIDE DEF resolved
  <2> QED
    BY <1>1, <1>3, <1>5, WakeUpUnique
<1>6. CASE /\ \/ status' = status
              \/ status' = [status EXCEPT ![n] = IF n \in CanSleep THEN "Awake" ELSE "Alive"]
           /\ queue' = queue
  <2>1. \A m \in Node : status'[m] = "Asleep" => status[m] = "Asleep"
    BY <1>2, <1>6 DEF TypeOK
  <2> QED
    BY <1>1, <1>3, <1>6, <2>1, UntouchedUnique
<1> QED
  BY <1>4, <1>5, <1>6

LEMMA NoAcknowledgementUnique ==
    ASSUME TypeOK, Unique, NoAcknowledgement
    PROVE  Unique'
PROOF
<1> DEFINE c == active.command
           n == NodeOf[c]
           rejected == IF MayMoveToWakeupQueue(c) THEN {} ELSE {c}
           q == RequeuedAfterNoAck(active)
           t == [status EXCEPT ![n] = "Asleep"]
           asleep == [queue |-> [e \in ToSet(q) |-> SleepKind(n, e)],
                      active |-> [e \in {Nothing} \ {Nothing} |-> SleepKind(n, e)]]
           dead == [queue |-> [e \in ToSet(queue) |-> DeadKind(n, e)],
                    active |-> [e \in {} |-> DeadKind(n, e)]]
<1>1. pc = "sending" /\ Idle /\ UNCHANGED <<created, deferred, returning, leaving>>
  BY Zenon DEF NoAcknowledgement
<1>2. active \in Entry /\ active # Nothing /\ active' = Nothing
  BY <1>1, ActiveIs DEF Idle
<1>3. queue \in Seq(Entry) /\ Pairs(Apart, queue) /\ c \notin Commands(queue)
  BY <1>2 DEF TypeOK, Unique
<1>4. /\ q \in Seq(Entry) /\ Pairs(Apart, q)
      /\ \A d \in Commands(q) : d \in Commands(queue) \/ d = c
  <2>1. ToSet(Insert(status, queue, active)) = ToSet(queue) \cup {active}
        /\ Insert(status, queue, active) \in Seq(Entry)
    BY <1>2, <1>3, InsertIs
  <2>2. Pairs(Apart, Insert(status, queue, active))
    BY <1>2, <1>3, InsertApart
  <2> QED
    BY <1>3, <2>1, <2>2 DEF Commands, RequeuedAfterNoAck
<1>5. \/ queue' = queue
      \/ FallAsleep(n, RequeuedAfterNoAck(active), Nothing, rejected)
      \/ queue' = ReducedQueue(dead, status, queue, Nothing)
  BY Zenon DEF NoAcknowledgement
<1>6. FallAsleep(n, RequeuedAfterNoAck(active), Nothing, rejected) =>
            queue' = ReducedQueue(asleep, t, q, Nothing)
  BY Zenon DEF FallAsleep
<1> HIDE DEF q, t, asleep, dead, rejected
<1>7. \A e \in {Nothing} \ {Nothing} :
        ~Requeued(asleep.active[e]) /\ ~Requeued(dead.active[e])
  OBVIOUS
<1>8. /\ Pairs(Apart, ReducedQueue(asleep, t, q, Nothing))
      /\ Commands(ReducedQueue(asleep, t, q, Nothing)) \subseteq Commands(q)
  BY <1>4, <1>7, ReducedApart
<1>9. /\ Pairs(Apart, ReducedQueue(dead, status, queue, Nothing))
      /\ Commands(ReducedQueue(dead, status, queue, Nothing)) \subseteq Commands(queue)
  BY <1>3, <1>7, ReducedApart
<1>10. Pairs(Apart, queue') /\ \A d \in Commands(queue') : d \in Commands(queue) \/ d = c
  BY <1>3, <1>4, <1>5, <1>6, <1>8, <1>9
<1> QED
  BY <1>1, <1>2, <1>10, FewerUnique

LEMMA DelayUnique ==
    ASSUME TypeOK, Unique, NEW n, NEW first \in Seq(Entry), Pairs(Apart, first),
           Delay(n, first), UNCHANGED <<status, created, leaving, returning>>,
           active' \in {active, Nothing},
           \A c \in Commands(first) : active # Nothing /\ active' = Nothing /\ c = active.command
    PROVE  Unique'
PROOF
<1> DEFINE mine == Selected(queue, EntriesFor(n))
           others == Selected(queue, ToSet(queue) \ EntriesFor(n))
           batch == first \o mine
<1>1. queue' = others /\ (deferred' = deferred \/ deferred' = Append(deferred, batch))
  BY DEF Delay
<1>2. queue \in Seq(Entry) /\ Pairs(Apart, queue) /\ deferred \in Seq(Seq(Entry))
      /\ active \in Entry \cup {Nothing}
  BY DEF TypeOK, Unique
<1>3. /\ mine \in Seq(Entry) /\ ToSet(mine) = ToSet(queue) \cap EntriesFor(n)
      /\ Pairs(Apart, mine)
  BY <1>2, SelectedIs, SelectedPairs
<1>4. /\ others \in Seq(Entry) /\ ToSet(others) = ToSet(queue) \ EntriesFor(n)
      /\ Pairs(Apart, others)
  BY <1>2, SelectedIs, SelectedPairs
<1> HIDE DEF mine, others
<1>5. /\ Commands(mine) \subseteq Commands(queue) /\ Commands(others) \subseteq Commands(queue)
      /\ Commands(mine) \cap Commands(others) = {}
  BY <1>2, <1>3, <1>4, ApartIs DEF Commands
<1>6. Commands(first) \cap Commands(queue) = {}
  BY DEF Unique
<1>7. \A c \in Commands(first) : ~InBatch(c, deferred)
  BY DEF Unique
<1>8. batch \in Seq(Entry) /\ Commands(batch) = Commands(first) \cup Commands(mine)
  <2>1. batch \in Seq(Entry) /\ ToSet(batch) = ToSet(first) \cup ToSet(mine)
    BY <1>3, ConcatIs
  <2> HIDE DEF batch
  <2> QED
    BY <2>1 DEF Commands
<1>9. Pairs(Apart, batch)
  <2>1. ASSUME NEW e \in ToSet(first), NEW f \in ToSet(mine)
        PROVE  <<e, f>> \in Apart
    <3>1. e \in Entry /\ f \in Entry
      BY <1>3, MembersAre
    <3>2. e.command \in Commands(first) /\ f.command \in Commands(mine)
      BY DEF Commands
    <3> QED
      BY <1>5, <1>6, <3>1, <3>2 DEF Apart
  <2> QED
    BY <1>3, <2>1, ConcatPairs
<1> HIDE DEF batch
<1>10. Commands(batch) \cap Commands(others) = {}
  BY <1>5, <1>6, <1>8
<1>11. ASSUME NEW i \in DOMAIN deferred
       PROVE  /\ deferred[i] \in Seq(Entry) /\ Pairs(Apart, deferred[i])
              /\ Commands(deferred[i]) \cap Commands(others) = {}
              /\ Commands(deferred[i]) \cap Commands(batch) = {}
              /\ Commands(deferred[i]) \cap Commands(returning) = {}
  <2>1. deferred[i] \in Seq(Entry)
    BY <1>2, ElementIs
  <2>2. Pairs(Apart, deferred[i]) /\ Commands(deferred[i]) \cap Commands(queue) = {}
    BY DEF Unique
  <2>4. Commands(deferred[i]) \cap Commands(returning) = {}
    BY DEF Unique
  <2>3. Commands(deferred[i]) \cap Commands(first) = {}
    BY <1>7 DEF InBatch
  <2> QED
    BY <1>5, <1>8, <2>1, <2>2, <2>3, <2>4
<1>12. Pairs(ApartBatches, deferred)
  BY DEF Unique
<1>13. Pairs(ApartBatches, Append(deferred, batch))
  <2>1. \A j \in DOMAIN deferred : <<deferred[j], batch>> \in ApartBatches
    BY <1>8, <1>11 DEF ApartBatches
  <2> QED
    BY <1>2, <1>8, <1>12, <2>1, AppendPairs
<1>14. \A i \in DOMAIN deferred' :
            \/ i \in DOMAIN deferred /\ deferred'[i] = deferred[i]
            \/ deferred'[i] = batch
  <2>1. \A i \in DOMAIN Append(deferred, batch) :
            \/ i \in DOMAIN deferred /\ Append(deferred, batch)[i] = deferred[i]
            \/ Append(deferred, batch)[i] = batch
    BY <1>2, <1>8, AppendProperties
  <2> QED
    BY <1>1, <2>1
<1>15. \A i \in DOMAIN deferred' :
            /\ Pairs(Apart, deferred'[i]) /\ Commands(deferred'[i]) \cap Commands(queue') = {}
            /\ Commands(deferred'[i]) \cap Commands(returning') = {}
  <2>1. Commands(batch) \cap Commands(returning) = {}
    BY <1>5, <1>8 DEF Unique
  <2> QED
    BY <1>1, <1>9, <1>10, <1>11, <1>14, <2>1
<1>16. ASSUME active' # Nothing
       PROVE  /\ ~Blocked(status', active')
              /\ active'.command \notin Commands(queue')
              /\ active'.command \notin Commands(returning')
              /\ ~InBatch(active'.command, deferred')
  <2>1. active' = active /\ Commands(first) = {}
    BY <1>16
  <2>2. /\ ~Blocked(status, active) /\ active.command \notin Commands(queue)
        /\ ~InBatch(active.command, deferred) /\ active.command \notin Commands(returning)
    BY <1>16, <2>1 DEF Unique
  <2>3. active.command \notin Commands(batch) /\ active.command \notin Commands(others)
    BY <1>5, <1>8, <2>1, <2>2
  <2>4. ~InBatch(active.command, deferred')
    BY <1>14, <2>2, <2>3 DEF InBatch
  <2> QED
    BY <1>1, <2>1, <2>2, <2>3, <2>4
<1>17. /\ leaving' = {} /\ Pairs(ApartBatches, deferred') /\ Pairs(Apart, queue')
       /\ Pairs(Apart, returning') /\ Commands(returning') \cap Commands(queue') = {}
  BY <1>1, <1>4, <1>5, <1>12, <1>13 DEF Unique
<1>18. AllCreated'
  <2>1. /\ Commands(queue) \cup Commands(returning) \subseteq ToSet(created)
        /\ active # Nothing => active.command \in ToSet(created)
    BY DEF Unique, AllCreated
  <2>2. Commands(batch) \subseteq ToSet(created)
    BY <1>5, <1>8, <2>1
  <2>3. \A i \in DOMAIN deferred : Commands(deferred[i]) \subseteq ToSet(created)
    BY DEF Unique, AllCreated, InBatch
  <2>4. \A i \in DOMAIN deferred' : Commands(deferred'[i]) \subseteq ToSet(created)
    BY <1>14, <2>2, <2>3
  <2>5. \A d : InBatch(d, deferred') => d \in ToSet(created')
    BY <2>4 DEF InBatch
  <2>6. /\ Commands(queue') \cup Commands(returning') \subseteq ToSet(created')
        /\ active' # Nothing => active'.command \in ToSet(created')
    BY <1>1, <1>5, <2>1
  <2> QED
    BY <2>5, <2>6 DEF AllCreated
<1> QED
  BY <1>15, <1>16, <1>17, <1>18 DEF Unique

LEMMA NodeIsBusyUnique ==
    ASSUME TypeOK, Unique, NodeIsBusy
    PROVE  Unique'
PROOF
<1> DEFINE again == [active EXCEPT !.busy = @ + 1]
<1>1. pc = "awaitingUpdate" /\ Idle /\ UNCHANGED <<status, created, leaving, returning>>
  BY Zenon DEF NodeIsBusy
<1>2. active \in Entry /\ active # Nothing /\ active' = Nothing
  BY <1>1, ActiveIs DEF Idle
<1>3. \/ MayTryAgain(active) /\ Delay(NodeOfEntry(active), <<again>>)
      \/ UNCHANGED <<queue, deferred>>
  BY Zenon DEF NodeIsBusy
<1>4. CASE MayTryAgain(active) /\ Delay(NodeOfEntry(active), <<again>>)
  <2>1. again \in Entry /\ again.command = active.command
    BY <1>2, <1>4, SendThreadAssumption DEF Entry, MayTryAgain
  <2> HIDE DEF again
  <2>2. <<again>> \in Seq(Entry) /\ ToSet(<<again>>) = {again}
    BY <2>1, SingleIs
  <2>3. Commands(<<again>>) = {active.command}
    BY <2>1, <2>2 DEF Commands
  <2>4. Pairs(Apart, <<again>>)
    BY DEF Pairs
  <2> QED
    BY <1>1, <1>2, <1>4, <2>2, <2>3, <2>4, DelayUnique
<1>5. CASE UNCHANGED <<queue, deferred>>
  BY <1>1, <1>2, <1>5, UntouchedUnique
<1> QED
  BY <1>3, <1>4, <1>5

LEMMA RequeueTimerUnique ==
    ASSUME TypeOK, Unique, NEW i \in DOMAIN deferred, RequeueTimer(i)
    PROVE  Unique'
PROOF
<1> DEFINE rest == RemoveAt(deferred, i)
           batch == deferred[i]
<1>1. /\ deferred' = rest /\ returning' = batch /\ returning = <<>>
      /\ UNCHANGED <<status, created, queue, active, leaving>>
  BY DEF RequeueTimer, RequeueDeferred, Quiet
<1>2. deferred \in Seq(Seq(Entry))
  BY DEF TypeOK
<1>3. Pairs(Apart, batch) /\ Commands(batch) \cap Commands(queue) = {}
  BY DEF Unique
<1>4. Len(deferred) \in Nat /\ DOMAIN deferred = 1..Len(deferred)
  BY <1>2
<1>5. ASSUME NEW j \in DOMAIN deferred, j # i
      PROVE  Commands(deferred[j]) \cap Commands(batch) = {}
  <2>1. j < i \/ i < j
    BY <1>4, <1>5
  <2>2. <<deferred[j], batch>> \in ApartBatches \/ <<batch, deferred[j]>> \in ApartBatches
    BY <2>1 DEF Unique, Pairs
  <2> QED
    BY <2>2 DEF ApartBatches
<1>6. /\ Pairs(ApartBatches, rest)
      /\ \A k \in DOMAIN rest : \E j \in DOMAIN deferred : j # i /\ rest[k] = deferred[j]
  BY <1>2, RemoveAtPairs DEF Unique
<1> HIDE DEF rest
<1>7. ASSUME NEW k \in DOMAIN rest
      PROVE  /\ Pairs(Apart, rest[k]) /\ Commands(rest[k]) \cap Commands(queue) = {}
             /\ Commands(rest[k]) \cap Commands(batch) = {}
  <2>1. PICK j \in DOMAIN deferred : j # i /\ rest[k] = deferred[j]
    BY <1>6
  <2>2. Pairs(Apart, deferred[j]) /\ Commands(deferred[j]) \cap Commands(queue) = {}
    BY DEF Unique
  <2> QED
    BY <1>5, <2>1, <2>2
<1>8. \A c : InBatch(c, rest) \/ c \in Commands(batch) => InBatch(c, deferred)
  BY <1>6 DEF InBatch
<1>9. active # Nothing =>
            /\ ~Blocked(status, active) /\ active.command \notin Commands(queue)
            /\ active.command \notin Commands(batch) /\ ~InBatch(active.command, rest)
  BY <1>8 DEF Unique
<1>10. active' # Nothing =>
            /\ ~Blocked(status', active') /\ active'.command \notin Commands(queue')
            /\ active'.command \notin Commands(returning')
            /\ ~InBatch(active'.command, deferred')
  BY <1>1, <1>9
<1>11. leaving' = {} /\ Pairs(Apart, queue')
  BY <1>1 DEF Unique
<1>12. AllCreated'
  <2>1. \A c : InBatch(c, rest) \/ c \in Commands(batch) => c \in ToSet(created)
    BY <1>8 DEF Unique, AllCreated
  <2> QED
    BY <1>1, <2>1 DEF Unique, AllCreated
<1> QED
  BY <1>1, <1>3, <1>6, <1>7, <1>10, <1>11, <1>12 DEF Unique

LEMMA ReturnUnique ==
    ASSUME TypeOK, Unique, Return
    PROVE  Unique'
PROOF
<1> DEFINE first == Head(returning)
           rest == Tail(returning)
<1>1. /\ returning # <<>> /\ returning' = rest /\ queue' = Insert(status, queue, first)
      /\ UNCHANGED <<status, created, active, deferred, leaving>>
  BY DEF Return
<1>2. /\ returning \in Seq(Entry) /\ queue \in Seq(Entry)
      /\ Pairs(Apart, returning) /\ Pairs(Apart, queue)
      /\ Commands(returning) \cap Commands(queue) = {}
  BY DEF TypeOK, Unique
<1>3. /\ first \in Entry /\ rest \in Seq(Entry) /\ ToSet(returning) = {first} \cup ToSet(rest)
  BY <1>1, <1>2, HeadAndTail
<1>4. /\ first = returning[1] /\ 1 \in DOMAIN returning /\ Len(returning) \in Nat
      /\ DOMAIN rest = 1..(Len(returning) - 1) /\ Pairs(Apart, rest)
      /\ \A k \in 1..(Len(returning) - 1) :
            k + 1 \in DOMAIN returning /\ rest[k] = returning[k + 1]
  BY <1>1, <1>2, TailPairs
<1> HIDE DEF first, rest
<1>5. Commands(returning) = {first.command} \cup Commands(rest)
  BY <1>3 DEF Commands
<1>6. first.command \notin Commands(rest)
  <2>1. \A k \in 1..(Len(returning) - 1) : k + 1 # 1
    BY <1>4
  <2>2. \A k \in DOMAIN rest : rest[k].command # first.command
    BY <1>2, <1>4, <2>1, ApartIs
  <2> QED
    BY <2>2 DEF Commands, ToSet
<1>7. Pairs(Apart, queue')
  BY <1>1, <1>2, <1>3, <1>5, InsertApart
<1>8. Commands(queue') = Commands(queue) \cup {first.command}
  <2>1. ToSet(queue') = ToSet(queue) \cup {first}
    BY <1>1, <1>2, <1>3, InsertIs
  <2> QED
    BY <2>1 DEF Commands
<1>9. \A i \in DOMAIN deferred' :
        /\ Pairs(Apart, deferred'[i]) /\ Commands(deferred'[i]) \cap Commands(queue') = {}
        /\ Commands(deferred'[i]) \cap Commands(returning') = {}
  BY <1>1, <1>5, <1>8 DEF Unique
<1>10. active' # Nothing =>
            /\ ~Blocked(status', active') /\ active'.command \notin Commands(queue')
            /\ active'.command \notin Commands(returning')
            /\ ~InBatch(active'.command, deferred')
  BY <1>1, <1>5, <1>8 DEF Unique
<1>11. /\ leaving' = {} /\ Pairs(ApartBatches, deferred') /\ Pairs(Apart, returning')
       /\ Commands(returning') \cap Commands(queue') = {}
  BY <1>1, <1>2, <1>4, <1>5, <1>6, <1>8 DEF Unique
<1>12. AllCreated'
  BY <1>1, <1>5, <1>8 DEF Unique, AllCreated
<1> QED
  BY <1>7, <1>9, <1>10, <1>11, <1>12 DEF Unique

LEMMA StepUnique ==
    ASSUME TypeOK, SleepersAnnounce, UInv, [Next]_vars
    PROVE  UInv'
PROOF
<1>2. ASSUME created' = created, Unique => Unique'
      PROVE  UInv'
  BY <1>2 DEF UInv, NobodyIsSentToSleep
<1>3. ASSUME NEW c \in Command, Enqueue(c)
      PROVE  NobodyIsSentToSleep' => NobodyIsSentToSleep /\ c \notin NoMoreInformation
  <2>1. created' = Append(created, c) /\ created \in Seq(Command)
    BY <1>3 DEF Enqueue, TypeOK
  <2>2. ToSet(created') = ToSet(created) \cup {c}
    BY <2>1, AppendIs
  <2> QED
    BY <2>2 DEF NobodyIsSentToSleep
<1>4. ASSUME NEW c \in Command, Send(c)
      PROVE  UInv'
  <2>1. Unique => Unique'
    BY <1>4, EnqueueUnique DEF Send
  <2> QED
    BY <1>3, <1>4, <2>1 DEF Send, UInv
<1>5. ASSUME NEW c \in Command, SendToSleep(c)
      PROVE  UInv'
  BY <1>3, <1>5 DEF SendToSleep, UInv
<1>6. ASSUME NEW c \in Command, Expire(c)
      PROVE  UInv'
  BY <1>2, <1>6, ExpireUnique DEF Expire
<1>7. ASSUME NEW n \in Node, Leave(n)
      PROVE  UInv'
  <2>1. created' = created /\ n \in leaving
    BY <1>7, Zenon DEF Leave, LeaveDue
  <2>2. ~Unique
    BY <2>1 DEF Unique
  <2> QED
    BY <1>2, <2>1, <2>2
<1>8. ASSUME NEW n \in Node, BusyReport(n)
      PROVE  UInv'
  <2>1. Delay(n, <<>>) /\ UNCHANGED <<status, created, active, leaving, returning>>
    BY <1>8 DEF BusyReport
  <2>2. <<>> \in Seq(Entry) /\ Commands(<<>>) = {} /\ Pairs(Apart, <<>>)
    BY EmptyIs DEF Commands, Pairs
  <2> QED
    BY <1>2, <2>1, <2>2, DelayUnique
<1>9. ASSUME NEW n \in Node, NodeWakesUp(n)
      PROVE  UInv'
  <2> DEFINE completed == pc = "awaitingUpdate"
  <2>1. /\ n \in CanSleep /\ status[n] = "Asleep" /\ WakeUp(n, {}, completed)
        /\ UNCHANGED <<created, active, deferred, returning, leaving>>
    BY <1>9 DEF NodeWakesUp
  <2> HIDE DEF completed
  <2> QED
    BY <1>2, <2>1, WakeUpUnique
<1>10. ASSUME NEW n \in Node, NodeIsAlive(n)
       PROVE  UInv'
  <2>1. /\ UNCHANGED <<created, queue, active, deferred, returning, leaving>>
        /\ status' = [status EXCEPT ![n] = "Alive"]
    BY <1>10 DEF NodeIsAlive
  <2>2. \A m \in Node : status'[m] = "Asleep" => status[m] = "Asleep"
    BY <2>1 DEF TypeOK
  <2> QED
    BY <1>2, <2>1, <2>2, UntouchedUnique
<1>11. ASSUME NEW i \in DOMAIN deferred, RequeueTimer(i)
       PROVE  UInv'
  BY <1>2, <1>11, RequeueTimerUnique DEF RequeueTimer
<1>12. CASE Take
  BY <1>2, <1>12, TakeUnique DEF Take
<1>13. CASE Start \/ SendAgain \/ Drop \/ UpdateEnds
  <2>1. UNCHANGED <<status, created, queue, deferred, returning, leaving>>
    BY <1>13, Zenon DEF Start, SendAgain, Drop, UpdateEnds
  <2>2. active' \in {active, Nothing}
    BY <1>13, Zenon DEF Start, SendAgain, Drop, UpdateEnds, Idle
  <2> QED
    BY <1>2, <2>1, <2>2, UntouchedUnique
<1>14. CASE Acknowledged
  BY <1>2, <1>14, AcknowledgedUnique DEF Acknowledged
<1>15. CASE NoAcknowledgement
  <2>1. created' = created
    BY <1>15, Zenon DEF NoAcknowledgement
  <2> QED
    BY <1>2, <1>15, <2>1, NoAcknowledgementUnique
<1>16. CASE NodeIsBusy
  <2>1. created' = created
    BY <1>16, Zenon DEF NodeIsBusy
  <2> QED
    BY <1>2, <1>16, <2>1, NodeIsBusyUnique
<1>17. CASE UNCHANGED vars
  BY <1>2, <1>17, UntouchedUnique DEF vars
<1>19. CASE Return
  BY <1>2, <1>19, ReturnUnique DEF Return
<1>20. CASE ChangeInclusion
  BY <1>2, <1>20, UntouchedUnique DEF ChangeInclusion
<1>18. CASE LoopStep
  BY <1>12, <1>13, <1>14, <1>15, <1>16, <1>18, Zenon DEF LoopStep
<1> QED
  BY <1>4, <1>5, <1>6, <1>7, <1>8, <1>9, <1>10, <1>11, <1>17, <1>18, <1>19, <1>20,
     Zenon DEF Next

\* If only nodes with Wake Up support sleep, and as long as none of them was sent to sleep, a
\* command is in one place only: in the queue, in a batch or on its way back, or in the hands of
\* the loop.
\* reduceQueue never queues the active command again, since that of a sleeping node is a ping.
THEOREM OneCopyOnly ==
    ASSUME SleepersAnnounce
    PROVE  Spec => []OneCopy
PROOF
<1>1. Init => UInv
  <2> SUFFICES ASSUME Init
               PROVE  UInv
    OBVIOUS
  <2>1. queue = <<>> /\ deferred = <<>> /\ active = Nothing /\ leaving = {}
        /\ returning = <<>>
    BY DEF Init
  <2>2. DOMAIN <<>> = {} /\ ToSet(<<>>) = {} /\ Commands(<<>>) = {}
    BY DEF ToSet, Commands
  <2> QED
    BY <2>1, <2>2 DEF UInv, Unique, AllCreated, InBatch, Pairs
<1>2. IInv /\ UInv /\ [Next]_vars => UInv'
  BY StepUnique DEF IInv
<1>3. IInv /\ UInv => OneCopy
  <2> SUFFICES ASSUME IInv, UInv, NobodyIsSentToSleep, NEW i \in DOMAIN queue
               PROVE  /\ active.command # queue[i].command
                      /\ \A j \in DOMAIN queue : queue[i].command = queue[j].command => i = j
    BY DEF OneCopy, NobodyIsSentToSleep
  <2>1. Unique /\ queue \in Seq(Entry)
    BY DEF UInv, IInv, TypeOK
  <2>2. \A j \in DOMAIN queue : i # j => queue[i].command # queue[j].command
    BY <2>1, ApartIs DEF Unique
  <2>3. queue[i].command \in Commands(queue)
    BY DEF Commands, ToSet
  <2>4. CASE active = Nothing
    <3>1. Commands(queue) \subseteq Command
      BY <2>1, CommandsOf
    <3>2. active.command = NoCommand
      BY <2>4 DEF Nothing
    <3> QED
      BY <2>2, <2>3, <3>1, <3>2, SendThreadAssumption
  <2>5. CASE active # Nothing
    BY <2>1, <2>2, <2>3, <2>5 DEF Unique
  <2> QED
    BY <2>4, <2>5
<1> QED
  BY <1>1, <1>2, <1>3, Invariance, PTL DEF Spec
=============================================================================
