--------------------------- MODULE SequenceFacts ---------------------------
(***************************************************************************)
(* What the queues of the adapters rely on, element by element: enqueueing *)
(* at the end and dequeueing at the front.  And what the decoder of texts  *)
(* relies on: a scan from the front, a recursive function, is well-defined *)
(* and fixed by what it passes.                                            *)
(***************************************************************************)
EXTENDS Integers, Sequences, SequenceTheorems, WellFoundedInduction, TLAPS

\* The elements of an appended sequence.
LEMMA AppendAt ==
  ASSUME NEW S, NEW s \in Seq(S), NEW e \in S
  PROVE  /\ DOMAIN Append(s, e) = DOMAIN s \union {Len(s) + 1}
         /\ Len(s) + 1 \notin DOMAIN s
         /\ \A i \in DOMAIN s : Append(s, e)[i] = s[i]
         /\ Append(s, e)[Len(s) + 1] = e
  BY AppendProperties

\* The elements of a tail.
LEMMA TailAt ==
  ASSUME NEW S, NEW s \in Seq(S), s # <<>>
  PROVE  /\ 1 \in DOMAIN s /\ Head(s) = s[1]
         /\ \A i \in DOMAIN Tail(s) :
              i + 1 \in DOMAIN s /\ i + 1 # 1 /\ Tail(s)[i] = s[i + 1]
         /\ \A i \in DOMAIN s :
              i = 1 \/ \E j \in DOMAIN Tail(s) : Tail(s)[j] = s[i]
         /\ \A i, j \in DOMAIN Tail(s) : i + 1 = j + 1 => i = j
         /\ Tail(s) \in Seq(S) /\ Len(Tail(s)) = Len(s) - 1 /\ Len(s) \in Nat
         /\ \A i \in DOMAIN Tail(s) : i \in Int
         /\ Len(s) = 1 => Tail(s) = <<>>
<1>1. /\ DOMAIN s = 1..Len(s) /\ DOMAIN Tail(s) = 1..(Len(s) - 1)
      /\ \A i \in 1..(Len(s) - 1) : Tail(s)[i] = s[i + 1]
      /\ Len(s) \in Nat /\ Len(s) # 0
  BY HeadTailProperties, EmptySeq
<1>2. ASSUME NEW i \in DOMAIN s, i # 1
      PROVE  \E j \in DOMAIN Tail(s) : Tail(s)[j] = s[i]
  <2>1. i - 1 \in 1..(Len(s) - 1) /\ (i - 1) + 1 = i
    BY <1>1, <1>2
  <2>2. Tail(s)[i - 1] = s[i]
    BY <1>1, <2>1
  <2>3. QED
    BY <1>1, <2>1, <2>2
<1>3. 1 \in DOMAIN s /\ Head(s) = s[1]
  BY <1>1
<1>4. Tail(s) \in Seq(S) /\ Len(Tail(s)) = Len(s) - 1
  BY HeadTailProperties
<1>5. ASSUME Len(s) = 1 PROVE Tail(s) = <<>>
  <2>1. Len(Tail(s)) = 0
    BY <1>4, <1>5
  <2>2. QED
    BY <1>4, <2>1, EmptySeq
<1>6. QED
  BY <1>1, <1>2, <1>3, <1>4, <1>5

\* x waits in the queue s.
Holds(s, x) == \E i \in DOMAIN s : s[i] = x

LEMMA HoldsAppend ==
  ASSUME NEW S, NEW s \in Seq(S), NEW e \in S
  PROVE  /\ Holds(Append(s, e), e)
         /\ \A x : Holds(s, x) => Holds(Append(s, e), x)
  BY AppendAt DEF Holds

LEMMA HoldsTail ==
  ASSUME NEW S, NEW s \in Seq(S), s # <<>>
  PROVE  /\ Holds(s, Head(s))
         /\ \A x : Holds(s, x) => x = Head(s) \/ Holds(Tail(s), x)
<1>1. /\ 1 \in DOMAIN s /\ Head(s) = s[1]
      /\ \A i \in DOMAIN s : i = 1 \/ \E j \in DOMAIN Tail(s) : Tail(s)[j] = s[i]
  BY TailAt
<1>2. QED
  BY <1>1 DEF Holds

-----------------------------------------------------------------------------
(* Scans                                                                   *)

\* Every set of naturals with an element has a least one.  Inductions are
\* proofs that the set of counterexamples has no least element.
LEMMA SmallestElement ==
  ASSUME NEW T \in SUBSET Nat, T # {}
  PROVE  \E x \in T : \A y \in T : x <= y
<1> DEFINE R == OpToRel(<, Nat)
<1>1. IsWellFoundedOn(R, Nat)
  BY NatLessThanWellFounded
<1>2. \A y, x \in Nat : y < x => <<y, x>> \in R
  BY DEF OpToRel
<1> HIDE DEF R
<1>3. PICK x \in T : \A y \in T : <<y, x>> \notin R
  BY <1>1, WFMin
<1>4. \A y \in T : y \in Nat /\ x \in Nat /\ ~(y < x)
  BY <1>2, <1>3
<1>5. \A y \in T : x <= y
  BY <1>4
<1> QED
  BY <1>5

\* A scan of n places, from the first: place i is passed if a[i], and the
\* next one looked at is i + w[i].

IsScan(g, n, a, w) ==
  g = [i \in 1..n + 1 |-> i <= n => a[i] /\ g[i + w[i]]]

\* A scan of which every step passes over at least one place and ends at
\* the latest at the end.
Advances(n, a, w) ==
  /\ n \in Nat
  /\ \A i \in 1..n : a[i] \in BOOLEAN
  /\ \A i \in 1..n : a[i] => w[i] \in Nat \ {0} /\ i + w[i] <= n + 1

\* What a scan of the last k places finds.
ScansLast(g, k, n, a, w) ==
  /\ g \in [1..n + 1 -> BOOLEAN]
  /\ g[n + 1] = TRUE
  /\ \A i \in 1..n : n < i + k => g[i] = (a[i] /\ g[i + w[i]])

\* A scan of the last places can be begun one place earlier.
LEMMA ScanLastMore ==
  ASSUME NEW n, NEW a, NEW w, Advances(n, a, w),
         NEW k \in 0..n - 1, NEW g, ScansLast(g, k, n, a, w)
  PROVE  \E h : ScansLast(h, k + 1, n, a, w)
<1> DEFINE j == n - k
           h == [i \in 1..n + 1 |-> IF i = j THEN a[j] /\ g[j + w[j]] ELSE g[i]]
<1>1. n \in Nat /\ k \in Nat /\ j \in 1..n /\ j # n + 1
  BY DEF Advances
<1>2. h \in [1..n + 1 -> BOOLEAN] /\ h[n + 1] = TRUE
  <2>1. (a[j] /\ g[j + w[j]]) \in BOOLEAN
    OBVIOUS
  <2>2. \A i \in 1..n + 1 : g[i] \in BOOLEAN
    BY DEF ScansLast
  <2>3. n + 1 \in 1..n + 1 /\ h[n + 1] = g[n + 1]
    BY <1>1
  <2>4. h \in [1..n + 1 -> BOOLEAN]
    <3> HIDE DEF j
    <3> QED
      BY <2>1, <2>2
  <2> QED
    BY <2>3, <2>4 DEF ScansLast
<1>3. ASSUME NEW i \in 1..n, n < i + (k + 1)
      PROVE  h[i] = (a[i] /\ h[i + w[i]])
  <2>1. i >= j
    BY <1>1, <1>3
  <2>2. h[i] = (a[i] /\ g[i + w[i]])
    <3>1. CASE i = j
      BY <1>1, <3>1
    <3>2. CASE i # j
      <4>1. n < i + k
        BY <1>1, <1>3, <2>1, <3>2
      <4> QED
        BY <1>1, <3>2, <4>1 DEF ScansLast
    <3> QED
      BY <3>1, <3>2
  <2>3. a[i] => h[i + w[i]] = g[i + w[i]]
    <3> SUFFICES ASSUME a[i] PROVE h[i + w[i]] = g[i + w[i]]
      OBVIOUS
    <3>1. w[i] \in Nat /\ w[i] # 0 /\ i + w[i] <= n + 1
      BY DEF Advances
    <3>2. i + w[i] \in 1..n + 1 /\ i + w[i] # j
      BY <1>1, <2>1, <3>1
    <3> QED
      BY <3>2
  <2>4. a[i] \in BOOLEAN
    BY DEF Advances
  <2> QED
    BY <2>2, <2>3, <2>4
<1>4. ScansLast(h, k + 1, n, a, w)
  BY <1>2, <1>3 DEF ScansLast
<1> QED
  BY <1>4

\* The recursion has a solution.
LEMMA ScanExists ==
  ASSUME NEW n, NEW a, NEW w, Advances(n, a, w)
  PROVE  \E g : IsScan(g, n, a, w)
<1> DEFINE Bad == {k \in 0..n : ~ \E g : ScansLast(g, k, n, a, w)}
<1>1. n \in Nat
  BY DEF Advances
<1>2. \E g : ScansLast(g, 0, n, a, w)
  <2> DEFINE g == [i \in 1..n + 1 |-> TRUE]
  <2>1. g \in [1..n + 1 -> BOOLEAN] /\ g[n + 1] = TRUE
    BY <1>1
  <2>2. \A i \in 1..n : ~(n < i + 0)
    BY <1>1
  <2>3. ScansLast(g, 0, n, a, w)
    BY <2>1, <2>2 DEF ScansLast
  <2> QED
    BY <2>3
<1>3. Bad = {}
  <2> SUFFICES ASSUME Bad # {} PROVE FALSE
    OBVIOUS
  <2>1. PICK k \in Bad : \A l \in Bad : k <= l
    <3>1. Bad \in SUBSET Nat
      BY <1>1
    <3> HIDE DEF Bad
    <3> QED
      BY <3>1, SmallestElement
  <2>2. k \in 0..n /\ k # 0
    BY <1>2, <2>1
  <2>3. k - 1 \in 0..n - 1 /\ k - 1 \in 0..n /\ (k - 1) + 1 = k
    BY <1>1, <2>2
  <2>4. k - 1 \notin Bad
    BY <1>1, <2>1, <2>2
  <2>5. PICK g : ScansLast(g, k - 1, n, a, w)
    BY <2>3, <2>4
  <2>6. \E h : ScansLast(h, (k - 1) + 1, n, a, w)
    BY <2>3, <2>5, ScanLastMore
  <2> QED
    BY <2>1, <2>3, <2>6
<1>4. PICK g : ScansLast(g, n, n, a, w)
  BY <1>1, <1>3
<1>5. \A i \in 1..n + 1 : g[i] = (i <= n => a[i] /\ g[i + w[i]])
  <2> TAKE i \in 1..n + 1
  <2>1. CASE i = n + 1
    BY <1>1, <1>4, <2>1 DEF ScansLast
  <2>2. CASE i # n + 1
    <3>1. i \in 1..n /\ n < i + n /\ i <= n
      BY <1>1, <2>2
    <3> QED
      BY <1>4, <3>1 DEF ScansLast
  <2> QED
    BY <2>1, <2>2
<1>6. IsScan(g, n, a, w)
  BY <1>4, <1>5 DEF ScansLast, IsScan
<1> QED
  BY <1>6

\* Two scans that pass the same places, and go on at the same place after
\* one that is passed, find the same.
LEMMA ScansAgree ==
  ASSUME NEW n, NEW a, NEW w, Advances(n, a, w),
         NEW v, \A i \in 1..n : a[i] => v[i] = w[i],
         NEW g, IsScan(g, n, a, w),
         NEW h, IsScan(h, n, a, v)
  PROVE  g[1] = h[1]
<1> DEFINE Bad == {k \in 0..n : g[n + 1 - k] # h[n + 1 - k]}
<1>1. n \in Nat
  BY DEF Advances
<1>2. /\ \A i \in 1..n + 1 : g[i] = (i <= n => a[i] /\ g[i + w[i]])
      /\ \A i \in 1..n + 1 : h[i] = (i <= n => a[i] /\ h[i + v[i]])
  BY DEF IsScan
<1>3. Bad = {}
  <2> SUFFICES ASSUME Bad # {} PROVE FALSE
    OBVIOUS
  <2>1. PICK k \in Bad : \A l \in Bad : k <= l
    <3>1. Bad \in SUBSET Nat
      BY <1>1
    <3> HIDE DEF Bad
    <3> QED
      BY <3>1, SmallestElement
  <2> DEFINE i == n + 1 - k
  <2>2. i \in 1..n + 1 /\ k \in 0..n
    BY <1>1, <2>1
  <2>3. CASE i <= n /\ a[i]
    <3>1. i \in 1..n
      BY <1>1, <2>2, <2>3
    <3>2. w[i] \in Nat \ {0} /\ i + w[i] <= n + 1 /\ v[i] = w[i]
      BY <2>3, <3>1 DEF Advances
    <3> DEFINE l == k - w[i]
    <3>3. l \in 0..n /\ l < k /\ n + 1 - l = i + w[i]
      BY <1>1, <2>2, <3>2
    <3>4. l \notin Bad
      BY <1>1, <2>1, <2>2, <3>3
    <3>5. g[i + w[i]] = h[i + w[i]]
      BY <3>3, <3>4
    <3>6. g[i] = (a[i] /\ g[i + w[i]]) /\ h[i] = (a[i] /\ h[i + w[i]])
      BY <1>2, <2>2, <2>3, <3>2
    <3> QED
      BY <2>1, <3>5, <3>6
  <2>4. CASE ~(i <= n /\ a[i])
    <3>1. g[i] = h[i]
      BY <1>2, <2>2, <2>4
    <3> QED
      BY <2>1, <3>1
  <2> QED
    BY <2>3, <2>4
<1>4. n \in 0..n /\ n + 1 - n = 1
  BY <1>1
<1> QED
  BY <1>3, <1>4
=============================================================================
