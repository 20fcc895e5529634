---------------------------- MODULE LookupProofs -----------------------------
(***************************************************************************)
(* Theorems about the lookups, for any number of workers, requests and     *)
(* documents: LookupInv is inductive together with EngineInv, which the    *)
(* steps of the engine keep (DocProofs) and those of the lookups, which    *)
(* change only the counter of a segment, do not disturb.  And what the     *)
(* intersections of intersect.c compute, for posting lists of any number   *)
(* and length.  These are recursive functions: each proof first shows that *)
(* there is a function as the definition asks for, by induction on how     *)
(* much of the lists is still to be read.                                  *)
(***************************************************************************)
EXTENDS LookupInv, DocProofs, IntersectCalls, FunctionTheorems, SequenceTheorems,
        WellFoundedInduction

-----------------------------------------------------------------------------
(* Induction over the natural numbers, for sets.                           *)

LEMMA Least ==
  ASSUME NEW S \in SUBSET Nat, S # {}
  PROVE  \E m \in S : \A n \in S : m <= n
<1>1. IsWellFoundedOn(OpToRel(<, Nat), Nat)
  BY NatLessThanWellFounded
<1>2. PICK m \in S : \A n \in S : << n, m >> \notin OpToRel(<, Nat)
  BY <1>1, WFMin
<1>3. ASSUME NEW n \in S PROVE m <= n
  <2>1. n \in Nat /\ m \in Nat
    OBVIOUS
  <2>2. ~(n < m)
    BY <1>2, <2>1 DEF OpToRel
  <2> QED
    BY <2>1, <2>2
<1> QED
  BY <1>3

LEMMA Induction ==
  ASSUME NEW P \in SUBSET Nat, 0 \in P,
         \A n \in Nat : n \in P => n + 1 \in P
  PROVE  P = Nat
<1>1. SUFFICES ASSUME Nat \ P # {} PROVE FALSE
  OBVIOUS
<1>2. PICK m \in Nat \ P : \A n \in Nat \ P : m <= n
  BY <1>1, Least
<1>3. m # 0 /\ m - 1 \in Nat
  BY <1>2
<1>4. m - 1 \in P
  BY <1>2, <1>3
<1>5. (m - 1) + 1 \in P
  BY <1>3, <1>4
<1> QED
  BY <1>2, <1>3, <1>5

-----------------------------------------------------------------------------
(* linear_intersect.                                                       *)

\* The places of the two lists, and how many elements are to be read there.
Places(a, b) == (1..(Len(a) + 1)) \X (1..(Len(b) + 1))
ToRead(a, b, p) == (Len(a) + 1 - p[1]) + (Len(b) + 1 - p[2])

\* The body of LinearIntersect's function.
Merged(a, b, id, removed, f, p) ==
  IF p[1] > Len(a) \/ p[2] > Len(b) THEN << >>
  ELSE IF id[a[p[1]]] < id[b[p[2]]] THEN f[<< p[1] + 1, p[2] >>]
  ELSE IF id[a[p[1]]] > id[b[p[2]]] THEN f[<< p[1], p[2] + 1 >>]
  ELSE (IF id[a[p[1]]] \notin removed THEN << a[p[1]] >> ELSE << >>)
         \o f[<< p[1] + 1, p[2] + 1 >>]

\* The function's value at p is what its definition says.
MergesAt(a, b, id, removed, f, p) == f[p] = Merged(a, b, id, removed, f, p)

IsMerge(a, b, id, removed, f) ==
  f = [p \in Places(a, b) |-> Merged(a, b, id, removed, f, p)]

LEMMA NextPlace ==
  ASSUME NEW m \in Nat, NEW n \in Nat
  PROVE  /\ (m + 1)..n \subseteq m..n /\ m \notin (m + 1)..n
         /\ \A i \in m..n : i # m => i \in (m + 1)..n
         /\ m <= n => m \in m..n
  OBVIOUS

LEMMA PlaceFacts ==
  ASSUME NEW E, NEW a \in Seq(E), NEW b \in Seq(E), NEW p \in Places(a, b)
  PROVE  /\ Len(a) \in Nat /\ Len(b) \in Nat
         /\ p[1] \in 1..(Len(a) + 1) /\ p[2] \in 1..(Len(b) + 1)
         /\ p[1] \in Nat /\ p[2] \in Nat
         /\ p = << p[1], p[2] >>
         /\ ToRead(a, b, p) \in Nat
         /\ p[1] <= Len(a) /\ p[2] <= Len(b) =>
              \A q \in {<< p[1] + 1, p[2] >>, << p[1], p[2] + 1 >>,
                        << p[1] + 1, p[2] + 1 >>} :
                q \in Places(a, b) /\ ToRead(a, b, q) < ToRead(a, b, p)
<1>1. Len(a) \in Nat /\ Len(b) \in Nat
  BY LenProperties
<1>2. p[1] \in 1..(Len(a) + 1) /\ p[2] \in 1..(Len(b) + 1)
      /\ p = << p[1], p[2] >>
  BY DEF Places
<1>3. ToRead(a, b, p) \in Nat
  BY <1>1, <1>2 DEF ToRead
<1>4. ASSUME p[1] <= Len(a), p[2] <= Len(b),
             NEW q \in {<< p[1] + 1, p[2] >>, << p[1], p[2] + 1 >>,
                        << p[1] + 1, p[2] + 1 >>}
      PROVE  q \in Places(a, b) /\ ToRead(a, b, q) < ToRead(a, b, p)
  <2> DEFINE i == p[1]
             j == p[2]
  <2>2. /\ i \in 1..Len(a) /\ j \in 1..Len(b)
        /\ i \in 1..(Len(a) + 1) /\ j \in 1..(Len(b) + 1)
        /\ q \in {<< i + 1, j >>, << i, j + 1 >>, << i + 1, j + 1 >>}
    BY <1>1, <1>2, <1>4
  <2> HIDE DEF i, j
  <2>3. i + 1 \in 1..(Len(a) + 1) /\ j + 1 \in 1..(Len(b) + 1)
    BY <1>1, <2>2
  <2>4. PICK m \in {i, i + 1}, l \in {j, j + 1} :
          q = << m, l >> /\ m + l > i + j
    BY <2>2
  <2>5. m \in 1..(Len(a) + 1) /\ l \in 1..(Len(b) + 1)
    BY <2>2, <2>3
  <2>1. q[1] \in 1..(Len(a) + 1) /\ q[2] \in 1..(Len(b) + 1)
        /\ q = << q[1], q[2] >> /\ q[1] + q[2] > p[1] + p[2]
    BY <2>4, <2>5 DEF i, j
  <2>6. q \in Places(a, b)
    BY <2>1 DEF Places
  <2>7. (Len(a) + 1 - q[1]) + (Len(b) + 1 - q[2])
          < (Len(a) + 1 - p[1]) + (Len(b) + 1 - p[2])
    <3> DEFINE m1 == q[1]
               l1 == q[2]
               m2 == p[1]
               l2 == p[2]
    <3>1. /\ m1 \in Int /\ l1 \in Int /\ m2 \in Int /\ l2 \in Int
          /\ m1 + l1 > m2 + l2
      BY <1>2, <2>1
    <3> HIDE DEF m1, l1, m2, l2
    <3>2. (Len(a) + 1 - m1) + (Len(b) + 1 - l1)
            < (Len(a) + 1 - m2) + (Len(b) + 1 - l2)
      BY <1>1, <3>1
    <3> QED
      BY <3>2 DEF m1, l1, m2, l2
  <2> QED
    BY <2>6, <2>7 DEF ToRead
<1>5. p[1] \in Nat /\ p[2] \in Nat
  BY <1>2
<1> QED
  BY <1>1, <1>2, <1>3, <1>4, <1>5

\* What Merged says of p depends on the later places only.
LEMMA MergedLocal ==
  ASSUME NEW E, NEW a \in Seq(E), NEW b \in Seq(E), NEW id, NEW removed,
         NEW p \in Places(a, b), NEW f, NEW g,
         \A q \in Places(a, b) :
           ToRead(a, b, q) < ToRead(a, b, p) => f[q] = g[q]
  PROVE  Merged(a, b, id, removed, f, p) = Merged(a, b, id, removed, g, p)
<1>1. CASE p[1] > Len(a) \/ p[2] > Len(b)
  BY <1>1 DEF Merged
<1>2. CASE ~(p[1] > Len(a) \/ p[2] > Len(b))
  <2>0. /\ Len(a) \in Nat /\ Len(b) \in Nat
        /\ p[1] \in 1..(Len(a) + 1) /\ p[2] \in 1..(Len(b) + 1)
    BY PlaceFacts
  <2>1. p[1] <= Len(a) /\ p[2] <= Len(b)
    BY <1>2, <2>0
  <2>2. /\ f[<< p[1] + 1, p[2] >>] = g[<< p[1] + 1, p[2] >>]
        /\ f[<< p[1], p[2] + 1 >>] = g[<< p[1], p[2] + 1 >>]
        /\ f[<< p[1] + 1, p[2] + 1 >>] = g[<< p[1] + 1, p[2] + 1 >>]
    BY <2>1, PlaceFacts
  <2> QED
    BY <2>2 DEF Merged
<1> QED
  BY <1>1, <1>2

\* There is such a function ...
LEMMA MergeExists ==
  ASSUME NEW E, NEW a \in Seq(E), NEW b \in Seq(E), NEW id, NEW removed
  PROVE  \E f : IsMerge(a, b, id, removed, f)
<1> DEFINE Upto(n) ==
      \E f : \A p \in Places(a, b) :
        ToRead(a, b, p) < n => MergesAt(a, b, id, removed, f, p)
<1> DEFINE P == {n \in Nat : Upto(n)}
<1>0. \A p \in Places(a, b) : ToRead(a, b, p) \in Nat
  BY PlaceFacts
<1>1. 0 \in P
  BY <1>0
<1>2. ASSUME NEW n \in Nat, n \in P PROVE n + 1 \in P
  <2>1. PICK f : \A p \in Places(a, b) :
          ToRead(a, b, p) < n => MergesAt(a, b, id, removed, f, p)
    BY <1>2
  <2> DEFINE g == [p \in Places(a, b) |->
                     IF ToRead(a, b, p) < n THEN f[p]
                     ELSE Merged(a, b, id, removed, f, p)]
  <2>2. ASSUME NEW p \in Places(a, b), ToRead(a, b, p) < n + 1
        PROVE  MergesAt(a, b, id, removed, g, p)
    <3>1. \A q \in Places(a, b) :
            ToRead(a, b, q) < ToRead(a, b, p) => f[q] = g[q]
      <4> SUFFICES ASSUME NEW q \in Places(a, b),
                          ToRead(a, b, q) < ToRead(a, b, p)
                   PROVE  ToRead(a, b, q) < n
        OBVIOUS
      <4> QED
        BY <1>0, <2>2
    <3>2. Merged(a, b, id, removed, f, p) = Merged(a, b, id, removed, g, p)
      <4> HIDE DEF g
      <4> QED
        BY <3>1, MergedLocal
    <3>3. g[p] = Merged(a, b, id, removed, f, p)
      BY <2>1 DEF MergesAt
    <3> QED
      BY <3>2, <3>3 DEF MergesAt
  <2>3. Upto(n + 1)
    <3> HIDE DEF g
    <3> QED
      BY <2>2
  <2>4. n + 1 \in Nat
    OBVIOUS
  <2> HIDE DEF Upto
  <2> QED
    BY <2>3, <2>4
<1>3. P = Nat
  <2> HIDE DEF P
  <2>1. P \in SUBSET Nat
    BY DEF P
  <2> QED
    BY <1>1, <1>2, <2>1, Induction
<1>4. Len(a) + Len(b) + 1 \in Nat /\ Len(a) \in Nat /\ Len(b) \in Nat
  BY LenProperties
<1>5. PICK f : \A p \in Places(a, b) :
        ToRead(a, b, p) < Len(a) + Len(b) + 1
          => MergesAt(a, b, id, removed, f, p)
  BY <1>3, <1>4
<1>6. ASSUME NEW p \in Places(a, b)
      PROVE  MergesAt(a, b, id, removed, f, p)
  <2>1. p[1] \in 1..(Len(a) + 1) /\ p[2] \in 1..(Len(b) + 1)
    BY PlaceFacts
  <2>2. ToRead(a, b, p) < Len(a) + Len(b) + 1
    BY <1>4, <2>1 DEF ToRead
  <2> QED
    BY <1>5, <2>2
<1> DEFINE g == [p \in Places(a, b) |-> f[p]]
<1>7. ASSUME NEW p \in Places(a, b)
      PROVE  g[p] = Merged(a, b, id, removed, g, p)
  <2>1. \A q \in Places(a, b) : f[q] = g[q]
    OBVIOUS
  <2>2. Merged(a, b, id, removed, f, p) = Merged(a, b, id, removed, g, p)
    <3> HIDE DEF g
    <3> QED
      BY <2>1, MergedLocal
  <2> QED
    BY <1>6, <2>2 DEF MergesAt
<1>8. IsMerge(a, b, id, removed, g)
  BY <1>7 DEF IsMerge
<1> QED
  BY <1>8

\* ... and the code computes its value at the beginning of both lists.
LEMMA MergeRuns ==
  ASSUME NEW E, NEW a \in Seq(E), NEW b \in Seq(E), NEW id, NEW removed
  PROVE  \E f : /\ LinearIntersect(a, b, id, removed) = f[<< 1, 1 >>]
                /\ \A p \in Places(a, b) : MergesAt(a, b, id, removed, f, p)
<1>1. \E f : IsMerge(a, b, id, removed, f)
  BY MergeExists
<1>2. IsMerge(a, b, id, removed, CHOOSE f : IsMerge(a, b, id, removed, f))
  BY <1>1
<1>3. LinearIntersect(a, b, id, removed)
        = (CHOOSE f : IsMerge(a, b, id, removed, f))[<< 1, 1 >>]
  BY DEF LinearIntersect, Places, Merged, IsMerge
<1> DEFINE g == CHOOSE f : IsMerge(a, b, id, removed, f)
<1>4. LinearIntersect(a, b, id, removed) = g[<< 1, 1 >>]
      /\ IsMerge(a, b, id, removed, g)
  BY <1>2, <1>3
<1> HIDE DEF g
<1>5. \A p \in Places(a, b) : MergesAt(a, b, id, removed, g, p)
  BY <1>4 DEF MergesAt, IsMerge
<1> QED
  BY <1>4, <1>5

-----------------------------------------------------------------------------

\* The three steps the code can take at a place of both lists.
MergesBy(a, b, id, removed, f, p) ==
  /\ id[a[p[1]]] < id[b[p[2]]] => f[p] = f[<< p[1] + 1, p[2] >>]
  /\ id[a[p[1]]] > id[b[p[2]]] => f[p] = f[<< p[1], p[2] + 1 >>]
  /\ id[a[p[1]]] = id[b[p[2]]] =>
       f[p] = (IF id[a[p[1]]] \notin removed THEN << a[p[1]] >> ELSE << >>)
                \o f[<< p[1] + 1, p[2] + 1 >>]

LEMMA MergeCases ==
  ASSUME NEW E, NEW a \in Seq(E), NEW b \in Seq(E),
         NEW id \in [E -> Nat], NEW removed, NEW f,
         NEW p \in Places(a, b), MergesAt(a, b, id, removed, f, p),
         p[1] <= Len(a), p[2] <= Len(b)
  PROVE  a[p[1]] \in E /\ b[p[2]] \in E /\ MergesBy(a, b, id, removed, f, p)
<1>1. /\ Len(a) \in Nat /\ Len(b) \in Nat
      /\ p[1] \in 1..(Len(a) + 1) /\ p[2] \in 1..(Len(b) + 1)
  BY PlaceFacts
<1>2. a[p[1]] \in E /\ b[p[2]] \in E
  BY <1>1, ElementOfSeq
<1>3. id[a[p[1]]] \in Nat /\ id[b[p[2]]] \in Nat
  BY <1>2
<1>4. ~(p[1] > Len(a) \/ p[2] > Len(b))
  BY <1>1
<1>5. f[p] = Merged(a, b, id, removed, f, p)
  BY DEF MergesAt
<1>6. id[a[p[1]]] < id[b[p[2]]] => f[p] = f[<< p[1] + 1, p[2] >>]
  BY <1>4, <1>5, Zenon DEF Merged
<1>7. id[a[p[1]]] > id[b[p[2]]] => ~(id[a[p[1]]] < id[b[p[2]]])
  BY <1>3
<1>8. id[a[p[1]]] > id[b[p[2]]] => f[p] = f[<< p[1], p[2] + 1 >>]
  BY <1>4, <1>5, <1>7, Zenon DEF Merged
<1>9. id[a[p[1]]] = id[b[p[2]]] =>
        ~(id[a[p[1]]] < id[b[p[2]]]) /\ ~(id[a[p[1]]] > id[b[p[2]]])
  BY <1>3
<1>10. id[a[p[1]]] = id[b[p[2]]] =>
         f[p] = (IF id[a[p[1]]] \notin removed THEN << a[p[1]] >>
                                              ELSE << >>)
                  \o f[<< p[1] + 1, p[2] + 1 >>]
  BY <1>4, <1>5, <1>9, Zenon DEF Merged
<1> QED
  BY <1>2, <1>6, <1>8, <1>10 DEF MergesBy

\* A sequence in the order of its ids, and the element x in q from place i.
Increasing(q, id) ==
  \A k, l \in 1..Len(q) : k < l => id[q[k]] < id[q[l]]
InFrom(q, i, x) == \E k \in i..Len(q) : q[k] = x

\* The elements of t after those of h, place by place.
Prepends(h, t, r) ==
  /\ Len(h) \in Nat /\ Len(t) \in Nat
  /\ Len(r) = Len(h) + Len(t)
  /\ \A k \in 1..Len(h) : k \in 1..Len(r) /\ r[k] = h[k]
  /\ \A k \in 1..Len(t) :
       k + Len(h) \in 1..Len(r) /\ r[k + Len(h)] = t[k]
  /\ \A k \in 1..Len(r) :
       IF k <= Len(h) THEN k \in 1..Len(h)
       ELSE k - Len(h) \in 1..Len(t) /\ r[k] = t[k - Len(h)]

LEMMA PrependAt ==
  ASSUME NEW E, NEW h \in Seq(E), NEW t \in Seq(E)
  PROVE  h \o t \in Seq(E) /\ Prepends(h, t, h \o t)
<1> DEFINE r == h \o t
<1>1. Len(h) \in Nat /\ Len(t) \in Nat
  BY LenProperties
<1>2. /\ r \in Seq(E) /\ Len(r) = Len(h) + Len(t)
      /\ \A k \in 1..Len(r) :
           r[k] = IF k <= Len(h) THEN h[k] ELSE t[k - Len(h)]
  BY ConcatProperties
<1> HIDE DEF r
<1>3. ASSUME NEW k \in 1..Len(h) PROVE k \in 1..Len(r) /\ r[k] = h[k]
  <2>1. k \in 1..Len(r) /\ k <= Len(h)
    BY <1>1, <1>2
  <2> QED
    BY <1>2, <2>1
<1>4. ASSUME NEW k \in 1..Len(t)
      PROVE  k + Len(h) \in 1..Len(r) /\ r[k + Len(h)] = t[k]
  <2>1. /\ k + Len(h) \in 1..Len(r) /\ ~(k + Len(h) <= Len(h))
        /\ (k + Len(h)) - Len(h) = k
    BY <1>1, <1>2
  <2> QED
    BY <1>2, <2>1
<1>5. ASSUME NEW k \in 1..Len(r)
      PROVE  IF k <= Len(h) THEN k \in 1..Len(h)
             ELSE k - Len(h) \in 1..Len(t) /\ r[k] = t[k - Len(h)]
  <2>1. IF k <= Len(h) THEN k \in 1..Len(h) ELSE k - Len(h) \in 1..Len(t)
    BY <1>1, <1>2
  <2> QED
    BY <1>2, <2>1
<1>6. Prepends(h, t, r)
  BY <1>1, <1>2, <1>3, <1>4, <1>5 DEF Prepends
<1> QED
  BY <1>2, <1>6 DEF r

\* What is found from the places p on is in the first list from p[1] on, has
\* the id of an element of the second from p[2] on, and is not removed.
SoundAt(a, b, id, removed, E, f, p) ==
  /\ f[p] \in Seq(E)
  /\ \A k \in 1..Len(f[p]) :
       /\ InFrom(a, p[1], f[p][k])
       /\ id[f[p][k]] \notin removed
       /\ \E l \in p[2]..Len(b) : id[b[l]] = id[f[p][k]]

LEMMA MergeSound ==
  ASSUME NEW E, NEW a \in Seq(E), NEW b \in Seq(E),
         NEW id \in [E -> Nat], NEW removed, NEW f,
         \A p \in Places(a, b) : MergesAt(a, b, id, removed, f, p)
  PROVE  \A p \in Places(a, b) : SoundAt(a, b, id, removed, E, f, p)
<1> DEFINE P == {n \in Nat : \A p \in Places(a, b) :
                   ToRead(a, b, p) < n => SoundAt(a, b, id, removed, E, f, p)}
<1>0. \A p \in Places(a, b) : ToRead(a, b, p) \in Nat
  BY PlaceFacts
<1>1. 0 \in P
  BY <1>0
<1>2. ASSUME NEW n \in Nat, n \in P PROVE n + 1 \in P
  <2>1. ASSUME NEW p \in Places(a, b), ToRead(a, b, p) < n + 1
        PROVE  SoundAt(a, b, id, removed, E, f, p)
    <3>1. \A q \in Places(a, b) : ToRead(a, b, q) < ToRead(a, b, p)
            => SoundAt(a, b, id, removed, E, f, q)
      <4> SUFFICES ASSUME NEW q \in Places(a, b),
                          ToRead(a, b, q) < ToRead(a, b, p)
                   PROVE  ToRead(a, b, q) < n
        BY <1>2
      <4>1. ToRead(a, b, p) \in Nat /\ ToRead(a, b, q) \in Nat
        BY PlaceFacts
      <4> QED
        BY <2>1, <4>1
    <3>2. /\ Len(a) \in Nat /\ Len(b) \in Nat
          /\ p[1] \in 1..(Len(a) + 1) /\ p[2] \in 1..(Len(b) + 1)
          /\ p[1] \in Nat /\ p[2] \in Nat
      BY PlaceFacts
    <3>3. f[p] = Merged(a, b, id, removed, f, p)
      BY DEF MergesAt
    <3>4. CASE p[1] > Len(a) \/ p[2] > Len(b)
      <4>1. f[p] = << >>
        BY <3>3, <3>4 DEF Merged
      <4>2. f[p] \in Seq(E)
        BY <4>1
      <4>3. 1..Len(f[p]) = {}
        BY <4>1
      <4> QED
        BY <4>2, <4>3 DEF SoundAt
    <3>5. ASSUME p[1] <= Len(a), p[2] <= Len(b)
          PROVE  SoundAt(a, b, id, removed, E, f, p)
      <4>1. \A q \in {<< p[1] + 1, p[2] >>, << p[1], p[2] + 1 >>,
                      << p[1] + 1, p[2] + 1 >>} :
              SoundAt(a, b, id, removed, E, f, q)
        <5>1. \A q \in {<< p[1] + 1, p[2] >>, << p[1], p[2] + 1 >>,
                        << p[1] + 1, p[2] + 1 >>} :
                q \in Places(a, b) /\ ToRead(a, b, q) < ToRead(a, b, p)
          BY <3>5, PlaceFacts
        <5> QED
          BY <3>1, <5>1
      <4>2. a[p[1]] \in E /\ b[p[2]] \in E /\ MergesBy(a, b, id, removed, f, p)
        BY <3>5, MergeCases
      <4>3. id[a[p[1]]] \in Nat /\ id[b[p[2]]] \in Nat
        BY <4>2
      <4>4. ASSUME NEW q \in {<< p[1] + 1, p[2] >>, << p[1], p[2] + 1 >>},
                   f[p] = f[q]
            PROVE  SoundAt(a, b, id, removed, E, f, p)
        <5>1. SoundAt(a, b, id, removed, E, f, q)
          BY <4>1
        <5>2. q[1] \in {p[1], p[1] + 1} /\ q[2] \in {p[2], p[2] + 1}
          OBVIOUS
        <5>3. /\ f[p] \in Seq(E)
              /\ \A k \in 1..Len(f[p]) :
                   /\ InFrom(a, q[1], f[p][k])
                   /\ id[f[p][k]] \notin removed
                   /\ \E l \in q[2]..Len(b) : id[b[l]] = id[f[p][k]]
          BY <4>4, <5>1 DEF SoundAt
        <5>4. /\ q[1]..Len(a) \subseteq p[1]..Len(a)
              /\ q[2]..Len(b) \subseteq p[2]..Len(b)
          BY <3>2, <5>2, NextPlace
        <5> QED
          BY <5>3, <5>4 DEF SoundAt, InFrom
      <4>5. CASE id[a[p[1]]] < id[b[p[2]]]
        <5>1. f[p] = f[<< p[1] + 1, p[2] >>]
          BY <4>2, <4>5 DEF MergesBy
        <5> QED
          BY <4>4, <5>1
      <4>6. CASE id[a[p[1]]] > id[b[p[2]]]
        <5>1. f[p] = f[<< p[1], p[2] + 1 >>]
          BY <4>2, <4>6 DEF MergesBy
        <5> QED
          BY <4>4, <5>1
      <4>7. CASE id[a[p[1]]] = id[b[p[2]]]
        <5> DEFINE q == << p[1] + 1, p[2] + 1 >>
                   head == IF id[a[p[1]]] \notin removed THEN << a[p[1]] >>
                                                         ELSE << >>
        <5>1. f[p] = head \o f[q]
          BY <4>2, <4>7 DEF MergesBy
        <5>2. SoundAt(a, b, id, removed, E, f, q)
          BY <4>1
        <5>3. head \in Seq(E) /\ Len(head) \in {0, 1}
              /\ \A k \in 1..Len(head) : /\ head[k] = a[p[1]]
                                         /\ id[a[p[1]]] \notin removed
          <6>1. CASE id[a[p[1]]] \notin removed
            <7>1. head = << a[p[1]] >>
              BY <6>1
            <7> QED
              BY <4>2, <6>1, <7>1
          <6>2. CASE id[a[p[1]]] \in removed
            <7>1. head = << >>
              BY <6>2
            <7> HIDE DEF head
            <7>2. head \in Seq(E)
              BY <7>1
            <7>3. Len(head) = 0
              BY <7>1
            <7>4. 1..Len(head) = {}
              BY <7>3
            <7> QED
              BY <7>2, <7>3, <7>4
          <6> QED
            BY <6>1, <6>2
        <5>4. q[1] = p[1] + 1 /\ q[2] = p[2] + 1
          OBVIOUS
        <5>5. f[q] \in Seq(E) /\ Len(f[q]) \in Nat
          BY <5>2 DEF SoundAt
        <5> HIDE DEF head, q
        <5>6. f[p] \in Seq(E) /\ Prepends(head, f[q], f[p])
          BY <5>1, <5>3, <5>5, PrependAt
        <5>7. ASSUME NEW k \in 1..Len(f[p])
              PROVE  /\ InFrom(a, p[1], f[p][k])
                     /\ id[f[p][k]] \notin removed
                     /\ \E l \in p[2]..Len(b) : id[b[l]] = id[f[p][k]]
          <6>1. CASE k <= Len(head)
            <7>1. f[p][k] = a[p[1]] /\ id[a[p[1]]] \notin removed
              BY <5>3, <5>6, <6>1 DEF Prepends
            <7>2. p[1] \in p[1]..Len(a) /\ p[2] \in p[2]..Len(b)
              BY <3>2, <3>5, NextPlace
            <7> QED
              BY <4>7, <7>1, <7>2 DEF InFrom
          <6>2. CASE ~(k <= Len(head))
            <7>1. k - Len(head) \in 1..Len(f[q])
                  /\ f[p][k] = f[q][k - Len(head)]
              BY <5>6, <6>2 DEF Prepends
            <7>2. /\ InFrom(a, p[1] + 1, f[p][k])
                  /\ id[f[p][k]] \notin removed
                  /\ \E l \in (p[2] + 1)..Len(b) : id[b[l]] = id[f[p][k]]
              BY <5>2, <5>4, <7>1 DEF SoundAt
            <7>3. /\ (p[1] + 1)..Len(a) \subseteq p[1]..Len(a)
                  /\ (p[2] + 1)..Len(b) \subseteq p[2]..Len(b)
              BY <3>2, NextPlace
            <7> QED
              BY <7>2, <7>3 DEF InFrom
          <6> QED
            BY <6>1, <6>2
        <5> QED
          BY <5>6, <5>7 DEF SoundAt
      <4> QED
        BY <4>3, <4>5, <4>6, <4>7
    <3> QED
      BY <3>2, <3>4, <3>5
  <2>2. n + 1 \in Nat
    OBVIOUS
  <2> QED
    BY <2>1, <2>2
<1>3. P = Nat
  <2> HIDE DEF P
  <2>1. P \in SUBSET Nat
    BY DEF P
  <2> QED
    BY <1>1, <1>2, <2>1, Induction
<1>4. ASSUME NEW p \in Places(a, b)
      PROVE  SoundAt(a, b, id, removed, E, f, p)
  <2>1. ToRead(a, b, p) + 1 \in Nat /\ ToRead(a, b, p) < ToRead(a, b, p) + 1
    BY <1>0
  <2> QED
    BY <1>3, <2>1
<1> QED
  BY <1>4

\* From lists in order nothing is missed, and the order is kept.
ExactAt(a, b, id, removed, f, p) ==
  /\ Increasing(f[p], id)
  /\ \A i \in p[1]..Len(a), j \in p[2]..Len(b) :
       id[a[i]] = id[b[j]] /\ id[a[i]] \notin removed => InFrom(f[p], 1, a[i])

LEMMA IncreasingFacts ==
  ASSUME NEW E, NEW q \in Seq(E), NEW id \in [E -> Nat], Increasing(q, id)
  PROVE  \A k \in 1..Len(q) : \A l \in k..Len(q) :
           /\ id[q[k]] \in Nat /\ id[q[l]] \in Nat
           /\ id[q[k]] <= id[q[l]]
           /\ k # l => id[q[k]] < id[q[l]]
<1> SUFFICES ASSUME NEW k \in 1..Len(q), NEW l \in k..Len(q)
             PROVE  /\ id[q[k]] \in Nat /\ id[q[l]] \in Nat
                    /\ id[q[k]] <= id[q[l]]
                    /\ k # l => id[q[k]] < id[q[l]]
  OBVIOUS
<1>1. Len(q) \in Nat
  BY LenProperties
<1>2. l \in 1..Len(q) /\ (k # l => k < l)
  BY <1>1
<1>3. q[k] \in E /\ q[l] \in E
  BY <1>2, ElementOfSeq
<1>4. id[q[k]] \in Nat /\ id[q[l]] \in Nat
  BY <1>3
<1>5. k # l => id[q[k]] < id[q[l]]
  BY <1>2 DEF Increasing
<1>6. id[q[k]] <= id[q[l]]
  BY <1>4, <1>5
<1> QED
  BY <1>4, <1>5, <1>6

LEMMA MergeExact ==
  ASSUME NEW E, NEW a \in Seq(E), NEW b \in Seq(E),
         NEW id \in [E -> Nat], NEW removed, NEW f,
         Increasing(a, id), Increasing(b, id),
         \A p \in Places(a, b) : MergesAt(a, b, id, removed, f, p)
  PROVE  \A p \in Places(a, b) : ExactAt(a, b, id, removed, f, p)
<1> DEFINE P == {n \in Nat : \A p \in Places(a, b) :
                   ToRead(a, b, p) < n => ExactAt(a, b, id, removed, f, p)}
<1>0. \A p \in Places(a, b) : ToRead(a, b, p) \in Nat
  BY PlaceFacts
<1>1. 0 \in P
  BY <1>0
<1>2. ASSUME NEW n \in Nat, n \in P PROVE n + 1 \in P
  <2>1. ASSUME NEW p \in Places(a, b), ToRead(a, b, p) < n + 1
        PROVE  ExactAt(a, b, id, removed, f, p)
    <3>1. \A q \in Places(a, b) : ToRead(a, b, q) < ToRead(a, b, p)
            => ExactAt(a, b, id, removed, f, q)
      <4> SUFFICES ASSUME NEW q \in Places(a, b),
                          ToRead(a, b, q) < ToRead(a, b, p)
                   PROVE  ToRead(a, b, q) < n
        BY <1>2
      <4>1. ToRead(a, b, p) \in Nat /\ ToRead(a, b, q) \in Nat
        BY PlaceFacts
      <4> QED
        BY <2>1, <4>1
    <3>2. /\ Len(a) \in Nat /\ Len(b) \in Nat
          /\ p[1] \in 1..(Len(a) + 1) /\ p[2] \in 1..(Len(b) + 1)
          /\ p[1] \in Nat /\ p[2] \in Nat
      BY PlaceFacts
    <3>3. CASE p[1] > Len(a) \/ p[2] > Len(b)
      <4>1. f[p] = << >>
        BY <3>3 DEF Merged, MergesAt
      <4>2. Len(<< >>) = 0
        OBVIOUS
      <4>3. p[1]..Len(a) = {} \/ p[2]..Len(b) = {}
        BY <3>2, <3>3
      <4> QED
        BY <4>1, <4>2, <4>3 DEF ExactAt, Increasing
    <3>4. ASSUME p[1] <= Len(a), p[2] <= Len(b)
          PROVE  ExactAt(a, b, id, removed, f, p)
      <4>1. \A q \in {<< p[1] + 1, p[2] >>, << p[1], p[2] + 1 >>,
                      << p[1] + 1, p[2] + 1 >>} :
              q \in Places(a, b) /\ ExactAt(a, b, id, removed, f, q)
        <5>1. \A q \in {<< p[1] + 1, p[2] >>, << p[1], p[2] + 1 >>,
                        << p[1] + 1, p[2] + 1 >>} :
                q \in Places(a, b) /\ ToRead(a, b, q) < ToRead(a, b, p)
          BY <3>4, PlaceFacts
        <5> QED
          BY <3>1, <5>1
      <4>2. MergesBy(a, b, id, removed, f, p)
        BY <3>4, MergeCases
      <4>3. \A i \in p[1]..Len(a) :
              /\ id[a[i]] \in Nat
              /\ id[a[p[1]]] \in Nat
              /\ id[a[p[1]]] <= id[a[i]]
              /\ i # p[1] => id[a[p[1]]] < id[a[i]]
        <5>1. p[1] \in 1..Len(a)
          BY <3>2, <3>4
        <5> QED
          BY <5>1, IncreasingFacts
      <4>4. \A j \in p[2]..Len(b) :
              /\ id[b[j]] \in Nat
              /\ id[b[p[2]]] \in Nat
              /\ id[b[p[2]]] <= id[b[j]]
              /\ j # p[2] => id[b[p[2]]] < id[b[j]]
        <5>1. p[2] \in 1..Len(b)
          BY <3>2, <3>4
        <5> QED
          BY <5>1, IncreasingFacts
      <4>5. p[1] \in p[1]..Len(a) /\ p[2] \in p[2]..Len(b)
        BY <3>2, <3>4, NextPlace
      <4>6. id[a[p[1]]] \in Nat /\ id[b[p[2]]] \in Nat
        BY <4>3, <4>4, <4>5
      <4>7. ASSUME NEW q \in {<< p[1] + 1, p[2] >>, << p[1], p[2] + 1 >>,
                             << p[1] + 1, p[2] + 1 >>},
                   f[p] = f[q],
                   NEW i \in q[1]..Len(a), NEW j \in q[2]..Len(b),
                   id[a[i]] = id[b[j]], id[a[i]] \notin removed
            PROVE  InFrom(f[p], 1, a[i])
        BY <4>1, <4>7 DEF ExactAt
      <4>8. CASE id[a[p[1]]] < id[b[p[2]]]
        <5> DEFINE q == << p[1] + 1, p[2] >>
        <5>1. f[p] = f[q]
          BY <4>2, <4>8 DEF MergesBy
        <5>2. Increasing(f[p], id)
          BY <4>1, <5>1 DEF ExactAt
        <5>3. ASSUME NEW i \in p[1]..Len(a), NEW j \in p[2]..Len(b),
                     id[a[i]] = id[b[j]], id[a[i]] \notin removed
              PROVE  InFrom(f[p], 1, a[i])
          <6>1. i # p[1]
            <7>1. id[b[p[2]]] <= id[b[j]] /\ id[b[j]] \in Nat
              BY <4>4
            <7>2. id[a[i]] # id[a[p[1]]]
              BY <4>6, <4>8, <5>3, <7>1
            <7> QED
              BY <7>2
          <6>2. i \in (p[1] + 1)..Len(a)
            BY <3>2, <6>1, NextPlace
          <6>3. i \in q[1]..Len(a) /\ j \in q[2]..Len(b)
            BY <6>2
          <6> QED
            BY <4>7, <5>1, <5>3, <6>3
        <5> QED
          BY <5>2, <5>3 DEF ExactAt
      <4>9. CASE id[a[p[1]]] > id[b[p[2]]]
        <5> DEFINE q == << p[1], p[2] + 1 >>
        <5>1. f[p] = f[q]
          BY <4>2, <4>9 DEF MergesBy
        <5>2. Increasing(f[p], id)
          BY <4>1, <5>1 DEF ExactAt
        <5>3. ASSUME NEW i \in p[1]..Len(a), NEW j \in p[2]..Len(b),
                     id[a[i]] = id[b[j]], id[a[i]] \notin removed
              PROVE  InFrom(f[p], 1, a[i])
          <6>1. j # p[2]
            <7>1. id[a[p[1]]] <= id[a[i]] /\ id[a[i]] \in Nat
              BY <4>3
            <7>2. id[b[j]] # id[b[p[2]]]
              BY <4>6, <4>9, <5>3, <7>1
            <7> QED
              BY <7>2
          <6>2. j \in (p[2] + 1)..Len(b)
            BY <3>2, <6>1, NextPlace
          <6>3. i \in q[1]..Len(a) /\ j \in q[2]..Len(b)
            BY <6>2
          <6> QED
            BY <4>7, <5>1, <5>3, <6>3
        <5> QED
          BY <5>2, <5>3 DEF ExactAt
      <4>10. CASE id[a[p[1]]] = id[b[p[2]]]
        <5> DEFINE q == << p[1] + 1, p[2] + 1 >>
                   head == IF id[a[p[1]]] \notin removed THEN << a[p[1]] >>
                                                         ELSE << >>
        <5>1. f[p] = head \o f[q]
          BY <4>2, <4>10 DEF MergesBy
        <5>2. ExactAt(a, b, id, removed, f, q) /\ SoundAt(a, b, id, removed, E, f, q)
          BY <4>1, MergeSound
        <5>3. a[p[1]] \in E
          BY <3>4, MergeCases
        <5>4. /\ head \in Seq(E) /\ Len(head) \in {0, 1}
              /\ \A k \in 1..Len(head) : head[k] = a[p[1]]
              /\ id[a[p[1]]] \notin removed => Len(head) = 1
          <6>1. CASE id[a[p[1]]] \notin removed
            <7>1. head = << a[p[1]] >>
              BY <6>1
            <7> QED
              BY <5>3, <6>1, <7>1
          <6>2. CASE id[a[p[1]]] \in removed
            <7>1. head = << >>
              BY <6>2
            <7> HIDE DEF head
            <7>2. head \in Seq(E)
              BY <7>1
            <7>3. Len(head) = 0
              BY <7>1
            <7>4. 1..Len(head) = {}
              BY <7>3
            <7> QED
              BY <6>2, <7>2, <7>3, <7>4
          <6> QED
            BY <6>1, <6>2
        <5>5. q[1] = p[1] + 1 /\ q[2] = p[2] + 1
          OBVIOUS
        <5>6. f[q] \in Seq(E) /\ Len(f[q]) \in Nat
          BY <5>2 DEF SoundAt
        <5> HIDE DEF head, q
        <5>7. Prepends(head, f[q], f[p])
          BY <5>1, <5>4, <5>6, PrependAt
        <5>8. \A k \in 1..Len(f[q]) : id[a[p[1]]] < id[f[q][k]]
          <6> SUFFICES ASSUME NEW k \in 1..Len(f[q])
                       PROVE  id[a[p[1]]] < id[f[q][k]]
            OBVIOUS
          <6>1. InFrom(a, p[1] + 1, f[q][k])
            BY <5>2, <5>5 DEF SoundAt
          <6>2. PICK i \in (p[1] + 1)..Len(a) : a[i] = f[q][k]
            BY <6>1 DEF InFrom
          <6>3. i \in p[1]..Len(a) /\ i # p[1]
            <7>1. i \in p[1]..Len(a)
              BY <3>2, NextPlace
            <7>2. p[1] \notin (p[1] + 1)..Len(a)
              BY <3>2, NextPlace
            <7> QED
              BY <7>1, <7>2
          <6> QED
            BY <4>3, <6>2, <6>3
        <5>9. ASSUME NEW k \in 1..Len(f[p]), NEW l \in 1..Len(f[p]), k < l
              PROVE  id[f[p][k]] < id[f[p][l]]
          <6>0. ~(l <= Len(head)) /\ Len(head) \in Nat
            <7> DEFINE h == Len(head)
            <7>1. h \in {0, 1}
              BY <5>4
            <7>2. k \in Nat /\ l \in Nat /\ k >= 1
              OBVIOUS
            <7> HIDE DEF h
            <7>3. ~(l <= h) /\ h \in Nat
              BY <5>9, <7>1, <7>2
            <7> QED
              BY <7>3 DEF h
          <6>1. l - Len(head) \in 1..Len(f[q])
                /\ f[p][l] = f[q][l - Len(head)]
            BY <5>7, <6>0 DEF Prepends
          <6>2. CASE k <= Len(head)
            <7>1. f[p][k] = a[p[1]]
              BY <5>4, <5>7, <6>2 DEF Prepends
            <7> QED
              BY <5>8, <6>1, <7>1
          <6>3. CASE ~(k <= Len(head))
            <7>1. k - Len(head) < l - Len(head)
              BY <5>9, <6>0
            <7>2. k - Len(head) \in 1..Len(f[q])
                  /\ f[p][k] = f[q][k - Len(head)]
              BY <5>7, <6>3 DEF Prepends
            <7> QED
              BY <5>2, <6>1, <7>1, <7>2 DEF ExactAt, Increasing
          <6> QED
            BY <6>2, <6>3
        <5>10. ASSUME NEW i \in p[1]..Len(a), NEW j \in p[2]..Len(b),
                      id[a[i]] = id[b[j]], id[a[i]] \notin removed
               PROVE  InFrom(f[p], 1, a[i])
          <6>1. CASE i = p[1]
            <7>1. Len(head) = 1
              BY <5>4, <5>10, <6>1
            <7>3. 1 \in 1..Len(head) /\ head[1] = a[i]
              BY <5>4, <6>1, <7>1
            <7>2. 1 \in 1..Len(f[p]) /\ f[p][1] = a[i]
              BY <5>7, <7>3 DEF Prepends
            <7> QED
              BY <7>2 DEF InFrom
          <6>2. CASE i # p[1]
            <7>1. j # p[2]
              <8>1. id[a[p[1]]] < id[a[i]] /\ id[a[i]] \in Nat
                BY <4>3, <6>2
              <8>2. id[b[j]] # id[b[p[2]]]
                BY <4>6, <4>10, <5>10, <8>1
              <8> QED
                BY <8>2
            <7>2. i \in (p[1] + 1)..Len(a)
              BY <3>2, <6>2, NextPlace
            <7>6. j \in (p[2] + 1)..Len(b)
              BY <3>2, <7>1, NextPlace
            <7>3. InFrom(f[q], 1, a[i])
              BY <5>2, <5>5, <5>10, <7>2, <7>6 DEF ExactAt
            <7>4. PICK k \in 1..Len(f[q]) : f[q][k] = a[i]
              BY <7>3 DEF InFrom
            <7>5. k + Len(head) \in 1..Len(f[p])
                  /\ f[p][k + Len(head)] = f[q][k]
              BY <5>7 DEF Prepends
            <7> QED
              BY <7>4, <7>5 DEF InFrom
          <6> QED
            BY <6>1, <6>2
        <5> QED
          BY <5>9, <5>10 DEF ExactAt, Increasing
      <4> QED
        BY <4>6, <4>8, <4>9, <4>10
    <3> QED
      BY <3>2, <3>3, <3>4
  <2>2. n + 1 \in Nat
    OBVIOUS
  <2> QED
    BY <2>1, <2>2
<1>3. P = Nat
  <2> HIDE DEF P
  <2>1. P \in SUBSET Nat
    BY DEF P
  <2> QED
    BY <1>1, <1>2, <2>1, Induction
<1>4. ASSUME NEW p \in Places(a, b)
      PROVE  ExactAt(a, b, id, removed, f, p)
  <2>1. ToRead(a, b, p) + 1 \in Nat /\ ToRead(a, b, p) < ToRead(a, b, p) + 1
    BY <1>0
  <2> QED
    BY <1>3, <2>1
<1> QED
  BY <1>4

-----------------------------------------------------------------------------
(* The results.                                                            *)

\* x is in the sequence, or another document with its id is.
IsIn(q, x)      == InFrom(q, 1, x)
HasId(q, id, x) == \E l \in 1..Len(q) : id[q[l]] = id[x]

\* c is in E, and its elements are in a, have an id of b and are not removed.
FromBoth(E, a, b, id, removed, c) ==
  /\ c \in Seq(E)
  /\ \A x : IsIn(c, x) => IsIn(a, x) /\ HasId(b, id, x) /\ id[x] \notin removed

\* c has all of those, in the order of their ids.
AllOfBoth(a, b, id, removed, c) ==
  /\ Increasing(c, id)
  /\ \A x : IsIn(c, x) <=> IsIn(a, x) /\ HasId(b, id, x) /\ id[x] \notin removed

LEMMA FirstPlace ==
  ASSUME NEW E, NEW a \in Seq(E), NEW b \in Seq(E)
  PROVE  << 1, 1 >> \in Places(a, b)
<1>1. Len(a) \in Nat /\ Len(b) \in Nat
  BY LenProperties
<1> QED
  BY <1>1 DEF Places

\* linear_intersect, whatever the order of its lists: what it puts into the
\* result is in the first list, has an id of the second and is not removed.
THEOREM LinearIntersectSound ==
  ASSUME NEW E, NEW a \in Seq(E), NEW b \in Seq(E),
         NEW id \in [E -> Nat], NEW removed
  PROVE  FromBoth(E, a, b, id, removed, LinearIntersect(a, b, id, removed))
<1>1. PICK f : /\ LinearIntersect(a, b, id, removed) = f[<< 1, 1 >>]
               /\ \A p \in Places(a, b) : MergesAt(a, b, id, removed, f, p)
  BY MergeRuns
<1>2. SoundAt(a, b, id, removed, E, f, << 1, 1 >>)
  BY <1>1, MergeSound, FirstPlace
<1> DEFINE c == LinearIntersect(a, b, id, removed)
<1> HIDE DEF c
<1>3. /\ c \in Seq(E)
      /\ \A k \in 1..Len(c) : /\ InFrom(a, 1, c[k])
                              /\ id[c[k]] \notin removed
                              /\ \E l \in 1..Len(b) : id[b[l]] = id[c[k]]
  BY <1>1, <1>2 DEF SoundAt, c
<1>4. ASSUME NEW x, IsIn(c, x)
      PROVE  IsIn(a, x) /\ HasId(b, id, x) /\ id[x] \notin removed
  <2>1. PICK k \in 1..Len(c) : c[k] = x
    BY <1>4 DEF IsIn, InFrom
  <2> QED
    BY <1>3, <2>1 DEF IsIn, HasId
<1> QED
  BY <1>3, <1>4 DEF c, FromBoth

\* linear_intersect of lists in the order of their ids: the result is in that
\* order and has all of the first that the second has and that is not removed.
THEOREM LinearIntersectExact ==
  ASSUME NEW E, NEW a \in Seq(E), NEW b \in Seq(E),
         NEW id \in [E -> Nat], NEW removed,
         Increasing(a, id), Increasing(b, id)
  PROVE  AllOfBoth(a, b, id, removed, LinearIntersect(a, b, id, removed))
<1>1. PICK f : /\ LinearIntersect(a, b, id, removed) = f[<< 1, 1 >>]
               /\ \A p \in Places(a, b) : MergesAt(a, b, id, removed, f, p)
  BY MergeRuns
<1>2. \A p \in Places(a, b) : ExactAt(a, b, id, removed, f, p)
  BY <1>1, MergeExact
<1>3. ExactAt(a, b, id, removed, f, << 1, 1 >>)
  BY <1>2, FirstPlace
<1> DEFINE c == LinearIntersect(a, b, id, removed)
<1> HIDE DEF c
<1>4. /\ Increasing(c, id)
      /\ \A i \in 1..Len(a), j \in 1..Len(b) :
           id[a[i]] = id[b[j]] /\ id[a[i]] \notin removed => InFrom(c, 1, a[i])
  BY <1>1, <1>3 DEF ExactAt, c
<1>5. ASSUME NEW x, IsIn(a, x), HasId(b, id, x), id[x] \notin removed
      PROVE  IsIn(c, x)
  BY <1>4, <1>5 DEF IsIn, InFrom, HasId
<1>6. FromBoth(E, a, b, id, removed, c)
  BY LinearIntersectSound DEF c
<1> QED
  BY <1>4, <1>5, <1>6 DEF c, FromBoth, AllOfBoth

\* The body of SeekIntersect's function, and the function.
Folded(lists, id, removed, f, n) ==
  IF n = 1 THEN lists[1] ELSE LinearIntersect(f[n - 1], lists[n], id, removed)
IsFold(lists, id, removed, f) ==
  f = [n \in 1..Len(lists) |-> Folded(lists, id, removed, f, n)]
FoldsAt(lists, id, removed, f, n) == f[n] = Folded(lists, id, removed, f, n)

LEMMA FoldExists ==
  ASSUME NEW lists, Len(lists) \in Nat, NEW id, NEW removed
  PROVE  \E f : IsFold(lists, id, removed, f)
<1> DEFINE Upto(m) == \E f : \A n \in 1..Len(lists) :
                        n <= m => FoldsAt(lists, id, removed, f, n)
<1> DEFINE P == {m \in Nat : Upto(m)}
<1>1. 0 \in P
  OBVIOUS
<1>2. ASSUME NEW m \in Nat, m \in P PROVE m + 1 \in P
  <2>1. PICK f : \A n \in 1..Len(lists) :
                   n <= m => FoldsAt(lists, id, removed, f, n)
    BY <1>2
  <2> DEFINE g == [n \in 1..Len(lists) |->
                     IF n <= m THEN f[n] ELSE Folded(lists, id, removed, f, n)]
  <2>2. ASSUME NEW n \in 1..Len(lists), n <= m + 1
        PROVE  FoldsAt(lists, id, removed, g, n)
    <3>1. n # 1 => n - 1 \in 1..Len(lists) /\ n - 1 <= m
      BY <2>2
    <3>2. n # 1 => g[n - 1] = f[n - 1]
      BY <3>1
    <3>3. Folded(lists, id, removed, f, n) = Folded(lists, id, removed, g, n)
      <4> HIDE DEF g
      <4> QED
        BY <3>2 DEF Folded
    <3>4. g[n] = Folded(lists, id, removed, f, n)
      BY <2>1 DEF FoldsAt
    <3> QED
      BY <3>3, <3>4 DEF FoldsAt
  <2>3. Upto(m + 1)
    <3> HIDE DEF g
    <3> QED
      BY <2>2
  <2>4. m + 1 \in Nat
    OBVIOUS
  <2> HIDE DEF Upto
  <2> QED
    BY <2>3, <2>4
<1>3. P = Nat
  <2> HIDE DEF P
  <2>1. P \in SUBSET Nat
    BY DEF P
  <2> QED
    BY <1>1, <1>2, <2>1, Induction
<1>4. PICK f : \A n \in 1..Len(lists) :
        n <= Len(lists) => FoldsAt(lists, id, removed, f, n)
  BY <1>3
<1> DEFINE g == [n \in 1..Len(lists) |-> f[n]]
<1>5. ASSUME NEW n \in 1..Len(lists)
      PROVE  g[n] = Folded(lists, id, removed, g, n)
  <2>1. n # 1 => n - 1 \in 1..Len(lists)
    OBVIOUS
  <2>2. n # 1 => g[n - 1] = f[n - 1]
    BY <2>1
  <2>3. Folded(lists, id, removed, f, n) = Folded(lists, id, removed, g, n)
    <3> HIDE DEF g
    <3> QED
      BY <2>2 DEF Folded
  <2> QED
    BY <1>4, <2>3 DEF FoldsAt
<1>6. IsFold(lists, id, removed, g)
  BY <1>5 DEF IsFold
<1> QED
  BY <1>6

LEMMA FoldRuns ==
  ASSUME NEW lists, Len(lists) \in Nat, NEW id, NEW removed
  PROVE  \E f : /\ SeekIntersect(lists, id, removed) = f[Len(lists)]
                /\ \A n \in 1..Len(lists) : FoldsAt(lists, id, removed, f, n)
<1>1. \E f : IsFold(lists, id, removed, f)
  BY FoldExists
<1>2. IsFold(lists, id, removed, CHOOSE f : IsFold(lists, id, removed, f))
  BY <1>1
<1>3. SeekIntersect(lists, id, removed)
        = (CHOOSE f : IsFold(lists, id, removed, f))[Len(lists)]
  BY DEF SeekIntersect, Folded, IsFold
<1> DEFINE g == CHOOSE f : IsFold(lists, id, removed, f)
<1>4. SeekIntersect(lists, id, removed) = g[Len(lists)]
      /\ IsFold(lists, id, removed, g)
  BY <1>2, <1>3
<1> HIDE DEF g
<1>5. \A n \in 1..Len(lists) : FoldsAt(lists, id, removed, g, n)
  BY <1>4 DEF FoldsAt, IsFold
<1> QED
  BY <1>4, <1>5

LEMMA UpToNext ==
  ASSUME NEW n \in Nat, n > 1
  PROVE  \A k : k \in 2..n <=> k \in 2..(n - 1) \/ k = n
  OBVIOUS

\* What the first n lists have in common and the bitmap does not exclude.
InCommon(lists, id, removed, n, x) ==
  /\ IsIn(lists[1], x)
  /\ n > 1 => id[x] \notin removed
  /\ \A m \in 2..n : HasId(lists[m], id, x)

\* ts_seek_intersect, whatever the order of its lists.
THEOREM SeekIntersectSound ==
  ASSUME NEW E, NEW lists \in Seq(Seq(E)), lists # << >>,
         NEW id \in [E -> Nat], NEW removed
  PROVE  LET c == SeekIntersect(lists, id, removed)
         IN  /\ c \in Seq(E)
             /\ \A x : IsIn(c, x) => InCommon(lists, id, removed, Len(lists), x)
<1>1. Len(lists) \in Nat /\ Len(lists) # 0
      /\ \A n \in 1..Len(lists) : lists[n] \in Seq(E)
  BY LenProperties, ElementOfSeq, EmptySeq
<1>2. PICK f : /\ SeekIntersect(lists, id, removed) = f[Len(lists)]
               /\ \A n \in 1..Len(lists) : FoldsAt(lists, id, removed, f, n)
  BY <1>1, FoldRuns
<1> DEFINE Sound(n) ==
      /\ f[n] \in Seq(E)
      /\ \A x : IsIn(f[n], x) => InCommon(lists, id, removed, n, x)
<1> DEFINE P == {m \in Nat : m + 1 \in 1..Len(lists) => Sound(m + 1)}
<1>3. 0 \in P
  <2>1. 1 \in 1..Len(lists)
    BY <1>1
  <2>2. f[1] = lists[1] /\ lists[1] \in Seq(E)
    BY <1>1, <1>2, <2>1 DEF FoldsAt, Folded
  <2>3. Sound(1)
    BY <2>2 DEF InCommon
  <2> HIDE DEF Sound
  <2> QED
    BY <2>3
<1>4. ASSUME NEW m \in Nat, m \in P PROVE m + 1 \in P
  <2>1. ASSUME (m + 1) + 1 \in 1..Len(lists) PROVE Sound((m + 1) + 1)
    <3> DEFINE n == (m + 1) + 1
    <3>1. n \in 1..Len(lists) /\ n # 1 /\ n > 1 /\ n \in Nat
          /\ n - 1 = m + 1 /\ n - 1 \in 1..Len(lists)
      BY <1>1, <2>1
    <3>2. Sound(n - 1)
      <4> HIDE DEF Sound
      <4> QED
        BY <1>4, <3>1
    <3> HIDE DEF n
    <3>3. f[n] = LinearIntersect(f[n - 1], lists[n], id, removed)
      BY <1>2, <3>1 DEF FoldsAt, Folded
    <3>4. f[n - 1] \in Seq(E) /\ lists[n] \in Seq(E)
      BY <1>1, <3>1, <3>2
    <3>5. FromBoth(E, f[n - 1], lists[n], id, removed, f[n])
      BY <3>3, <3>4, LinearIntersectSound
    <3>6. ASSUME NEW x, IsIn(f[n], x)
          PROVE  InCommon(lists, id, removed, n, x)
      <4>1. InCommon(lists, id, removed, n - 1, x)
        BY <3>2, <3>5, <3>6 DEF FromBoth
      <4>2. \A k \in 2..n : k = n \/ k \in 2..(n - 1)
        BY <3>1, UpToNext
      <4> QED
        BY <3>5, <3>6, <4>1, <4>2 DEF InCommon, FromBoth
    <3>7. Sound(n)
      BY <3>5, <3>6 DEF FromBoth
    <3> QED
      BY <3>7 DEF n
  <2>2. m + 1 \in Nat
    OBVIOUS
  <2> HIDE DEF Sound
  <2> QED
    BY <2>1, <2>2
<1>5. P = Nat
  <2> HIDE DEF P
  <2>1. P \in SUBSET Nat
    BY DEF P
  <2> QED
    BY <1>3, <1>4, <2>1, Induction
<1>6. Len(lists) - 1 \in Nat /\ (Len(lists) - 1) + 1 = Len(lists)
      /\ Len(lists) \in 1..Len(lists)
  BY <1>1
<1>7. Sound(Len(lists))
  <2> HIDE DEF Sound
  <2> QED
    BY <1>5, <1>6
<1> QED
  BY <1>2, <1>7

\* ts_seek_intersect of lists in the order of their ids: what all of them have
\* and the bitmap does not exclude, nothing else, in that order
\* (intersect.c:39).
THEOREM SeekIntersectExact ==
  ASSUME NEW E, NEW lists \in Seq(Seq(E)), lists # << >>,
         NEW id \in [E -> Nat], NEW removed,
         \A n \in 1..Len(lists) : Increasing(lists[n], id)
  PROVE  LET c == SeekIntersect(lists, id, removed)
         IN  /\ Increasing(c, id)
             /\ \A x : IsIn(c, x) <=> InCommon(lists, id, removed, Len(lists), x)
<1>1. Len(lists) \in Nat /\ Len(lists) # 0
      /\ \A n \in 1..Len(lists) : lists[n] \in Seq(E)
  BY LenProperties, ElementOfSeq, EmptySeq
<1>2. PICK f : /\ SeekIntersect(lists, id, removed) = f[Len(lists)]
               /\ \A n \in 1..Len(lists) : FoldsAt(lists, id, removed, f, n)
  BY <1>1, FoldRuns
<1> DEFINE Exact(n) ==
      /\ f[n] \in Seq(E)
      /\ Increasing(f[n], id)
      /\ \A x : IsIn(f[n], x) <=> InCommon(lists, id, removed, n, x)
<1> DEFINE P == {m \in Nat : m + 1 \in 1..Len(lists) => Exact(m + 1)}
<1>3. 0 \in P
  <2>1. 1 \in 1..Len(lists)
    BY <1>1
  <2>2. f[1] = lists[1] /\ lists[1] \in Seq(E)
    BY <1>1, <1>2, <2>1 DEF FoldsAt, Folded
  <2>3. Exact(1)
    BY <2>1, <2>2 DEF InCommon
  <2> HIDE DEF Exact
  <2> QED
    BY <2>3
<1>4. ASSUME NEW m \in Nat, m \in P PROVE m + 1 \in P
  <2>1. ASSUME (m + 1) + 1 \in 1..Len(lists) PROVE Exact((m + 1) + 1)
    <3> DEFINE n == (m + 1) + 1
    <3>1. n \in 1..Len(lists) /\ n # 1 /\ n > 1 /\ n \in Nat
          /\ n - 1 = m + 1 /\ n - 1 \in 1..Len(lists)
      BY <1>1, <2>1
    <3>2. Exact(n - 1)
      <4> HIDE DEF Exact
      <4> QED
        BY <1>4, <3>1
    <3> HIDE DEF n
    <3>3. f[n] = LinearIntersect(f[n - 1], lists[n], id, removed)
      BY <1>2, <3>1 DEF FoldsAt, Folded
    <3>4. f[n - 1] \in Seq(E) /\ lists[n] \in Seq(E)
      BY <1>1, <3>1, <3>2
    <3>5. FromBoth(E, f[n - 1], lists[n], id, removed, f[n])
      BY <3>3, <3>4, LinearIntersectSound
    <3>9. Increasing(f[n - 1], id) /\ Increasing(lists[n], id)
      BY <3>1, <3>2
    <3>6. AllOfBoth(f[n - 1], lists[n], id, removed, f[n])
      BY <3>3, <3>4, <3>9, LinearIntersectExact
    <3>7. ASSUME NEW x
          PROVE  IsIn(f[n], x) <=> InCommon(lists, id, removed, n, x)
      <4>1. IsIn(f[n - 1], x) <=> InCommon(lists, id, removed, n - 1, x)
        BY <3>2
      <4>2. \A k : k \in 2..n <=> k \in 2..(n - 1) \/ k = n
        BY <3>1, UpToNext
      <4>3. InCommon(lists, id, removed, n, x)
              <=> /\ InCommon(lists, id, removed, n - 1, x)
                  /\ HasId(lists[n], id, x)
                  /\ id[x] \notin removed
        BY <3>1, <4>2 DEF InCommon
      <4> QED
        BY <3>6, <4>1, <4>3 DEF AllOfBoth
    <3>8. Exact(n)
      BY <3>5, <3>6, <3>7 DEF AllOfBoth, FromBoth
    <3> QED
      BY <3>8 DEF n
  <2>2. m + 1 \in Nat
    OBVIOUS
  <2> HIDE DEF Exact
  <2> QED
    BY <2>1, <2>2
<1>5. P = Nat
  <2> HIDE DEF P
  <2>1. P \in SUBSET Nat
    BY DEF P
  <2> QED
    BY <1>3, <1>4, <2>1, Induction
<1>6. Len(lists) - 1 \in Nat /\ (Len(lists) - 1) + 1 = Len(lists)
      /\ Len(lists) \in 1..Len(lists)
  BY <1>1
<1>7. Exact(Len(lists))
  <2> HIDE DEF Exact
  <2> QED
    BY <1>5, <1>6
<1> QED
  BY <1>2, <1>7

\* What a lookup asks ts_seek_intersect for, and the bitmap it gives it, make no
\* difference: two lists or more, of any length, are intersected exactly.
THEOREM IntersectExactHolds == PostingsSpec => []IntersectExact
<1> DEFINE Given ==
      \/ postings = << >>
      \/ /\ postings \in Seq(Seq(1..MaxId)) /\ Len(postings) > 1
         /\ \A n \in 1..Len(postings) : Increasing(postings[n], IdOf)
<1>1. PostingsInit => Given
  BY DEF PostingsInit
<1>2. Given /\ [DrawLists]_postingVars => Given'
  <2> SUFFICES ASSUME Given, [DrawLists]_postingVars PROVE Given'
    OBVIOUS
  <2>1. CASE UNCHANGED postingVars
    BY <2>1 DEF postingVars
  <2>2. CASE DrawLists
    <3>1. PICK n \in 2..MaxLists : postings' \in [1..n -> OrderedLists]
      BY <2>2 DEF DrawLists
    <3>2. n \in Nat /\ n > 1
      BY PostingsAssumption
    <3>3. ASSUME NEW list \in OrderedLists
          PROVE  list \in Seq(1..MaxId) /\ Increasing(list, IdOf)
      <4>1. PICK m \in 0..MaxId : list \in [1..m -> 1..MaxId]
        BY DEF OrderedLists
      <4>2. m \in Nat
        BY PostingsAssumption
      <4>3. list \in Seq(1..MaxId)
        <5> DEFINE E == 1..MaxId
        <5>1. list \in [1..m -> E]
          BY <4>1
        <5> HIDE DEF E
        <5>2. list \in Seq(E)
          BY <4>2, <5>1
        <5> QED
          BY <5>2 DEF E
      <4>4. ByIds(list, IdOf)
        BY DEF OrderedLists
      <4> QED
        BY <4>3, <4>4 DEF ByIds, Increasing
    <3>4. postings' \in [1..n -> Seq(1..MaxId)]
      BY <3>1, <3>3
    <3>5. postings' \in Seq(Seq(1..MaxId)) /\ Len(postings') = n
      BY <3>2, <3>4
    <3>6. \A k \in 1..n : Increasing(postings'[k], IdOf)
      BY <3>1, <3>3
    <3>7. IdOf' = IdOf
      BY DEF IdOf
    <3> QED
      BY <3>2, <3>5, <3>6, <3>7 DEF Increasing
  <2> QED
    BY <2>1, <2>2
<1>3. Given => IntersectExact
  <2> SUFFICES ASSUME Given, postings # << >> PROVE IntersectExact
    BY DEF IntersectExact
  <2> DEFINE E == 1..MaxId
             common == SeekIntersect(postings, IdOf, excluded)
  <2>1. /\ postings \in Seq(Seq(E)) /\ Len(postings) > 1
        /\ \A n \in 1..Len(postings) : Increasing(postings[n], IdOf)
    OBVIOUS
  <2>2. IdOf \in [E -> Nat] /\ \A p \in E : IdOf[p] = p
    BY PostingsAssumption DEF IdOf
  <2>3. \A n \in 1..Len(postings) : postings[n] \in Seq(E)
    BY <2>1, ElementOfSeq
  <2>4. /\ Increasing(common, IdOf)
        /\ \A x : IsIn(common, x) <=> InCommon(postings, IdOf, excluded, Len(postings), x)
    BY <2>1, <2>2, SeekIntersectExact
  <2>5. common \in Seq(E)
    BY <2>1, <2>2, SeekIntersectSound
  <2> HIDE DEF common, E
  <2>6. ASSUME NEW x
        PROVE  (\E i \in 1..Len(common) : common[i] = x)
                 <=> x \in Common(postings, IdOf, excluded)
    <3>1. Len(postings) \in Nat /\ 1 \in 1..Len(postings)
          /\ \A n \in 2..Len(postings) : n \in 1..Len(postings)
      BY <2>1
    <3>2. \A n \in 1..Len(postings) : \A i \in 1..Len(postings[n]) : postings[n][i] \in E
      BY <2>3
    <3>3. (\E i \in 1..Len(common) : common[i] = x) <=> IsIn(common, x)
      BY DEF IsIn, InFrom
    <3>4. IsIn(postings[1], x) <=> x \in {postings[1][i] : i \in 1..Len(postings[1])}
      BY DEF IsIn, InFrom
    <3>5. IsIn(postings[1], x) => x \in E
      BY <3>1, <3>2 DEF IsIn, InFrom
    <3>6. ASSUME x \in E, NEW n \in 2..Len(postings)
          PROVE  HasId(postings[n], IdOf, x)
                   <=> \E i \in 1..Len(postings[n]) : postings[n][i] = x
      BY <2>2, <3>1, <3>2, <3>6 DEF HasId
    <3>7. InCommon(postings, IdOf, excluded, Len(postings), x)
            <=> x \in Common(postings, IdOf, excluded)
      BY <2>1, <3>4, <3>5, <3>6 DEF InCommon, Common
    <3> QED
      BY <2>4, <3>3, <3>7
  <2>7. {common[i] : i \in 1..Len(common)} = Common(postings, IdOf, excluded)
    BY <2>6
  <2>8. ByIds(common, IdOf)
    BY <2>4 DEF ByIds, Increasing
  <2> QED
    BY <2>7, <2>8 DEF IntersectExact, common
<1> QED
  <2> HIDE DEF Given
  <2> QED
    BY <1>1, <1>2, <1>3, PTL DEF PostingsSpec

-----------------------------------------------------------------------------
(* Sequences of the elements of a finite set in a given order.             *)

StrictOrder(S, before) ==
  /\ \A d \in S : << d, d >> \notin before
  /\ \A d, e \in S : d # e => << d, e >> \in before \/ << e, d >> \in before
  /\ \A c, d, e \in S :
       << c, d >> \in before /\ << d, e >> \in before => << c, e >> \in before

Earlier(S, before, d) == {e \in S : << e, d >> \in before}

LEMMA EarlierCounts ==
  ASSUME NEW S, IsFiniteSet(S), NEW before, StrictOrder(S, before)
  PROVE  /\ \A d \in S : Cardinality(Earlier(S, before, d)) + 1
                           \in 1..Cardinality(S)
         /\ \A d, e \in S : << d, e >> \in before =>
              Cardinality(Earlier(S, before, d))
                < Cardinality(Earlier(S, before, e))
<1>1. \A d \in S : /\ IsFiniteSet(Earlier(S, before, d))
                   /\ Cardinality(Earlier(S, before, d)) \in Nat
                   /\ Earlier(S, before, d) \in SUBSET S
  BY FS_Subset, FS_CardinalityType DEF Earlier
<1>2. Cardinality(S) \in Nat
  BY FS_CardinalityType
<1>3. ASSUME NEW d \in S
      PROVE  Cardinality(Earlier(S, before, d)) + 1 \in 1..Cardinality(S)
  <2>1. d \notin Earlier(S, before, d)
    BY DEF StrictOrder, Earlier
  <2>2. /\ Earlier(S, before, d) \cup {d} \in SUBSET S
        /\ Cardinality(Earlier(S, before, d) \cup {d})
             = Cardinality(Earlier(S, before, d)) + 1
    BY <1>1, <2>1, FS_AddElement
  <2>3. Cardinality(Earlier(S, before, d) \cup {d}) <= Cardinality(S)
    BY <2>2, FS_Subset
  <2> QED
    BY <1>1, <1>2, <2>2, <2>3
<1>4. ASSUME NEW d \in S, NEW e \in S, << d, e >> \in before
      PROVE  Cardinality(Earlier(S, before, d))
               < Cardinality(Earlier(S, before, e))
  <2>1. d \notin Earlier(S, before, d)
    BY DEF StrictOrder, Earlier
  <2>2. Earlier(S, before, d) \cup {d} \in SUBSET Earlier(S, before, e)
    BY <1>4 DEF StrictOrder, Earlier
  <2>3. Cardinality(Earlier(S, before, d) \cup {d})
          = Cardinality(Earlier(S, before, d)) + 1
    BY <1>1, <2>1, FS_AddElement
  <2>4. Cardinality(Earlier(S, before, d) \cup {d})
          <= Cardinality(Earlier(S, before, e))
    BY <1>1, <2>2, FS_Subset
  <2> QED
    BY <1>1, <2>3, <2>4
<1> QED
  BY <1>3, <1>4

\* The place of an element is one more than the number of those before it.
LEMMA OrderExists ==
  ASSUME NEW S, IsFiniteSet(S), NEW before, StrictOrder(S, before)
  PROVE  \E q \in [1..Cardinality(S) -> S] :
           \A i, j \in 1..Cardinality(S) : i < j => << q[i], q[j] >> \in before
<1> DEFINE n == Cardinality(S)
           rank == [d \in S |-> Cardinality(Earlier(S, before, d)) + 1]
<1>1. n \in Nat /\ IsFiniteSet(1..n) /\ Cardinality(1..n) = n
  BY FS_CardinalityType, UpTo
<1>2. rank \in [S -> 1..n]
  BY EarlierCounts
<1>3. \A d, e \in S : << d, e >> \in before => rank[d] < rank[e]
  <2> SUFFICES ASSUME NEW d \in S, NEW e \in S, << d, e >> \in before
               PROVE  rank[d] < rank[e]
    OBVIOUS
  <2>1. Cardinality(Earlier(S, before, d)) < Cardinality(Earlier(S, before, e))
    BY EarlierCounts
  <2>2. /\ Cardinality(Earlier(S, before, d)) + 1 \in 1..n
        /\ Cardinality(Earlier(S, before, e)) + 1 \in 1..n
    BY EarlierCounts
  <2>3. /\ IsFiniteSet(Earlier(S, before, d))
        /\ IsFiniteSet(Earlier(S, before, e))
    BY FS_Subset DEF Earlier
  <2>4. /\ Cardinality(Earlier(S, before, d)) \in Nat
        /\ Cardinality(Earlier(S, before, e)) \in Nat
    BY <2>3, FS_CardinalityType
  <2> QED
    BY <2>1, <2>4
<1> HIDE DEF rank
<1>4. ASSUME NEW d \in S, NEW e \in S, d # e
      PROVE  rank[d] < rank[e] \/ rank[e] < rank[d]
  BY <1>3, <1>4 DEF StrictOrder
<1>5. rank \in Injection(S, 1..n)
  <2>1. ASSUME NEW d \in S, NEW e \in S, rank[d] = rank[e]
        PROVE  d = e
    <3>1. rank[d] \in 1..n /\ rank[e] \in 1..n
      BY <1>2
    <3>2. rank[d] \in Int /\ rank[e] \in Int
      BY <1>1, <3>1
    <3> QED
      BY <1>4, <2>1, <3>2
  <2> QED
    BY <1>2, <2>1, Fun_IsInj
<1>6. rank \in Surjection(S, 1..n)
  BY <1>1, <1>5, FS_Injection
<1>7. \A i \in 1..n : \E d \in S : rank[d] = i
  BY <1>6, Fun_SurjectionProperties
<1> DEFINE q == [i \in 1..n |-> CHOOSE d \in S : rank[d] = i]
<1>8. \A i \in 1..n : q[i] \in S /\ rank[q[i]] = i
  BY <1>7
<1>9. ASSUME NEW i \in 1..n, NEW j \in 1..n, i < j
      PROVE  << q[i], q[j] >> \in before
  <2>1. q[i] \in S /\ q[j] \in S /\ rank[q[i]] = i /\ rank[q[j]] = j
    BY <1>8
  <2>2. q[i] # q[j]
    BY <1>1, <1>9, <2>1
  <2>3. ~(rank[q[j]] < rank[q[i]])
    BY <1>1, <1>9, <2>1
  <2> HIDE DEF q
  <2> QED
    BY <1>3, <2>1, <2>2, <2>3 DEF StrictOrder
<1>10. q \in [1..n -> S]
  BY <1>8
<1> QED
  BY <1>9, <1>10

LEMMA InOrderFacts ==
  ASSUME NEW S, IsFiniteSet(S), NEW before, StrictOrder(S, before)
  PROVE  /\ InOrder(S, before) \in Seq(S)
         /\ Len(InOrder(S, before)) = Cardinality(S)
         /\ \A i, j \in 1..Cardinality(S) :
              i < j => << InOrder(S, before)[i], InOrder(S, before)[j] >>
                         \in before
<1> DEFINE n == Cardinality(S)
           Good(q) == \A i, j \in 1..n : i < j => << q[i], q[j] >> \in before
<1>1. \E q \in [1..n -> S] : Good(q)
  BY OrderExists
<1>2. n \in Nat
  BY FS_CardinalityType
<1>3. InOrder(S, before) = CHOOSE q \in [1..n -> S] : Good(q)
  BY DEF InOrder
<1> HIDE DEF Good
<1>4. InOrder(S, before) \in [1..n -> S] /\ Good(InOrder(S, before))
  BY <1>1, <1>3
<1>5. InOrder(S, before) \in Seq(S) /\ Len(InOrder(S, before)) = n
  <2> HIDE DEF n
  <2> QED
    BY <1>2, <1>4, SeqDef
<1> QED
  BY <1>4, <1>5 DEF Good

-----------------------------------------------------------------------------
(* The two orders of the documents of a segment.                           *)

LEMMA PlacesOfDocs ==
  ASSUME NEW s, docs[s] \in Seq(Doc)
  PROVE  \A d \in DocsIn(s) :
           /\ PlaceOf(s, d) \in 1..Len(docs[s]) /\ docs[s][PlaceOf(s, d)] = d
           /\ KeyPlace(s, d) \in 1..Len(docs[s])
<1>1. Len(docs[s]) \in Nat /\ DOMAIN docs[s] = 1..Len(docs[s])
  BY LenProperties
<1> SUFFICES ASSUME NEW d \in DocsIn(s)
             PROVE  /\ PlaceOf(s, d) \in 1..Len(docs[s])
                    /\ docs[s][PlaceOf(s, d)] = d
                    /\ KeyPlace(s, d) \in 1..Len(docs[s])
  OBVIOUS
<1>2. PICK i \in 1..Len(docs[s]) : docs[s][i] = d
  BY RangeElements DEF DocsIn
<1>3. PlaceOf(s, d) \in 1..Len(docs[s]) /\ docs[s][PlaceOf(s, d)] = d
  BY <1>1, <1>2 DEF PlaceOf
<1> DEFINE Same == {k \in 1..Len(docs[s]) : pkOf[docs[s][k]] = pkOf[d]}
<1>4. Same \in SUBSET Nat /\ i \in Same
  BY <1>1, <1>2
<1>5. PICK m \in Same : \A n \in Same : m <= n
  <2> HIDE DEF Same
  <2> QED
    BY <1>4, Least
<1>6. \A j \in 1..(m - 1) : pkOf[docs[s][j]] # pkOf[d]
  <2> SUFFICES ASSUME NEW j \in 1..(m - 1), pkOf[docs[s][j]] = pkOf[d]
               PROVE  FALSE
    OBVIOUS
  <2>1. m \in 1..Len(docs[s])
    BY <1>5
  <2>2. j \in 1..Len(docs[s]) /\ j < m
    BY <1>1, <2>1
  <2>3. j \in Same
    BY <2>2
  <2>4. m <= j
    BY <1>5, <2>3
  <2> QED
    BY <1>1, <2>1, <2>2, <2>4
<1>7. KeyPlace(s, d) \in 1..Len(docs[s])
  BY <1>1, <1>5, <1>6 DEF KeyPlace
<1> QED
  BY <1>3, <1>7

LEMMA KeyOrderStrict ==
  ASSUME NEW s, docs[s] \in Seq(Doc)
  PROVE  StrictOrder(DocsIn(s), KeyOrder(s))
<1>1. Len(docs[s]) \in Nat
  BY LenProperties
<1>2. \A d \in DocsIn(s) :
        /\ PlaceOf(s, d) \in Int /\ docs[s][PlaceOf(s, d)] = d
        /\ KeyPlace(s, d) \in Int
  <2>1. \A k \in 1..Len(docs[s]) : k \in Int
    BY <1>1
  <2> QED
    BY <2>1, PlacesOfDocs
<1>3. \A d, e \in DocsIn(s) : << d, e >> \in KeyOrder(s) <=> Precedes(s, d, e)
  BY DEF KeyOrder
<1>4. ASSUME NEW d \in DocsIn(s) PROVE ~Precedes(s, d, d)
  BY <1>2 DEF Precedes
<1>5. ASSUME NEW d \in DocsIn(s), NEW e \in DocsIn(s), d # e
      PROVE  Precedes(s, d, e) \/ Precedes(s, e, d)
  <2>1. PlaceOf(s, d) # PlaceOf(s, e)
    BY <1>2, <1>5
  <2> QED
    BY <1>2, <2>1 DEF Precedes
<1>6. ASSUME NEW c \in DocsIn(s), NEW d \in DocsIn(s), NEW e \in DocsIn(s),
             Precedes(s, c, d), Precedes(s, d, e)
      PROVE  Precedes(s, c, e)
  BY <1>2, <1>6 DEF Precedes
<1> QED
  BY <1>3, <1>4, <1>5, <1>6 DEF StrictOrder

LEMMA AddOrderStrict ==
  ASSUME NEW s, docs[s] \in Seq(Doc)
  PROVE  StrictOrder(DocsIn(s), AddOrder(s))
<1>1. Len(docs[s]) \in Nat
  BY LenProperties
<1>2. \A d \in DocsIn(s) :
        PlaceOf(s, d) \in Int /\ docs[s][PlaceOf(s, d)] = d
  <2>1. \A k \in 1..Len(docs[s]) : k \in Int
    BY <1>1
  <2> QED
    BY <2>1, PlacesOfDocs
<1>3. \A d, e \in DocsIn(s) :
        << d, e >> \in AddOrder(s) <=> PlaceOf(s, d) < PlaceOf(s, e)
  BY DEF AddOrder
<1>5. ASSUME NEW d \in DocsIn(s), NEW e \in DocsIn(s), d # e
      PROVE  PlaceOf(s, d) < PlaceOf(s, e) \/ PlaceOf(s, e) < PlaceOf(s, d)
  <2>1. PlaceOf(s, d) # PlaceOf(s, e)
    BY <1>2, <1>5
  <2> QED
    BY <1>2, <2>1
<1>6. ASSUME NEW c \in DocsIn(s), NEW d \in DocsIn(s), NEW e \in DocsIn(s),
             PlaceOf(s, c) < PlaceOf(s, d), PlaceOf(s, d) < PlaceOf(s, e)
      PROVE  PlaceOf(s, c) < PlaceOf(s, e)
  BY <1>2, <1>6
<1>7. ASSUME NEW d \in DocsIn(s) PROVE ~(PlaceOf(s, d) < PlaceOf(s, d))
  BY <1>2
<1> QED
  BY <1>3, <1>5, <1>6, <1>7 DEF StrictOrder

LEMMA StrictOnPart ==
  ASSUME NEW S, NEW before, StrictOrder(S, before), NEW P \in SUBSET S
  PROVE  StrictOrder(P, before)
  BY DEF StrictOrder

-----------------------------------------------------------------------------
(* What the walk over a segment finds is in the segment.                   *)

LEMMA SeqOfElements ==
  ASSUME NEW S, NEW q \in Seq(S), NEW P, \A k \in 1..Len(q) : q[k] \in P
  PROVE  q \in Seq(P)
<1>1. Len(q) \in Nat /\ q \in [1..Len(q) -> S]
  BY LenProperties
<1>2. q \in [1..Len(q) -> P]
  BY <1>1
<1> QED
  BY <1>1, <1>2, SeqDef

LEMMA FirstNType ==
  ASSUME NEW S, NEW q \in Seq(S), NEW n \in Int
  PROVE  FirstN(q, n) \in Seq(S)
<1> DEFINE m == IF n < Len(q) THEN n ELSE Len(q)
<1>1. Len(q) \in Nat /\ m \in Int /\ 1 \in Int /\ m <= Len(q)
  BY LenProperties
<1>2. \A i \in 1..m : q[i] \in S
  <2> SUFFICES ASSUME NEW i \in 1..m PROVE i \in 1..Len(q)
    BY ElementOfSeq
  <2> HIDE DEF m
  <2> QED
    BY <1>1
<1>3. SubSeq(q, 1, m) \in Seq(S)
  <2> HIDE DEF m
  <2> QED
    BY <1>1, <1>2, SubSeqProperties
<1> QED
  BY <1>3 DEF FirstN

LEMMA PartInOrder ==
  ASSUME NEW s, docs[s] \in Seq(Doc), NEW P \in SUBSET DocsIn(s)
  PROVE  /\ InOrder(P, KeyOrder(s)) \in Seq(DocsIn(s))
         /\ InOrder(P, AddOrder(s)) \in Seq(DocsIn(s))
<1>1. IsFiniteSet(DocsIn(s))
  <2>1. DocsIn(s) \in SUBSET Doc
    BY RangeElements DEF DocsIn
  <2>2. IsFiniteSet(Doc)
    BY MaxDocAssumption, UpTo DEF Doc
  <2> QED
    BY <2>1, <2>2, FS_Subset
<1>2. IsFiniteSet(P)
  BY <1>1, FS_Subset
<1>3. StrictOrder(P, KeyOrder(s)) /\ StrictOrder(P, AddOrder(s))
  BY StrictOnPart, KeyOrderStrict, AddOrderStrict
<1>4. InOrder(P, KeyOrder(s)) \in Seq(P) /\ InOrder(P, AddOrder(s)) \in Seq(P)
  BY <1>2, <1>3, InOrderFacts
<1> QED
  BY <1>4, SeqMonotonic

\* The posting lists of the request, as the intersection is given them.
LEMMA PostingListsType ==
  ASSUME NEW s, docs[s] \in Seq(Doc), NEW terms \in Seq(Term)
  PROVE  /\ PostingLists(s, terms) \in Seq(Seq(DocsIn(s)))
         /\ Len(PostingLists(s, terms)) = Len(terms)
<1>1. Len(terms) \in Nat
  BY LenProperties
<1>2. \A t : Postings(s, t) \in Seq(DocsIn(s))
  BY PartInOrder DEF Postings
<1>3. PostingLists(s, terms) \in [1..Len(terms) -> Seq(DocsIn(s))]
  BY <1>2 DEF PostingLists
<1> QED
  BY <1>1, <1>3, SeqDef

LEMMA SameIntersection ==
  ASSUME NEW lists, NEW id, NEW removed
  PROVE  I!SeekIntersect(lists, id, removed) = SeekIntersect(lists, id, removed)
  BY DEF I!SeekIntersect, I!LinearIntersect, SeekIntersect, LinearIntersect

LEMMA WalkFinds ==
  ASSUME NEW r \in Reader, ReaderTypeOK, docs[rseg[r]] \in Seq(Doc),
         docId \in [Doc -> Nat], rseg[r] \in Seg,
         NEW lists, lists = PostingLists(rseg[r], query[r].terms)
  PROVE  Result(r, lists).found \in Seq(DocsIn(rseg[r]))
<1> DEFINE s == rseg[r]
<1>1. query[r] \in Query \cup {NoQuery} /\ docsOut[r] \in Seq(Doc)
  BY DEF ReaderTypeOK
<1>2. query[r].terms \in Seq(Term) /\ query[r].limit \in Nat
  <2>1. CASE query[r] \in Query
    BY <2>1, QueryAssumption
  <2>2. CASE query[r] = NoQuery
    <3>1. NoQuery.terms = << >> /\ NoQuery.limit = 0
      BY DEF NoQuery
    <3>2. << >> \in Seq(Term)
      OBVIOUS
    <3> QED
      BY <2>2, <3>1, <3>2
  <2> QED
    BY <1>1, <2>1, <2>2
<1>3. Limit(r) \in Int
  <2>1. Len(docsOut[r]) \in Nat
    BY <1>1, LenProperties
  <2> QED
    BY <1>2, <2>1 DEF Limit
<1>4. /\ lists \in Seq(Seq(DocsIn(s)))
      /\ \A i \in 1..Len(lists) : lists[i] \in Seq(DocsIn(s))
  BY <1>2, PostingListsType, ElementOfSeq
<1>5. CASE lists = << >>
  <2>1. Result(r, lists).found
          = FirstN(InOrder(Clear(r), KeyOrder(s)), Limit(r))
    BY <1>5 DEF Result, WithoutTerms
  <2>2. Clear(r) \in SUBSET DocsIn(s)
    BY DEF Clear
  <2>3. InOrder(Clear(r), KeyOrder(s)) \in Seq(DocsIn(s))
    BY <2>2, PartInOrder
  <2> QED
    BY <1>3, <2>1, <2>3, FirstNType
<1>6. CASE lists # << >>
  <2> DEFINE both == I!SeekIntersect(lists, docId, bits[r])
  <2>0. Len(lists) \in Nat /\ Len(lists) # 0
    BY <1>4, <1>6, LenProperties, EmptySeq
  <2>1. \/ Result(r, lists).found = << >>
        \/ Result(r, lists).found = FirstN(lists[1], Limit(r))
        \/ Result(r, lists).found = FirstN(both, Limit(r))
    BY <1>6 DEF Result, WithTerms
  <2>2. FirstN(lists[1], Limit(r)) \in Seq(DocsIn(s))
    <3>1. lists[1] \in Seq(DocsIn(s))
      BY <1>4, <2>0
    <3> QED
      BY <1>3, <3>1, FirstNType
  <2>3. FirstN(both, Limit(r)) \in Seq(DocsIn(s))
    <3>1. DocsIn(s) \subseteq Doc
      BY RangeElements DEF DocsIn
    <3>2. lists \in Seq(Seq(Doc))
      <4>1. Seq(DocsIn(s)) \subseteq Seq(Doc)
        BY <3>1, SeqMonotonic
      <4> QED
        BY <1>4, <4>1, SeqMonotonic
    <3>4. /\ both \in Seq(Doc)
          /\ \A x : IsIn(both, x)
               => InCommon(lists, docId, bits[r], Len(lists), x)
      BY <1>6, <3>2, SeekIntersectSound, SameIntersection
    <3>5. ASSUME NEW k \in 1..Len(both) PROVE both[k] \in DocsIn(s)
      <4>1. IsIn(both, both[k])
        BY DEF IsIn, InFrom
      <4>2. PICK l \in 1..Len(lists[1]) : lists[1][l] = both[k]
        BY <3>4, <4>1 DEF InCommon, IsIn, InFrom
      <4>3. lists[1] \in Seq(DocsIn(s))
        BY <1>4, <2>0
      <4> QED
        BY <4>2, <4>3, ElementOfSeq
    <3>3. both \in Seq(DocsIn(s))
      <4> HIDE DEF both
      <4> QED
        BY <3>4, <3>5, SeqOfElements
    <3> QED
      BY <1>3, <3>3, FirstNType
  <2>4. << >> \in Seq(DocsIn(s))
    OBVIOUS
  <2> QED
    BY <2>1, <2>2, <2>3, <2>4
<1> QED
  BY <1>5, <1>6

-----------------------------------------------------------------------------
(* The engine in the presence of lookups.                                  *)

\* EngineInv does not depend on how many lookups are inside of a segment.
LEMMA CounterKeepsEngineInv ==
  ASSUME EngineInv, processes' \in [Seg -> Nat],
         UNCHANGED << pkOf, docId, docs, deletion, deleted, state, nsegs,
                      freedSegs, freedDocs, removal, engineVars, mergerVars,
                      headPrev >>
  PROVE  EngineInv'
<1>1. Inv /\ LayoutInv /\ DocumentInv
  BY DEF EngineInv
<1>2. SegTypeOK'
  BY <1>1 DEF Inv, TypeOK, SegTypeOK
<1>3. EngineTypeOK'
  BY <1>1 DEF Inv, TypeOK, engineVars, EngineTypeOK
<1>4. MergerTypeOK'
  BY <1>1 DEF Inv, TypeOK, mergerVars, MergerTypeOK
<1>5. StagePlace' /\ OneMergerTask' /\ LastPlaceForMerger' /\ KeysKnown'
  BY <1>1
     DEF Inv, engineVars, mergerVars, StagePlace, OneMergerTask,
         ReplacePhase, RedeletePhase, ReplaceRuns, RedeleteRuns,
         LastPlaceForMerger, KeysKnown
<1>6. NewPrivate' <=> NewPrivate
  BY DEF NewPrivate, ReplaceRuns, engineVars, mergerVars
<1>7. ActiveState' /\ ListOfAllocated' /\ NewSegmentPrivate'
  BY <1>1, <1>6
     DEF Inv, engineVars, mergerVars, ActiveState, ListOfAllocated,
         NewSegmentPrivate, Lists
<1>8. SourcesValid' /\ SourcesListed'
  BY <1>1
     DEF Inv, engineVars, mergerVars, SourcesValid, Migrating,
         Merging, SourcesListed, ReplaceToCome, ReplaceRuns, Lists
<1>9. FreshDocuments' /\ Sized'
  BY <1>1, FreshFrame, SizedFrame DEF DocumentInv, engineVars
<1>10. LayoutInv' /\ DocumentInv'
  BY <1>1, <1>6, <1>9, LayoutFrame, InputFrame
     DEF LayoutInv, DocumentInv, engineVars
<1>11. RemovalAtCursor'
  <2>1. TaskPk' = TaskPk /\ Renumbered' = Renumbered
    BY DEF TaskPk, engineVars, mergerVars, Renumbered, CopyStarted, Copied
  <2> QED
    BY <2>1, RemovalFrame DEF EngineInv, engineVars
<1> QED
  BY <1>2, <1>3, <1>4, <1>5, <1>7, <1>8, <1>10, <1>11
     DEF EngineInv, Inv, TypeOK

Grows(s) == DocsIn(s) \subseteq Range(docs'[s])

LEMMA GrowsFrame ==
  ASSUME UNCHANGED docs
  PROVE  \A s \in Seg : Grows(s)
  BY DEF Grows, DocsIn

LEMMA AddGrows ==
  ASSUME docs \in [Seg -> Seq(Doc)], NEW s \in Seg, NEW d \in Doc,
         docs' = [docs EXCEPT ![s] = Append(@, d)]
  PROVE  \A u \in Seg : Grows(u)
<1> SUFFICES ASSUME NEW u \in Seg PROVE Grows(u)
  OBVIOUS
<1>1. CASE u = s
  <2>1. docs[s] \in Seq(Doc) /\ docs'[s] = Append(docs[s], d)
    OBVIOUS
  <2> QED
    BY <1>1, <2>1, RangeAppend DEF Grows, DocsIn
<1>2. CASE u # s
  BY <1>2 DEF Grows, DocsIn
<1> QED
  BY <1>1, <1>2

\* A segment is kept that is in the list or being merged, while it has a
\* lookup inside of it.
StaysInUse(s) == s \in Listed \cup Sources => s \in Listed' \cup Sources'

LEMMA KeptFrame ==
  ASSUME UNCHANGED << segments, mseg1, mseg2 >>
  PROVE  \A s \in Seg : StaysInUse(s)
  BY DEF StaysInUse, Listed, Sources

\* What the steps of the other threads leave of what a lookup relies on.
StepKeeps ==
  /\ processes' = processes
  /\ \A s \in Seg : Grows(s)
  /\ \A s \in Seg : processes[s] # 0 => StaysInUse(s)

LEMMA ClientKeepsSegments ==
  ASSUME ClientStep
  PROVE  StepKeeps
<1>1. UNCHANGED << processes, docs, segments, mseg1, mseg2 >>
  <2>1. PICK r \in Request : Accept(r) \/ RejectFull(r) \/ RejectInvalid(r)
    BY DEF ClientStep, Client
  <2>2. Unclient
    BY <2>1 DEF Accept, RejectFull, RejectInvalid
  <2> QED
    BY <2>2 DEF ClientStep, Unclient, mergerVars
<1> QED
  BY <1>1, GrowsFrame, KeptFrame DEF StepKeeps

LEMMA InputKeepsSegments ==
  ASSUME EngineInv, InputStep
  PROVE  StepKeeps
<1>1. /\ segments \in Seq(Seg) /\ docs \in [Seg -> Seq(Doc)]
      /\ segment_active \in Seg /\ newseg \in Seg \cup {NoSeg}
      /\ task \in Task \cup {NoTask}
  BY DEF EngineInv, Inv, TypeOK, SegTypeOK, EngineTypeOK, MergerTypeOK
<1>2. ASSUME UNCHANGED << processes, docs, segments, mseg1, mseg2 >>
      PROVE  StepKeeps
  BY <1>2, GrowsFrame, KeptFrame DEF StepKeeps
<1>3. CASE (\/ FindEmpty \/ ReadSize \/ BeginAdd \/ BeginRemove \/ ScanSegment
            \/ TestBit \/ SetBit \/ FinishRemove)
             /\ UNCHANGED << mergerVars, headPrev >>
  BY <1>2, <1>3 DEF FindEmpty, ReadSize, BeginAdd, BeginRemove, ScanSegment,
                    TestBit, SetBit, Scanned, FinishRemove, segVars, mergerVars
<1>4. CASE Rotate /\ UNCHANGED << mergerVars, headPrev >>
  <2>1. /\ UNCHANGED << processes, docs, mseg1, mseg2 >>
        /\ segments' = << Fresh >> \o segments
    BY <1>4 DEF Rotate, mergerVars
  <2>2. Fresh \in Seg
    BY <1>4, MaxSegAssumption
       DEF EngineInv, Inv, TypeOK, SegTypeOK, Rotate, NewSegment, Fresh, Seg
  <2>3. Listed' = Listed \cup {Fresh}
    BY <1>1, <2>1, <2>2, PrependListed
  <2>4. Sources' = Sources
    BY <2>1 DEF Sources
  <2> QED
    BY <2>1, <2>3, <2>4, GrowsFrame DEF StepKeeps, StaysInUse
<1>5. CASE FinishAdd /\ UNCHANGED << mergerVars, headPrev >>
  <2>1. /\ UNCHANGED << processes, segments, mseg1, mseg2 >>
        /\ docs' = [docs EXCEPT ![segment_active] = Append(@, task.doc)]
        /\ task.kind = "add"
    BY <1>5 DEF FinishAdd, AddDocument, mergerVars
  <2>2. task.doc \in Doc
    BY <1>1, <2>1, TaskDoc DEF NoTask
  <2> QED
    BY <1>1, <2>1, <2>2, AddGrows, KeptFrame DEF StepKeeps
<1>6. CASE BeginReplace \/ Redelete \/ FinishRedelete
  BY <1>2, <1>6 DEF BeginReplace, Redelete, FinishRedelete, segVars, mergerVars
<1>7. ASSUME NEW s \in {mseg1, mseg2}, Lists(s),
             UNCHANGED << segVars, mergerVars >>,
             segments' = RemoveAt(segments, PlaceInList(s))
      PROVE  StepKeeps
  <2>1. Listed' = Listed \ {s}
    BY <1>1, <1>7, DeleteListed DEF EngineInv, Inv
  <2>2. s \in Seg
    BY <1>1, <1>7, ListedLists
  <2>3. s \in Sources /\ Sources' = Sources
    BY <1>7, <2>2 DEF Sources, mergerVars, Seg, NoSeg
  <2>4. UNCHANGED << processes, docs >>
    BY <1>7 DEF segVars
  <2> QED
    BY <2>1, <2>3, <2>4, GrowsFrame DEF StepKeeps, StaysInUse
<1>8. CASE ReplaceDelete1
  <2>1. UNCHANGED << segVars, mergerVars >> /\ pc = "delete1"
    BY <1>8 DEF ReplaceDelete1, ReplaceDelete
  <2>2. Lists(mseg1)
    BY <2>1 DEF EngineInv, Inv, SourcesListed, ReplaceToCome
  <2>3. CASE UNCHANGED segments
    BY <1>2, <2>1, <2>3 DEF segVars, mergerVars
  <2>4. CASE segments' = RemoveAt(segments, PlaceInList(mseg1))
    BY <1>7, <2>1, <2>2, <2>4
  <2> QED
    BY <1>8, <2>3, <2>4 DEF ReplaceDelete1, ReplaceDelete
<1>9. CASE ReplaceDelete2
  <2>1. UNCHANGED << segVars, mergerVars >> /\ pc = "delete2"
    BY <1>9 DEF ReplaceDelete2, ReplaceDelete
  <2>2. Lists(mseg2)
    BY <2>1 DEF EngineInv, Inv, SourcesListed
  <2>3. CASE UNCHANGED segments
    BY <1>2, <2>1, <2>3 DEF segVars, mergerVars
  <2>4. CASE segments' = RemoveAt(segments, PlaceInList(mseg2))
    BY <1>7, <2>1, <2>2, <2>4
  <2> QED
    BY <1>9, <2>3, <2>4 DEF ReplaceDelete2, ReplaceDelete
<1>10. CASE FinishReplace
  <2>1. UNCHANGED << processes, docs, mseg1, mseg2 >>
    BY <1>10 DEF FinishReplace, mergerVars
  <2>2. CASE Joins
    <3>1. segments' = << newseg >> \o segments
      BY <1>10, <2>2 DEF FinishReplace
    <3>2. newseg \in Seg
      BY <1>10, ReplaceFacts DEF EngineInv, FinishReplace, ReplaceRuns
    <3>3. Listed' = Listed \cup {newseg}
      BY <1>1, <3>1, <3>2, PrependListed
    <3>4. Sources' = Sources
      BY <2>1 DEF Sources
    <3> QED
      BY <2>1, <3>3, <3>4, GrowsFrame DEF StepKeeps, StaysInUse
  <2>3. CASE ~Joins
    BY <1>2, <1>10, <2>1, <2>3 DEF FinishReplace
  <2> QED
    BY <2>2, <2>3
<1> QED
  BY <1>3, <1>4, <1>5, <1>6, <1>8, <1>9, <1>10
     DEF InputStep, InputProcessor, MergerHandlers

LEMMA MergeKeepsSegments ==
  ASSUME EngineInv, MergeStep
  PROVE  StepKeeps
<1>1. docs \in [Seg -> Seq(Doc)] /\ newseg \in Seg \cup {NoSeg}
  BY DEF EngineInv, Inv, TypeOK, SegTypeOK, MergerTypeOK
<1>2. ASSUME UNCHANGED << processes, docs, segments, mseg1, mseg2 >>
      PROVE  StepKeeps
  BY <1>2, GrowsFrame, KeptFrame DEF StepKeeps
<1>3. CASE Check
  <2>1. UNCHANGED << processes, docs, segments >> /\ merge_stage = 0
    BY <1>3 DEF Check, segVars, Unmerge
  <2>2. Sources = {}
    BY <2>1 DEF EngineInv, LayoutInv, SourcesLeave, Sources
  <2> QED
    BY <2>1, <2>2, GrowsFrame DEF StepKeeps, StaysInUse, Listed
<1>4. CASE BeginMigrate \/ CloneDeletion \/ EndSource \/ Release3 \/ Reset
  BY <1>2, <1>4 DEF BeginMigrate, CloneDeletion, EndSource, Release3, Reset,
                    segVars, Unmerge
<1>5. CASE PostReplace \/ WriteStage2 \/ PostRedelete \/ WriteStage5
  BY <1>2, <1>5 DEF PostReplace, WriteStage2, PostRedelete, WriteStage5, Post,
                    WriteStage, segVars, Unmerge
<1>6. CASE CopyDocument
  <2>1. UNCHANGED << processes, segments, mseg1, mseg2 >>
    BY <1>6 DEF CopyDocument, Unmerge
  <2>2. CASE UNCHANGED docs
    BY <1>2, <2>1, <2>2
  <2>3. CASE \E d \in pending : docs' = [docs EXCEPT ![newseg] = Append(@, d)]
    <3>1. PICK d \in pending : docs' = [docs EXCEPT ![newseg] = Append(@, d)]
      BY <2>3
    <3>2. newseg \in Seg
      BY <1>6 DEF EngineInv, Inv, StagePlace, CopyDocument
    <3>3. d \in Doc
      BY DEF EngineInv, Inv, TypeOK, MergerTypeOK
    <3> QED
      BY <1>1, <2>1, <3>1, <3>2, <3>3, AddGrows, KeptFrame DEF StepKeeps
  <2> QED
    BY <1>6, <2>2, <2>3 DEF CopyDocument, AddDocument
<1>7. CASE Release1
  <2>1. UNCHANGED << processes, docs, segments, mseg2 >>
    BY <1>7 DEF Release1, Unmerge
  <2>2. mseg1' = mseg1 \/ processes[mseg1] = 0
    BY <1>7 DEF Release1
  <2> QED
    BY <2>1, <2>2, GrowsFrame DEF StepKeeps, StaysInUse, Listed, Sources
<1>8. CASE Release2
  <2>1. UNCHANGED << processes, docs, segments, mseg1 >>
    BY <1>8 DEF Release2, Unmerge
  <2>2. mseg2' = mseg2 \/ processes[mseg2] = 0
    BY <1>8 DEF Release2
  <2> QED
    BY <2>1, <2>2, GrowsFrame DEF StepKeeps, StaysInUse, Listed, Sources
<1> QED
  BY <1>3, <1>4, <1>5, <1>6, <1>7, <1>8 DEF MergeStep, MergeThread

-----------------------------------------------------------------------------
(* The invariant of the lookups.                                           *)

LEMMA ReadersInside ==
  ASSUME NEW s
  PROVE  IsFiniteSet(InsideOf(s)) /\ Cardinality(InsideOf(s)) \in Nat
<1>1. IsFiniteSet(InsideOf(s))
  BY LookupAssumption, FS_Subset DEF InsideOf
<1> QED
  BY <1>1, FS_CardinalityType

\* A segment with a lookup inside of it has its counter above zero.
LEMMA CountedInside ==
  ASSUME CountsInside, NEW r \in Reader, Inside(r), rseg[r] \in Seg
  PROVE  processes[rseg[r]] # 0
<1>1. r \in InsideOf(rseg[r])
  BY DEF InsideOf
<1>2. Cardinality(InsideOf(rseg[r])) # 0
  BY <1>1, ReadersInside, FS_EmptySet
<1> QED
  BY <1>2 DEF CountsInside

LEMMA NextPointersType ==
  ASSUME ReaderTypeOK, segments' \in Seq(Seg)
  PROVE  NextPointers(segments') \in [Seg -> Seg \cup {NoSeg}]
<1>1. Len(segments') \in Nat /\ \A i \in 1..Len(segments') : segments'[i] \in Seg
  BY LenProperties, ElementOfSeq
<1> SUFFICES ASSUME NEW s \in Seg, NEW i \in 1..Len(segments'),
                    i < Len(segments')
             PROVE  segments'[i + 1] \in Seg
  BY DEF NextPointers, ReaderTypeOK
<1>2. i + 1 \in 1..Len(segments')
  BY <1>1
<1> QED
  BY <1>1, <1>2

\* A step of another thread leaves the lookups where they are.
LEMMA EngineKeepsLookups ==
  ASSUME EngineInv, LookupInv, StepKeeps, docs' \in [Seg -> Seq(Doc)],
         next' \in [Seg -> Seg \cup {NoSeg}],
         UNCHANGED << rpc, rseg, query, found, docsOut, listed >>
  PROVE  LookupInv'
<1>1. ReaderTypeOK'
  BY DEF LookupInv, ReaderTypeOK
<1>2. HasSegment'
  BY DEF LookupInv, HasSegment, Inside, HasBits
<1>3. CountsInside'
  BY DEF LookupInv, CountsInside, StepKeeps, InsideOf, Inside, HasBits
<1>4. EnteredKept'
  <2> SUFFICES ASSUME NEW r \in Reader, Inside(r)', listed'[r]
               PROVE  /\ rseg[r] \in Listed' \cup Sources'
                      /\ Range(found[r]) \subseteq Range(docs'[rseg[r]])
    BY DEF EnteredKept, DocsIn
  <2>1. Inside(r) /\ listed[r]
    BY DEF Inside, HasBits
  <2>2. rseg[r] \in Seg
    BY <2>1 DEF LookupInv, HasSegment, Inside, HasBits
  <2>3. processes[rseg[r]] # 0
    BY <2>1, <2>2, CountedInside DEF LookupInv
  <2>4. /\ rseg[r] \in Listed \cup Sources
        /\ Range(found[r]) \subseteq DocsIn(rseg[r])
    BY <2>1 DEF LookupInv, EnteredKept
  <2> QED
    BY <2>2, <2>3, <2>4 DEF StepKeeps, StaysInUse, Grows
<1> QED
  BY <1>1, <1>2, <1>3, <1>4 DEF LookupInv

\* A lookup that neither enters nor leaves a segment and finds nothing.
LEMMA OutsideKeepsLookups ==
  ASSUME LookupInv, NEW r \in Reader,
         UNCHANGED << vars, next, found, listed >>,
         ReaderTypeOK', HasSegment',
         \A u \in Reader : u # r => rpc'[u] = rpc[u] /\ rseg'[u] = rseg[u],
         (Inside(r)' <=> Inside(r)) /\ (Inside(r) => rseg'[r] = rseg[r])
  PROVE  LookupInv'
<1>1. UNCHANGED << processes, docs, segments, mseg1, mseg2 >>
  BY DEF vars, segVars, engineVars, mergerVars
<1>2. \A u \in Reader : /\ Inside(u)' <=> Inside(u)
                        /\ Inside(u) => rseg'[u] = rseg[u]
  BY DEF Inside, HasBits
<1>3. \A s : InsideOf(s)' = InsideOf(s)
  BY <1>2 DEF InsideOf
<1>4. CountsInside'
  BY <1>1, <1>3 DEF LookupInv, CountsInside
<1>5. EnteredKept'
  BY <1>1, <1>2 DEF LookupInv, EnteredKept, Listed, Sources, DocsIn
<1> QED
  BY <1>4, <1>5 DEF LookupInv

LEMMA BeginKeepsLookups ==
  ASSUME EngineInv, LookupInv, NEW r \in Reader, NEW q \in Query,
         RejectLookup(r, q) \/ BeginLookup(r, q)
  PROVE  EngineInv' /\ LookupInv'
<1>0. UNCHANGED << vars, next, found, docsOut, listed >>
  BY DEF RejectLookup, BeginLookup
<1>1. EngineInv'
  <2>1. /\ UNCHANGED << pkOf, docId, docs, deletion, deleted, state, nsegs,
                        freedSegs, freedDocs, removal, engineVars, mergerVars,
                      headPrev >>
        /\ processes' = processes
    BY <1>0 DEF vars, segVars
  <2> QED
    BY <2>1, CounterKeepsEngineInv DEF EngineInv, Inv, TypeOK, SegTypeOK
<1>2. CASE RejectLookup(r, q)
  <2>1. UNCHANGED << rpc, rseg, query >>
    BY <1>2 DEF RejectLookup
  <2>2. ReaderTypeOK' /\ HasSegment'
    BY <1>0, <2>1 DEF LookupInv, ReaderTypeOK, HasSegment, Inside, HasBits
  <2>3. Inside(r)' <=> Inside(r)
    BY <2>1 DEF Inside, HasBits
  <2> QED
    BY <1>0, <1>1, <2>1, <2>2, <2>3, OutsideKeepsLookups
<1>3. CASE BeginLookup(r, q)
  <2>1. /\ rpc[r] = "idle"
        /\ query' = [query EXCEPT ![r] = q]
        /\ rseg' = [rseg EXCEPT ![r] = Head(segments)]
        /\ rpc' = [rpc EXCEPT ![r] = "enter"]
    BY <1>3 DEF BeginLookup
  <2>2. Head(segments) \in Seg
    <3>1. segments \in Seq(Seg) /\ Lists(segment_active)
      BY DEF EngineInv, LayoutInv, ListStates, Inv, TypeOK, EngineTypeOK
    <3>2. segments # << >>
      BY <3>1 DEF Lists
    <3> QED
      BY <3>1, <3>2, HeadTailProperties
  <2>3. ReaderTypeOK'
    BY <1>0, <2>1, <2>2 DEF LookupInv, ReaderTypeOK
  <2>4. HasSegment'
    BY <1>0, <2>1, <2>2 DEF LookupInv, ReaderTypeOK, HasSegment, Inside, HasBits
  <2>5. \A u \in Reader : u # r => rpc'[u] = rpc[u] /\ rseg'[u] = rseg[u]
    BY <2>1
  <2>6. ~Inside(r) /\ ~Inside(r)'
    BY <2>1 DEF Inside, HasBits, LookupInv, ReaderTypeOK
  <2> QED
    BY <1>0, <1>1, <2>3, <2>4, <2>5, <2>6, OutsideKeepsLookups
<1> QED
  BY <1>2, <1>3

LEMMA StutterKeepsLookups ==
  ASSUME EngineInv, LookupInv,
         UNCHANGED << vars, next, rpc, rseg, query, found, docsOut, listed >>
  PROVE  EngineInv' /\ LookupInv'
<1>1. /\ UNCHANGED << pkOf, docId, docs, deletion, deleted, state, nsegs,
                      freedSegs, freedDocs, removal, engineVars, mergerVars,
                      headPrev >>
      /\ processes' = processes
      /\ UNCHANGED << segments, mseg1, mseg2 >>
  BY DEF vars, segVars, engineVars, mergerVars
<1>2. EngineInv'
  BY <1>1, CounterKeepsEngineInv DEF EngineInv, Inv, TypeOK, SegTypeOK
<1>3. StepKeeps
  BY <1>1, GrowsFrame, KeptFrame DEF StepKeeps
<1>4. docs' \in [Seg -> Seq(Doc)] /\ next' \in [Seg -> Seg \cup {NoSeg}]
  BY <1>1 DEF EngineInv, Inv, TypeOK, SegTypeOK, LookupInv, ReaderTypeOK
<1> QED
  BY <1>2, <1>3, <1>4, EngineKeepsLookups

LEMMA EnterKeepsLookups ==
  ASSUME EngineInv, LookupInv, NEW r \in Reader, Enter(r)
  PROVE  EngineInv' /\ LookupInv'
<1>1. CASE rseg[r] \in freedSegs
  BY <1>1, StutterKeepsLookups DEF Enter, UseAfterFree, readerVars
<1>2. CASE rseg[r] \notin freedSegs
  <2> DEFINE s == rseg[r]
  <2>1. /\ rpc[r] = "enter"
        /\ processes' = [processes EXCEPT ![s] = @ + 1]
        /\ listed' = [listed EXCEPT ![r] = s \in Listed]
        /\ rpc' = [rpc EXCEPT ![r] = "check"]
        /\ UNCHANGED << pkOf, docId, docs, deletion, deleted, state, nsegs,
                        freedSegs, freedDocs, removal, engineVars, mergerVars,
                      headPrev >>
        /\ UNCHANGED << next, rseg, query, found, docsOut >>
    BY <1>2 DEF Enter
  <2>2. s \in Seg /\ found[r] = << >>
    BY <2>1 DEF LookupInv, HasSegment, Inside, HasBits
  <2>3. processes \in [Seg -> Nat]
    BY DEF EngineInv, Inv, TypeOK, SegTypeOK
  <2>4. processes' \in [Seg -> Nat]
    BY <2>1, <2>2, <2>3
  <2>5. EngineInv'
    BY <2>1, <2>4, CounterKeepsEngineInv
  <2>6. ReaderTypeOK' /\ HasSegment'
    BY <2>1 DEF LookupInv, ReaderTypeOK, HasSegment, Inside, HasBits
  <2>7. /\ rpc'[r] = "check" /\ ~Inside(r) /\ Inside(r)'
        /\ \A u \in Reader : u # r => (Inside(u)' <=> Inside(u))
    BY <2>1 DEF Inside, HasBits, LookupInv, ReaderTypeOK
  <2>8. /\ InsideOf(s)' = InsideOf(s) \cup {r} /\ r \notin InsideOf(s)
        /\ \A u \in Seg : u # s => InsideOf(u)' = InsideOf(u)
    <3>1. r \notin InsideOf(s)
      BY <2>7 DEF InsideOf
    <3>2. {x \in Reader : Inside(x)' /\ rseg'[x] = s} = InsideOf(s) \cup {r}
      BY <2>1, <2>7 DEF InsideOf
    <3>3. \A u \in Seg : u # s =>
            {x \in Reader : Inside(x)' /\ rseg'[x] = u} = InsideOf(u)
      BY <2>1, <2>7 DEF InsideOf
    <3> QED
      BY <2>1, <3>1, <3>2, <3>3 DEF InsideOf
  <2>9. CountsInside'
    <3>1. Cardinality(InsideOf(s) \cup {r}) = Cardinality(InsideOf(s)) + 1
      BY <2>8, ReadersInside, FS_AddElement
    <3>2. \A u \in Seg : processes[u] = Cardinality(InsideOf(u))
      BY DEF LookupInv, CountsInside
    <3>3. /\ processes'[s] = processes[s] + 1
          /\ \A u \in Seg : u # s => processes'[u] = processes[u]
      BY <2>1, <2>2, <2>3
    <3>4. \A u \in Seg :
            processes'[u]
              = Cardinality(IF u = s THEN InsideOf(s) \cup {r} ELSE InsideOf(u))
      BY <2>2, <3>1, <3>2, <3>3
    <3>5. \A u \in Seg : InsideOf(u)'
              = IF u = s THEN InsideOf(s) \cup {r} ELSE InsideOf(u)
      BY <2>1, <2>8 DEF InsideOf
    <3> HIDE DEF s
    <3> QED
      BY <3>4, <3>5 DEF CountsInside
  <2>10. EnteredKept'
    <3> SUFFICES ASSUME NEW u \in Reader, Inside(u)', listed'[u]
                 PROVE  /\ rseg[u] \in Listed \cup Sources
                        /\ Range(found[u]) \subseteq DocsIn(rseg[u])
      BY <2>1 DEF EnteredKept, DocsIn, Listed, Sources, engineVars, mergerVars
    <3>1. CASE u = r
      <4>1. s \in Listed
        BY <2>1, <3>1 DEF LookupInv, ReaderTypeOK
      <4> QED
        BY <2>2, <3>1, <4>1, RangeEmpty
    <3>2. CASE u # r
      <4>1. Inside(u) /\ listed[u]
        BY <2>1, <2>7, <3>2
      <4> QED
        BY <4>1 DEF LookupInv, EnteredKept
    <3> QED
      BY <3>1, <3>2
  <2> QED
    BY <2>5, <2>6, <2>9, <2>10 DEF LookupInv
<1> QED
  BY <1>1, <1>2

LEMMA LeaveKeepsLookups ==
  ASSUME EngineInv, LookupInv, NEW r \in Reader, Leave(r)
  PROVE  EngineInv' /\ LookupInv'
<1> DEFINE s == rseg[r]
<1>1. /\ rpc[r] = "leave"
      /\ processes' = [processes EXCEPT ![s] = @ - 1]
      /\ listed' = [listed EXCEPT ![r] = FALSE]
      /\ \E p \in {"return", "advance"} : rpc' = [rpc EXCEPT ![r] = p]
      /\ docsOut' = [docsOut EXCEPT ![r] = @ \o found[r]]
      /\ found' = [found EXCEPT ![r] = << >>]
      /\ UNCHANGED << pkOf, docId, docs, deletion, deleted, state, nsegs,
                      freedSegs, freedDocs, removal, engineVars, mergerVars,
                      headPrev >>
      /\ UNCHANGED << next, rseg, query >>
  BY DEF Leave
<1>2. s \in Seg /\ Inside(r)
  BY <1>1 DEF LookupInv, HasSegment, Inside, HasBits
<1>3. processes \in [Seg -> Nat] /\ processes[s] # 0
  BY <1>2, CountedInside DEF EngineInv, Inv, TypeOK, SegTypeOK, LookupInv
<1>4. processes' \in [Seg -> Nat]
  BY <1>1, <1>2, <1>3
<1>5. EngineInv'
  BY <1>1, <1>4, CounterKeepsEngineInv
<1>6. ReaderTypeOK' /\ HasSegment'
  <2>1. docsOut[r] \o found[r] \in Seq(Doc)
    <3>1. docsOut[r] \in Seq(Doc) /\ found[r] \in Seq(Doc)
      BY DEF LookupInv, ReaderTypeOK
    <3> QED
      BY <3>1, ConcatProperties
  <2>2. docsOut' \in [Reader -> Seq(Doc)] /\ found' \in [Reader -> Seq(Doc)]
    BY <1>1, <2>1 DEF LookupInv, ReaderTypeOK
  <2>3. ReaderTypeOK'
    BY <1>1, <2>2 DEF LookupInv, ReaderTypeOK
  <2>4. HasSegment'
    BY <1>1, <1>2 DEF LookupInv, ReaderTypeOK, HasSegment, Inside, HasBits
  <2> QED
    BY <2>3, <2>4
<1>7. /\ ~Inside(r)'
      /\ \A u \in Reader : u # r => (Inside(u)' <=> Inside(u))
  BY <1>1 DEF Inside, HasBits, LookupInv, ReaderTypeOK
<1>8. CountsInside'
  <2>1. \A u \in Seg : {x \in Reader : Inside(x)' /\ rseg'[x] = u}
              = IF u = s THEN InsideOf(s) \ {r} ELSE InsideOf(u)
    BY <1>1, <1>7 DEF InsideOf
  <2>2. Cardinality(InsideOf(s) \ {r}) = Cardinality(InsideOf(s)) - 1
    <3>1. r \in InsideOf(s)
      BY <1>2 DEF InsideOf
    <3> QED
      BY <3>1, ReadersInside, FS_RemoveElement
  <2>3. \A u \in Seg : processes[u] = Cardinality(InsideOf(u))
    BY DEF LookupInv, CountsInside
  <2>4. /\ processes'[s] = processes[s] - 1
        /\ \A u \in Seg : u # s => processes'[u] = processes[u]
    BY <1>1, <1>2, <1>3
  <2>5. \A u \in Seg :
          processes'[u]
            = Cardinality(IF u = s THEN InsideOf(s) \ {r} ELSE InsideOf(u))
    BY <1>2, <2>2, <2>3, <2>4
  <2>6. \A u \in Seg :
          InsideOf(u)' = IF u = s THEN InsideOf(s) \ {r} ELSE InsideOf(u)
    BY <2>1 DEF InsideOf
  <2> HIDE DEF s
  <2> QED
    BY <2>5, <2>6 DEF CountsInside
<1>9. EnteredKept'
  <2> SUFFICES ASSUME NEW u \in Reader, Inside(u)', listed'[u]
               PROVE  /\ rseg[u] \in Listed \cup Sources
                      /\ Range(found'[u]) \subseteq DocsIn(rseg[u])
    BY <1>1 DEF EnteredKept, DocsIn, Listed, Sources, engineVars, mergerVars
  <2>1. u # r
    BY <1>7
  <2>2. Inside(u) /\ listed[u] /\ found'[u] = found[u]
    BY <1>1, <1>7, <2>1
  <2> QED
    BY <2>2 DEF LookupInv, EnteredKept
<1> QED
  BY <1>5, <1>6, <1>8, <1>9 DEF LookupInv

LEMMA WalkKeepsLookups ==
  ASSUME EngineInv, LookupInv, NEW r \in Reader, Walk(r)
  PROVE  EngineInv' /\ LookupInv'
<1>1. PICK lists \in {PostingLists(rseg[r], query[r].terms)} :
        found' = [found EXCEPT ![r] = Result(r, lists).found]
  BY DEF Walk
<1>2. /\ rpc[r] = "walk"
      /\ rpc' = [rpc EXCEPT ![r] = "leave"]
      /\ UNCHANGED << vars, next, rseg, query, docsOut, listed >>
  BY DEF Walk
<1>3. /\ docs \in [Seg -> Seq(Doc)] /\ docId \in [Doc -> Nat]
      /\ processes \in [Seg -> Nat]
  BY DEF EngineInv, Inv, TypeOK, SegTypeOK
<1>4. rseg[r] \in Seg
  BY <1>2 DEF LookupInv, HasSegment, Inside, HasBits
<1>5. Result(r, lists).found \in Seq(DocsIn(rseg[r]))
  BY <1>3, <1>4, WalkFinds DEF LookupInv
<1>6. Result(r, lists).found \in Seq(Doc)
      /\ Range(Result(r, lists).found) \subseteq DocsIn(rseg[r])
  <2>1. DocsIn(rseg[r]) \subseteq Doc
    BY <1>3, <1>4, RangeElements DEF DocsIn
  <2> QED
    BY <1>5, <2>1, RangeElements, SeqMonotonic
<1>7. /\ UNCHANGED << pkOf, docId, docs, deletion, deleted, state, nsegs,
                      freedSegs, freedDocs, removal, engineVars, mergerVars,
                      headPrev >>
      /\ processes' = processes
      /\ UNCHANGED << segments, mseg1, mseg2 >>
  BY <1>2 DEF vars, segVars, engineVars, mergerVars
<1>8. EngineInv'
  BY <1>3, <1>7, CounterKeepsEngineInv
<1>9. ReaderTypeOK'
  BY <1>1, <1>2, <1>6 DEF LookupInv, ReaderTypeOK
<1>10. HasSegment'
  BY <1>1, <1>2, <1>4 DEF LookupInv, ReaderTypeOK, HasSegment, Inside, HasBits
<1>11. \A u \in Reader : Inside(u)' <=> Inside(u)
  BY <1>2 DEF Inside, HasBits, LookupInv, ReaderTypeOK
<1>12. CountsInside'
  BY <1>2, <1>7, <1>11 DEF LookupInv, CountsInside, InsideOf
<1>13. EnteredKept'
  <2> SUFFICES ASSUME NEW u \in Reader, Inside(u), listed[u]
               PROVE  /\ rseg[u] \in Listed \cup Sources
                      /\ Range(found'[u]) \subseteq DocsIn(rseg[u])
    BY <1>2, <1>7, <1>11 DEF EnteredKept, DocsIn, Listed, Sources
  <2>1. /\ rseg[u] \in Listed \cup Sources
        /\ Range(found[u]) \subseteq DocsIn(rseg[u])
    BY DEF LookupInv, EnteredKept
  <2>2. CASE u = r
    <3>1. found'[r] = Result(r, lists).found
      BY <1>1 DEF LookupInv, ReaderTypeOK
    <3> QED
      BY <1>6, <2>1, <2>2, <3>1
  <2>3. CASE u # r
    <3>1. found'[u] = found[u]
      BY <1>1, <2>3 DEF LookupInv, ReaderTypeOK
    <3> QED
      BY <2>1, <3>1
  <2> QED
    BY <2>2, <2>3
<1> QED
  BY <1>8, <1>9, <1>10, <1>12, <1>13 DEF LookupInv

\* The steps inside of a segment that find nothing.
InsideStep(r) == \/ CheckSize(r) \/ CheckDeleted(r) \/ CloneBits(r)
                 \/ CountDocs(r) \/ Subtract(r) \/ FindMisses(r)

LEMMA MoveKeepsLookups ==
  ASSUME EngineInv, LookupInv, NEW r \in Reader,
         InsideStep(r) \/ FindFreed(r) \/ Advance(r) \/ EndLookup(r)
  PROVE  EngineInv' /\ LookupInv'
<1>1. CASE FindFreed(r) \/ (Advance(r) /\ rseg[r] \in freedSegs)
  BY <1>1, StutterKeepsLookups DEF FindFreed, Advance, UseAfterFree, readerVars
<1>2. EngineInv' /\ UNCHANGED << vars, next, found, listed >>
  <2>1. UNCHANGED << vars, next, found, listed >>
    BY DEF InsideStep, CheckSize, CheckDeleted, CloneBits, CountDocs, Subtract,
           FindMisses, FindFreed, Advance, UseAfterFree, readerVars, EndLookup
  <2>2. /\ UNCHANGED << pkOf, docId, docs, deletion, deleted, state, nsegs,
                        freedSegs, freedDocs, removal, engineVars, mergerVars,
                      headPrev >>
        /\ processes' = processes
    BY <2>1 DEF vars, segVars
  <2> QED
    BY <2>1, <2>2, CounterKeepsEngineInv DEF EngineInv, Inv, TypeOK, SegTypeOK
<1>3. CASE InsideStep(r)
  <2>1. /\ rpc[r] \in {"check", "compare", "clone", "count", "subtract", "walk"}
        /\ \E p \in {"compare", "clone", "count", "subtract", "walk", "leave"} :
             rpc' = [rpc EXCEPT ![r] = p]
        /\ UNCHANGED << rseg, query, docsOut >>
    BY <1>3 DEF InsideStep, CheckSize, CheckDeleted, CloneBits, CountDocs,
                Subtract, FindMisses, Skip
  <2>2. ReaderTypeOK' /\ HasSegment'
    <3>1. found[r] = << >> /\ rseg[r] \in Seg
      BY <2>1 DEF LookupInv, HasSegment, Inside, HasBits
    <3> QED
      BY <1>2, <2>1, <3>1 DEF LookupInv, ReaderTypeOK, HasSegment, Inside, HasBits
  <2>3. \A u \in Reader : u # r => rpc'[u] = rpc[u] /\ rseg'[u] = rseg[u]
    BY <2>1
  <2>4. Inside(r) /\ Inside(r)'
    BY <2>1 DEF Inside, HasBits, LookupInv, ReaderTypeOK
  <2> QED
    BY <1>2, <2>1, <2>2, <2>3, <2>4, OutsideKeepsLookups
<1>4. CASE Advance(r) /\ rseg[r] \notin freedSegs
  <2>1. /\ rpc[r] = "advance"
        /\ rseg' = [rseg EXCEPT ![r] = next[rseg[r]]]
        /\ rpc' = [rpc EXCEPT ![r] = IF next[rseg[r]] = NoSeg
                                     THEN "return" ELSE "enter"]
        /\ UNCHANGED << query, docsOut >>
    BY <1>4 DEF Advance
  <2>2. rseg[r] \in Seg /\ next[rseg[r]] \in Seg \cup {NoSeg}
    BY <2>1 DEF LookupInv, HasSegment, ReaderTypeOK, Inside, HasBits
  <2>3. ReaderTypeOK'
    BY <1>2, <2>1, <2>2 DEF LookupInv, ReaderTypeOK
  <2>4. HasSegment'
    BY <1>2, <2>1, <2>2 DEF LookupInv, HasSegment, ReaderTypeOK, Inside, HasBits
  <2>5. \A u \in Reader : u # r => rpc'[u] = rpc[u] /\ rseg'[u] = rseg[u]
    BY <2>1
  <2>6. ~Inside(r) /\ ~Inside(r)'
    BY <2>1 DEF Inside, HasBits, LookupInv, ReaderTypeOK
  <2> QED
    BY <1>2, <2>1, <2>3, <2>4, <2>5, <2>6, OutsideKeepsLookups
<1>5. CASE EndLookup(r)
  <2>1. /\ rpc[r] = "return"
        /\ rpc' = [rpc EXCEPT ![r] = "idle"]
        /\ rseg' = [rseg EXCEPT ![r] = NoSeg]
        /\ query' = [query EXCEPT ![r] = NoQuery]
        /\ docsOut' = [docsOut EXCEPT ![r] = << >>]
    BY <1>5 DEF EndLookup
  <2>2. ReaderTypeOK' /\ HasSegment'
    BY <1>2, <2>1 DEF LookupInv, HasSegment, ReaderTypeOK, Inside, HasBits
  <2>3. ~Inside(r) /\ ~Inside(r)'
    BY <2>1 DEF Inside, HasBits, LookupInv, ReaderTypeOK
  <2>4. \A u \in Reader : u # r => rpc'[u] = rpc[u] /\ rseg'[u] = rseg[u]
    BY <2>1
  <2> QED
    BY <1>2, <2>1, <2>2, <2>3, <2>4, OutsideKeepsLookups
<1> QED
  BY <1>1, <1>3, <1>4, <1>5

LEMMA LookupNextKeepsInv ==
  ASSUME EngineInv, LookupInv, [LookupNext]_allVars
  PROVE  EngineInv' /\ LookupInv'
<1>1. CASE UNCHANGED allVars
  BY <1>1, StutterKeepsLookups DEF allVars, lookupVars, readerVars
<1>2. ASSUME Next PROVE EngineInv' /\ docs' \in [Seg -> Seq(Doc)]
  <2>1. EngineInv'
    BY <1>2, NextKeepsInv, NextKeepsDocs, NextKeepsRemoval DEF EngineInv
  <2> QED
    BY <2>1 DEF EngineInv, Inv, TypeOK, SegTypeOK
<1>3. CASE ClientStepL
  <2>1. Next /\ StepKeeps
    BY <1>3, ClientKeepsSegments DEF ClientStepL, Next
  <2>2. UNCHANGED << next, rpc, rseg, query, found, docsOut, listed >>
    BY <1>3 DEF ClientStepL, lookupVars, readerVars
  <2>3. next' \in [Seg -> Seg \cup {NoSeg}]
    BY <2>2 DEF LookupInv, ReaderTypeOK
  <2> QED
    BY <1>2, <2>1, <2>2, <2>3, EngineKeepsLookups
<1>4. CASE InputStepL
  <2>1. Next /\ StepKeeps
    BY <1>4, InputKeepsSegments DEF InputStepL, Next
  <2>2. UNCHANGED << rpc, rseg, query, found, docsOut, listed >>
    BY <1>4 DEF InputStepL, Unlooked
  <2>3. next' \in [Seg -> Seg \cup {NoSeg}]
    <3>1. segments' \in Seq(Seg)
      BY <1>2, <2>1 DEF EngineInv, Inv, TypeOK, EngineTypeOK
    <3> QED
      BY <1>4, <3>1, NextPointersType DEF InputStepL, LookupInv
  <2> QED
    BY <1>2, <2>1, <2>2, <2>3, EngineKeepsLookups
<1>5. CASE MergeStepL
  <2>1. Next /\ StepKeeps
    BY <1>5, MergeKeepsSegments DEF MergeStepL, Next
  <2>2. UNCHANGED << next, rpc, rseg, query, found, docsOut, listed >>
    BY <1>5 DEF MergeStepL, Unlooked
  <2>3. next' \in [Seg -> Seg \cup {NoSeg}]
    BY <2>2 DEF LookupInv, ReaderTypeOK
  <2> QED
    BY <1>2, <2>1, <2>2, <2>3, EngineKeepsLookups
<1>6. CASE ReleaseNull
  BY <1>6, StutterKeepsLookups DEF ReleaseNull, readerVars
<1>7. CASE \E r \in Reader : \/ \E q \in Query : RejectLookup(r, q)
                                                \/ BeginLookup(r, q)
                             \/ LookupStep(r)
  BY <1>7, BeginKeepsLookups, EnterKeepsLookups, WalkKeepsLookups,
     LeaveKeepsLookups, MoveKeepsLookups DEF LookupStep, InsideStep
<1> QED
  BY <1>1, <1>3, <1>4, <1>5, <1>6, <1>7
     DEF LookupNext, EngineStep, MergeThreadL

LEMMA InitEstablishesLookups ==
  ASSUME Init, LookupInit
  PROVE  EngineInv /\ LookupInv
<1>1. EngineInv
  <2>1. RemovalAtCursor
    BY DEF Init, SegInit, RemovalAtCursor, Removing, NoRemoval
  <2> QED
    BY <2>1, InitEstablishesInv, InitEstablishesDocs DEF EngineInv
<1>2. ReaderTypeOK /\ HasSegment
  BY DEF LookupInit, ReaderTypeOK, HasSegment, Inside, HasBits, NoQuery
<1>3. \A s : InsideOf(s) = {}
  BY DEF LookupInit, InsideOf, Inside, HasBits
<1>4. CountsInside
  BY <1>3, FS_EmptySet DEF CountsInside, Init, SegInit
<1>5. EnteredKept
  BY DEF LookupInit, EnteredKept
<1> QED
  BY <1>1, <1>2, <1>4, <1>5 DEF LookupInv

-----------------------------------------------------------------------------
(* The theorems.                                                           *)

\* The counters are the lookups inside of the segments, and everything known
\* of the engine holds with lookups running in it, until a task is run for a
\* second time (queue.c:49) or a lookup reads what has been freed.
THEOREM LookupInvHolds == LookupSpec => [](EngineInv /\ LookupInv)
<1>1. Init /\ LookupInit => EngineInv /\ LookupInv
  BY InitEstablishesLookups
<1>2. (EngineInv /\ LookupInv) /\ [LookupNext]_allVars
        => (EngineInv /\ LookupInv)'
  BY LookupNextKeepsInv
<1> QED
  BY <1>1, <1>2, PTL DEF LookupSpec

\* The merge thread frees no segment, and no document, under a lookup that is
\* inside of a segment it found in the list: engine.c:173 and merger.c:225
\* work on the same counter.
THEOREM LookupsSafe == LookupSpec => []CountedLookupsSafe
<1>1. ASSUME EngineInv, LookupInv PROVE CountedLookupsSafe
  <2> SUFFICES ASSUME NEW r \in Reader, Inside(r), listed[r]
               PROVE  /\ rseg[r] \notin freedSegs
                      /\ Range(found[r]) \cap freedDocs = {}
    BY DEF CountedLookupsSafe
  <2>1. /\ rseg[r] \in Listed \cup Sources
        /\ Range(found[r]) \subseteq DocsIn(rseg[r])
    BY <1>1 DEF LookupInv, EnteredKept
  <2>2. \A s \in freedSegs : s \notin Listed /\ s \notin Sources
    <3>1. segments \in Seq(Seg)
      BY <1>1 DEF EngineInv, Inv, TypeOK, EngineTypeOK
    <3> QED
      BY <1>1, <3>1, ListedLists DEF EngineInv, LayoutInv, NewSegmentRole
  <2>3. freedDocs \cap DocsIn(rseg[r]) = {}
    BY <1>1, <2>1 DEF EngineInv, DocumentInv, DoomedNowhere, InUse
  <2> QED
    BY <2>1, <2>2, <2>3
<1> QED
  BY <1>1, LookupInvHolds, PTL

=============================================================================
