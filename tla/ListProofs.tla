----------------------------- MODULE ListProofs ------------------------------
(***************************************************************************)
(* Theorems about the linked structures of the engine, for any number of   *)
(* elements: the timers of the event loop, walked while their callbacks    *)
(* add to the list and delete from it (ae.c), the hash table, whose items  *)
(* are on two lists while lookups follow both (uthash.h), and the doubly   *)
(* linked list the segments are on (utlist.h).                             *)
(***************************************************************************)
EXTENDS HashTable, TimeEvents, DList, FiniteSetTheorems, SequenceTheorems,
        WellFoundedInduction, TLAPS

-----------------------------------------------------------------------------
(* Sequences as lists of distinct elements.                                *)

After(s, j) == IF j = Len(s) THEN NIL ELSE s[j + 1]
Before(s, j) == IF j = 1 THEN NIL ELSE s[j - 1]

FirstOf(s) == IF s = << >> THEN NIL ELSE s[1]

Distinct(s) == \A j, k \in 1..Len(s) : s[j] = s[k] => j = k

Items(s) == {s[j] : j \in 1..Len(s)}

\* w is s without its k-th element.
TakenOut(s, k, w) ==
  /\ Len(w) = Len(s) - 1
  /\ \A j \in 1..(Len(s) - 1) : w[j] = IF j < k THEN s[j] ELSE s[j + 1]

LEMMA RemoveAtShape ==
  ASSUME NEW S, NEW s \in Seq(S), NEW i \in 1..Len(s)
  PROVE  /\ RemoveAt(s, i) \in Seq(S) /\ Len(RemoveAt(s, i)) = Len(s) - 1
         /\ \A j \in 1..(Len(s) - 1) :
              RemoveAt(s, i)[j] = IF j < i THEN s[j] ELSE s[j + 1]
<1> DEFINE n == Len(s)
           a == SubSeq(s, 1, i - 1)
           b == SubSeq(s, i + 1, n)
<1>1. n \in Nat /\ i \in 1..n /\ \A j \in 1..n : s[j] \in S
  OBVIOUS
<1>2. RemoveAt(s, i) = a \o b
  BY DEF RemoveAt
<1> HIDE DEF n
<1>3. a \in Seq(S) /\ Len(a) = i - 1 /\ \A j \in 1..(i - 1) : a[j] = s[j]
  <2>1. /\ 1 \in Int /\ i - 1 \in Int /\ \A j \in 1..(i - 1) : s[j] \in S
    BY <1>1
  <2>2. /\ a \in Seq(S)
        /\ Len(a) = IF 1 <= i - 1 THEN (i - 1) - 1 + 1 ELSE 0
        /\ \A j \in 1..((i - 1) - 1 + 1) : a[j] = s[1 + j - 1]
    BY <2>1, SubSeqProperties
  <2>3. (i - 1) - 1 + 1 = i - 1 /\ (~(1 <= i - 1) => i - 1 = 0)
        /\ \A j \in Int : 1 + j - 1 = j
    BY <1>1
  <2> QED
    BY <2>2, <2>3
<1>4. b \in Seq(S) /\ Len(b) = n - i /\ \A j \in 1..(n - i) : b[j] = s[i + j]
  <2>1. /\ i + 1 \in Int /\ n \in Int /\ \A j \in (i + 1)..n : s[j] \in S
    BY <1>1
  <2>2. /\ b \in Seq(S)
        /\ Len(b) = IF i + 1 <= n THEN n - (i + 1) + 1 ELSE 0
        /\ \A j \in 1..(n - (i + 1) + 1) : b[j] = s[(i + 1) + j - 1]
    BY <2>1, SubSeqProperties
  <2>3. n - (i + 1) + 1 = n - i /\ (~(i + 1 <= n) => n - i = 0)
        /\ \A j \in Int : (i + 1) + j - 1 = i + j
    BY <1>1
  <2> QED
    BY <2>2, <2>3
<1> HIDE DEF a, b
<1>5. /\ a \o b \in Seq(S) /\ Len(a \o b) = Len(a) + Len(b)
      /\ \A j \in 1..(Len(a) + Len(b)) :
           (a \o b)[j] = IF j <= Len(a) THEN a[j] ELSE b[j - Len(a)]
  BY <1>3, <1>4, ConcatProperties
<1>6. Len(a) + Len(b) = n - 1
  BY <1>1, <1>3, <1>4
<1>7. ASSUME NEW j \in 1..(n - 1)
      PROVE  (a \o b)[j] = IF j < i THEN s[j] ELSE s[j + 1]
  <2>1. (a \o b)[j] = IF j <= i - 1 THEN a[j] ELSE b[j - (i - 1)]
    BY <1>3, <1>5, <1>6
  <2>2. CASE j < i
    <3>1. j <= i - 1 /\ j \in 1..(i - 1)
      BY <1>1, <2>2
    <3> QED
      BY <1>3, <2>1, <2>2, <3>1
  <2>3. CASE ~(j < i)
    <3>1. ~(j <= i - 1) /\ j - (i - 1) \in 1..(n - i) /\ i + (j - (i - 1)) = j + 1
      BY <1>1, <2>3
    <3> QED
      BY <1>4, <2>1, <2>3, <3>1
  <2> QED
    BY <2>2, <2>3
<1> QED
  BY <1>2, <1>5, <1>6, <1>7 DEF n

LEMMA Removed ==
  ASSUME NEW S, NEW s \in Seq(S), Distinct(s), NEW i \in 1..Len(s)
  PROVE  /\ RemoveAt(s, i) \in Seq(S) /\ Distinct(RemoveAt(s, i))
         /\ Items(RemoveAt(s, i)) = Items(s) \ {s[i]}
<1> DEFINE n == Len(s)
           r == RemoveAt(s, i)
<1>1. n \in Nat /\ i \in 1..n /\ \A j, k \in 1..n : s[j] = s[k] => j = k
  BY DEF Distinct
<1>2. /\ r \in Seq(S) /\ Len(r) = n - 1
      /\ \A j \in 1..(n - 1) : r[j] = IF j < i THEN s[j] ELSE s[j + 1]
  BY RemoveAtShape
<1> HIDE DEF r, n
<1>3. \A j \in 1..(n - 1) :
        LET k == IF j < i THEN j ELSE j + 1
        IN  k \in 1..n /\ k # i /\ r[j] = s[k]
  BY <1>1, <1>2
<1>4. \A k \in 1..n : k # i => \E j \in 1..(n - 1) : r[j] = s[k]
  <2>1. SUFFICES ASSUME NEW k \in 1..n, k # i
                 PROVE  \E j \in 1..(n - 1) : r[j] = s[k]
    OBVIOUS
  <2>2. CASE k < i
    <3>1. k \in 1..(n - 1)
      BY <1>1, <2>2
    <3> QED
      BY <1>2, <2>2, <3>1
  <2>3. CASE ~(k < i)
    <3>1. k - 1 \in 1..(n - 1) /\ ~(k - 1 < i) /\ (k - 1) + 1 = k
      BY <1>1, <2>1, <2>3
    <3>2. r[k - 1] = s[k]
      BY <1>2, <3>1
    <3> QED
      BY <3>1, <3>2
  <2> QED
    BY <2>2, <2>3
<1>5. Distinct(r)
  <2>1. SUFFICES ASSUME NEW j \in 1..(n - 1), NEW k \in 1..(n - 1), r[j] = r[k]
                 PROVE  j = k
    BY <1>2 DEF Distinct
  <2>2. (IF j < i THEN j ELSE j + 1) = (IF k < i THEN k ELSE k + 1)
    BY <1>1, <1>3, <2>1
  <2> QED
    BY <1>1, <2>2
<1>6. Items(r) = Items(s) \ {s[i]}
  <2>1. Items(r) = {r[j] : j \in 1..(n - 1)} /\ Items(s) = {s[j] : j \in 1..n}
    BY <1>2 DEF Items, n
  <2>2. ASSUME NEW j \in 1..(n - 1) PROVE r[j] \in Items(s) /\ r[j] # s[i]
    <3>1. PICK k \in 1..n : k # i /\ r[j] = s[k]
      BY <1>3
    <3> QED
      BY <1>1, <2>1, <3>1
  <2>3. ASSUME NEW k \in 1..n, s[k] # s[i] PROVE s[k] \in Items(r)
    BY <1>4, <2>1, <2>3
  <2> QED
    BY <2>1, <2>2, <2>3
<1> QED
  BY <1>2, <1>5, <1>6 DEF r

LEMMA Appended ==
  ASSUME NEW S, NEW s \in Seq(S), Distinct(s), NEW e \in S, e \notin Items(s)
  PROVE  /\ Append(s, e) \in Seq(S) /\ Distinct(Append(s, e))
         /\ Items(Append(s, e)) = Items(s) \cup {e}
<1> DEFINE n == Len(s)
           r == Append(s, e)
<1>1. /\ n \in Nat /\ r \in Seq(S) /\ Len(r) = n + 1 /\ r[n + 1] = e
      /\ \A j \in 1..n : r[j] = s[j]
  OBVIOUS
<1> HIDE DEF r
<1>2. \A j \in 1..n : s[j] # e
  BY DEF Items
<1>3. \A j \in 1..(n + 1) : j \in 1..n \/ j = n + 1
  BY <1>1
<1>4. \A j \in 1..n : j \in 1..(n + 1)
  BY <1>1
<1>5. n + 1 \in 1..(n + 1)
  BY <1>1
<1>6. Distinct(r)
  BY <1>1, <1>2, <1>3 DEF Distinct
<1>7. Items(r) = Items(s) \cup {e}
  BY <1>1, <1>3, <1>4, <1>5 DEF Items
<1> QED
  BY <1>1, <1>6, <1>7 DEF r

LEMMA NothingIn == Items(<< >>) = {} /\ Distinct(<< >>)
  BY DEF Items, Distinct

LEMMA ItemsTyped ==
  ASSUME NEW S, NEW s \in Seq(S)
  PROVE  /\ Items(s) \in SUBSET S
         /\ \A i \in DOMAIN s : i \in 1..Len(s) /\ s[i] \in Items(s)
         /\ \A i \in 1..Len(s) : i \in DOMAIN s /\ s[i] \in Items(s)
  BY DEF Items

LEMMA Smallest ==
  ASSUME NEW S \in SUBSET Nat, S # {}
  PROVE  \E m \in S : \A n \in S : m <= n
<1>1. IsWellFoundedOn(OpToRel(<, Nat), Nat)
  BY NatLessThanWellFounded
<1>2. PICK m \in S : \A n \in S : << n, m >> \notin OpToRel(<, Nat)
  BY <1>1, WFMin
<1>3. ASSUME NEW n \in S PROVE m <= n
  <2>1. n \in Nat /\ m \in Nat
    OBVIOUS
  <2>2. ~(n < m)
    BY <1>2, <2>1 DEF OpToRel
  <2> QED
    BY <2>1, <2>2
<1> QED
  BY <1>3

LEMMA Induction ==
  ASSUME NEW P \in SUBSET Nat, 0 \in P,
         \A n \in Nat : n \in P => n + 1 \in P
  PROVE  P = Nat
<1>1. SUFFICES ASSUME Nat \ P # {} PROVE FALSE
  OBVIOUS
<1>2. PICK m \in Nat \ P : \A n \in Nat \ P : m <= n
  <2>1. Nat \ P \in SUBSET Nat
    OBVIOUS
  <2> QED
    BY <1>1, <2>1, Smallest
<1>3. m # 0 /\ m - 1 \in Nat
  BY <1>2
<1>4. m - 1 \in P
  BY <1>2, <1>3
<1>5. (m - 1) + 1 \in P
  BY <1>3, <1>4
<1> QED
  BY <1>2, <1>3, <1>5

\* A recursion over 0..K has a solution.
IsIterate(K, v, G, f) ==
  f = [n \in 0..K |-> IF n = 0 THEN v ELSE G[n][f[n - 1]]]

LEMMA Iterates ==
  ASSUME NEW K \in Nat, NEW V, NEW v \in V, NEW G \in [0..K -> [V -> V]]
  PROVE  \E f \in [0..K -> V] : IsIterate(K, v, G, f)
<1> DEFINE At(f, n) == f[n] = IF n = 0 THEN v ELSE G[n][f[n - 1]]
           Upto(m) == \E f \in [0..K -> V] : \A n \in 0..K : n <= m => At(f, n)
           P == {m \in Nat : Upto(m)}
<1>1. 0 \in P
  <2> DEFINE f == [n \in 0..K |-> v]
  <2>1. f \in [0..K -> V] /\ \A n \in 0..K : n <= 0 => n = 0 /\ f[n] = v
    OBVIOUS
  <2> QED
    BY <2>1
<1>2. ASSUME NEW m \in Nat, m \in P PROVE m + 1 \in P
  <2>1. PICK f \in [0..K -> V] : \A n \in 0..K : n <= m => At(f, n)
    BY <1>2
  <2> DEFINE g == [n \in 0..K |-> IF n = m + 1 THEN G[n][f[n - 1]] ELSE f[n]]
  <2>2. \A n \in 0..K : n # 0 => n - 1 \in 0..K /\ f[n - 1] \in V
    <3>1. \A n \in 0..K : n # 0 => n - 1 \in 0..K
      OBVIOUS
    <3> QED
      BY <3>1
  <2>3. g \in [0..K -> V]
    <3>1. ASSUME NEW n \in 0..K
          PROVE  (IF n = m + 1 THEN G[n][f[n - 1]] ELSE f[n]) \in V
      <4>1. CASE n = m + 1
        <5>1. f[n - 1] \in V
          BY <2>2, <4>1
        <5> QED
          BY <4>1, <5>1
      <4> QED
        BY <4>1
    <3> QED
      BY <3>1
  <2>4. ASSUME NEW n \in 0..K, n <= m + 1 PROVE At(g, n)
    <3>1. n # 0 => n - 1 \in 0..K /\ n - 1 # m + 1
      BY <2>4
    <3>2. n # 0 => g[n - 1] = f[n - 1]
      BY <3>1
    <3>3. CASE n = m + 1
      <4>1. n # 0 /\ g[n] = G[n][f[n - 1]]
        BY <3>3
      <4> HIDE DEF g
      <4> QED
        BY <3>2, <4>1
    <3>4. CASE n # m + 1
      <4>1. n <= m /\ g[n] = f[n]
        BY <2>4, <3>4
      <4>2. At(f, n)
        BY <2>1, <4>1
      <4> HIDE DEF g
      <4> QED
        BY <3>2, <4>1, <4>2
    <3> QED
      BY <3>3, <3>4
  <2>5. Upto(m + 1)
    <3> HIDE DEF g, At
    <3> QED
      BY <2>3, <2>4
  <2> HIDE DEF Upto
  <2> QED
    BY <2>5
<1>3. K \in P
  <2> HIDE DEF P
  <2>1. P \in SUBSET Nat
    BY DEF P
  <2> QED
    BY <1>1, <1>2, <2>1, Induction
<1>4. PICK f \in [0..K -> V] : \A n \in 0..K : n <= K => At(f, n)
  BY <1>3
<1>5. \A n \in 0..K : At(f, n)
  BY <1>4
<1>6. f = [n \in 0..K |-> f[n]]
  OBVIOUS
<1>7. IsIterate(K, v, G, f)
  BY <1>5, <1>6 DEF IsIterate
<1> QED
  BY <1>7


-----------------------------------------------------------------------------
(* What is met along a link.                                               *)

IsWalk(f, K, E, link) ==
  f = [n \in 0..K |->
         [j \in E \cup {NIL} |-> IF j = NIL \/ n = 0 THEN << >>
                                 ELSE << j >> \o f[n - 1][link[j]]]]

LEMMA WalkExists ==
  ASSUME NEW K \in Nat, NEW E, NEW link \in [E -> E \cup {NIL}]
  PROVE  \E f : IsWalk(f, K, E, link)
<1> DEFINE Ends == E \cup {NIL}
           V == [Ends -> Seq(E)]
           v == [j \in Ends |-> << >>]
           Step(w) == [j \in Ends |-> IF j = NIL THEN << >> ELSE << j >> \o w[link[j]]]
           G == [n \in 0..K |-> [w \in V |-> Step(w)]]
<1>1. v \in V
  OBVIOUS
<1>2. ASSUME NEW w \in V PROVE Step(w) \in V
  <2>1. ASSUME NEW j \in Ends
        PROVE  (IF j = NIL THEN << >> ELSE << j >> \o w[link[j]]) \in Seq(E)
    <3>1. CASE j # NIL
      <4>1. j \in E
        BY <3>1
      <4>2. << j >> \in Seq(E) /\ w[link[j]] \in Seq(E)
        BY <4>1
      <4> QED
        BY <3>1, <4>2, ConcatProperties
    <3> QED
      BY <3>1
  <2> QED
    BY <2>1
<1>3. G \in [0..K -> [V -> V]]
  <2> HIDE DEF V, Step
  <2> QED
    BY <1>2
<1>4. PICK f \in [0..K -> V] : IsIterate(K, v, G, f)
  <2> HIDE DEF V, v, G
  <2> QED
    BY <1>1, <1>3, Iterates
<1>5. ASSUME NEW n \in 0..K
      PROVE  f[n] = [j \in Ends |-> IF j = NIL \/ n = 0 THEN << >>
                                   ELSE << j >> \o f[n - 1][link[j]]]
  <2> HIDE DEF V
  <2>1. f[n] = IF n = 0 THEN v ELSE G[n][f[n - 1]]
    <3> HIDE DEF v, G
    <3> QED
      BY <1>4 DEF IsIterate
  <2>2. CASE n = 0
    BY <2>1, <2>2
  <2>3. CASE n # 0
    <3>1. n - 1 \in 0..K
      BY <2>3
    <3>2. f[n - 1] \in V
      BY <3>1
    <3>3. f[n] = Step(f[n - 1])
      BY <2>1, <2>3, <3>2
    <3> QED
      BY <2>3, <3>3
  <2> QED
    BY <2>2, <2>3
<1>6. f = [n \in 0..K |-> f[n]]
  OBVIOUS
<1>7. IsWalk(f, K, E, link)
  BY <1>5, <1>6 DEF IsWalk
<1> QED
  BY <1>7

\* A walk from the first of a list on meets the list.
LEMMA WalkIsList ==
  ASSUME NEW K \in Nat, NEW E, NIL \notin E, NEW link \in [E -> E \cup {NIL}],
         NEW f, IsWalk(f, K, E, link), NEW s \in Seq(E), Len(s) <= K,
         \A j \in 1..Len(s) : link[s[j]] = After(s, j)
  PROVE  f[K][FirstOf(s)] = s
<1> DEFINE L == Len(s)
           Ends == E \cup {NIL}
           at(j) == IF j = L + 1 THEN NIL ELSE s[j]
<1>1. L \in Nat /\ L <= K
      /\ \A j \in 1..L : s[j] \in E /\ s[j] # NIL /\ s[j] \in Ends
  OBVIOUS
<1>2. FirstOf(s) = at(1)
  <2>1. CASE s = << >>
    <3>1. L = 0 /\ 0 + 1 = 1
      BY <2>1
    <3> QED
      BY <2>1, <3>1 DEF FirstOf
  <2>2. CASE s # << >>
    <3>1. L # 0
      BY <2>2
    <3>2. 1 \in 1..L /\ 1 # L + 1
      BY <1>1, <3>1
    <3> HIDE DEF L
    <3> QED
      BY <1>1, <2>2, <3>2 DEF FirstOf
  <2> QED
    BY <2>1, <2>2
<1>3. ASSUME NEW n \in 0..K, NEW j \in Ends
      PROVE  f[n][j] = IF j = NIL \/ n = 0 THEN << >> ELSE << j >> \o f[n - 1][link[j]]
  <2>1. f[n] = [k \in Ends |-> IF k = NIL \/ n = 0 THEN << >>
                              ELSE << k >> \o f[n - 1][link[k]]]
    BY DEF IsWalk
  <2> QED
    BY <2>1
<1> DEFINE Found(n) == \A j \in 1..(L + 1) :
                          L + 1 - j <= n => f[n][at(j)] = SubSeq(s, j, L)
           P == {n \in Nat : n <= K => Found(n)}
<1>4. \A j \in 1..(L + 1) : /\ at(j) \in Ends
                            /\ j # L + 1 => j \in 1..L /\ at(j) = s[j] /\ at(j) # NIL
                                            /\ link[at(j)] = at(j + 1)
  <2> SUFFICES ASSUME NEW j \in 1..(L + 1)
               PROVE  /\ at(j) \in Ends
                      /\ j # L + 1 => j \in 1..L /\ at(j) = s[j] /\ at(j) # NIL
                                      /\ link[at(j)] = at(j + 1)
    OBVIOUS
  <2>1. CASE j = L + 1
    BY <2>1
  <2>2. CASE j # L + 1
    <3>1. j \in 1..L
      BY <1>1, <2>2
    <3>2. j + 1 = L + 1 <=> j = L
      BY <1>1
    <3>3. link[s[j]] = After(s, j)
      BY <3>1
    <3> QED
      BY <1>1, <2>2, <3>1, <3>2, <3>3 DEF After
  <2> QED
    BY <2>1, <2>2
<1>5. SubSeq(s, L + 1, L) = << >>
  BY <1>1, EmptySeq, SubSeqProperties
<1>6. \A j \in 1..L : << s[j] >> \o SubSeq(s, j + 1, L) = SubSeq(s, j, L)
  BY <1>1
<1> HIDE DEF at, L, Ends
<1>7. 0 \in P
  <2>1. ASSUME NEW j \in 1..(L + 1), L + 1 - j <= 0
        PROVE  f[0][at(j)] = SubSeq(s, j, L)
    <3>1. j = L + 1 /\ 0 \in 0..K
      BY <1>1, <2>1
    <3>2. f[0][at(j)] = << >>
      BY <1>3, <1>4, <3>1
    <3> QED
      BY <1>5, <3>1, <3>2
  <2> QED
    BY <2>1
<1>8. ASSUME NEW n \in Nat, n \in P PROVE n + 1 \in P
  <2>1. ASSUME n + 1 <= K, NEW j \in 1..(L + 1), L + 1 - j <= n + 1
        PROVE  f[n + 1][at(j)] = SubSeq(s, j, L)
    <3>1. n \in 0..K /\ n + 1 \in 0..K /\ n + 1 # 0 /\ (n + 1) - 1 = n
          /\ n <= K
      BY <1>1, <2>1
    <3>2. CASE j = L + 1
      <4>1. at(j) = NIL
        BY <3>2 DEF at
      <4> QED
        BY <1>3, <1>4, <1>5, <3>1, <3>2, <4>1
    <3>3. CASE j # L + 1
      <4>1. j \in 1..L /\ j + 1 \in 1..(L + 1) /\ L + 1 - (j + 1) <= n
        BY <1>1, <2>1, <3>3
      <4>2. f[n][at(j + 1)] = SubSeq(s, j + 1, L)
        BY <1>8, <3>1, <4>1
      <4>3. f[n + 1][at(j)] = << at(j) >> \o f[n][link[at(j)]]
        <5>1. PICK m \in 0..K : m = n + 1 /\ m # 0 /\ m - 1 = n
          BY <3>1
        <5>2. f[m][at(j)] = << at(j) >> \o f[m - 1][link[at(j)]]
          BY <1>3, <1>4, <3>3, <5>1
        <5> QED
          BY <5>1, <5>2
      <4> QED
        BY <1>4, <1>6, <3>3, <4>1, <4>2, <4>3
    <3> QED
      BY <3>2, <3>3
  <2> QED
    BY <2>1
<1>9. K \in P
  <2> HIDE DEF P
  <2>1. P \in SUBSET Nat
    BY DEF P
  <2> QED
    BY <1>7, <1>8, <2>1, Induction
<1>10. 1 \in 1..(L + 1) /\ L + 1 - 1 <= K
  BY <1>1
<1>11. f[K][at(1)] = SubSeq(s, 1, L)
  <2>1. K <= K /\ Found(K)
    BY <1>9
  <2> QED
    BY <1>10, <2>1
<1>12. SubSeq(s, 1, L) = s
  BY DEF L
<1> QED
  BY <1>2, <1>11, <1>12

\* A sequence of distinct elements is as long as there are elements.
LEMMA LengthIsSize ==
  ASSUME NEW E, NEW s \in Seq(E), Distinct(s)
  PROVE  IsFiniteSet(Items(s)) /\ Cardinality(Items(s)) = Len(s)
<1> DEFINE n == Len(s)
<1>1. n \in Nat /\ DOMAIN s = 1..n /\ Items(s) = {s[j] : j \in 1..n}
  BY DEF Items
<1>2. Cardinality(1..n) = n /\ IsFiniteSet(1..n)
  <2> HIDE DEF n
  <2>1. IsFiniteSet(1..n) /\ Cardinality(1..n) = IF 1 > n THEN 0 ELSE n - 1 + 1
    BY <1>1, FS_Interval
  <2> QED
    BY <1>1, <2>1
<1>3. \A j, k \in 1..n : s[j] = s[k] => j = k
  BY DEF Distinct
<1>4. s \in [1..n -> Items(s)]
  BY <1>1
<1> HIDE DEF n
<1>5. s \in Surjection(1..n, Items(s)) /\ s \in Injection(1..n, Items(s))
  BY <1>1, <1>3, <1>4 DEF Surjection, Injection, IsInjective
<1>6. IsFiniteSet(Items(s)) /\ Cardinality(Items(s)) <= Cardinality(1..n)
  BY <1>2, <1>5, FS_Surjection
<1>7. Cardinality(1..n) <= Cardinality(Items(s))
  BY <1>5, <1>6, FS_Injection
<1>8. Cardinality(Items(s)) \in Nat
  BY <1>6, FS_CardinalityType
<1>9. \A a, b \in Nat : a <= b /\ b <= a => a = b
  OBVIOUS
<1>10. Cardinality(Items(s)) = n
  BY <1>1, <1>2, <1>6, <1>7, <1>8, <1>9
<1> QED
  BY <1>6, <1>10 DEF n

-----------------------------------------------------------------------------
(* The timers of the event loop (ae.c).                                    *)

Timer == [at : Nat, id : Nat \cup {DELETED}, when : Nat]

\* The timers are in the order of their creation, the newest first; one that is
\* killed and only such a one has lost its id; all but the freed are in the list.
ListedInv ==
  /\ timers \in Seq(Timer)
  /\ nextId \in Nat
  /\ killed \subseteq 0..(nextId - 1) /\ finalized \subseteq killed
  /\ \A j, k \in 1..Len(timers) : j < k => timers[k].at < timers[j].at
  /\ \A k \in 1..Len(timers) :
       timers[k].id = IF timers[k].at \in killed THEN DELETED ELSE timers[k].at
  /\ {timers[k].at : k \in 1..Len(timers)} = (0..(nextId - 1)) \ finalized

\* The clock does not go back to the first second, so that forced timers are due;
\* a wait goes past no timer, be it deleted or not.
ClockInv ==
  /\ clock \in Nat /\ SECOND <= clock
  /\ timeout \in Nat \cup {FOREVER}
  /\ tpc = "wait" => \A k \in 1..Len(timers) :
       \/ timeout = 0
       \/ timeout # FOREVER /\ clock + timeout <= timers[k].when

\* A walk calls no timer twice and none created since it began.
CalledInv ==
  /\ tpc \in {"turn", "wait", "walk"}
  /\ maxId \in Int /\ maxId < nextId
  /\ called \in Seq(Nat) /\ IsInjective(called)
  /\ \A i \in 1..Len(called) : called[i] <= maxId
  /\ tpc # "walk" => called = << >> /\ expected = {}

\* What a walk was to call it has called, or it is killed, or still ahead and
\* due; what is ahead has not been called.
AheadInv ==
  tpc = "walk" =>
    /\ te \in 1..(Len(timers) + 1)
    /\ \A k \in te..Len(timers) :
         /\ timers[k].at \notin Items(called)
         /\ timers[k].at \in expected =>
              timers[k].at <= maxId /\ timers[k].when <= clock
    /\ \A a \in expected : a \in Items(called) \/ a \in killed
                            \/ \E k \in te..Len(timers) : timers[k].at = a

WalkInv == CalledInv /\ AheadInv

TimersInv == ListedInv /\ ClockInv /\ WalkInv

\* There is a nearest timer, and aeSearchNearestTimer finds it.
LEMMA NearestFound ==
  ASSUME timers \in Seq(Timer), timers # << >>
  PROVE  /\ Nearest \in 1..Len(timers)
         /\ \A j \in 1..Len(timers) : timers[Nearest].when <= timers[j].when
<1> DEFINE n == Len(timers)
           W == {timers[k].when : k \in 1..n}
<1>1. n \in Nat /\ n # 0 /\ DOMAIN timers = 1..n
      /\ \A k \in 1..n : timers[k].when \in Nat
  <2>1. n \in Nat /\ n # 0 /\ DOMAIN timers = 1..n
    OBVIOUS
  <2>2. ASSUME NEW k \in 1..n PROVE timers[k].when \in Nat
    <3>1. timers[k] \in Timer
      OBVIOUS
    <3> QED
      BY <3>1 DEF Timer
  <2> QED
    BY <2>1, <2>2
<1> HIDE DEF n
<1>2. 1 \in 1..n
  BY <1>1
<1>3. PICK w \in W : \A v \in W : w <= v
  <2>1. W \in SUBSET Nat /\ W # {}
    BY <1>1, <1>2
  <2> QED
    BY <2>1, Smallest
<1> DEFINE K == {k \in 1..n : timers[k].when = w}
<1>4. PICK k \in K : \A j \in K : k <= j
  <2>1. K \in SUBSET Nat /\ K # {}
    BY <1>1, <1>3
  <2> QED
    BY <2>1, Smallest
<1>5. \A j \in 1..n : timers[k].when <= timers[j].when
  BY <1>3, <1>4
<1>6. ASSUME NEW j \in 1..(k - 1) PROVE timers[k].when < timers[j].when
  <2>1. k \in 1..n /\ j \in 1..n /\ ~(k <= j)
    BY <1>1, <1>4
  <2>2. timers[j].when # w /\ timers[k].when = w
    BY <1>4, <2>1
  <2>3. timers[j].when \in Nat /\ timers[k].when \in Nat
        /\ timers[k].when <= timers[j].when
    BY <1>1, <1>5, <2>1
  <2> QED
    BY <2>2, <2>3
<1>7. \E q \in DOMAIN timers :
        /\ \A j \in DOMAIN timers : timers[q].when <= timers[j].when
        /\ \A j \in 1..q - 1 : timers[q].when < timers[j].when
  <2>1. k \in DOMAIN timers
    BY <1>1, <1>4
  <2> QED
    BY <1>1, <1>5, <1>6, <2>1
<1>8. /\ Nearest \in DOMAIN timers
      /\ \A j \in DOMAIN timers : timers[Nearest].when <= timers[j].when
  BY <1>7 DEF Nearest
<1> QED
  BY <1>1, <1>8 DEF n

LEMMA CreatedShape ==
  ASSUME NEW s \in Seq(Timer), NEW delay \in Delay, nextId \in Nat, clock \in Nat
  PROVE  /\ Created(s, delay) \in Seq(Timer)
         /\ Len(Created(s, delay)) = Len(s) + 1
         /\ Created(s, delay)[1].at = nextId /\ Created(s, delay)[1].id = nextId
         /\ Created(s, delay)[1].when = clock + delay
         /\ \A k \in 1..Len(s) : Created(s, delay)[k + 1] = s[k]
<1> DEFINE t == [at |-> nextId, id |-> nextId, when |-> Later(delay)]
<1>1. t \in Timer /\ t.at = nextId /\ t.id = nextId /\ t.when = clock + delay
  BY TimeAssumption DEF Timer, Later
<1> HIDE DEF t
<1>2. << t >> \in Seq(Timer) /\ Len(<< t >>) = 1 /\ << t >>[1] = t
  BY <1>1
<1>3. /\ << t >> \o s \in Seq(Timer) /\ Len(<< t >> \o s) = 1 + Len(s)
      /\ \A k \in 1..(1 + Len(s)) :
           (<< t >> \o s)[k] = IF k <= 1 THEN << t >>[k] ELSE s[k - 1]
  BY <1>2, ConcatProperties
<1>4. Len(s) \in Nat
  OBVIOUS
<1>5. (<< t >> \o s)[1] = t
  BY <1>2, <1>3, <1>4
<1>6. ASSUME NEW k \in 1..Len(s) PROVE (<< t >> \o s)[k + 1] = s[k]
  <2>1. k + 1 \in 1..(1 + Len(s)) /\ ~(k + 1 <= 1) /\ (k + 1) - 1 = k
    BY <1>4
  <2> QED
    BY <1>3, <2>1
<1> QED
  BY <1>1, <1>3, <1>4, <1>5, <1>6 DEF Created, t

LEMMA MarkedShape ==
  ASSUME NEW s \in Seq(Timer), NEW id
  PROVE  /\ Marked(s, id) \in Seq(Timer) /\ Len(Marked(s, id)) = Len(s)
         /\ \A k \in 1..Len(s) :
              /\ Marked(s, id)[k].at = s[k].at
              /\ Marked(s, id)[k].when = s[k].when
              /\ Marked(s, id)[k].id = IF s[k].id = id THEN DELETED ELSE s[k].id
<1> DEFINE n == Len(s)
           m == Marked(s, id)
<1>1. n \in Nat /\ DOMAIN s = 1..n /\ \A k \in 1..n : s[k] \in Timer
  OBVIOUS
<1> HIDE DEF n
<1>2. m = [k \in 1..n |-> IF s[k].id = id THEN [s[k] EXCEPT !.id = DELETED]
                          ELSE s[k]]
  BY <1>1 DEF Marked
<1>3. \A k \in 1..n : /\ m[k] \in Timer
                      /\ m[k].at = s[k].at /\ m[k].when = s[k].when
                      /\ m[k].id = IF s[k].id = id THEN DELETED ELSE s[k].id
  <2>1. ASSUME NEW k \in 1..n
        PROVE  /\ m[k] \in Timer
               /\ m[k].at = s[k].at /\ m[k].when = s[k].when
               /\ m[k].id = IF s[k].id = id THEN DELETED ELSE s[k].id
    <3>1. m[k] = IF s[k].id = id THEN [s[k] EXCEPT !.id = DELETED] ELSE s[k]
      BY <1>2
    <3>2. s[k] \in Timer
      BY <1>1
    <3> HIDE DEF m
    <3> QED
      BY <3>1, <3>2 DEF Timer
  <2> QED
    BY <2>1
<1>4. m \in Seq(Timer) /\ Len(m) = n
  <2>1. m = [k \in 1..n |-> m[k]]
    BY <1>2
  <2> HIDE DEF m
  <2> QED
    BY <1>1, <1>3, <2>1
<1> QED
  BY <1>3, <1>4 DEF n

LEMMA TimerChanged ==
  ASSUME NEW s \in Seq(Timer), NEW i \in 1..Len(s), NEW t \in Timer
  PROVE  /\ [s EXCEPT ![i] = t] \in Seq(Timer)
         /\ Len([s EXCEPT ![i] = t]) = Len(s)
         /\ \A k \in 1..Len(s) : [s EXCEPT ![i] = t][k] = IF k = i THEN t ELSE s[k]
  OBVIOUS

LEMMA TimersTyped ==
  ASSUME NEW s \in Seq(Timer)
  PROVE  /\ Len(s) \in Nat /\ DOMAIN s = 1..Len(s)
         /\ \A k \in 1..Len(s) : /\ s[k].at \in Nat /\ s[k].when \in Nat
                                 /\ s[k].id \in Nat \cup {DELETED}
<1>1. Len(s) \in Nat /\ DOMAIN s = 1..Len(s)
  OBVIOUS
<1>2. ASSUME NEW k \in 1..Len(s)
      PROVE  s[k].at \in Nat /\ s[k].when \in Nat /\ s[k].id \in Nat \cup {DELETED}
  <2>1. s[k] \in Timer
    OBVIOUS
  <2> QED
    BY <2>1 DEF Timer
<1> QED
  BY <1>1, <1>2

\* The list after one that has at most one timer more, at its head.
LEMMA ListedKept ==
  ASSUME ListedInv, NEW d \in {0, 1}, timers' \in Seq(Timer),
         Len(timers') = Len(timers) + d, nextId' = nextId + d,
         \A k \in 1..Len(timers) :
           /\ timers'[k + d].at = timers[k].at
           /\ timers'[k + d].id =
                IF timers[k].at \in killed' THEN DELETED ELSE timers[k].at,
         d = 1 => timers'[1].at = nextId /\ timers'[1].id = nextId,
         killed \subseteq killed', killed' \subseteq 0..(nextId - 1),
         finalized' = finalized
  PROVE  ListedInv'
<1> DEFINE n == Len(timers)
           A(k) == timers[k].at
           B(k) == timers'[k].at
           I(k) == timers'[k].id
<1>1. /\ n \in Nat /\ nextId \in Nat /\ Len(timers') = n + d
      /\ \A k \in 1..n : A(k) \in 0..(nextId - 1)
      /\ \A j, k \in 1..n : j < k => A(k) < A(j)
      /\ \A k \in 1..n : B(k + d) = A(k)
                         /\ I(k + d) = IF A(k) \in killed' THEN DELETED ELSE A(k)
      /\ d = 1 => B(1) = nextId /\ I(1) = nextId
      /\ {A(k) : k \in 1..n} = (0..(nextId - 1)) \ finalized
      /\ finalized \subseteq killed
  <2>1. \A k \in 1..n : A(k) \in {A(j) : j \in 1..n}
    OBVIOUS
  <2>2. /\ n \in Nat /\ nextId \in Nat /\ finalized \subseteq killed
        /\ \A j, k \in 1..n : j < k => A(k) < A(j)
        /\ {A(k) : k \in 1..n} = (0..(nextId - 1)) \ finalized
    <3>1. n \in Nat
      BY DEF ListedInv
    <3>2. {A(k) : k \in 1..n} = (0..(nextId - 1)) \ finalized
      BY Zenon DEF ListedInv
    <3> QED
      BY <3>1, <3>2, Zenon DEF ListedInv
  <2>3. \A k \in 1..n : A(k) \in 0..(nextId - 1)
    <3> HIDE DEF n, A
    <3> QED
      BY <2>1, <2>2
  <2>4. /\ Len(timers') = n + d
        /\ \A k \in 1..n : B(k + d) = A(k)
                           /\ I(k + d) = IF A(k) \in killed' THEN DELETED ELSE A(k)
        /\ d = 1 => B(1) = nextId /\ I(1) = nextId
    OBVIOUS
  <2> QED
    BY <2>2, <2>3, <2>4
<1> HIDE DEF n, A, B, I
<1>2. ASSUME NEW k \in 1..(n + d)
      PROVE  \/ d = 1 /\ k = 1
             \/ k - d \in 1..n /\ B(k) = A(k - d)
                /\ I(k) = IF A(k - d) \in killed' THEN DELETED ELSE A(k - d)
  <2>1. CASE d = 1 /\ k = 1
    BY <2>1
  <2>2. CASE ~(d = 1 /\ k = 1)
    <3>1. k - d \in 1..n /\ (k - d) + d = k
      BY <1>1, <2>2
    <3> QED
      BY <1>1, <3>1
  <2> QED
    BY <2>1, <2>2
<1>3. ASSUME NEW j \in 1..(n + d), NEW k \in 1..(n + d), j < k
      PROVE  B(k) < B(j)
  <2>1. k - d \in 1..n /\ B(k) = A(k - d) /\ A(k - d) \in 0..(nextId - 1)
    <3>1. ~(d = 1 /\ k = 1)
      BY <1>1, <1>3
    <3>2. k - d \in 1..n /\ B(k) = A(k - d)
      BY <1>2, <3>1
    <3> QED
      BY <1>1, <3>2
  <2>2. CASE d = 1 /\ j = 1
    BY <1>1, <2>1, <2>2
  <2>3. CASE j - d \in 1..n /\ B(j) = A(j - d)
    <3>1. j - d < k - d
      BY <1>1, <1>3
    <3> QED
      BY <1>1, <2>1, <2>3, <3>1
  <2> QED
    BY <1>2, <2>2, <2>3
<1>4. nextId \notin killed' /\ nextId' \in Nat
      /\ killed' \subseteq 0..(nextId' - 1) /\ finalized' \subseteq killed'
  BY <1>1
<1>5. ASSUME NEW k \in 1..(n + d)
      PROVE  I(k) = IF B(k) \in killed' THEN DELETED ELSE B(k)
  <2>1. CASE d = 1 /\ k = 1
    BY <1>1, <1>4, <2>1
  <2>2. CASE B(k) = A(k - d) /\ I(k) = IF A(k - d) \in killed' THEN DELETED
                                       ELSE A(k - d)
    BY <2>2
  <2> QED
    BY <1>2, <2>1, <2>2
<1>6. {B(k) : k \in 1..(n + d)} = (0..(nextId' - 1)) \ finalized'
  <2>1. ASSUME NEW k \in 1..(n + d) PROVE B(k) \in (0..(nextId' - 1)) \ finalized'
    <3>1. CASE d = 1 /\ k = 1
      BY <1>1, <1>4, <3>1
    <3>2. CASE k - d \in 1..n /\ B(k) = A(k - d)
      <4>1. A(k - d) \in (0..(nextId - 1)) \ finalized
        BY <1>1, <3>2
      <4> QED
        BY <1>1, <3>2, <4>1
    <3> QED
      BY <1>2, <3>1, <3>2
  <2>2. ASSUME NEW a \in (0..(nextId' - 1)) \ finalized'
        PROVE  \E k \in 1..(n + d) : B(k) = a
    <3>1. CASE a = nextId
      <4>1. d = 1 /\ 1 \in 1..(n + d)
        BY <1>1, <2>2, <3>1
      <4> QED
        BY <1>1, <3>1, <4>1
    <3>2. CASE a # nextId
      <4>1. a \in (0..(nextId - 1)) \ finalized
        BY <1>1, <2>2, <3>2
      <4>2. PICK k \in 1..n : A(k) = a
        BY <1>1, <4>1
      <4>3. k + d \in 1..(n + d)
        BY <1>1
      <4> QED
        BY <1>1, <4>2, <4>3
    <3> QED
      BY <3>1, <3>2
  <2> QED
    BY <2>1, <2>2
<1> QED
  BY <1>1, <1>3, <1>4, <1>5, <1>6 DEF ListedInv, B, I

LEMMA TimersStart == TimeInit => TimersInv
<1> SUFFICES ASSUME TimeInit PROVE TimersInv
  OBVIOUS
<1>1. /\ timers = << >> /\ nextId = 0 /\ clock = SECOND /\ tpc = "turn"
      /\ timeout = FOREVER /\ maxId = -1 /\ expected = {} /\ called = << >>
      /\ killed = {} /\ finalized = {}
  BY DEF TimeInit
<1>2. timers \in Seq(Timer) /\ Len(timers) = 0 /\ 1..Len(timers) = {}
  BY <1>1
<1>3. 0..(nextId - 1) = {}
  BY <1>1
<1>4. ListedInv
  BY <1>1, <1>2, <1>3 DEF ListedInv
<1>5. ClockInv
  BY <1>1, TimeAssumption DEF ClockInv
<1>6. called \in Seq(Nat) /\ Len(called) = 0 /\ IsInjective(called)
  BY <1>1 DEF IsInjective
<1>7. WalkInv
  BY <1>1, <1>6 DEF WalkInv, CalledInv, AheadInv
<1> QED
  BY <1>4, <1>5, <1>7 DEF TimersInv

LEMMA ListedSame ==
  ASSUME ListedInv, timers' \in Seq(Timer), Len(timers') = Len(timers),
         nextId' = nextId,
         \A k \in 1..Len(timers) : timers'[k].at = timers[k].at,
         \A k \in 1..Len(timers) : timers'[k].id =
           IF timers[k].at \in killed' THEN DELETED ELSE timers[k].at,
         killed \subseteq killed', killed' \subseteq 0..(nextId - 1),
         finalized' = finalized
  PROVE  ListedInv'
<1>1. \A j, k \in 1..Len(timers) : j < k => timers[k].at < timers[j].at
  BY DEF ListedInv
<1>2. \A j, k \in 1..Len(timers') : j < k => timers'[k].at < timers'[j].at
  BY <1>1
<1>3. \A k \in 1..Len(timers') : timers'[k].id =
        IF timers'[k].at \in killed' THEN DELETED ELSE timers'[k].at
  OBVIOUS
<1>4. {timers'[k].at : k \in 1..Len(timers')} = {timers[k].at : k \in 1..Len(timers)}
  OBVIOUS
<1>5. {timers'[k].at : k \in 1..Len(timers')} = (0..(nextId' - 1)) \ finalized'
  BY <1>4 DEF ListedInv
<1>6. nextId' \in Nat /\ killed' \subseteq 0..(nextId' - 1)
      /\ finalized' \subseteq killed'
  BY DEF ListedInv
<1> QED
  BY <1>2, <1>3, <1>5, <1>6 DEF ListedInv

\* Outside a walk there is nothing to remember of one.
LEMMA NoWalk ==
  ASSUME WalkInv, tpc # "walk", tpc' \in {"turn", "wait"},
         UNCHANGED << maxId, called, expected >>, nextId \in Int,
         nextId' \in {nextId, nextId + 1}
  PROVE  WalkInv'
<1>1. maxId' < nextId'
  BY DEF WalkInv, CalledInv
<1> QED
  BY <1>1 DEF WalkInv, CalledInv, AheadInv

LEMMA SameTimers ==
  ASSUME ListedInv, UNCHANGED << timers, nextId, killed, finalized >>
  PROVE  ListedInv'
  BY DEF ListedInv

LEMMA CreateTimerKeeps ==
  ASSUME TimersInv, NEW delay \in Delay, CreateTimer(delay)
  PROVE  TimersInv'
<1>1. /\ tpc = "turn" /\ timers' = Created(timers, delay)
      /\ nextId' = nextId + 1
      /\ UNCHANGED << clock, tpc, timeout, maxId, expected, called, killed,
                      finalized >>
  BY DEF CreateTimer
<1>2. /\ timers \in Seq(Timer) /\ nextId \in Nat /\ clock \in Nat
      /\ killed \subseteq 0..(nextId - 1)
      /\ \A k \in 1..Len(timers) :
           timers[k].id = IF timers[k].at \in killed THEN DELETED ELSE timers[k].at
  BY DEF TimersInv, ListedInv, ClockInv
<1>3. ListedInv'
  <2>1. /\ timers' \in Seq(Timer) /\ Len(timers') = Len(timers) + 1
        /\ timers'[1].at = nextId /\ timers'[1].id = nextId
        /\ \A k \in 1..Len(timers) : timers'[k + 1] = timers[k]
    BY <1>1, <1>2, CreatedShape
  <2> QED
    BY <1>1, <1>2, <2>1, ListedKept DEF TimersInv
<1>4. ClockInv'
  BY <1>1 DEF TimersInv, ClockInv
<1>5. WalkInv'
  BY <1>1, <1>2, NoWalk DEF TimersInv
<1> QED
  BY <1>3, <1>4, <1>5 DEF TimersInv

\* Marking a timer, in whatever list of timers still ahead.
LEMMA MarkedIsKilled ==
  ASSUME ListedInv, NEW id \in Ids(timers) \cup {NOMORE}, NEW k \in 1..Len(timers)
  PROVE  Marked(timers, id)[k].id =
           IF timers[k].at \in killed \cup ({id} \ {NOMORE}) THEN DELETED
           ELSE timers[k].at
<1>1. /\ timers[k].id = IF timers[k].at \in killed THEN DELETED ELSE timers[k].at
      /\ timers \in Seq(Timer)
  BY DEF ListedInv
<1>2. Marked(timers, id)[k].id =
        IF timers[k].id = id THEN DELETED ELSE timers[k].id
  BY <1>1, MarkedShape
<1>3. timers[k].at \in Nat /\ timers[k].at # DELETED /\ DELETED = NOMORE
  BY <1>1, TimersTyped DEF DELETED, NOMORE
<1> HIDE DEF DELETED, NOMORE
<1> QED
  BY <1>1, <1>2, <1>3

LEMMA IdsKnown ==
  ASSUME ListedInv
  PROVE  Ids(timers) \in SUBSET (0..(nextId - 1))
<1>1. timers \in Seq(Timer) /\ DOMAIN timers = 1..Len(timers)
  BY TimersTyped DEF ListedInv
<1>2. ASSUME NEW k \in 1..Len(timers), timers[k].id # DELETED
      PROVE  timers[k].id \in 0..(nextId - 1)
  <2>1. timers[k].at \in {timers[j].at : j \in 1..Len(timers)}
    OBVIOUS
  <2> QED
    BY <1>2, <2>1 DEF ListedInv
<1> QED
  BY <1>1, <1>2 DEF Ids

LEMMA DeleteTimerKeeps ==
  ASSUME TimersInv, NEW id \in Ids(timers), DeleteTimer(id)
  PROVE  TimersInv'
<1>1. /\ tpc = "turn" /\ timers' = Marked(timers, id)
      /\ killed' = killed \cup {id}
      /\ UNCHANGED << nextId, clock, tpc, timeout, maxId, expected, called,
                      finalized >>
  BY DEF DeleteTimer
<1>2. /\ timers \in Seq(Timer) /\ nextId \in Nat
      /\ killed \subseteq 0..(nextId - 1) /\ id \in 0..(nextId - 1)
  BY IdsKnown DEF TimersInv, ListedInv
<1>3. ListedInv'
  <2>1. /\ timers' \in Seq(Timer) /\ Len(timers') = Len(timers)
        /\ \A k \in 1..Len(timers) : timers'[k].at = timers[k].at
    BY <1>1, <1>2, MarkedShape
  <2>2. \A k \in 1..Len(timers) : timers'[k].id =
          IF timers[k].at \in killed' THEN DELETED ELSE timers[k].at
    <3>1. killed' = killed \cup ({id} \ {NOMORE})
      BY <1>1, <1>2 DEF NOMORE
    <3> QED
      BY <1>1, <3>1, MarkedIsKilled DEF TimersInv
  <2>3. killed \subseteq killed' /\ killed' \subseteq 0..(nextId - 1)
    BY <1>1, <1>2
  <2> QED
    BY <1>1, <2>1, <2>2, <2>3, ListedSame DEF TimersInv
<1>4. ClockInv'
  BY <1>1 DEF TimersInv, ClockInv
<1>5. WalkInv'
  BY <1>1, <1>2, NoWalk DEF TimersInv
<1> QED
  BY <1>3, <1>4, <1>5 DEF TimersInv

LEMMA BeginWaitKeeps ==
  ASSUME TimersInv, BeginWait
  PROVE  TimersInv'
<1>1. /\ tpc = "turn" /\ tpc' = "wait"
      /\ UNCHANGED << timers, nextId, clock, maxId, expected, called, killed,
                      finalized >>
      /\ timeout' = IF timers = << >> THEN FOREVER
                    ELSE IF timers[Nearest].when - clock > 0
                         THEN timers[Nearest].when - clock ELSE 0
  BY DEF BeginWait
<1>2. timers \in Seq(Timer) /\ nextId \in Nat /\ clock \in Nat /\ SECOND <= clock
  BY DEF TimersInv, ListedInv, ClockInv
<1>3. ListedInv'
  BY <1>1, SameTimers DEF TimersInv
<1>4. ClockInv'
  <2>1. CASE timers = << >>
    <3>1. 1..Len(timers') = {} /\ timeout' = FOREVER
      BY <1>1, <2>1
    <3> QED
      BY <1>1, <1>2, <3>1 DEF ClockInv
  <2>2. CASE timers # << >>
    <3> DEFINE w == timers[Nearest].when
    <3>1. w \in Nat /\ \A k \in 1..Len(timers) : w <= timers[k].when
                                                 /\ timers[k].when \in Nat
      BY <1>2, <2>2, NearestFound, TimersTyped
    <3>2. timeout' = IF w - clock > 0 THEN w - clock ELSE 0
      BY <1>1, <2>2
    <3> HIDE DEF w
    <3>3. timeout' \in Nat /\ (timeout' = 0 \/ clock + timeout' = w)
      BY <1>2, <3>1, <3>2
    <3>4. timeout' # FOREVER
      BY <3>3 DEF FOREVER
    <3>5. ASSUME NEW k \in 1..Len(timers), timeout' # 0
          PROVE  clock + timeout' <= timers[k].when
      BY <3>1, <3>3, <3>5
    <3> QED
      BY <1>1, <1>2, <3>3, <3>4, <3>5 DEF ClockInv
  <2> QED
    BY <2>1, <2>2
<1>5. WalkInv'
  BY <1>1, <1>2, NoWalk DEF TimersInv
<1> QED
  BY <1>3, <1>4, <1>5 DEF TimersInv

LEMMA ElapseKeeps ==
  ASSUME TimersInv, Elapse
  PROVE  TimersInv'
<1>1. /\ clock' = clock + 1
      /\ UNCHANGED << timers, nextId, tpc, te, maxId, expected, called, killed,
                      finalized >>
      /\ tpc = "walk" \/ (tpc = "wait" /\ timeout # 0)
      /\ timeout' = IF tpc = "walk" \/ timeout = FOREVER THEN timeout
                    ELSE timeout - 1
  BY DEF Elapse
<1>2. /\ timers \in Seq(Timer) /\ nextId \in Nat /\ clock \in Nat
      /\ SECOND <= clock /\ SECOND \in Nat /\ timeout \in Nat \cup {FOREVER}
  BY TimeAssumption DEF TimersInv, ListedInv, ClockInv
<1>3. ListedInv'
  BY <1>1, SameTimers DEF TimersInv
<1>4. clock' \in Nat /\ SECOND <= clock' /\ clock <= clock'
  BY <1>1, <1>2
<1>5. CASE tpc = "walk"
  <2>1. ClockInv'
    BY <1>1, <1>2, <1>4, <1>5 DEF ClockInv
  <2>2. \A k \in 1..Len(timers) : timers[k].when <= clock => timers[k].when <= clock'
    BY <1>2, <1>4, TimersTyped
  <2>3. /\ te \in 1..(Len(timers) + 1)
        /\ \A k \in te..Len(timers) : k \in 1..Len(timers)
    BY <1>2, <1>5 DEF TimersInv, WalkInv, AheadInv
  <2>4. WalkInv'
    BY <1>1, <1>5, <2>2, <2>3 DEF TimersInv, WalkInv, CalledInv, AheadInv
  <2> QED
    BY <1>3, <2>1, <2>4 DEF TimersInv
<1>6. CASE tpc = "wait" /\ timeout # 0
  <2>1. ClockInv'
    <3>1. CASE timeout = FOREVER
      BY <1>1, <1>2, <1>4, <1>6, <3>1 DEF TimersInv, ClockInv, FOREVER
    <3>2. CASE timeout # FOREVER
      <4>1. timeout' = timeout - 1 /\ timeout' \in Nat
            /\ clock' + timeout' = clock + timeout /\ timeout' # FOREVER
        BY <1>1, <1>2, <1>6, <3>2 DEF FOREVER
      <4>2. \A k \in 1..Len(timers) : clock' + timeout' <= timers[k].when
        BY <1>6, <3>2, <4>1 DEF TimersInv, ClockInv
      <4> QED
        BY <1>1, <1>4, <4>1, <4>2 DEF ClockInv
    <3> QED
      BY <3>1, <3>2
  <2>2. WalkInv'
    BY <1>1, <1>2, <1>6, NoWalk DEF TimersInv
  <2> QED
    BY <1>3, <2>1, <2>2 DEF TimersInv
<1> QED
  BY <1>1, <1>5, <1>6

LEMMA SetClockBackKeeps ==
  ASSUME TimersInv, SetClockBack
  PROVE  TimersInv'
<1>1. /\ tpc = "wait" /\ clock' \in SECOND..(clock - 1)
      /\ UNCHANGED << timers, nextId, tpc, timeout, maxId, expected, called,
                      killed, finalized >>
  BY DEF SetClockBack
<1>2. /\ timers \in Seq(Timer) /\ nextId \in Nat /\ clock \in Nat
      /\ SECOND \in Nat /\ timeout \in Nat \cup {FOREVER}
  BY TimeAssumption DEF TimersInv, ListedInv, ClockInv
<1>3. ListedInv'
  BY <1>1, SameTimers DEF TimersInv
<1>4. ClockInv'
  <2>1. clock' \in Nat /\ SECOND <= clock' /\ clock' <= clock
    BY <1>1, <1>2
  <2>2. ASSUME NEW k \in 1..Len(timers), timeout # 0, timeout # FOREVER
        PROVE  clock' + timeout <= timers[k].when
    <3>1. clock + timeout <= timers[k].when
      BY <1>1, <2>2 DEF TimersInv, ClockInv
    <3>2. timers[k].when \in Nat /\ timeout \in Nat
      BY <1>2, <2>2, TimersTyped
    <3> QED
      BY <1>2, <2>1, <3>1, <3>2
  <2>3. ASSUME NEW k \in 1..Len(timers), timeout # 0 PROVE timeout # FOREVER
    BY <1>1, <2>3 DEF TimersInv, ClockInv
  <2> QED
    BY <1>1, <1>2, <2>1, <2>2, <2>3 DEF ClockInv
<1>5. WalkInv'
  BY <1>1, <1>2, NoWalk DEF TimersInv
<1> QED
  BY <1>3, <1>4, <1>5 DEF TimersInv

LEMMA ForcedShape ==
  ASSUME NEW s \in Seq(Timer)
  PROVE  /\ Forced(s) \in Seq(Timer) /\ Len(Forced(s)) = Len(s)
         /\ \A k \in 1..Len(s) : /\ Forced(s)[k].at = s[k].at
                                 /\ Forced(s)[k].id = s[k].id
                                 /\ Forced(s)[k].when < SECOND
<1> DEFINE n == Len(s)
           f == Forced(s)
<1>1. n \in Nat /\ DOMAIN s = 1..n /\ \A k \in 1..n : s[k] \in Timer
  OBVIOUS
<1> HIDE DEF n
<1>2. f = [k \in 1..n |-> [s[k] EXCEPT !.when = s[k].when % SECOND]]
  BY <1>1 DEF Forced
<1>3. ASSUME NEW k \in 1..n
      PROVE  /\ f[k] \in Timer
             /\ f[k].at = s[k].at /\ f[k].id = s[k].id /\ f[k].when < SECOND
  <2>1. f[k] = [s[k] EXCEPT !.when = s[k].when % SECOND]
    BY <1>2
  <2>2. s[k] \in Timer
    BY <1>1
  <2>3. s[k].when \in Nat
    BY <2>2 DEF Timer
  <2>4. s[k].when % SECOND \in Nat /\ s[k].when % SECOND < SECOND
    BY <2>3, TimeAssumption
  <2> HIDE DEF f
  <2> QED
    BY <2>1, <2>2, <2>4 DEF Timer
<1>4. f \in Seq(Timer) /\ Len(f) = n
  <2>1. f = [k \in 1..n |-> f[k]]
    BY <1>2
  <2> HIDE DEF f
  <2> QED
    BY <1>1, <1>3, <2>1
<1> QED
  BY <1>3, <1>4 DEF n

LEMMA AtOnce ==
  ASSUME ListedInv
  PROVE  /\ timers \in Seq(Timer) /\ DOMAIN timers = 1..Len(timers)
         /\ Len(timers) \in Nat /\ nextId \in Nat
         /\ \A k \in 1..Len(timers) :
              /\ timers[k].at \in 0..(nextId - 1)
              /\ timers[k].at \in Nat /\ timers[k].when \in Nat
              /\ timers[k].id # DELETED <=> timers[k].at \notin killed
              /\ timers[k].id # DELETED => timers[k].id = timers[k].at
         /\ \A j, k \in 1..Len(timers) : timers[j].at = timers[k].at => j = k
<1>1. timers \in Seq(Timer) /\ nextId \in Nat
  BY DEF ListedInv
<1>2. /\ Len(timers) \in Nat /\ DOMAIN timers = 1..Len(timers)
      /\ \A k \in 1..Len(timers) : timers[k].at \in Nat /\ timers[k].when \in Nat
  BY <1>1, TimersTyped
<1>3. ASSUME NEW k \in 1..Len(timers)
      PROVE  /\ timers[k].at \in 0..(nextId - 1)
             /\ timers[k].id # DELETED <=> timers[k].at \notin killed
             /\ timers[k].id # DELETED => timers[k].id = timers[k].at
  <2>1. timers[k].at \in {timers[j].at : j \in 1..Len(timers)}
    OBVIOUS
  <2>2. timers[k].at \in 0..(nextId - 1)
    BY <2>1 DEF ListedInv
  <2>3. timers[k].at # DELETED
    BY <1>2 DEF DELETED
  <2>4. timers[k].id = IF timers[k].at \in killed THEN DELETED ELSE timers[k].at
    BY DEF ListedInv
  <2> QED
    BY <2>2, <2>3, <2>4
<1>4. ASSUME NEW j \in 1..Len(timers), NEW k \in 1..Len(timers),
             timers[j].at = timers[k].at
      PROVE  j = k
  <2>1. timers[j].at \in Nat /\ timers[k].at \in Nat
    BY <1>2
  <2>2. /\ j < k => timers[k].at < timers[j].at
        /\ k < j => timers[j].at < timers[k].at
    BY DEF ListedInv
  <2>3. ~(j < k) /\ ~(k < j)
    BY <1>4, <2>1, <2>2
  <2> QED
    BY <1>2, <2>3
<1> QED
  BY <1>1, <1>2, <1>3, <1>4

LEMMA NothingCalled ==
  /\ << >> \in Seq(Nat) /\ IsInjective(<< >>) /\ Len(<< >>) = 0
  /\ Items(<< >>) = {}
<1>1. DOMAIN << >> = {} /\ Len(<< >>) = 0
  OBVIOUS
<1> QED
  BY <1>1 DEF IsInjective, Items

LEMMA BeginWalkKeeps ==
  ASSUME TimersInv, BeginWalk
  PROVE  TimersInv'
<1> DEFINE back == Seconds(clock) < lastTime
           n == Len(timers)
<1>1. /\ tpc' = "walk"
      /\ timers' = IF back THEN Forced(timers) ELSE timers
      /\ te' = 1 /\ maxId' = nextId - 1 /\ called' = << >>
      /\ expected' = {timers[k].id : k \in {j \in DOMAIN timers :
                        timers[j].id # DELETED /\ (back \/ IsDue(timers[j], clock))}}
      /\ UNCHANGED << nextId, clock, timeout, killed, finalized >>
  BY DEF BeginWalk
<1>2. /\ timers \in Seq(Timer) /\ DOMAIN timers = 1..n
      /\ n \in Nat /\ nextId \in Nat
      /\ \A k \in 1..n :
           /\ timers[k].at \in 0..(nextId - 1)
           /\ timers[k].at \in Nat /\ timers[k].when \in Nat
           /\ timers[k].id # DELETED <=> timers[k].at \notin killed
           /\ timers[k].id # DELETED => timers[k].id = timers[k].at
      /\ \A j, k \in 1..n : timers[j].at = timers[k].at => j = k
  BY AtOnce DEF TimersInv
<1>3. clock \in Nat /\ SECOND <= clock /\ SECOND \in Nat
  BY TimeAssumption DEF TimersInv, ClockInv
<1> HIDE DEF n, back
<1>4. /\ timers' \in Seq(Timer) /\ Len(timers') = n
      /\ \A k \in 1..n : /\ timers'[k].at = timers[k].at
                         /\ timers'[k].id = timers[k].id
                         /\ timers'[k].when \in Nat
                         /\ back \/ timers[k].when <= clock =>
                              timers'[k].when <= clock
  <2>1. CASE back
    <3>1. /\ timers' \in Seq(Timer) /\ Len(timers') = n
          /\ \A k \in 1..n : /\ timers'[k].at = timers[k].at
                             /\ timers'[k].id = timers[k].id
                             /\ timers'[k].when < SECOND
      BY <1>1, <1>2, <2>1, ForcedShape DEF n
    <3>2. \A k \in 1..n : timers'[k].when \in Nat
      BY <3>1, TimersTyped
    <3>3. \A w \in Nat : w < SECOND => w <= clock
      BY <1>3
    <3> QED
      BY <3>1, <3>2, <3>3
  <2>2. CASE ~back
    BY <1>1, <1>2, <2>2 DEF n
  <2> QED
    BY <2>1, <2>2
<1>5. ListedInv'
  <2>1. \A k \in 1..n : timers'[k].id =
          IF timers[k].at \in killed' THEN DELETED ELSE timers[k].at
    BY <1>1, <1>4 DEF TimersInv, ListedInv, n
  <2>2. killed' \subseteq 0..(nextId - 1) /\ killed \subseteq killed'
    BY <1>1 DEF TimersInv, ListedInv
  <2> QED
    BY <1>1, <1>4, <2>1, <2>2, ListedSame DEF TimersInv, n
<1>6. ClockInv'
  BY <1>1 DEF TimersInv, ClockInv
<1>7. ASSUME NEW a \in expected'
      PROVE  \E j \in 1..n : /\ timers[j].at = a
                             /\ back \/ timers[j].when <= clock
  <2>1. PICK j \in 1..n : /\ a = timers[j].id /\ timers[j].id # DELETED
                          /\ back \/ IsDue(timers[j], clock)
    BY <1>1, <1>2
  <2>2. IsDue(timers[j], clock) => timers[j].when <= clock
    BY <1>2, <1>3 DEF IsDue
  <2> QED
    BY <1>2, <2>1, <2>2
<1>8. WalkInv'
  <2>1. maxId' \in Int /\ maxId' < nextId'
    BY <1>1, <1>2
  <2>2. te' \in 1..(Len(timers') + 1) /\ te'..Len(timers') = 1..n
    BY <1>1, <1>2, <1>4
  <2>3. ASSUME NEW k \in 1..n
        PROVE  /\ timers'[k].at \notin Items(called')
               /\ timers'[k].at \in expected' =>
                    timers'[k].at <= maxId' /\ timers'[k].when <= clock'
    <3>1. timers'[k].at <= maxId'
      BY <1>1, <1>2, <1>4
    <3>2. ASSUME timers'[k].at \in expected' PROVE timers'[k].when <= clock'
      <4>1. PICK j \in 1..n : /\ timers[j].at = timers'[k].at
                              /\ back \/ timers[j].when <= clock
        BY <1>7, <3>2
      <4>2. j = k
        BY <1>2, <1>4, <4>1
      <4> QED
        BY <1>1, <1>4, <4>1, <4>2
    <3> QED
      BY <1>1, <3>1, <3>2, NothingCalled
  <2>4. \A a \in expected' : \E k \in 1..n : timers'[k].at = a
    BY <1>4, <1>7
  <2>5. CalledInv'
    BY <1>1, <2>1, NothingCalled DEF CalledInv
  <2>6. AheadInv'
    BY <1>1, <2>2, <2>3, <2>4 DEF AheadInv
  <2> QED
    BY <2>5, <2>6 DEF WalkInv
<1> QED
  BY <1>5, <1>6, <1>8 DEF TimersInv

\* The timer at te is freed and the next one takes its place.
LEMMA UnlinkKeeps ==
  ASSUME TimersInv, Unlink
  PROVE  TimersInv'
<1> DEFINE n == Len(timers)
           gone == timers[te].at
<1>1. /\ tpc = "walk" /\ te <= Len(timers) /\ timers[te].id = DELETED
      /\ timers' = RemoveAt(timers, te)
      /\ finalized' = finalized \cup {gone}
      /\ UNCHANGED << nextId, clock, tpc, timeout, te, maxId, expected, called,
                      killed >>
  BY DEF Unlink, AtTimer
<1>2. /\ timers \in Seq(Timer) /\ n \in Nat /\ nextId \in Nat
      /\ \A k \in 1..n :
           /\ timers[k].at \in 0..(nextId - 1)
           /\ timers[k].at \in Nat
           /\ timers[k].id # DELETED <=> timers[k].at \notin killed
      /\ \A j, k \in 1..n : timers[j].at = timers[k].at => j = k
  BY AtOnce DEF TimersInv
<1>3. te \in 1..n
  BY <1>1, <1>2 DEF TimersInv, WalkInv, AheadInv
<1>4. /\ timers' \in Seq(Timer) /\ Len(timers') = n - 1
      /\ \A j \in 1..(n - 1) :
           timers'[j] = IF j < te THEN timers[j] ELSE timers[j + 1]
  BY <1>1, <1>2, <1>3, RemoveAtShape
<1>5. gone \in killed /\ gone \in 0..(nextId - 1)
  BY <1>1, <1>2, <1>3
<1> HIDE DEF n
<1> DEFINE old(j) == IF j < te THEN j ELSE j + 1
<1>6. /\ \A j \in 1..(n - 1) : /\ old(j) \in 1..n /\ old(j) # te
                               /\ timers'[j] = timers[old(j)]
      /\ \A i, j \in 1..(n - 1) : i < j => old(i) < old(j)
      /\ \A k \in 1..n : k # te =>
           \E j \in 1..(n - 1) : old(j) = k /\ (k >= te => j >= te)
  <2>1. \A j \in 1..(n - 1) : /\ old(j) \in 1..n /\ old(j) # te
                              /\ timers'[j] = timers[old(j)]
    BY <1>2, <1>3, <1>4
  <2>2. \A i, j \in 1..(n - 1) : i < j => old(i) < old(j)
    BY <1>2, <1>3
  <2>3. ASSUME NEW k \in 1..n, k # te
        PROVE  \E j \in 1..(n - 1) : old(j) = k /\ (k >= te => j >= te)
    <3>1. CASE k < te
      <4>1. k \in 1..(n - 1) /\ old(k) = k /\ ~(k >= te)
        BY <1>2, <1>3, <3>1
      <4> QED
        BY <4>1
    <3>2. CASE ~(k < te)
      <4>1. k - 1 \in 1..(n - 1) /\ old(k - 1) = k /\ k - 1 >= te
        BY <1>2, <1>3, <2>3, <3>2
      <4> QED
        BY <4>1
    <3> QED
      BY <3>1, <3>2
  <2> QED
    BY <2>1, <2>2, <2>3
<1>7. \A j \in te..(n - 1) : old(j) \in te..n
  BY <1>2, <1>3
<1> HIDE DEF old
<1>8. ListedInv'
  <2>1. \A i, j \in 1..(n - 1) : i < j => timers'[j].at < timers'[i].at
    <3>1. \A i, j \in 1..n : i < j => timers[j].at < timers[i].at
      BY DEF TimersInv, ListedInv, n
    <3> QED
      BY <1>6, <3>1
  <2>2. \A j \in 1..(n - 1) : timers'[j].id =
          IF timers'[j].at \in killed' THEN DELETED ELSE timers'[j].at
    <3>1. \A k \in 1..n : timers[k].id =
            IF timers[k].at \in killed THEN DELETED ELSE timers[k].at
      BY DEF TimersInv, ListedInv, n
    <3> QED
      BY <1>1, <1>6, <3>1
  <2>3. {timers'[j].at : j \in 1..(n - 1)} = (0..(nextId' - 1)) \ finalized'
    <3>1. {timers[k].at : k \in 1..n} = (0..(nextId - 1)) \ finalized
      BY DEF TimersInv, ListedInv, n
    <3>2. ASSUME NEW j \in 1..(n - 1)
          PROVE  timers'[j].at \in {timers[k].at : k \in 1..n} \ {gone}
      <4>1. old(j) \in 1..n /\ old(j) # te /\ timers'[j].at = timers[old(j)].at
        BY <1>6
      <4>2. timers[old(j)].at # gone
        BY <1>2, <1>3, <4>1
      <4> QED
        BY <4>1, <4>2
    <3>3. ASSUME NEW k \in 1..n, timers[k].at # gone
          PROVE  timers[k].at \in {timers'[j].at : j \in 1..(n - 1)}
      <4>1. PICK j \in 1..(n - 1) : old(j) = k
        BY <1>6, <3>3
      <4> QED
        BY <1>6, <4>1
    <3>4. {timers'[j].at : j \in 1..(n - 1)} = {timers[k].at : k \in 1..n} \ {gone}
      BY <3>2, <3>3
    <3> QED
      BY <1>1, <3>1, <3>4
  <2>4. /\ killed' \subseteq 0..(nextId' - 1) /\ finalized' \subseteq killed'
        /\ nextId' \in Nat
    BY <1>1, <1>5 DEF TimersInv, ListedInv
  <2> QED
    BY <1>4, <2>1, <2>2, <2>3, <2>4 DEF ListedInv
<1>9. ClockInv'
  BY <1>1 DEF TimersInv, ClockInv
<1>10. CalledInv'
  BY <1>1 DEF TimersInv, WalkInv, CalledInv
<1>11. AheadInv'
  <2>1. te' \in 1..(Len(timers') + 1) /\ te' = te
    BY <1>1, <1>2, <1>3, <1>4
  <2>2. ASSUME NEW j \in te..(n - 1)
        PROVE  /\ timers'[j].at \notin Items(called)
               /\ timers'[j].at \in expected =>
                    timers'[j].at <= maxId /\ timers'[j].when <= clock
    <3>1. j \in 1..(n - 1) /\ old(j) \in te..n
      BY <1>2, <1>3, <1>7
    <3> QED
      BY <1>1, <1>6, <3>1 DEF TimersInv, WalkInv, AheadInv, n
  <2>3. ASSUME NEW a \in expected, a \notin Items(called), a \notin killed
        PROVE  \E j \in te..(n - 1) : timers'[j].at = a
    <3>1. PICK k \in te..n : timers[k].at = a
      BY <1>1, <2>3 DEF TimersInv, WalkInv, AheadInv, n
    <3>2. k \in 1..n /\ k >= te /\ k # te
      BY <1>2, <1>3, <1>5, <2>3, <3>1
    <3>3. PICK j \in 1..(n - 1) : old(j) = k /\ j >= te
      BY <1>6, <3>2
    <3>4. j \in te..(n - 1)
      BY <1>2, <1>3, <3>3
    <3> QED
      BY <1>6, <3>1, <3>3, <3>4
  <2>4. te'..Len(timers') = te..(n - 1)
    BY <1>1, <1>4
  <2> QED
    BY <1>1, <2>1, <2>2, <2>3, <2>4 DEF AheadInv
<1> QED
  BY <1>8, <1>9, <1>10, <1>11 DEF TimersInv, WalkInv

\* A timer passed over is none that the walk was to call: one of those would be
\* old enough and due.
LEMMA PassOverKeeps ==
  ASSUME TimersInv, PassOver
  PROVE  TimersInv'
<1> DEFINE n == Len(timers)
<1>1. /\ tpc = "walk" /\ te <= n /\ timers[te].id # DELETED /\ ~Callable
      /\ te' = te + 1
      /\ UNCHANGED << timers, nextId, clock, tpc, timeout, maxId, expected, called,
                      killed, finalized >>
  BY DEF PassOver, AtTimer
<1>2. /\ timers \in Seq(Timer) /\ n \in Nat /\ nextId \in Nat
      /\ \A k \in 1..n :
           /\ timers[k].at \in 0..(nextId - 1)
           /\ timers[k].at \in Nat /\ timers[k].when \in Nat
           /\ timers[k].id # DELETED => timers[k].id = timers[k].at
  BY AtOnce DEF TimersInv
<1>3. te \in 1..n
  BY <1>1, <1>2 DEF TimersInv, WalkInv, AheadInv
<1> HIDE DEF n
<1>4. /\ clock \in Nat /\ maxId \in Int
      /\ \A k \in te..n :
           /\ timers[k].at \notin Items(called)
           /\ timers[k].at \in expected =>
                timers[k].at <= maxId /\ timers[k].when <= clock
      /\ \A a \in expected : a \in Items(called) \/ a \in killed
                              \/ \E k \in te..n : timers[k].at = a
  BY <1>1 DEF TimersInv, ClockInv, WalkInv, CalledInv, AheadInv, n
<1>5. timers[te].at \notin expected
  <2>1. timers[te].id = timers[te].at /\ te \in te..n
    BY <1>1, <1>2, <1>3
  <2>2. ASSUME timers[te].at \in expected PROVE Callable
    <3>1. timers[te].at <= maxId /\ timers[te].when <= clock
      BY <1>4, <2>1, <2>2
    <3>2. timers[te].at \in Nat /\ timers[te].when \in Nat
      BY <1>2, <1>3
    <3>3. timers[te].id \in 0..maxId
      BY <1>4, <2>1, <3>1, <3>2
    <3>4. IsDue(timers[te], clock)
      BY <1>1, <1>4, <3>1, <3>2 DEF IsDue
    <3> QED
      BY <3>3, <3>4 DEF Callable
  <2> QED
    BY <1>1, <2>2
<1>6. ListedInv'
  BY <1>1, SameTimers DEF TimersInv
<1>7. ClockInv'
  BY <1>1 DEF TimersInv, ClockInv
<1>8. CalledInv'
  BY <1>1 DEF TimersInv, WalkInv, CalledInv
<1>9. AheadInv'
  <2>1. te' \in 1..(n + 1) /\ \A k \in te'..n : k \in te..n
    BY <1>1, <1>2, <1>3
  <2>2. ASSUME NEW a \in expected
        PROVE  a \in Items(called) \/ a \in killed \/ \E k \in te'..n : timers[k].at = a
    <3>1. ASSUME NEW k \in te..n, timers[k].at = a PROVE k \in te'..n
      BY <1>1, <1>2, <1>3, <1>5, <2>2, <3>1
    <3> QED
      BY <1>4, <3>1
  <2> QED
    BY <1>1, <1>4, <2>1, <2>2 DEF AheadInv, n
<1> QED
  BY <1>6, <1>7, <1>8, <1>9 DEF TimersInv, WalkInv

LEMMA EndWalkKeeps ==
  ASSUME TimersInv, EndWalk
  PROVE  TimersInv'
<1>1. /\ tpc' = "turn" /\ maxId' = -1 /\ timeout' = FOREVER
      /\ expected' = {} /\ called' = << >>
      /\ UNCHANGED << timers, nextId, clock, killed, finalized >>
  BY DEF EndWalk
<1>2. ListedInv'
  BY <1>1, SameTimers DEF TimersInv
<1>3. ClockInv'
  BY <1>1 DEF TimersInv, ClockInv
<1>4. maxId' \in Int /\ maxId' < nextId'
  BY <1>1 DEF TimersInv, ListedInv
<1>5. WalkInv'
  BY <1>1, <1>4, NothingCalled DEF WalkInv, CalledInv, AheadInv
<1> QED
  BY <1>2, <1>3, <1>5 DEF TimersInv

\* The list after a handler, with d timers created and one deleted, or none.
HandlerLeft(list, id, d) ==
  /\ list \in Seq(Timer) /\ Len(list) = Len(timers) + d
  /\ \A k \in 1..Len(timers) :
       /\ list[k + d].at = timers[k].at
       /\ list[k + d].when = timers[k].when
       /\ list[k + d].id = IF timers[k].at \in killed \cup ({id} \ {NOMORE})
                           THEN DELETED ELSE timers[k].at
  /\ d = 1 => list[1].at = nextId /\ list[1].id = nextId

LEMMA HandlerShape ==
  ASSUME ListedInv, clock \in Nat, NEW delay \in Delay \cup {NOMORE},
         NEW id \in Ids(timers) \cup {NOMORE},
         NEW d \in {0, 1}, d = 0 <=> delay = NOMORE
  PROVE  HandlerLeft(HandlerDone(timers, delay, id), id, d)
<1> DEFINE m == Marked(timers, id)
           list == HandlerDone(timers, delay, id)
<1>1. timers \in Seq(Timer) /\ nextId \in Nat /\ Len(timers) \in Nat
  BY AtOnce
<1>2. /\ m \in Seq(Timer) /\ Len(m) = Len(timers)
      /\ \A k \in 1..Len(timers) :
           m[k].at = timers[k].at /\ m[k].when = timers[k].when
  BY <1>1, MarkedShape
<1>3. \A k \in 1..Len(timers) :
        m[k].id = IF timers[k].at \in killed \cup ({id} \ {NOMORE}) THEN DELETED
                  ELSE timers[k].at
  BY MarkedIsKilled
<1>4. list = IF delay = NOMORE THEN m ELSE Created(m, delay)
  BY DEF HandlerDone
<1> HIDE DEF m, list
<1>5. CASE delay = NOMORE
  <2>1. list = m /\ d = 0 /\ \A k \in 1..Len(timers) : k + d = k
    BY <1>1, <1>4, <1>5
  <2>2. Len(list) = Len(timers) + d
    BY <1>1, <1>2, <2>1
  <2>3. \A k \in 1..Len(timers) : list[k + d] = m[k]
    BY <2>1
  <2>4. d # 1
    BY <2>1
  <2> QED
    BY <1>2, <1>3, <2>1, <2>2, <2>3, <2>4 DEF list, HandlerLeft
<1>6. CASE delay # NOMORE
  <2>1. list = Created(m, delay) /\ d = 1 /\ delay \in Delay
    BY <1>4, <1>6
  <2>2. /\ list \in Seq(Timer) /\ Len(list) = Len(m) + 1
        /\ list[1].at = nextId /\ list[1].id = nextId
        /\ \A k \in 1..Len(m) : list[k + 1] = m[k]
    BY <1>1, <1>2, <2>1, CreatedShape
  <2>3. Len(list) = Len(timers) + d
        /\ \A k \in 1..Len(timers) : list[k + d] = m[k]
    BY <1>2, <2>1, <2>2
  <2> QED
    BY <1>2, <1>3, <2>2, <2>3 DEF list, HandlerLeft
<1> QED
  BY <1>5, <1>6

LEMMA AfterCallShape ==
  ASSUME NEW t \in Timer, NEW retval \in Delay \cup {NOMORE}, clock \in Nat
  PROVE  /\ AfterCall(t, retval) \in Timer
         /\ AfterCall(t, retval).at = t.at
         /\ AfterCall(t, retval).id = IF retval = NOMORE THEN DELETED ELSE t.id
<1>1. CASE retval = NOMORE
  BY <1>1 DEF AfterCall, Timer
<1>2. CASE retval # NOMORE
  <2>1. Later(retval) \in Nat
    BY <1>2, TimeAssumption DEF Later
  <2> QED
    BY <1>2, <2>1 DEF AfterCall, Timer
<1> QED
  BY <1>1, <1>2

LEMMA CalledOnce ==
  ASSUME NEW s \in Seq(Nat), IsInjective(s), NEW e \in Nat, e \notin Items(s)
  PROVE  /\ Append(s, e) \in Seq(Nat) /\ IsInjective(Append(s, e))
         /\ Items(Append(s, e)) = Items(s) \cup {e}
         /\ \A i \in 1..Len(Append(s, e)) :
              Append(s, e)[i] = e \/ \E j \in 1..Len(s) : Append(s, e)[i] = s[j]
<1> DEFINE r == Append(s, e)
<1>1. Distinct(s)
  BY DEF IsInjective, Distinct
<1>2. r \in Seq(Nat) /\ Distinct(r) /\ Items(r) = Items(s) \cup {e}
  BY <1>1, Appended
<1>3. IsInjective(r)
  BY <1>2 DEF IsInjective, Distinct
<1>4. ASSUME NEW i \in 1..Len(r) PROVE r[i] = e \/ \E j \in 1..Len(s) : r[i] = s[j]
  BY <1>2 DEF Items
<1> QED
  BY <1>2, <1>3, <1>4

\* The handler of the timer at te runs; it may delete any timer, this one
\* included, and may create one, which moves all others one place further.
LEMMA CallKeeps ==
  ASSUME TimersInv, Call
  PROVE  TimersInv'
<1> DEFINE n == Len(timers)
           at == timers[te].at
<1>1. /\ tpc = "walk" /\ te <= n /\ Callable
      /\ called' = Append(called, at)
      /\ UNCHANGED << clock, tpc, timeout, maxId, expected, finalized >>
  BY DEF Call, AtTimer
<1>2. PICK retval \in Delay \cup {NOMORE}, delay \in Delay \cup {NOMORE},
           id \in Ids(timers) \cup {NOMORE} :
        LET list == HandlerDone(timers, delay, id)
            here == IF delay = NOMORE THEN te ELSE te + 1
        IN  /\ timers' = [list EXCEPT ![here] = AfterCall(list[here], retval)]
            /\ te' = here + 1
            /\ nextId' = IF delay = NOMORE THEN nextId ELSE nextId + 1
            /\ killed' = killed \cup ({id} \ {NOMORE}) \cup
                           (IF retval = NOMORE THEN {timers[te].at} ELSE {})
  BY DEF Call
<1> DEFINE list == HandlerDone(timers, delay, id)
           more == killed \cup ({id} \ {NOMORE})
<1>3. PICK d \in {0, 1} : d = 0 <=> delay = NOMORE
  OBVIOUS
<1>4. /\ timers \in Seq(Timer) /\ n \in Nat /\ nextId \in Nat
      /\ \A k \in 1..n :
           /\ timers[k].at \in 0..(nextId - 1)
           /\ timers[k].at \in Nat /\ timers[k].when \in Nat
           /\ timers[k].id # DELETED => timers[k].id = timers[k].at
      /\ \A j, k \in 1..n : timers[j].at = timers[k].at => j = k
  BY AtOnce DEF TimersInv
<1>5. te \in 1..n
  BY <1>1, <1>4 DEF TimersInv, WalkInv, AheadInv
<1>6. /\ timers' = [list EXCEPT ![te + d] = AfterCall(list[te + d], retval)]
      /\ te' = te + d + 1 /\ nextId' = nextId + d
      /\ killed' = more \cup (IF retval = NOMORE THEN {at} ELSE {})
  <2>1. CASE delay = NOMORE
    <3>1. d = 0 /\ te + d = te /\ te + d + 1 = te + 1 /\ nextId + d = nextId
      BY <1>3, <1>4, <1>5, <2>1
    <3> HIDE DEF list
    <3> QED
      BY <1>2, <2>1, <3>1 DEF list
  <2>2. CASE delay # NOMORE
    <3>1. d = 1 /\ te + d = te + 1 /\ te + d + 1 = te + 1 + 1
          /\ nextId + d = nextId + 1
      BY <1>3, <1>4, <1>5, <2>2
    <3> HIDE DEF list
    <3> QED
      BY <1>2, <2>2, <3>1 DEF list
  <2> QED
    BY <2>1, <2>2
<1>7. /\ clock \in Nat /\ maxId \in Int /\ maxId < nextId
      /\ called \in Seq(Nat) /\ IsInjective(called)
      /\ \A i \in 1..Len(called) : called[i] <= maxId
  BY DEF TimersInv, ClockInv, WalkInv, CalledInv
<1>8. /\ list \in Seq(Timer) /\ Len(list) = n + d
      /\ \A k \in 1..n : /\ list[k + d].at = timers[k].at
                         /\ list[k + d].when = timers[k].when
                         /\ list[k + d].id = IF timers[k].at \in more THEN DELETED
                                             ELSE timers[k].at
      /\ d = 1 => list[1].at = nextId /\ list[1].id = nextId
  <2>1. ListedInv
    BY DEF TimersInv
  <2>2. HandlerLeft(list, id, d)
    BY <1>3, <1>7, <2>1, HandlerShape
  <2> QED
    BY <2>2 DEF HandlerLeft
<1>9. more \subseteq 0..(nextId - 1) /\ killed \subseteq more
      /\ at \in 0..(nextId - 1) /\ at \in Nat
  <2>1. Ids(timers) \in SUBSET (0..(nextId - 1)) /\ killed \subseteq 0..(nextId - 1)
    BY IdsKnown DEF TimersInv, ListedInv
  <2> QED
    BY <1>4, <1>5, <2>1
<1>10. te + d \in 1..(n + d) /\ (d = 1 => te + d # 1)
       /\ \A k \in 1..n : k + d \in 1..(n + d) /\ (k + d = te + d <=> k = te)
  BY <1>4, <1>5
<1> HIDE DEF list, more, n
<1>11. /\ timers' \in Seq(Timer) /\ Len(timers') = n + d
       /\ \A k \in 1..n : k # te => timers'[k + d] = list[k + d]
       /\ timers'[te + d] = AfterCall(list[te + d], retval)
       /\ d = 1 => timers'[1] = list[1]
  <2>1. list[te + d] \in Timer
    BY <1>8, <1>10
  <2> DEFINE t == AfterCall(list[te + d], retval)
  <2>2. t \in Timer
    BY <1>7, <2>1, AfterCallShape
  <2> HIDE DEF t
  <2>3. /\ timers' = [list EXCEPT ![te + d] = t]
        /\ te + d \in 1..Len(list)
    BY <1>6, <1>8, <1>10 DEF t
  <2>4. /\ timers' \in Seq(Timer) /\ Len(timers') = n + d
        /\ \A k \in 1..(n + d) : timers'[k] = IF k = te + d THEN t ELSE list[k]
    BY <1>8, <2>2, <2>3, TimerChanged
  <2>5. d = 1 => 1 \in 1..(n + d)
    BY <1>4
  <2> QED
    BY <1>10, <2>4, <2>5 DEF t
<1>12. \A k \in 1..n :
         /\ timers'[k + d].at = timers[k].at
         /\ timers'[k + d].id =
              IF timers[k].at \in killed' THEN DELETED ELSE timers[k].at
         /\ k # te => timers'[k + d].when = timers[k].when
  <2>1. ASSUME NEW k \in 1..n, k # te
        PROVE  /\ timers'[k + d].at = timers[k].at
               /\ timers'[k + d].id =
                    IF timers[k].at \in killed' THEN DELETED ELSE timers[k].at
               /\ timers'[k + d].when = timers[k].when
    <3>1. timers[k].at # at
      BY <1>4, <1>5, <2>1
    <3>2. timers[k].at \in killed' <=> timers[k].at \in more
      BY <1>6, <3>1
    <3> QED
      BY <1>8, <1>11, <2>1, <3>2
  <2>2. /\ timers'[te + d].at = at
        /\ timers'[te + d].id = IF at \in killed' THEN DELETED ELSE at
    <3>1. /\ list[te + d] \in Timer /\ list[te + d].at = at
          /\ list[te + d].id = IF at \in more THEN DELETED ELSE at
      BY <1>5, <1>8, <1>10
    <3>2. /\ timers'[te + d].at = at
          /\ timers'[te + d].id = IF retval = NOMORE THEN DELETED ELSE list[te + d].id
      BY <1>7, <1>11, <3>1, AfterCallShape
    <3> QED
      BY <1>6, <3>1, <3>2
  <2> QED
    BY <2>1, <2>2
<1>13. ListedInv'
  <2>1. killed \subseteq killed' /\ killed' \subseteq 0..(nextId - 1)
    BY <1>6, <1>9
  <2> QED
    BY <1>1, <1>6, <1>8, <1>11, <1>12, <2>1, ListedKept DEF TimersInv, n
<1>14. ClockInv'
  BY <1>1 DEF TimersInv, ClockInv
<1>15. /\ \A k \in te..n :
            /\ timers[k].at \notin Items(called)
            /\ timers[k].at \in expected =>
                 timers[k].at <= maxId /\ timers[k].when <= clock
       /\ \A a \in expected : a \in Items(called) \/ a \in killed
                               \/ \E k \in te..n : timers[k].at = a
  BY <1>1 DEF TimersInv, WalkInv, AheadInv, n
<1>16. /\ called' \in Seq(Nat) /\ IsInjective(called')
       /\ Items(called') = Items(called) \cup {at}
       /\ \A i \in 1..Len(called') :
            called'[i] = at \/ \E j \in 1..Len(called) : called'[i] = called[j]
  <2>1. at \notin Items(called)
    BY <1>4, <1>5, <1>15
  <2> QED
    BY <1>1, <1>7, <1>9, <2>1, CalledOnce
<1>17. CalledInv'
  <2>1. at <= maxId
    <3>1. timers[te].id \in 0..maxId /\ timers[te].id # DELETED
      BY <1>1 DEF Callable, IsDue
    <3> QED
      BY <1>4, <1>5, <1>7, <3>1
  <2>2. \A i \in 1..Len(called') : called'[i] <= maxId
    BY <1>7, <1>16, <2>1
  <2>3. maxId < nextId'
    BY <1>4, <1>6, <1>7
  <2> QED
    BY <1>1, <1>7, <1>16, <2>2, <2>3 DEF TimersInv, WalkInv, CalledInv
<1>18. AheadInv'
  <2>1. te' \in 1..(Len(timers') + 1) /\ te'..Len(timers') = (te + d + 1)..(n + d)
    BY <1>4, <1>5, <1>6, <1>11
  <2>2. ASSUME NEW k \in (te + d + 1)..(n + d)
        PROVE  /\ timers'[k].at \notin Items(called')
               /\ timers'[k].at \in expected =>
                    timers'[k].at <= maxId /\ timers'[k].when <= clock
    <3>1. PICK i \in te..n : i + d = k /\ i \in 1..n /\ i # te
      <4>1. k - d \in te..n /\ (k - d) + d = k /\ k - d \in 1..n /\ k - d # te
        BY <1>4, <1>5
      <4> QED
        BY <4>1
    <3>2. timers'[k].at = timers[i].at /\ timers'[k].when = timers[i].when
      BY <1>12, <3>1
    <3>3. timers[i].at # at
      BY <1>4, <1>5, <3>1
    <3> QED
      BY <1>15, <1>16, <3>1, <3>2, <3>3
  <2>3. ASSUME NEW a \in expected
        PROVE  a \in Items(called') \/ a \in killed'
               \/ \E k \in (te + d + 1)..(n + d) : timers'[k].at = a
    <3>1. CASE a \in Items(called) \/ a \in killed
      BY <1>6, <1>9, <1>16, <3>1
    <3>2. ASSUME NEW k \in te..n, timers[k].at = a, k = te
          PROVE  a \in Items(called')
      BY <1>16, <3>2
    <3>3. ASSUME NEW k \in te..n, timers[k].at = a, k # te
          PROVE  \E j \in (te + d + 1)..(n + d) : timers'[j].at = a
      <4>1. k \in 1..n /\ k + d \in (te + d + 1)..(n + d)
        BY <1>4, <1>5, <3>3
      <4> QED
        BY <1>12, <3>3, <4>1
    <3> QED
      BY <1>15, <3>1, <3>2, <3>3
  <2> QED
    BY <1>1, <2>1, <2>2, <2>3 DEF AheadInv
<1> QED
  BY <1>13, <1>14, <1>17, <1>18 DEF TimersInv, WalkInv

LEMMA TimersStep == TimersInv /\ [TimeNext]_timeVars => TimersInv'
<1> SUFFICES ASSUME TimersInv, [TimeNext]_timeVars PROVE TimersInv'
  OBVIOUS
<1>1. ASSUME NEW delay \in Delay, CreateTimer(delay) PROVE TimersInv'
  BY <1>1, CreateTimerKeeps
<1>2. ASSUME NEW id \in Ids(timers), DeleteTimer(id) PROVE TimersInv'
  BY <1>2, DeleteTimerKeeps
<1>3. CASE BeginWait
  BY <1>3, BeginWaitKeeps
<1>4. CASE Elapse
  BY <1>4, ElapseKeeps
<1>5. CASE SetClockBack
  BY <1>5, SetClockBackKeeps
<1>6. CASE BeginWalk
  BY <1>6, BeginWalkKeeps
<1>7. CASE Unlink
  BY <1>7, UnlinkKeeps
<1>8. CASE PassOver
  BY <1>8, PassOverKeeps
<1>9. CASE Call
  BY <1>9, CallKeeps
<1>10. CASE EndWalk
  BY <1>10, EndWalkKeeps
<1>11. CASE UNCHANGED timeVars
  BY <1>11 DEF timeVars, TimersInv, ListedInv, ClockInv, WalkInv, CalledInv, AheadInv
<1> QED
  BY <1>1, <1>2, <1>3, <1>4, <1>5, <1>6, <1>7, <1>8, <1>9, <1>10, <1>11 DEF TimeNext

LEMMA TimersAreExact == TimersInv => TimersExact
<1> SUFFICES ASSUME TimersInv PROVE TimersExact
  OBVIOUS
<1>1. /\ timers \in Seq(Timer) /\ DOMAIN timers = 1..Len(timers)
      /\ Len(timers) \in Nat /\ nextId \in Nat
      /\ \A k \in 1..Len(timers) : timers[k].id # DELETED <=> timers[k].at \notin killed
  BY AtOnce DEF TimersInv
<1>2. tpc = "walk" /\ te > Len(timers) => expected \subseteq ToSet(called) \cup killed
  <2> SUFFICES ASSUME tpc = "walk", te > Len(timers), NEW a \in expected,
                      a \notin killed
               PROVE  a \in ToSet(called)
    OBVIOUS
  <2>1. te \in 1..(Len(timers) + 1)
        /\ (a \in Items(called) \/ \E k \in te..Len(timers) : timers[k].at = a)
    BY DEF TimersInv, WalkInv, AheadInv
  <2>2. te..Len(timers) = {}
    BY <1>1, <2>1
  <2>3. called \in Seq(Nat) /\ DOMAIN called = 1..Len(called)
    BY DEF TimersInv, WalkInv, CalledInv
  <2> QED
    BY <2>1, <2>2, <2>3 DEF Items, ToSet
<1>3. IsInjective(called) /\ \A k \in DOMAIN called : called[k] <= maxId
  <2>1. called \in Seq(Nat) /\ DOMAIN called = 1..Len(called)
    BY DEF TimersInv, WalkInv, CalledInv
  <2> QED
    BY <2>1 DEF TimersInv, WalkInv, CalledInv
<1>4. {timers[k].at : k \in DOMAIN timers} = 0..(nextId - 1) \ finalized
      /\ finalized \subseteq killed
  BY <1>1 DEF TimersInv, ListedInv
<1>5. tpc = "wait" => \A k \in DOMAIN timers :
        \/ timers[k].id = DELETED
        \/ timeout = 0
        \/ timeout # FOREVER /\ clock + timeout <= timers[k].when
  BY <1>1 DEF TimersInv, ClockInv
<1> QED
  BY <1>1, <1>2, <1>3, <1>4, <1>5 DEF TimersExact

\* Whatever delays timers are created with, whatever handlers create and delete
\* and whenever the clock is set back: a walk of processTimeEvents calls what was
\* due, once, and nothing created meanwhile; what is deleted is freed and only that;
\* and aeProcessEvents waits past no timer.
THEOREM TimersExactHolds == TimeSpec => []TimersExact
<1>1. TimeInit => TimersInv
  BY TimersStart
<1>2. TimersInv /\ [TimeNext]_timeVars => TimersInv'
  BY TimersStep
<1>3. TimersInv => TimersExact
  BY TimersAreExact
<1> QED
  BY <1>1, <1>2, <1>3, PTL DEF TimeSpec
------------------------------------------------------------------------------
(* The list of a hash table, in the order its items were added (uthash.h). *)

\* The records of a table, whatever they hold.
IsTable(t) ==
  t = [n |-> t.n, items |-> t.items, tail |-> t.tail, ideal |-> t.ideal,
       nonideal |-> t.nonideal, ineff |-> t.ineff, noexpand |-> t.noexpand]

\* The list of all items is order, from the head to the tail and back.
AppInv ==
  /\ order \in Seq(HashItem) /\ Distinct(order)
  /\ hhead = IF order = << >> THEN NIL ELSE order[1]
  /\ IsTable(tbl)
  /\ order # << >> => tbl.tail = order[Len(order)]
  /\ appNext \in [HashItem -> HashItem \cup {NIL}]
  /\ appPrev \in [HashItem -> HashItem \cup {NIL}]
  /\ \A j \in 1..Len(order) : /\ appNext[order[j]] = After(order, j)
                              /\ appPrev[order[j]] = Before(order, j)

Begins(s, t) == Len(s) <= Len(t) /\ \A j \in 1..Len(s) : s[j] = t[j]

\* An iteration is at the item after those it has visited.  It has taken its
\* next item too soon to meet what is added behind it, but not too soon to meet
\* what was there when it began.
IterInv ==
  LET v == Len(visited)
  IN  /\ ipc \in {"idle", "loop"}
      /\ visited \in Seq(HashItem) /\ istart \in Seq(HashItem)
      /\ ipc = "idle" => visited = << >>
      /\ ipc = "loop" =>
           /\ Begins(visited, order) /\ Begins(istart, order)
           /\ el = NIL => Len(istart) <= v
           /\ el # NIL => /\ v < Len(order) /\ el = order[v + 1]
                          /\ tmp = NIL => Len(istart) <= v + 1
                          /\ tmp # NIL => v + 1 < Len(order) /\ tmp = order[v + 2]

HashListInv == AppInv /\ IterInv

LEMMA NoNilItem == NIL \notin HashItem
  BY HashAssumption DEF NIL

LEMMA HashListStart == HashInit => HashListInv
<1> SUFFICES ASSUME HashInit PROVE HashListInv
  OBVIOUS
<1>1. order = << >> /\ visited = << >> /\ istart = << >> /\ ipc = "idle"
      /\ hhead = NIL /\ tbl = NoTable
      /\ appNext = [i \in HashItem |-> NIL] /\ appPrev = [i \in HashItem |-> NIL]
  BY DEF HashInit
<1>2. IsTable(tbl)
  BY <1>1 DEF IsTable, NoTable
<1>3. AppInv
  BY <1>1, <1>2 DEF AppInv, Distinct
<1>4. IterInv
  BY <1>1 DEF IterInv
<1> QED
  BY <1>3, <1>4 DEF HashListInv

\* HASH_APPEND_LIST.
LEMMA AppendKeeps ==
  ASSUME AppInv, NEW i \in HashItem, BeginAdd(i), IsTable(tbl'), tbl'.tail = i,
         appPrev' = [appPrev EXCEPT ![i] = IF hhead = NIL THEN NIL ELSE tbl.tail],
         hhead' = IF hhead = NIL THEN i ELSE hhead
  PROVE  AppInv' /\ Begins(order, order')
<1> DEFINE n == Len(order)
<1>1. order \in Seq(HashItem) /\ n \in Nat /\ Distinct(order)
      /\ \A j \in 1..n : order[j] \in HashItem
  BY DEF AppInv
<1>2. order' = Append(order, i) /\ i \notin Members
      /\ appNext' = [appNext EXCEPT ![i] = NIL,
                                    ![IF hhead = NIL THEN i ELSE tbl.tail] =
                                      IF hhead = NIL THEN NIL ELSE i]
  BY DEF BeginAdd
<1>3. \A j \in 1..n : order[j] # i
  BY <1>1, <1>2 DEF Members
<1>4. /\ order' \in Seq(HashItem) /\ Len(order') = n + 1 /\ order'[n + 1] = i
      /\ \A j \in 1..n : order'[j] = order[j]
  BY <1>1, <1>2
<1>5. hhead = NIL <=> n = 0
  <2>1. n # 0 => 1 \in 1..n
    BY <1>1
  <2>2. order = << >> <=> n = 0
    BY <1>1
  <2> QED
    BY <1>1, <2>1, <2>2, NoNilItem DEF AppInv
<1>6. n # 0 => n \in 1..n /\ tbl.tail = order[n] /\ tbl.tail \in HashItem
               /\ tbl.tail # i /\ hhead = order[1]
  <2>1. n # 0 => n \in 1..n
    BY <1>1
  <2>2. n # 0 => tbl.tail = order[n] /\ hhead = order[1]
    BY <1>1 DEF AppInv
  <2> QED
    BY <1>1, <1>3, <2>1, <2>2
<1>7. Distinct(order')
  <2>1. \A j \in 1..(n + 1) : j \in 1..n \/ j = n + 1
    BY <1>1
  <2> QED
    BY <1>1, <1>3, <1>4, <2>1 DEF Distinct
<1>8. hhead' = IF order' = << >> THEN NIL ELSE order'[1]
  <2>1. order' # << >>
    BY <1>1, <1>4
  <2>2. CASE n = 0
    BY <1>4, <1>5, <2>1, <2>2
  <2>3. CASE n # 0
    <3>1. 1 \in 1..n
      BY <1>1, <2>3
    <3> QED
      BY <1>4, <1>5, <1>6, <2>1, <2>3, <3>1
  <2> QED
    BY <2>2, <2>3
<1>9. /\ appNext' \in [HashItem -> HashItem \cup {NIL}]
      /\ appPrev' \in [HashItem -> HashItem \cup {NIL}]
  <2>1. appNext \in [HashItem -> HashItem \cup {NIL}]
        /\ appPrev \in [HashItem -> HashItem \cup {NIL}]
    BY DEF AppInv
  <2>2. (IF hhead = NIL THEN NIL ELSE tbl.tail) \in HashItem \cup {NIL}
    BY <1>5, <1>6
  <2> QED
    BY <1>2, <2>1, <2>2
<1>10. appNext'[i] = NIL
       /\ \A x \in HashItem : x # i =>
            appNext'[x] = IF n # 0 /\ x = tbl.tail THEN i ELSE appNext[x]
  <2>1. appNext \in [HashItem -> HashItem \cup {NIL}]
    BY DEF AppInv
  <2> QED
    BY <1>2, <1>5, <1>6, <2>1
<1>11. appPrev'[i] = (IF n = 0 THEN NIL ELSE order[n])
       /\ \A x \in HashItem : x # i => appPrev'[x] = appPrev[x]
  <2>1. appPrev \in [HashItem -> HashItem \cup {NIL}]
    BY DEF AppInv
  <2> QED
    BY <1>5, <1>6, <2>1
<1>12. ASSUME NEW j \in 1..(n + 1)
       PROVE  /\ appNext'[order'[j]] = After(order', j)
              /\ appPrev'[order'[j]] = Before(order', j)
  <2>1. CASE j = n + 1
    <3>1. n # 0 => n \in 1..n /\ order'[n] = order[n]
      BY <1>4, <1>6
    <3>2. (n + 1) - 1 = n /\ (n + 1 = 1 <=> n = 0)
      BY <1>1
    <3> QED
      BY <1>4, <1>10, <1>11, <2>1, <3>1, <3>2 DEF After, Before
  <2>2. CASE j \in 1..n
    <3>1. order'[j] = order[j] /\ order[j] # i /\ order[j] \in HashItem
          /\ j # n + 1 /\ n # 0
      BY <1>1, <1>3, <1>4, <2>2
    <3>2. appPrev'[order'[j]] = Before(order', j)
      <4>1. appPrev'[order[j]] = Before(order, j)
        BY <1>11, <2>2, <3>1 DEF AppInv
      <4>2. j # 1 => j - 1 \in 1..n
        BY <1>1, <2>2
      <4>3. Before(order', j) = Before(order, j)
        BY <1>4, <4>2 DEF Before
      <4> QED
        BY <3>1, <4>1, <4>3
    <3>3. CASE j = n
      <4>1. appNext'[order[j]] = i
        BY <1>6, <1>10, <3>1, <3>3
      <4>2. After(order', j) = i
        BY <1>4, <3>1, <3>3 DEF After
      <4> QED
        BY <3>1, <3>2, <4>1, <4>2
    <3>4. CASE j # n
      <4>1. order[j] # tbl.tail
        BY <1>1, <1>6, <2>2, <3>1, <3>4 DEF Distinct
      <4>2. appNext'[order[j]] = order[j + 1]
        BY <1>10, <2>2, <3>1, <3>4, <4>1 DEF AppInv, After
      <4>3. j + 1 \in 1..n
        BY <1>1, <2>2, <3>4
      <4>4. After(order', j) = order[j + 1]
        BY <1>4, <3>1, <4>3 DEF After
      <4> QED
        BY <3>1, <3>2, <4>2, <4>4
    <3> QED
      BY <3>3, <3>4
  <2> QED
    BY <1>1, <2>1, <2>2
<1>13. order' # << >> => tbl'.tail = order'[Len(order')]
  BY <1>4
<1>14. AppInv'
  BY <1>4, <1>7, <1>8, <1>9, <1>12, <1>13 DEF AppInv
<1>15. Begins(order, order')
  BY <1>1, <1>4 DEF Begins
<1> QED
  BY <1>14, <1>15

\* What goes on behind an iteration.
LEMMA IterationKept ==
  ASSUME AppInv, IterInv, order' \in Seq(HashItem), Begins(order, order'),
         UNCHANGED iterVars
  PROVE  IterInv'
<1>1. /\ visited \in Seq(HashItem) /\ istart \in Seq(HashItem)
      /\ order \in Seq(HashItem)
      /\ Len(visited) \in Nat /\ Len(istart) \in Nat /\ Len(order) \in Nat
      /\ Len(order') \in Nat /\ Len(order) <= Len(order')
      /\ \A j \in 1..Len(order) : order'[j] = order[j]
  BY DEF AppInv, IterInv, Begins
<1>2. \A s \in Seq(HashItem) : Begins(s, order) => Begins(s, order')
  <2>1. SUFFICES ASSUME NEW s \in Seq(HashItem), Begins(s, order)
                 PROVE  Begins(s, order')
    OBVIOUS
  <2>2. Len(s) \in Nat /\ Len(s) <= Len(order)
    BY <2>1 DEF Begins
  <2>3. \A j \in 1..Len(s) : j \in 1..Len(order)
    BY <1>1, <2>2
  <2> QED
    BY <1>1, <2>1, <2>2, <2>3 DEF Begins
<1>3. \A k \in Nat : k < Len(order) => k < Len(order') /\ k + 1 \in 1..Len(order)
  BY <1>1
<1>4. \A k \in Nat : k < Len(order) => order'[k + 1] = order[k + 1]
  BY <1>1, <1>3
<1>5. Len(visited) + 1 \in Nat /\ (Len(visited) + 1) + 1 = Len(visited) + 2
  BY <1>1
<1> QED
  BY <1>1, <1>2, <1>3, <1>4, <1>5 DEF IterInv, iterVars

\* What is left of order without the item at place k.
LEMMA WithoutShape ==
  ASSUME AppInv, NEW i \in Members
  PROVE  \E k \in 1..Len(order) :
           /\ order[k] = i /\ k = PlaceOf(i)
           /\ Without(i) \in Seq(HashItem) /\ Len(Without(i)) = Len(order) - 1
           /\ \A j \in 1..(Len(order) - 1) :
                Without(i)[j] = IF j < k THEN order[j] ELSE order[j + 1]
<1> DEFINE n == Len(order)
           k == PlaceOf(i)
           w == [j \in 1..(n - 1) |-> order[IF j < k THEN j ELSE j + 1]]
<1>1. order \in Seq(HashItem) /\ n \in Nat /\ DOMAIN order = 1..n
      /\ \A j \in 1..n : order[j] \in HashItem
  BY DEF AppInv
<1>2. \E j \in DOMAIN order : order[j] = i
  BY DEF Members
<1>3. k \in 1..n /\ order[k] = i
  BY <1>1, <1>2 DEF PlaceOf
<1>4. n - 1 \in Nat
  BY <1>1, <1>3
<1> HIDE DEF k
<1>5. \A j \in 1..(n - 1) : j \in 1..n /\ j + 1 \in 1..n
  BY <1>1
<1>6. w \in [1..(n - 1) -> HashItem]
  BY <1>1, <1>5
<1>7. w \in Seq(HashItem) /\ Len(w) = n - 1
  <2> HIDE DEF w, n
  <2>1. w \in Seq(HashItem)
    BY <1>4, <1>6
  <2>2. DOMAIN w = 1..(n - 1) /\ DOMAIN w = 1..Len(w)
    BY <1>6, <2>1
  <2>3. Len(w) \in Nat
    BY <2>1
  <2>4. \A p, q \in Nat : 1..p = 1..q => p = q
    <3>1. SUFFICES ASSUME NEW p \in Nat, NEW q \in Nat, 1..p = 1..q
                   PROVE  p = q
      OBVIOUS
    <3>2. (p < q => q \in 1..q /\ q \notin 1..p)
          /\ (q < p => p \in 1..p /\ p \notin 1..q)
      OBVIOUS
    <3> QED
      BY <3>1, <3>2
  <2>5. 1..(n - 1) = 1..Len(w)
    BY <2>2
  <2> QED
    BY <1>4, <2>1, <2>3, <2>4, <2>5
<1>8. Without(i) = w
  BY DEF Without, k
<1> QED
  BY <1>3, <1>7, <1>8 DEF k

LEMMA DeleteOneKeeps ==
  ASSUME AppInv, NEW i \in HashItem, DeleteOne(i)
  PROVE  AppInv'
<1>1. i \in Members
  BY DEF DeleteOne
<1>2. PICK k \in 1..Len(order) :
           /\ order[k] = i
           /\ Without(i) \in Seq(HashItem) /\ Len(Without(i)) = Len(order) - 1
           /\ \A j \in 1..(Len(order) - 1) :
                Without(i)[j] = IF j < k THEN order[j] ELSE order[j + 1]
  BY <1>1, WithoutShape
<1> DEFINE n == Len(order)
           prev == appPrev[i]
           next == appNext[i]
<1>3. /\ order \in Seq(HashItem) /\ n \in Nat /\ k \in Nat
      /\ \A j \in 1..n : order[j] \in HashItem /\ order[j] # NIL
      /\ \A j, m \in 1..n : order[j] = order[m] => j = m
  BY NoNilItem DEF AppInv, Distinct
<1>4. /\ \A j \in 1..n : /\ appNext[order[j]] = After(order, j)
                         /\ appPrev[order[j]] = Before(order, j)
      /\ appNext \in [HashItem -> HashItem \cup {NIL}]
      /\ appPrev \in [HashItem -> HashItem \cup {NIL}]
  BY DEF AppInv
<1>5. next = After(order, k) /\ prev = Before(order, k)
      /\ prev \in HashItem \cup {NIL} /\ next \in HashItem \cup {NIL}
  BY <1>2, <1>4
<1>6. /\ k = 1 => prev = NIL
      /\ k # 1 => k - 1 \in 1..n /\ prev = order[k - 1] /\ prev # NIL
      /\ k = n => next = NIL
      /\ k # n => k + 1 \in 1..n /\ next = order[k + 1] /\ next # NIL
  <2>1. (k # 1 => k - 1 \in 1..n) /\ (k # n => k + 1 \in 1..n)
    BY <1>3
  <2> QED
    BY <1>3, <1>5, <2>1 DEF After, Before
<1>7. n >= 2
  <2>1. prev # NIL \/ next # NIL
    BY DEF DeleteOne
  <2>2. k # 1 \/ k # n
    BY <1>6, <2>1
  <2> QED
    BY <1>3, <2>2
<1>8. /\ order' \in Seq(HashItem) /\ Len(order') = n - 1
      /\ \A j \in 1..(n - 1) :
           order'[j] = IF j < k THEN order[j] ELSE order[j + 1]
  BY <1>2 DEF DeleteOne
<1>9. \A x \in HashItem :
        /\ appNext'[x] = IF x = prev THEN next ELSE appNext[x]
        /\ appPrev'[x] = IF x = next THEN prev ELSE appPrev[x]
  BY <1>4, <1>5, NoNilItem DEF DeleteOne, Set
<1>10. /\ appNext' \in [HashItem -> HashItem \cup {NIL}]
       /\ appPrev' \in [HashItem -> HashItem \cup {NIL}]
  BY <1>4, <1>5 DEF DeleteOne, Set
<1>11. /\ hhead' = IF prev = NIL THEN next ELSE hhead
       /\ tbl' = [tbl EXCEPT !.items = @ - 1,
                             !.tail = IF @ = i THEN prev ELSE @]
  BY DEF DeleteOne
<1> HIDE DEF prev, next, n
<1>12. \A j \in 1..(n - 1) : j \in 1..n /\ j + 1 \in 1..n
  BY <1>3
<1>13. Distinct(order')
  <2>1. SUFFICES ASSUME NEW j \in 1..(n - 1), NEW m \in 1..(n - 1),
                        order'[j] = order'[m]
                 PROVE  j = m
    BY <1>8 DEF Distinct
  <2>2. /\ j \in 1..n /\ j + 1 \in 1..n /\ m \in 1..n /\ m + 1 \in 1..n
    BY <1>12
  <2>3. (IF j < k THEN j ELSE j + 1) = (IF m < k THEN m ELSE m + 1)
    BY <1>3, <1>8, <2>1, <2>2
  <2> QED
    BY <1>3, <2>1, <2>3
<1>14. order' # << >> /\ order # << >> /\ 1 \in 1..(n - 1) /\ n - 1 \in 1..(n - 1)
  BY <1>3, <1>7, <1>8 DEF n
<1>15. hhead' = order'[1]
  <2>1. hhead = order[1]
    BY <1>14 DEF AppInv
  <2>2. CASE k = 1
    <3>1. order'[1] = order[1 + 1] /\ k + 1 = 1 + 1 /\ k # n
      BY <1>3, <1>7, <1>8, <1>14, <2>2
    <3> QED
      BY <1>6, <1>11, <2>2, <3>1
  <2>3. CASE k # 1
    <3>1. 1 < k
      BY <1>3, <2>3
    <3> QED
      BY <1>6, <1>8, <1>11, <1>14, <2>1, <2>3, <3>1
  <2> QED
    BY <2>2, <2>3
<1>16. IsTable(tbl') /\ tbl'.tail = IF tbl.tail = i THEN prev ELSE tbl.tail
  BY <1>11 DEF IsTable, AppInv
<1>17. tbl'.tail = order'[n - 1]
  <2>1. tbl.tail = order[n] /\ n \in 1..n
    BY <1>3, <1>7, <1>14 DEF AppInv, n
  <2>2. CASE k = n
    <3>1. order'[n - 1] = order[k - 1] /\ k # 1
      BY <1>3, <1>7, <1>8, <1>14, <2>2
    <3>2. prev = order[k - 1]
      BY <1>6, <3>1
    <3>3. tbl'.tail = prev
      BY <1>2, <1>16, <2>1, <2>2
    <3> QED
      BY <3>1, <3>2, <3>3
  <2>3. CASE k # n
    <3>1. tbl.tail # i
      <4>1. k \in 1..n
        BY DEF n
      <4> QED
        BY <1>2, <1>3, <2>1, <2>3, <4>1
    <3>2. ~(n - 1 < k) /\ (n - 1) + 1 = n
      BY <1>2, <1>3, <2>3 DEF n
    <3> QED
      BY <1>8, <1>14, <1>16, <2>1, <3>1, <3>2
  <2> QED
    BY <2>2, <2>3
<1>18. ASSUME NEW j \in 1..(n - 1)
       PROVE  appNext'[order'[j]] = After(order', j)
  <2>1. CASE j < k /\ j # k - 1
    <3>1. j \in 1..n /\ j + 1 \in 1..(n - 1) /\ j + 1 < k /\ j # n /\ j # n - 1
          /\ j + 1 \in 1..n /\ k - 1 \in 1..n
      BY <1>2, <1>3, <2>1 DEF n
    <3>2. order[j] # prev
      BY <1>3, <1>6, <2>1, <3>1
    <3>3. appNext'[order[j]] = order[j + 1]
      BY <1>3, <1>4, <1>9, <3>1, <3>2 DEF After, n
    <3> QED
      BY <1>8, <2>1, <3>1, <3>3 DEF After
  <2>2. CASE j = k - 1
    <3>1. j \in 1..n /\ j < k /\ k # 1 /\ j + 1 = k
      BY <1>3, <2>2
    <3>2. order'[j] = prev /\ prev \in HashItem
      BY <1>3, <1>6, <1>8, <2>2, <3>1
    <3>3. appNext'[prev] = next
      BY <1>9, <3>2
    <3>4. CASE k = n
      BY <1>6, <1>8, <2>2, <3>2, <3>3, <3>4 DEF After
    <3>5. CASE k # n
      <4>1. k \in 1..(n - 1) /\ ~(k < k) /\ j # n - 1
        BY <1>2, <1>3, <3>1, <3>5 DEF n
      <4>2. order'[k] = order[k + 1]
        BY <1>8, <4>1
      <4> QED
        BY <1>6, <1>8, <3>1, <3>2, <3>3, <3>5, <4>1, <4>2 DEF After
    <3> QED
      BY <3>4, <3>5
  <2>3. CASE ~(j < k)
    <3>1. j + 1 \in 1..n /\ (j + 1 = n <=> j = n - 1) /\ j + 1 # k - 1
          /\ (j + 1) + 1 = j + 2
      BY <1>3, <2>3
    <3>2. order'[j] = order[j + 1] /\ order[j + 1] # prev
      BY <1>3, <1>6, <1>8, <2>3, <3>1
    <3>3. appNext'[order'[j]] = After(order, j + 1)
      BY <1>3, <1>4, <1>9, <3>1, <3>2
    <3>4. j # n - 1 => j + 1 \in 1..(n - 1) /\ ~(j + 1 < k)
      BY <1>3, <2>3
    <3>5. j # n - 1 => order'[j + 1] = order[j + 2]
      BY <1>8, <3>1, <3>4
    <3> QED
      BY <1>8, <3>1, <3>3, <3>5 DEF After, n
  <2> QED
    BY <2>1, <2>2, <2>3
<1>19. ASSUME NEW j \in 1..(n - 1)
       PROVE  appPrev'[order'[j]] = Before(order', j)
  <2>1. CASE j < k
    <3>1. j \in 1..n /\ j # k + 1 /\ (j # 1 => j - 1 \in 1..(n - 1) /\ j - 1 < k)
      BY <1>3, <2>1
    <3>2. order'[j] = order[j] /\ order[j] # next
      BY <1>3, <1>6, <1>8, <2>1, <3>1
    <3>3. appPrev'[order[j]] = Before(order, j)
      BY <1>3, <1>4, <1>9, <3>1, <3>2
    <3>4. j # 1 => order'[j - 1] = order[j - 1]
      BY <1>8, <3>1
    <3> QED
      BY <3>2, <3>3, <3>4 DEF Before
  <2>2. CASE j = k
    <3>1. ~(j < k) /\ k # n /\ j + 1 = k + 1
      BY <1>3, <2>2
    <3>2. order'[j] = next /\ next \in HashItem
      BY <1>3, <1>6, <1>8, <3>1
    <3>3. appPrev'[next] = prev
      BY <1>9, <3>2
    <3>4. k # 1 => k - 1 \in 1..(n - 1) /\ k - 1 < k
      BY <1>3, <2>2
    <3>5. k # 1 => order'[k - 1] = order[k - 1]
      BY <1>8, <3>4
    <3> QED
      BY <1>6, <2>2, <3>2, <3>3, <3>5 DEF Before
  <2>3. CASE j > k
    <3>1. /\ ~(j < k) /\ j + 1 \in 1..n /\ j + 1 # k + 1 /\ j + 1 # 1 /\ j # 1
          /\ j - 1 \in 1..(n - 1) /\ ~(j - 1 < k) /\ (j - 1) + 1 = j
          /\ (j + 1) - 1 = j
      BY <1>3, <2>3
    <3>2. order'[j] = order[j + 1] /\ order[j + 1] # next
      BY <1>3, <1>6, <1>8, <3>1
    <3>3. appPrev'[order'[j]] = Before(order, j + 1)
      BY <1>3, <1>4, <1>9, <3>1, <3>2
    <3>4. order'[j - 1] = order[j]
      BY <1>8, <3>1
    <3> QED
      BY <3>1, <3>3, <3>4 DEF Before
  <2> QED
    BY <1>3, <2>1, <2>2, <2>3
<1> QED
  BY <1>8, <1>10, <1>13, <1>14, <1>15, <1>16, <1>17, <1>18, <1>19 DEF AppInv

LEMMA DeleteOnlyKeeps ==
  ASSUME AppInv, NEW i \in HashItem, DeleteOnly(i)
  PROVE  AppInv'
<1>1. hhead = i /\ appNext[i] = NIL /\ i # NIL
  BY NoNilItem DEF DeleteOnly
<1>2. order \in Seq(HashItem) /\ order # << >> /\ order[1] = i
      /\ Len(order) \in Nat \ {0}
  BY <1>1 DEF AppInv
<1>3. 1 \in 1..Len(order)
  BY <1>2
<1>4. After(order, 1) = NIL
  BY <1>1, <1>2, <1>3 DEF AppInv
<1>5. Len(order) = 1
  <2>1. Len(order) # 1 => 1 + 1 \in 1..Len(order)
    <3>1. \A m \in Nat \ {0} : m # 1 => 1 + 1 \in 1..m
      OBVIOUS
    <3> QED
      BY <1>2, <3>1
  <2>2. Len(order) # 1 => order[1 + 1] \in HashItem
    BY <1>2, <2>1
  <2>3. Len(order) # 1 => 1 # Len(order)
    BY <1>2
  <2>4. Len(order) # 1 => order[1 + 1] = NIL
    BY <1>4, <2>3 DEF After
  <2> QED
    BY <2>2, <2>4, NoNilItem
<1>6. i \in Members
  BY <1>2, <1>3 DEF Members
<1>7. Without(i) \in Seq(HashItem) /\ Len(Without(i)) = 0
  BY <1>5, <1>6, WithoutShape
<1>8. order' = << >> /\ hhead' = NIL /\ tbl' = NoTable
      /\ UNCHANGED << appNext, appPrev >>
  BY <1>7 DEF DeleteOnly
<1>9. IsTable(tbl')
  BY <1>8 DEF IsTable, NoTable
<1> QED
  BY <1>8, <1>9 DEF AppInv, Distinct

LEMMA IterateKeeps ==
  ASSUME AppInv, IterInv, UNCHANGED hashVars,
         IterBegin \/ IterNext \/ IterEnd
  PROVE  IterInv'
<1> DEFINE v == Len(visited)
           n == Len(order)
<1>1. /\ order \in Seq(HashItem) /\ n \in Nat /\ order' = order
      /\ \A j \in 1..n : order[j] \in HashItem /\ order[j] # NIL
      /\ \A j \in 1..n : appNext[order[j]] = After(order, j)
  BY NoNilItem DEF AppInv, hashVars
<1>2. /\ visited \in Seq(HashItem) /\ istart \in Seq(HashItem)
      /\ v \in Nat /\ Len(istart) \in Nat
  BY DEF IterInv
<1>3. Begins(order, order) /\ Begins(<< >>, order)
  BY <1>1 DEF Begins
<1>4. CASE IterBegin
  <2>1. /\ ipc = "idle" /\ ipc' = "loop" /\ el' = hhead
        /\ tmp' = appNext[hhead] /\ istart' = order /\ visited' = visited
        /\ hhead # NIL
    BY <1>4 DEF IterBegin
  <2>2. visited = << >>
    BY <2>1 DEF IterInv
  <2>3. n # 0 /\ hhead = order[1] /\ 1 \in 1..n
    <3>1. order # << >> /\ hhead = order[1]
      BY <2>1 DEF AppInv
    <3> QED
      BY <1>1, <3>1
  <2>4. tmp' = After(order, 1)
    BY <1>1, <2>1, <2>3
  <2>5. /\ tmp' = NIL => n <= 0 + 1
        /\ tmp' # NIL => 0 + 1 < n /\ tmp' = order[0 + 2]
    <3>1. CASE n = 1
      BY <2>4, <3>1 DEF After
    <3>2. CASE n # 1
      <4>1. 0 + 1 < n /\ 2 \in 1..n /\ 1 + 1 = 0 + 2 /\ 1 + 1 = 2
        <5>1. \A m \in Nat : m # 0 /\ m # 1 =>
                0 + 1 < m /\ 2 \in 1..m /\ 1 + 1 = 0 + 2 /\ 1 + 1 = 2
          OBVIOUS
        <5> HIDE DEF n
        <5> QED
          BY <1>1, <2>3, <3>2, <5>1
      <4>2. tmp' = order[1 + 1]
        BY <2>4, <3>2 DEF After
      <4>3. tmp' = order[2] /\ tmp' # NIL
        BY <1>1, <4>1, <4>2
      <4> QED
        BY <4>1, <4>3
    <3> QED
      BY <3>1, <3>2
  <2>6. visited' = << >> /\ Len(<< >>) = 0 /\ 0 < n /\ el' = order[0 + 1]
        /\ el' # NIL
    BY <1>1, <2>1, <2>2, <2>3
  <2> HIDE DEF n
  <2> QED
    BY <1>1, <1>3, <2>1, <2>5, <2>6 DEF IterInv, n
<1>5. CASE IterNext
  <2>1. /\ ipc = "loop" /\ el # NIL /\ visited' = Append(visited, el)
        /\ el' = tmp /\ tmp' = (IF tmp = NIL THEN NIL ELSE appNext[tmp])
        /\ ipc' = ipc /\ istart' = istart
    BY <1>5 DEF IterNext
  <2>2. /\ Begins(visited, order) /\ Begins(istart, order)
        /\ v < n /\ el = order[v + 1]
        /\ tmp = NIL => Len(istart) <= v + 1
        /\ tmp # NIL => v + 1 < n /\ tmp = order[v + 2]
    BY <2>1 DEF IterInv
  <2>3. v + 1 \in 1..n /\ el \in HashItem
    BY <1>1, <1>2, <2>2
  <2>4. /\ visited' \in Seq(HashItem) /\ Len(visited') = v + 1
        /\ visited'[v + 1] = el /\ \A j \in 1..v : visited'[j] = visited[j]
    BY <1>2, <2>1, <2>3
  <2>5. Begins(visited', order')
    <3>1. \A j \in 1..(v + 1) : j \in 1..v \/ j = v + 1
      BY <1>2
    <3>2. v + 1 <= n
      BY <2>3
    <3> QED
      BY <1>1, <2>2, <2>4, <3>1, <3>2 DEF Begins
  <2>6. ASSUME tmp # NIL
        PROVE  /\ tmp' = NIL => Len(istart) <= (v + 1) + 1
               /\ tmp' # NIL => (v + 1) + 1 < n /\ tmp' = order[(v + 1) + 2]
               /\ v + 1 < n /\ tmp = order[(v + 1) + 1]
    <3>1. v + 2 \in 1..n /\ (v + 1) + 1 = v + 2 /\ (v + 1) + 2 = (v + 2) + 1
          /\ v + 1 < n
      BY <1>1, <1>2, <2>2, <2>6
    <3>2. tmp' = After(order, v + 2) /\ tmp = order[v + 2]
      BY <1>1, <2>1, <2>2, <2>6, <3>1
    <3>3. CASE v + 2 = n
      <4>1. tmp' = NIL
        BY <3>2, <3>3 DEF After
      <4>2. Len(istart) <= n
        BY <2>2 DEF Begins
      <4> QED
        BY <3>1, <3>2, <3>3, <4>1, <4>2
    <3>4. CASE v + 2 # n
      <4>1. (v + 2) + 1 \in 1..n /\ v + 2 < n
        BY <1>1, <1>2, <3>1, <3>4
      <4>2. tmp' = order[(v + 2) + 1]
        BY <3>2, <3>4 DEF After
      <4> QED
        BY <1>1, <3>1, <3>2, <4>1, <4>2
    <3> QED
      BY <3>3, <3>4
  <2> HIDE DEF v, n
  <2>7. CASE tmp = NIL
    <3>1. ipc' = "loop" /\ el' = NIL /\ Len(istart') <= Len(visited')
      BY <2>1, <2>2, <2>4, <2>7
    <3> QED
      BY <1>1, <1>2, <2>1, <2>2, <2>4, <2>5, <3>1 DEF IterInv
  <2>8. CASE tmp # NIL
    BY <1>1, <1>2, <2>1, <2>2, <2>4, <2>5, <2>6, <2>8 DEF IterInv, n
  <2> QED
    BY <2>7, <2>8
<1>6. CASE IterEnd
  BY <1>6 DEF IterEnd, IterInv
<1> QED
  BY <1>4, <1>5, <1>6

\* What the other steps leave as it is.
LEMMA ListUntouched ==
  ASSUME HashListInv, UNCHANGED << hhead, order, appNext, appPrev, iterVars >>,
         IsTable(tbl'), tbl'.tail = tbl.tail
  PROVE  HashListInv'
<1>1. AppInv'
  BY DEF HashListInv, AppInv, Distinct, After, Before
<1>2. IterInv'
  BY DEF HashListInv, IterInv, iterVars, Begins
<1> QED
  BY <1>1, <1>2 DEF HashListInv

LEMMA HashListStep ==
  ASSUME HashListInv, [HashNext]_<< hashVars, findVars, iterVars >>
  PROVE  HashListInv'
<1>1. AppInv /\ IterInv /\ IsTable(tbl)
  BY DEF HashListInv, AppInv
<1>2. ASSUME tbl' = tbl, UNCHANGED << hhead, order, appNext, appPrev, iterVars >>
      PROVE  HashListInv'
  BY <1>1, <1>2, ListUntouched
<1>3. CASE UNCHANGED << hashVars, findVars, iterVars >>
  BY <1>2, <1>3 DEF hashVars
<1>4. ASSUME NEW i \in HashItem, AddFirst(i) \/ AddAppend(i)
      PROVE  HashListInv'
  <2>1. AppInv' /\ Begins(order, order') /\ UNCHANGED iterVars
    <3>1. CASE AddFirst(i)
      <4>1. tbl' = [NoTable EXCEPT !.tail = i] /\ hhead = NIL
        BY <3>1 DEF AddFirst
      <4>2. IsTable(tbl') /\ tbl'.tail = i
        BY <4>1 DEF IsTable, NoTable
      <4> QED
        BY <1>1, <3>1, <4>1, <4>2, AppendKeeps DEF AddFirst
    <3>2. CASE AddAppend(i)
      <4>1. tbl' = [tbl EXCEPT !.tail = i] /\ hhead # NIL
        BY <3>2 DEF AddAppend
      <4>2. IsTable(tbl') /\ tbl'.tail = i
        BY <1>1, <4>1 DEF IsTable
      <4> QED
        BY <1>1, <3>2, <4>1, <4>2, AppendKeeps DEF AddAppend
    <3> QED
      BY <1>4, <3>1, <3>2
  <2>2. order' \in Seq(HashItem)
    BY <2>1 DEF AppInv
  <2> QED
    BY <1>1, <2>1, <2>2, IterationKept DEF HashListInv
<1>5. ASSUME NEW i \in HashItem, DeleteOnly(i) \/ DeleteOne(i)
      PROVE  HashListInv'
  <2>1. AppInv'
    BY <1>1, <1>5, DeleteOnlyKeeps, DeleteOneKeeps
  <2>2. ipc = "idle" /\ UNCHANGED iterVars
    BY <1>5 DEF DeleteOnly, DeleteOne, Idle
  <2>3. IterInv'
    BY <1>1, <2>2 DEF IterInv, iterVars
  <2> QED
    BY <2>1, <2>3 DEF HashListInv
<1>6. ASSUME NEW i \in HashItem, FindBegin(i)
      PROVE  HashListInv'
  BY <1>2, <1>6 DEF FindBegin, Unwritten, hashVars
<1>7. CASE FindBucket \/ FindWalk \/ FindReturn
  BY <1>2, <1>7 DEF FindBucket, FindWalk, FindReturn, Unwritten, hashVars
<1>8. CASE AddToBucket \/ ExpandBegin \/ ExpandMove \/ ExpandResize \/ ExpandPublish
  <2>1. IsTable(tbl') /\ tbl'.tail = tbl.tail
    <3>1. CASE AddToBucket
      BY <1>1, <3>1 DEF AddToBucket, IsTable
    <3>2. CASE ExpandBegin
      BY <1>1, <3>2 DEF ExpandBegin, IsTable
    <3>3. CASE ExpandMove
      BY <1>1, <3>3 DEF ExpandMove, IsTable
    <3>4. CASE ExpandResize
      BY <1>1, <3>4 DEF ExpandResize, IsTable
    <3>5. CASE ExpandPublish
      BY <1>1, <3>5 DEF ExpandPublish, IsTable
    <3> QED
      BY <1>8, <3>1, <3>2, <3>3, <3>4, <3>5
  <2>2. UNCHANGED << hhead, order, appNext, appPrev, iterVars >>
    BY <1>8 DEF AddToBucket, ExpandBegin, ExpandMove, ExpandResize, ExpandPublish
  <2> QED
    BY <2>1, <2>2, ListUntouched
<1>9. CASE ExpandFree
  BY <1>2, <1>9 DEF ExpandFree
<1>10. CASE IterBegin \/ IterNext \/ IterEnd
  <2>1. UNCHANGED hashVars
    BY <1>10 DEF IterBegin, IterNext, IterEnd
  <2>2. IterInv'
    BY <1>1, <1>10, <2>1, IterateKeeps
  <2>3. AppInv'
    BY <1>1, <2>1 DEF hashVars, AppInv, Distinct, After, Before, IsTable
  <2> QED
    BY <2>2, <2>3 DEF HashListInv
<1> QED
  BY <1>3, <1>4, <1>5, <1>6, <1>7, <1>8, <1>9, <1>10 DEF HashNext

\* A sequence that begins another is a prefix of it.
LEMMA BeginsIsPrefix ==
  ASSUME NEW s \in Seq(HashItem), NEW t \in Seq(HashItem), Begins(s, t)
  PROVE  IsPrefixOf(s, t)
<1>1. Len(s) \in Nat /\ Len(t) \in Nat /\ Len(s) <= Len(t)
      /\ \A j \in 1..Len(s) : s[j] = t[j]
  BY DEF Begins
<1>2. /\ SubSeq(t, 1, Len(s)) \in Seq(HashItem)
      /\ Len(SubSeq(t, 1, Len(s))) = Len(s)
      /\ \A j \in 1..Len(s) : SubSeq(t, 1, Len(s))[j] = t[j]
  BY <1>1, SubSeqProperties
<1>3. SubSeq(t, 1, Len(s)) = s
  BY <1>1, <1>2, SeqEqual
<1> QED
  BY <1>1, <1>3 DEF IsPrefixOf

\* An iteration over a table that another thread adds to meets every item that
\* was there when it began, in the order they were added, whatever the expansions
\* do to the chains (HASH_ITER of uthash.h, in segment.c:120).
THEOREM IterationCompleteHolds == HashSpec => []IterationComplete
<1>1. HashInit => HashListInv
  BY HashListStart
<1>2. HashListInv /\ [HashNext]_<< hashVars, findVars, iterVars >> => HashListInv'
  BY HashListStep
<1>3. HashListInv => IterationComplete
  <2>1. SUFFICES ASSUME HashListInv, ipc = "loop"
                 PROVE  /\ IsPrefixOf(visited, order)
                        /\ el = NIL => IsPrefixOf(istart, visited)
    BY DEF IterationComplete
  <2>2. /\ visited \in Seq(HashItem) /\ istart \in Seq(HashItem)
        /\ order \in Seq(HashItem)
        /\ Begins(visited, order) /\ Begins(istart, order)
        /\ el = NIL => Len(istart) <= Len(visited)
    BY <2>1 DEF HashListInv, AppInv, IterInv
  <2>3. el = NIL => Begins(istart, visited)
    <3>1. Len(istart) \in Nat /\ Len(visited) \in Nat
      BY <2>2
    <3>2. Len(istart) <= Len(visited) =>
            \A j \in 1..Len(istart) : j \in 1..Len(visited)
      BY <3>1
    <3> QED
      BY <2>2, <3>2 DEF Begins
  <2> QED
    BY <2>2, <2>3, BeginsIsPrefix
<1> QED
  BY <1>1, <1>2, <1>3, PTL DEF HashSpec

-----------------------------------------------------------------------------
(* What is met in a hash table.                                            *)

Entry == HashItem \cup {NIL}
Most == Cardinality(HashItem)

\* A sequence of distinct items is no longer than there are items.
LEMMA NoMoreThanItems ==
  ASSUME NEW s \in Seq(HashItem), Distinct(s)
  PROVE  Most \in Nat /\ Len(s) <= Most
<1>1. IsFiniteSet(HashItem) /\ Items(s) \subseteq HashItem
  BY HashAssumption DEF Items
<1>2. Cardinality(Items(s)) = Len(s)
  BY LengthIsSize
<1>3. Cardinality(Items(s)) <= Cardinality(HashItem) /\ Cardinality(HashItem) \in Nat
  BY <1>1, FS_Subset, FS_CardinalityType
<1> QED
  BY <1>2, <1>3 DEF Most

\* What is met from the first of a list on is the list.
LEMMA MetIsList ==
  ASSUME NEW s \in Seq(HashItem), Distinct(s), NEW link \in [HashItem -> Entry],
         \A j \in 1..Len(s) : link[s[j]] = After(s, j)
  PROVE  Met(FirstOf(s), link) = s
<1> DEFINE f == CHOOSE g : IsWalk(g, Most, HashItem, link)
<1>1. Most \in Nat /\ Len(s) <= Most
  BY NoMoreThanItems
<1>2. link \in [HashItem -> HashItem \cup {NIL}]
  BY DEF Entry
<1>3. \E g : IsWalk(g, Most, HashItem, link)
  BY <1>1, <1>2, WalkExists
<1>4. IsWalk(f, Most, HashItem, link)
  BY <1>3
<1>5. Met(FirstOf(s), link) = f[Most][FirstOf(s)]
  BY DEF Met, IsWalk, Most
<1> HIDE DEF f
<1>6. f[Most][FirstOf(s)] = s
  BY <1>1, <1>2, <1>4, NoNilItem, WalkIsList
<1> QED
  BY <1>5, <1>6
-----------------------------------------------------------------------------
(* Lists of items linked both ways.                                        *)

Chained(s, next, prev) ==
  /\ Distinct(s)
  /\ \A j \in 1..Len(s) : next[s[j]] = After(s, j) /\ prev[s[j]] = Before(s, j)

Pointers == [HashItem -> Entry]

\* What is changed elsewhere does not matter to a list.
LEMMA ChainedKept ==
  ASSUME NEW s, NEW next, NEW prev, NEW next2, NEW prev2, Chained(s, next, prev),
         \A x \in Items(s) : next2[x] = next[x] /\ prev2[x] = prev[x]
  PROVE  Chained(s, next2, prev2)
  BY DEF Chained, Items

LEMMA ListPushed ==
  ASSUME NEW s \in Seq(HashItem), NEW next \in Pointers, NEW prev \in Pointers,
         Chained(s, next, prev), NEW i \in HashItem, i \notin Items(s),
         NEW next2 \in Pointers, NEW prev2 \in Pointers,
         next2[i] = FirstOf(s), prev2[i] = NIL,
         \A x \in Items(s) : /\ next2[x] = next[x]
                             /\ prev2[x] = IF x = FirstOf(s) THEN i ELSE prev[x]
  PROVE  /\ << i >> \o s \in Seq(HashItem) /\ Chained(<< i >> \o s, next2, prev2)
         /\ Items(<< i >> \o s) = Items(s) \cup {i}
         /\ Len(<< i >> \o s) = Len(s) + 1 /\ FirstOf(<< i >> \o s) = i
<1> DEFINE n == Len(s)
           w == << i >> \o s
<1>1. /\ n \in Nat /\ \A j \in 1..n : s[j] \in HashItem /\ s[j] \in Items(s)
      /\ \A j, k \in 1..n : s[j] = s[k] => j = k
      /\ s = << >> <=> n = 0
  BY DEF Items, Chained, Distinct
<1>2. /\ w \in Seq(HashItem) /\ Len(w) = 1 + n
      /\ \A k \in 1..(1 + n) : w[k] = IF k <= 1 THEN << i >>[k] ELSE s[k - 1]
  <2>1. << i >> \in Seq(HashItem) /\ Len(<< i >>) = 1
    OBVIOUS
  <2> QED
    BY <2>1, ConcatProperties
<1> HIDE DEF w, n
<1>3. /\ w[1] = i /\ Len(w) = n + 1
      /\ \A k \in 1..n : w[k + 1] = s[k]
      /\ \A k \in 1..(n + 1) : k = 1 \/ \E j \in 1..n : k = j + 1
  <2>1. w[1] = i /\ Len(w) = n + 1
    BY <1>1, <1>2
  <2>2. ASSUME NEW k \in 1..n PROVE w[k + 1] = s[k]
    <3>1. k + 1 \in 1..(1 + n) /\ ~(k + 1 <= 1) /\ (k + 1) - 1 = k
      BY <1>1
    <3> QED
      BY <1>2, <3>1
  <2>3. ASSUME NEW k \in 1..(n + 1), k # 1 PROVE \E j \in 1..n : k = j + 1
    <3>1. k - 1 \in 1..n /\ k = (k - 1) + 1
      BY <1>1, <2>3
    <3> QED
      BY <3>1
  <2> QED
    BY <2>1, <2>2, <2>3
<1>4. Distinct(w)
  <2>1. SUFFICES ASSUME NEW j \in 1..(n + 1), NEW k \in 1..(n + 1), w[j] = w[k]
                 PROVE  j = k
    BY <1>3 DEF Distinct
  <2>2. \A x \in 1..(n + 1) : \/ x = 1 /\ w[x] = i
                              \/ \E y \in 1..n : x = y + 1 /\ w[x] = s[y]
    BY <1>3
  <2>3. CASE w[j] = i
    <3>1. \A y \in 1..n : s[y] # i
      BY <1>1
    <3> QED
      BY <2>1, <2>2, <2>3, <3>1
  <2>4. CASE w[j] # i
    <3>1. PICK l \in 1..n : j = l + 1 /\ w[j] = s[l]
      BY <2>2, <2>4
    <3>2. PICK m \in 1..n : k = m + 1 /\ w[k] = s[m]
      BY <2>1, <2>2, <2>4
    <3>3. l = m
      BY <1>1, <2>1, <3>1, <3>2
    <3> QED
      BY <3>1, <3>2, <3>3
  <2> QED
    BY <2>3, <2>4
<1>5. FirstOf(s) = IF n = 0 THEN NIL ELSE s[1]
  BY <1>1 DEF FirstOf
<1>6. next2[w[1]] = After(w, 1) /\ prev2[w[1]] = Before(w, 1)
  <2>1. CASE n = 0
    BY <1>3, <1>5, <2>1 DEF After, Before
  <2>2. CASE n # 0
    <3>1. 1 \in 1..n /\ 1 # n + 1
      BY <1>1, <2>2
    <3>2. After(w, 1) = s[1]
      BY <1>3, <3>1 DEF After
    <3> QED
      BY <1>3, <1>5, <2>2, <3>2 DEF Before
  <2> QED
    BY <2>1, <2>2
<1>7. ASSUME NEW k \in 1..n
      PROVE  next2[w[k + 1]] = After(w, k + 1) /\ prev2[w[k + 1]] = Before(w, k + 1)
  <2>1. /\ next2[s[k]] = After(s, k)
        /\ prev2[s[k]] = IF s[k] = FirstOf(s) THEN i ELSE Before(s, k)
    BY <1>1 DEF Chained, n
  <2>2. After(w, k + 1) = After(s, k)
    <3>1. (k + 1 = n + 1 <=> k = n) /\ (k # n => k + 1 \in 1..n)
      BY <1>1
    <3> QED
      BY <1>3, <3>1 DEF After, n
  <2>3. Before(w, k + 1) = IF k = 1 THEN i ELSE s[k - 1]
    <3>1. k + 1 # 1 /\ (k + 1) - 1 = k
      BY <1>1
    <3>2. Before(w, k + 1) = w[k]
      BY <3>1 DEF Before
    <3>3. CASE k = 1
      BY <1>3, <3>2, <3>3
    <3>4. CASE k # 1
      <4>1. k - 1 \in 1..n /\ (k - 1) + 1 = k
        BY <1>1, <3>4
      <4>2. w[(k - 1) + 1] = s[k - 1]
        BY <1>3, <4>1
      <4> QED
        BY <3>2, <3>4, <4>1, <4>2
    <3> QED
      BY <3>3, <3>4
  <2>4. s[k] = FirstOf(s) <=> k = 1
    <3>1. n # 0 /\ 1 \in 1..n
      BY <1>1
    <3> QED
      BY <1>1, <1>5, <3>1
  <2> QED
    BY <1>3, <2>1, <2>2, <2>3, <2>4 DEF Before
<1>8. Chained(w, next2, prev2)
  <2>1. ASSUME NEW k \in 1..(n + 1)
        PROVE  next2[w[k]] = After(w, k) /\ prev2[w[k]] = Before(w, k)
    BY <1>3, <1>6, <1>7
  <2> QED
    BY <1>3, <1>4, <2>1 DEF Chained
<1>9. Items(w) = Items(s) \cup {i}
  <2>1. 1 \in 1..(n + 1) /\ \A k \in 1..n : k + 1 \in 1..(n + 1)
    BY <1>1
  <2>2. Items(w) = {w[k] : k \in 1..(n + 1)} /\ Items(s) = {s[k] : k \in 1..n}
    BY <1>3 DEF Items, n
  <2>3. \A x \in Items(w) : x \in Items(s) \cup {i}
    BY <1>3, <2>2
  <2>4. \A x \in Items(s) : x \in Items(w)
    BY <1>3, <2>1, <2>2
  <2>5. i \in Items(w)
    BY <1>3, <2>1, <2>2
  <2> QED
    BY <2>3, <2>4, <2>5
<1>10. FirstOf(w) = i
  <2>1. w # << >>
    BY <1>1, <1>3
  <2> QED
    BY <1>3, <2>1 DEF FirstOf
<1> QED
  BY <1>2, <1>3, <1>8, <1>9, <1>10 DEF w, n

\* The neighbours of the element at place k are linked to each other.
Unlinked(s, k, next, prev, next2, prev2) ==
  \A x \in Items(s) :
    /\ next2[x] = IF x = prev[s[k]] THEN next[s[k]] ELSE next[x]
    /\ prev2[x] = IF x = next[s[k]] THEN prev[s[k]] ELSE prev[x]

\* A list without the element at place k.
LEMMA ListShortened ==
  ASSUME NEW s \in Seq(HashItem), NEW next \in Pointers, NEW prev \in Pointers,
         Chained(s, next, prev), NEW k \in 1..Len(s),
         NEW w \in Seq(HashItem), TakenOut(s, k, w),
         NEW next2 \in Pointers, NEW prev2 \in Pointers,
         Unlinked(s, k, next, prev, next2, prev2)
  PROVE  /\ Chained(w, next2, prev2)
         /\ Items(w) = Items(s) \ {s[k]}
         /\ FirstOf(w) = IF FirstOf(s) = s[k] THEN next[s[k]] ELSE FirstOf(s)
<1> DEFINE n == Len(s)
           left == prev[s[k]]
           right == next[s[k]]
<1>1. /\ n \in Nat /\ k \in 1..n /\ Len(w) = n - 1
      /\ \A j \in 1..n : s[j] \in HashItem /\ s[j] \in Items(s) /\ s[j] # NIL
      /\ \A i, j \in 1..n : s[i] = s[j] => i = j
      /\ \A x \in Items(s) : \E j \in 1..n : x = s[j]
  BY NoNilItem DEF Items, Chained, Distinct, TakenOut
<1>2. left = Before(s, k) /\ right = After(s, k)
  BY DEF Chained
<1> HIDE DEF left, right
<1>3. /\ \A j \in 1..n : /\ next2[s[j]] = IF s[j] = left THEN right ELSE After(s, j)
                         /\ prev2[s[j]] = IF s[j] = right THEN left ELSE Before(s, j)
  BY <1>1 DEF Chained, left, right, Unlinked
<1>4. /\ k = 1 => left = NIL
      /\ k # 1 => k - 1 \in 1..n /\ left = s[k - 1]
      /\ k = n => right = NIL
      /\ k # n => k + 1 \in 1..n /\ right = s[k + 1]
  BY <1>1, <1>2 DEF After, Before
<1>5. \A j \in 1..n : /\ s[j] = left <=> j = k - 1
                      /\ s[j] = right <=> j = k + 1
  <2> SUFFICES ASSUME NEW j \in 1..n
               PROVE  (s[j] = left <=> j = k - 1) /\ (s[j] = right <=> j = k + 1)
    OBVIOUS
  <2>1. s[j] = left <=> j = k - 1
    <3>1. CASE k = 1
      <4>1. j # k - 1
        BY <3>1
      <4> QED
        BY <1>1, <1>4, <3>1, <4>1
    <3>2. CASE k # 1
      BY <1>1, <1>4, <3>2
    <3> QED
      BY <3>1, <3>2
  <2>2. s[j] = right <=> j = k + 1
    <3>1. CASE k = n
      <4>1. j # k + 1
        BY <1>1, <3>1
      <4> QED
        BY <1>1, <1>4, <3>1, <4>1
    <3>2. CASE k # n
      BY <1>1, <1>4, <3>2
    <3> QED
      BY <3>1, <3>2
  <2> QED
    BY <2>1, <2>2
<1> HIDE DEF n
<1> DEFINE old(j) == IF j < k THEN j ELSE j + 1
<1>6. /\ \A j \in 1..(n - 1) : /\ old(j) \in 1..n /\ old(j) # k /\ w[j] = s[old(j)]
                               /\ j # n - 1 => j + 1 \in 1..(n - 1)
                               /\ j # 1 => j - 1 \in 1..(n - 1)
      /\ \A i, j \in 1..(n - 1) : old(i) = old(j) => i = j
      /\ \A j \in 1..n : j # k => \E i \in 1..(n - 1) : old(i) = j
  <2>1. ASSUME NEW j \in 1..(n - 1)
        PROVE  /\ old(j) \in 1..n /\ old(j) # k /\ w[j] = s[old(j)]
               /\ j # n - 1 => j + 1 \in 1..(n - 1)
               /\ j # 1 => j - 1 \in 1..(n - 1)
    BY <1>1 DEF n, TakenOut
  <2>2. \A i, j \in 1..(n - 1) : old(i) = old(j) => i = j
    BY <1>1
  <2>3. ASSUME NEW j \in 1..n, j # k PROVE \E i \in 1..(n - 1) : old(i) = j
    <3>1. CASE j < k
      <4>1. j \in 1..(n - 1) /\ old(j) = j
        BY <1>1, <3>1
      <4> QED
        BY <4>1
    <3>2. CASE ~(j < k)
      <4>1. j - 1 \in 1..(n - 1) /\ old(j - 1) = j
        BY <1>1, <2>3, <3>2
      <4> QED
        BY <4>1
    <3> QED
      BY <3>1, <3>2
  <2> QED
    BY <2>1, <2>2, <2>3
<1>7. \A j \in 1..(n - 1) :
        /\ old(j) = k - 1 <=> j = k - 1
        /\ old(j) = k + 1 <=> j = k
        /\ old(j) = n => j = n - 1
        /\ old(j) = 1 => j = 1
        /\ j # n - 1 /\ j # k - 1 => old(j + 1) = old(j) + 1
        /\ j # n - 1 /\ j = k - 1 => old(j + 1) = k + 1 /\ k # n
        /\ j = n - 1 /\ j # k - 1 => old(j) = n
        /\ j = n - 1 /\ j = k - 1 => k = n
        /\ j # 1 /\ j # k => old(j - 1) = old(j) - 1
        /\ j # 1 /\ j = k => old(j - 1) = k - 1 /\ k # 1
        /\ j = 1 /\ j # k => old(j) = 1
        /\ j = 1 /\ j = k => k = 1
  BY <1>1
<1> HIDE DEF old
<1>8. ASSUME NEW j \in 1..(n - 1) PROVE next2[w[j]] = After(w, j)
  <2>1. /\ w[j] = s[old(j)] /\ old(j) \in 1..n
        /\ next2[w[j]] = IF j = k - 1 THEN right ELSE After(s, old(j))
    BY <1>3, <1>5, <1>6, <1>7
  <2>2. After(w, j) = IF j = n - 1 THEN NIL ELSE s[old(j + 1)]
    BY <1>1, <1>6 DEF After
  <2>3. CASE j = k - 1
    BY <1>4, <1>7, <2>1, <2>2, <2>3
  <2>4. CASE j # k - 1
    <3>1. After(s, old(j)) = IF old(j) = n THEN NIL ELSE s[old(j) + 1]
      BY DEF After, n
    <3> QED
      BY <1>7, <2>1, <2>2, <2>4, <3>1
  <2> QED
    BY <2>3, <2>4
<1>9. ASSUME NEW j \in 1..(n - 1) PROVE prev2[w[j]] = Before(w, j)
  <2>1. /\ w[j] = s[old(j)] /\ old(j) \in 1..n
        /\ prev2[w[j]] = IF j = k THEN left ELSE Before(s, old(j))
    BY <1>3, <1>5, <1>6, <1>7
  <2>2. Before(w, j) = IF j = 1 THEN NIL ELSE s[old(j - 1)]
    BY <1>6 DEF Before
  <2>3. CASE j = k
    BY <1>4, <1>7, <2>1, <2>2, <2>3
  <2>4. CASE j # k
    <3>1. Before(s, old(j)) = IF old(j) = 1 THEN NIL ELSE s[old(j) - 1]
      BY DEF Before
    <3> QED
      BY <1>7, <2>1, <2>2, <2>4, <3>1
  <2> QED
    BY <2>3, <2>4
<1>10. Distinct(w)
  <2>1. SUFFICES ASSUME NEW i \in 1..(n - 1), NEW j \in 1..(n - 1), w[i] = w[j]
                 PROVE  i = j
    BY <1>1 DEF Distinct
  <2>2. old(i) = old(j)
    BY <1>1, <1>6, <2>1
  <2> QED
    BY <1>6, <2>2
<1>11. Chained(w, next2, prev2)
  BY <1>1, <1>8, <1>9, <1>10 DEF Chained
<1>12. Items(w) = Items(s) \ {s[k]}
  <2>1. Items(w) = {w[j] : j \in 1..(n - 1)}
    BY <1>1 DEF Items
  <2>2. ASSUME NEW j \in 1..(n - 1) PROVE w[j] \in Items(s) \ {s[k]}
    <3>1. w[j] = s[old(j)] /\ old(j) \in 1..n /\ old(j) # k
      BY <1>6
    <3> QED
      BY <1>1, <3>1
  <2>3. ASSUME NEW x \in Items(s) \ {s[k]} PROVE \E j \in 1..(n - 1) : w[j] = x
    <3>1. PICK j \in 1..n : x = s[j] /\ j # k
      BY <1>1
    <3>2. PICK i \in 1..(n - 1) : old(i) = j
      BY <1>6, <3>1
    <3> QED
      BY <1>6, <3>1, <3>2
  <2> QED
    BY <2>1, <2>2, <2>3
<1>13. FirstOf(w) = IF FirstOf(s) = s[k] THEN right ELSE FirstOf(s)
  <2>1. 1 \in 1..n /\ s # << >> /\ FirstOf(s) = s[1] /\ (s[1] = s[k] <=> k = 1)
    <3>1. 1 \in 1..n
      BY <1>1
    <3>2. s # << >>
      BY <1>1, <3>1 DEF n
    <3> QED
      BY <1>1, <3>1, <3>2 DEF FirstOf
  <2>2. CASE n = 1
    <3>1. k = 1 /\ w = << >>
      BY <1>1, <2>2
    <3> QED
      BY <1>4, <2>1, <2>2, <3>1 DEF FirstOf
  <2>3. CASE n # 1
    <3>1. 1 \in 1..(n - 1) /\ w # << >>
      BY <1>1, <2>3
    <3>2. FirstOf(w) = s[old(1)]
      BY <1>6, <3>1 DEF FirstOf
    <3>3. old(1) = IF k = 1 THEN k + 1 ELSE 1
      BY <1>1 DEF old
    <3>4. k = 1 => k # n
      BY <2>3
    <3> QED
      BY <1>4, <2>1, <3>2, <3>3, <3>4
  <2> QED
    BY <2>2, <2>3
<1> QED
  BY <1>11, <1>12, <1>13 DEF right

-----------------------------------------------------------------------------
(* The chains of an array of buckets.                                      *)

IsBucket(x) == x = [first |-> x.first, count |-> x.count, mult |-> x.mult]

\* C[b] is the chain of bucket b: it holds, once each, the items of S that the
\* m buckets of bs are to hold there.
InChains(bs, m, next, prev, S, C) ==
  /\ bs = [b \in 0..(m - 1) |-> bs[b]]
  /\ C \in [0..(m - 1) -> Seq(HashItem)]
  /\ \A b \in 0..(m - 1) :
       /\ IsBucket(bs[b])
       /\ bs[b].first = FirstOf(C[b]) /\ bs[b].count = Len(C[b])
       /\ Chained(C[b], next, prev)
       /\ Items(C[b]) = {i \in S : ToBucket(i, m) = b}

LEMMA BucketInRange ==
  ASSUME NEW m \in Nat \ {0}, NEW i \in HashItem
  PROVE  ToBucket(i, m) \in 0..(m - 1)
<1>1. HashOf[i] \in Nat
  BY HashAssumption
<1>2. \A h \in Nat : h % m \in 0..(m - 1)
  OBVIOUS
<1> QED
  BY <1>1, <1>2 DEF ToBucket

LEMMA EmptyChains ==
  ASSUME NEW m \in Nat \ {0}, NEW next, NEW prev
  PROVE  \E C : InChains(EmptyArray(m), m, next, prev, {}, C)
<1> DEFINE C == [b \in 0..(m - 1) |-> << >>]
           bs == EmptyArray(m)
<1>1. bs = [b \in 0..(m - 1) |-> EmptyBucket]
  BY DEF EmptyArray
<1>2. IsBucket(EmptyBucket) /\ EmptyBucket.first = NIL /\ EmptyBucket.count = 0
  BY DEF IsBucket, EmptyBucket
<1>3. /\ Items(<< >>) = {} /\ Chained(<< >>, next, prev)
      /\ FirstOf(<< >>) = NIL /\ Len(<< >>) = 0 /\ << >> \in Seq(HashItem)
  BY DEF Items, Chained, Distinct, FirstOf
<1> HIDE DEF bs
<1>4. C \in [0..(m - 1) -> Seq(HashItem)]
  BY <1>3
<1>5. \A b \in 0..(m - 1) : C[b] = << >> /\ bs[b] = EmptyBucket
  BY <1>1
<1>6. bs = [b \in 0..(m - 1) |-> bs[b]]
  BY <1>1
<1> HIDE DEF C
<1>7. InChains(bs, m, next, prev, {}, C)
  BY <1>2, <1>3, <1>4, <1>5, <1>6 DEF InChains
<1> QED
  BY <1>7 DEF bs

\* HASH_ADD_TO_BKT, and a step of HASH_EXPAND_BUCKETS.
LEMMA ChainsPushed ==
  ASSUME NEW m \in Nat \ {0}, NEW bs, NEW next \in Pointers, NEW prev \in Pointers,
         NEW S \in SUBSET HashItem, NEW C, InChains(bs, m, next, prev, S, C),
         NEW i \in HashItem, i \notin S, NEW new, IsBucket(new), new.first = i,
         new.count = bs[ToBucket(i, m)].count + 1
  PROVE  LET next2 == [next EXCEPT ![i] = bs[ToBucket(i, m)].first]
             prev2 == Linked(bs, i, ToBucket(i, m), prev)
         IN  /\ next2 \in Pointers /\ prev2 \in Pointers
             /\ \E D : InChains([bs EXCEPT ![ToBucket(i, m)] = new], m,
                                next2, prev2, S \cup {i}, D)
             /\ \A x \in HashItem : x # i => next2[x] = next[x]
<1> DEFINE b == ToBucket(i, m)
           first == bs[b].first
           next2 == [next EXCEPT ![i] = first]
           prev2 == Linked(bs, i, b, prev)
           s == C[b]
           w == << i >> \o s
           D == [C EXCEPT ![b] = w]
           bs2 == [bs EXCEPT ![b] = new]
<1>1. /\ b \in 0..(m - 1) /\ bs = [c \in 0..(m - 1) |-> bs[c]]
      /\ C \in [0..(m - 1) -> Seq(HashItem)]
      /\ \A c \in 0..(m - 1) :
           /\ IsBucket(bs[c])
           /\ bs[c].first = FirstOf(C[c]) /\ bs[c].count = Len(C[c])
           /\ Chained(C[c], next, prev)
           /\ Items(C[c]) = {x \in S : ToBucket(x, m) = c}
  BY BucketInRange DEF InChains
<1>2. s \in Seq(HashItem) /\ first = FirstOf(s) /\ Chained(s, next, prev)
      /\ Items(s) = {x \in S : ToBucket(x, m) = b}
  BY <1>1
<1>3. first \in Entry /\ (first # NIL => first \in Items(s) /\ first # i)
  <2>1. CASE s = << >>
    BY <1>2, <2>1 DEF FirstOf, Entry
  <2>2. CASE s # << >>
    <3>1. 1 \in 1..Len(s)
      BY <1>2, <2>2
    <3>2. first = s[1] /\ s[1] \in HashItem
      BY <1>2, <2>2, <3>1 DEF FirstOf
    <3>3. s[1] \in Items(s)
      BY <3>1 DEF Items
    <3> QED
      BY <1>2, <3>2, <3>3 DEF Entry
  <2> QED
    BY <2>1, <2>2
<1>4. i \notin Items(s) /\ i # NIL
  BY <1>2, NoNilItem
<1> HIDE DEF first, s
<1>5. /\ next2 \in Pointers
      /\ next2[i] = first /\ \A x \in HashItem : x # i => next2[x] = next[x]
  BY <1>3 DEF Pointers
<1>6. /\ prev2 \in Pointers
      /\ prev2[i] = NIL
      /\ \A x \in HashItem : x # i => prev2[x] = IF x = first THEN i ELSE prev[x]
  <2>1. prev2 = IF first = NIL THEN [prev EXCEPT ![i] = NIL]
                ELSE [prev EXCEPT ![i] = NIL, ![first] = i]
    BY DEF Linked, first
  <2>2. NIL \in Entry /\ i \in Entry
    BY DEF Entry
  <2> HIDE DEF prev2
  <2>3. CASE first = NIL
    BY <2>1, <2>2, <2>3, NoNilItem DEF Pointers
  <2>4. CASE first # NIL
    <3>1. first \in HashItem /\ first # i
      BY <1>3, <2>4 DEF Entry
    <3> QED
      BY <2>1, <2>2, <2>4, <3>1 DEF Pointers
  <2> QED
    BY <2>3, <2>4
<1> HIDE DEF next2, prev2
<1>7. /\ w \in Seq(HashItem) /\ Chained(w, next2, prev2)
      /\ Items(w) = Items(s) \cup {i}
      /\ Len(w) = Len(s) + 1 /\ FirstOf(w) = i
  <2>1. \A x \in Items(s) :
          /\ x \in HashItem /\ next2[x] = next[x]
          /\ prev2[x] = IF x = FirstOf(s) THEN i ELSE prev[x]
    BY <1>2, <1>4, <1>5, <1>6
  <2> QED
    BY <1>2, <1>4, <1>5, <1>6, <2>1, ListPushed
<1> HIDE DEF w
<1>8. D \in [0..(m - 1) -> Seq(HashItem)]
      /\ \A c \in 0..(m - 1) : D[c] = IF c = b THEN w ELSE C[c]
  BY <1>1, <1>7
<1>9. bs2 = [c \in 0..(m - 1) |-> IF c = b THEN new ELSE bs[c]]
  BY <1>1
<1>10. ASSUME NEW c \in 0..(m - 1)
       PROVE  /\ IsBucket(bs2[c])
              /\ bs2[c].first = FirstOf(D[c]) /\ bs2[c].count = Len(D[c])
              /\ Chained(D[c], next2, prev2)
              /\ Items(D[c]) = {x \in S \cup {i} : ToBucket(x, m) = c}
  <2>1. CASE c = b
    <3>1. D[c] = w /\ bs2[c] = new
      BY <1>8, <1>9, <2>1
    <3>2. new.count = Len(s) + 1
      BY <1>1 DEF s
    <3>3. Items(w) = {x \in S \cup {i} : ToBucket(x, m) = b}
      BY <1>2, <1>7
    <3> QED
      BY <1>7, <2>1, <3>1, <3>2, <3>3
  <2>2. CASE c # b
    <3>1. D[c] = C[c] /\ bs2[c] = bs[c]
      BY <1>8, <1>9, <2>2
    <3>2. Items(C[c]) = {x \in S \cup {i} : ToBucket(x, m) = c}
      BY <1>1, <2>2
    <3>3. \A x \in Items(C[c]) : x \in HashItem /\ x # i /\ x \notin Items(s)
      BY <1>1, <1>2, <2>2
    <3>4. \A x \in Items(C[c]) : next2[x] = next[x] /\ prev2[x] = prev[x]
      <4>1. \A x \in Items(C[c]) : x # first
        BY <1>3, <3>3, NoNilItem
      <4> QED
        BY <1>5, <1>6, <3>3, <4>1
    <3>5. Chained(C[c], next, prev)
      BY <1>1
    <3>6. Chained(C[c], next2, prev2)
      BY <3>4, <3>5, ChainedKept
    <3> QED
      BY <1>1, <3>1, <3>2, <3>6
  <2> QED
    BY <2>1, <2>2
<1>11. bs2 = [c \in 0..(m - 1) |-> bs2[c]]
  BY <1>9
<1> HIDE DEF D, bs2
<1>12. InChains(bs2, m, next2, prev2, S \cup {i}, D)
  BY <1>8, <1>10, <1>11 DEF InChains
<1> QED
  BY <1>5, <1>6, <1>12 DEF next2, prev2, first, bs2

\* HASH_DELETE of an item from its chain.
LEMMA ChainsShortened ==
  ASSUME NEW m \in Nat \ {0}, NEW bs, NEW next \in Pointers, NEW prev \in Pointers,
         NEW S \in SUBSET HashItem, NEW C, InChains(bs, m, next, prev, S, C),
         NEW i \in S, NEW new, IsBucket(new),
         new.first = (IF bs[ToBucket(i, m)].first = i THEN next[i]
                      ELSE bs[ToBucket(i, m)].first),
         new.count = bs[ToBucket(i, m)].count - 1
  PROVE  LET next2 == Set(next, prev[i], next[i])
             prev2 == Set(prev, next[i], prev[i])
         IN  /\ next2 \in Pointers /\ prev2 \in Pointers
             /\ \E D : InChains([bs EXCEPT ![ToBucket(i, m)] = new], m,
                                next2, prev2, S \ {i}, D)
<1> DEFINE b == ToBucket(i, m)
           next2 == Set(next, prev[i], next[i])
           prev2 == Set(prev, next[i], prev[i])
           s == C[b]
           bs2 == [bs EXCEPT ![b] = new]
<1>1. /\ b \in 0..(m - 1) /\ bs = [c \in 0..(m - 1) |-> bs[c]]
      /\ C \in [0..(m - 1) -> Seq(HashItem)]
      /\ \A c \in 0..(m - 1) :
           /\ IsBucket(bs[c])
           /\ bs[c].first = FirstOf(C[c]) /\ bs[c].count = Len(C[c])
           /\ Chained(C[c], next, prev)
           /\ Items(C[c]) = {x \in S : ToBucket(x, m) = c}
  BY BucketInRange DEF InChains
<1>2. s \in Seq(HashItem) /\ Chained(s, next, prev)
      /\ Items(s) = {x \in S : ToBucket(x, m) = b}
  BY <1>1
<1>3. PICK k \in 1..Len(s) : s[k] = i
  BY <1>2 DEF Items
<1>4. /\ next[i] = After(s, k) /\ prev[i] = Before(s, k)
      /\ i \in HashItem /\ next[i] \in Entry /\ prev[i] \in Entry
  <2>1. next[i] = After(s, k) /\ prev[i] = Before(s, k)
    BY <1>2, <1>3 DEF Chained
  <2> QED
    BY <2>1 DEF Pointers
<1>5. /\ next[i] # NIL => next[i] \in Items(s)
      /\ prev[i] # NIL => prev[i] \in Items(s)
  <2>1. Len(s) \in Nat
    BY <1>2
  <2>2. (k # Len(s) => k + 1 \in 1..Len(s)) /\ (k # 1 => k - 1 \in 1..Len(s))
    BY <2>1
  <2> QED
    BY <1>4, <2>2 DEF After, Before, Items
<1>6. /\ next2 \in Pointers /\ prev2 \in Pointers
      /\ \A x \in HashItem :
           /\ next2[x] = IF x = prev[i] THEN next[i] ELSE next[x]
           /\ prev2[x] = IF x = next[i] THEN prev[i] ELSE prev[x]
  <2>1. ASSUME NEW l \in Pointers, NEW p \in Entry, NEW q \in Entry
        PROVE  /\ Set(l, p, q) \in Pointers
               /\ \A x \in HashItem : Set(l, p, q)[x] = IF x = p THEN q ELSE l[x]
    <3>1. CASE p = NIL
      BY <3>1, NoNilItem DEF Set
    <3>2. CASE p # NIL
      <4>1. p \in HashItem /\ Set(l, p, q) = [l EXCEPT ![p] = q]
        BY <3>2 DEF Set, Entry
      <4> QED
        BY <4>1 DEF Pointers
    <3> QED
      BY <3>1, <3>2
  <2> QED
    BY <1>4, <2>1
<1> HIDE DEF next2, prev2, s
<1> DEFINE w == RemoveAt(s, k)
           D == [C EXCEPT ![b] = w]
<1>7. /\ w \in Seq(HashItem) /\ Len(w) = Len(s) - 1
      /\ Chained(w, next2, prev2) /\ Items(w) = Items(s) \ {i}
      /\ FirstOf(w) = IF FirstOf(s) = i THEN next[i] ELSE FirstOf(s)
  <2>1. /\ w \in Seq(HashItem) /\ Len(w) = Len(s) - 1 /\ TakenOut(s, k, w)
    BY <1>2, RemoveAtShape DEF TakenOut
  <2> HIDE DEF w
  <2>2. \A x \in Items(s) : x \in HashItem
    BY <1>2 DEF Items
  <2>3. Unlinked(s, k, next, prev, next2, prev2)
    BY <1>3, <1>6, <2>2 DEF Unlinked
  <2>4. /\ Chained(w, next2, prev2) /\ Items(w) = Items(s) \ {s[k]}
        /\ FirstOf(w) = IF FirstOf(s) = s[k] THEN next[s[k]] ELSE FirstOf(s)
    BY <1>2, <1>6, <2>1, <2>3, ListShortened
  <2> QED
    BY <1>3, <2>1, <2>4
<1> HIDE DEF w
<1>8. D \in [0..(m - 1) -> Seq(HashItem)]
      /\ \A c \in 0..(m - 1) : D[c] = IF c = b THEN w ELSE C[c]
  BY <1>1, <1>7
<1>9. bs2 = [c \in 0..(m - 1) |-> IF c = b THEN new ELSE bs[c]]
  BY <1>1
<1>10. ASSUME NEW c \in 0..(m - 1)
       PROVE  /\ IsBucket(bs2[c])
              /\ bs2[c].first = FirstOf(D[c]) /\ bs2[c].count = Len(D[c])
              /\ Chained(D[c], next2, prev2)
              /\ Items(D[c]) = {x \in S \ {i} : ToBucket(x, m) = c}
  <2>1. CASE c = b
    <3>1. D[c] = w /\ bs2[c] = new
      BY <1>8, <1>9, <2>1
    <3>2. /\ new.count = Len(s) - 1
          /\ new.first = IF FirstOf(s) = i THEN next[i] ELSE FirstOf(s)
      BY <1>1 DEF s
    <3>3. Items(w) = {x \in S \ {i} : ToBucket(x, m) = b}
      BY <1>2, <1>7
    <3> QED
      BY <1>7, <2>1, <3>1, <3>2, <3>3
  <2>2. CASE c # b
    <3>1. D[c] = C[c] /\ bs2[c] = bs[c]
      BY <1>8, <1>9, <2>2
    <3>2. Items(C[c]) = {x \in S \ {i} : ToBucket(x, m) = c}
      BY <1>1, <2>2
    <3>3. \A x \in Items(C[c]) : x \in HashItem /\ x \notin Items(s)
      BY <1>1, <1>2, <2>2
    <3>4. \A x \in Items(C[c]) : next2[x] = next[x] /\ prev2[x] = prev[x]
      <4>1. \A x \in Items(C[c]) : x # prev[i] /\ x # next[i]
        BY <1>5, <3>3, NoNilItem
      <4> QED
        BY <1>6, <3>3, <4>1
    <3>5. Chained(C[c], next, prev)
      BY <1>1
    <3>6. Chained(C[c], next2, prev2)
      BY <3>4, <3>5, ChainedKept
    <3> QED
      BY <1>1, <3>1, <3>2, <3>6
  <2> QED
    BY <2>1, <2>2
<1>11. bs2 = [c \in 0..(m - 1) |-> bs2[c]]
  BY <1>9
<1> HIDE DEF D, bs2
<1>12. InChains(bs2, m, next2, prev2, S \ {i}, D)
  BY <1>8, <1>10, <1>11 DEF InChains
<1> QED
  BY <1>6, <1>12 DEF next2, prev2, bs2

\* What is met in a bucket is its chain.
LEMMA ChainMet ==
  ASSUME NEW m \in Nat \ {0}, NEW bs, NEW next \in Pointers, NEW prev, NEW S,
         NEW C, InChains(bs, m, next, prev, S, C), NEW b \in 0..(m - 1)
  PROVE  Chain(bs, b, next) = C[b]
<1> DEFINE s == C[b]
<1>1. /\ s \in Seq(HashItem) /\ bs[b].first = FirstOf(s) /\ Chained(s, next, prev)
  BY DEF InChains
<1> HIDE DEF s
<1>2. Distinct(s) /\ \A j \in 1..Len(s) : next[s[j]] = After(s, j)
  BY <1>1 DEF Chained
<1>3. Met(FirstOf(s), next) = s
  BY <1>1, <1>2, MetIsList DEF Pointers
<1> QED
  BY <1>1, <1>3 DEF Chain, s

LEMMA Joined ==
  ASSUME NEW s \in Seq(HashItem), NEW t \in Seq(HashItem), Distinct(s), Distinct(t),
         Items(s) \cap Items(t) = {}
  PROVE  /\ s \o t \in Seq(HashItem) /\ Distinct(s \o t)
         /\ Items(s \o t) = Items(s) \cup Items(t)
<1> DEFINE m == Len(s)
           n == Len(t)
           w == s \o t
<1>1. /\ m \in Nat /\ n \in Nat /\ w \in Seq(HashItem) /\ Len(w) = m + n
      /\ \A k \in 1..(m + n) : w[k] = IF k <= m THEN s[k] ELSE t[k - m]
  BY ConcatProperties
<1>2. /\ \A k \in 1..m : s[k] \in Items(s)
      /\ \A k \in 1..n : t[k] \in Items(t)
      /\ Items(s) = {s[k] : k \in 1..m} /\ Items(t) = {t[k] : k \in 1..n}
      /\ \A j, k \in 1..m : s[j] = s[k] => j = k
      /\ \A j, k \in 1..n : t[j] = t[k] => j = k
  BY DEF Items, Distinct
<1> HIDE DEF m, n, w
<1>3. /\ \A k \in 1..(m + n) : \/ k \in 1..m /\ w[k] = s[k]
                               \/ k - m \in 1..n /\ w[k] = t[k - m] /\ ~(k <= m)
      /\ \A k \in 1..m : k \in 1..(m + n) /\ w[k] = s[k]
      /\ \A k \in 1..n : k + m \in 1..(m + n) /\ w[k + m] = t[k]
  <2>1. ASSUME NEW k \in 1..(m + n)
        PROVE  \/ k \in 1..m /\ w[k] = s[k]
               \/ k - m \in 1..n /\ w[k] = t[k - m] /\ ~(k <= m)
    BY <1>1
  <2>2. \A k \in 1..m : k \in 1..(m + n) /\ w[k] = s[k]
    BY <1>1
  <2>3. ASSUME NEW k \in 1..n PROVE k + m \in 1..(m + n) /\ w[k + m] = t[k]
    <3>1. k + m \in 1..(m + n) /\ ~(k + m <= m) /\ (k + m) - m = k
      BY <1>1
    <3> QED
      BY <1>1, <3>1
  <2> QED
    BY <2>1, <2>2, <2>3
<1>4. Distinct(w)
  <2>1. SUFFICES ASSUME NEW j \in 1..(m + n), NEW k \in 1..(m + n), w[j] = w[k]
                 PROVE  j = k
    BY <1>1 DEF Distinct
  <2>2. CASE j \in 1..m /\ w[j] = s[j]
    <3>1. w[k] \notin Items(t)
      BY <1>2, <2>1, <2>2
    <3> QED
      BY <1>2, <1>3, <2>1, <2>2, <3>1
  <2>3. CASE j - m \in 1..n /\ w[j] = t[j - m]
    <3>1. w[k] \notin Items(s)
      BY <1>2, <2>1, <2>3
    <3>2. k - m \in 1..n /\ w[k] = t[k - m]
      BY <1>2, <1>3, <3>1
    <3>3. j - m = k - m
      BY <1>2, <2>1, <2>3, <3>2
    <3> QED
      BY <1>1, <3>3
  <2> QED
    BY <1>3, <2>2, <2>3
<1>5. Items(w) = Items(s) \cup Items(t)
  <2>1. Items(w) = {w[k] : k \in 1..(m + n)}
    BY <1>1 DEF Items
  <2>2. \A k \in 1..(m + n) : w[k] \in Items(s) \cup Items(t)
    BY <1>2, <1>3
  <2>3. \A x \in Items(s) \cup Items(t) : \E k \in 1..(m + n) : w[k] = x
    <3>1. \A x \in Items(s) : \E k \in 1..(m + n) : w[k] = x
      BY <1>2, <1>3
    <3>2. \A x \in Items(t) : \E k \in 1..(m + n) : w[k] = x
      BY <1>2, <1>3
    <3> QED
      BY <3>1, <3>2
  <2> QED
    BY <2>1, <2>2, <2>3
<1> QED
  BY <1>1, <1>4, <1>5 DEF w

IsByBucket(f) ==
  f = [b \in 0..tbl.n |->
         IF b = 0 THEN << >> ELSE f[b - 1] \o Chain(buckets, b - 1, chainNext)]

\* The expansion has to move every item, once.
LEMMA AllToMove ==
  ASSUME tbl.n \in Nat \ {0}, chainNext \in Pointers, NEW S \in SUBSET HashItem,
         NEW C, InChains(buckets, tbl.n, chainNext, chainPrev, S, C)
  PROVE  ByBucket \in Seq(HashItem) /\ Distinct(ByBucket) /\ Items(ByBucket) = S
<1> DEFINE n == tbl.n
           V == Seq(HashItem)
           G == [b \in 0..n |-> [w \in V |-> IF b = 0 THEN w ELSE w \o C[b - 1]]]
<1>1. n \in Nat /\ n # 0
  OBVIOUS
<1>2. \A b \in 0..(n - 1) : /\ C[b] \in V /\ Distinct(C[b])
                            /\ Items(C[b]) = {i \in S : ToBucket(i, n) = b}
                            /\ Chain(buckets, b, chainNext) = C[b]
  <2>1. \A b \in 0..(n - 1) : Chain(buckets, b, chainNext) = C[b]
    BY ChainMet
  <2> QED
    BY <2>1 DEF InChains, Chained
<1> HIDE DEF n
<1>3. \A b \in 0..n : b # 0 => b - 1 \in 0..(n - 1) /\ b - 1 \in 0..n
  BY <1>1
<1>4. G \in [0..n -> [V -> V]]
  <2>1. ASSUME NEW b \in 0..n, NEW w \in V
        PROVE  (IF b = 0 THEN w ELSE w \o C[b - 1]) \in V
    <3>1. CASE b # 0
      <4>1. C[b - 1] \in V
        BY <1>2, <1>3, <3>1
      <4> QED
        BY <3>1, <4>1, ConcatProperties
    <3> QED
      BY <3>1
  <2> HIDE DEF V
  <2> QED
    BY <2>1
<1>5. \E f \in [0..n -> V] : IsIterate(n, << >>, G, f)
  <2>1. << >> \in V
    OBVIOUS
  <2> HIDE DEF V, G
  <2> QED
    BY <1>1, <1>4, <2>1, Iterates
<1>6. PICK f \in [0..n -> V] : IsIterate(n, << >>, G, f)
  BY <1>5
<1>7. ASSUME NEW b \in 0..n
      PROVE  f[b] = IF b = 0 THEN << >>
                    ELSE f[b - 1] \o Chain(buckets, b - 1, chainNext)
  <2> HIDE DEF V
  <2>1. f[b] = IF b = 0 THEN << >> ELSE G[b][f[b - 1]]
    <3> HIDE DEF G
    <3> QED
      BY <1>6 DEF IsIterate
  <2>2. CASE b # 0
    <3>1. b - 1 \in 0..n /\ b - 1 \in 0..(n - 1) /\ f[b - 1] \in V
      BY <1>3, <2>2
    <3>2. G[b][f[b - 1]] = f[b - 1] \o C[b - 1]
      BY <2>2, <3>1
    <3> QED
      BY <1>2, <2>1, <2>2, <3>1, <3>2
  <2> QED
    BY <2>1, <2>2
<1>8. IsByBucket(f)
  <2>1. f = [b \in 0..n |-> f[b]]
    OBVIOUS
  <2> QED
    BY <1>7, <2>1 DEF IsByBucket, n
<1> DEFINE g == CHOOSE h : IsByBucket(h)
<1>9. IsByBucket(g)
  BY <1>8
<1>10. ByBucket = g[n]
  BY DEF ByBucket, IsByBucket, n
<1> HIDE DEF g
<1>11. \A b \in 0..n : g[b] = IF b = 0 THEN << >> ELSE g[b - 1] \o C[b - 1]
  <2>1. ASSUME NEW b \in 0..n
        PROVE  g[b] = IF b = 0 THEN << >>
                      ELSE g[b - 1] \o Chain(buckets, b - 1, chainNext)
    BY <1>9 DEF IsByBucket, n
  <2> QED
    BY <1>2, <1>3, <2>1
<1> DEFINE Done(b) == /\ g[b] \in V /\ Distinct(g[b])
                      /\ Items(g[b]) = {i \in S : ToBucket(i, n) < b}
           P == {b \in Nat : b <= n => Done(b)}
<1>12. \A i \in S : ToBucket(i, n) \in 0..(n - 1)
  BY <1>1, BucketInRange
<1> HIDE DEF V
<1>13. 0 \in P
  <2>1. g[0] = << >>
    <3>1. 0 \in 0..n
      BY <1>1
    <3>2. \A b \in 0..n : b = 0 => g[b] = << >>
      BY <1>11
    <3> QED
      BY <3>1, <3>2
  <2>2. << >> \in V
    BY DEF V
  <2>3. {i \in S : ToBucket(i, n) < 0} = {}
    BY <1>12
  <2> QED
    BY <2>1, <2>2, <2>3, NothingIn
<1>14. ASSUME NEW b \in Nat, b \in P PROVE b + 1 \in P
  <2>1. SUFFICES ASSUME b + 1 <= n PROVE Done(b + 1)
    OBVIOUS
  <2>2. b + 1 \in 0..n /\ b + 1 # 0 /\ (b + 1) - 1 = b /\ b <= n /\ b \in 0..(n - 1)
    BY <1>1, <2>1
  <2>3. g[b + 1] = g[b] \o C[b]
    <3>1. PICK c \in 0..n : c = b + 1 /\ c # 0 /\ c - 1 = b
      BY <2>2
    <3>2. g[c] = g[c - 1] \o C[c - 1]
      BY <1>11, <3>1
    <3> QED
      BY <3>1, <3>2
  <2>4. Done(b)
    BY <1>14, <2>2
  <2>5. C[b] \in V /\ Distinct(C[b]) /\ Items(C[b]) = {i \in S : ToBucket(i, n) = b}
    BY <1>2, <2>2
  <2>6. Items(g[b]) \cap Items(C[b]) = {}
    BY <1>12, <2>4, <2>5
  <2>7. /\ g[b] \o C[b] \in V /\ Distinct(g[b] \o C[b])
        /\ Items(g[b] \o C[b]) = Items(g[b]) \cup Items(C[b])
    BY <2>4, <2>5, <2>6, Joined DEF V
  <2>8. \A x \in 0..(n - 1) : x < b + 1 <=> x < b \/ x = b
    BY <1>14
  <2>9. {i \in S : ToBucket(i, n) < b + 1}
          = {i \in S : ToBucket(i, n) < b} \cup {i \in S : ToBucket(i, n) = b}
    BY <1>12, <2>8
  <2> QED
    BY <2>3, <2>4, <2>5, <2>7, <2>9
<1>15. n \in P
  <2> HIDE DEF P
  <2>1. P \in SUBSET Nat
    BY DEF P
  <2> QED
    BY <1>1, <1>13, <1>14, <2>1, Induction
<1>16. Done(n)
  BY <1>1, <1>15
<1>17. {i \in S : ToBucket(i, n) < n} = S
  BY <1>1, <1>12
<1> QED
  BY <1>10, <1>16, <1>17 DEF V

-----------------------------------------------------------------------------
(* The buckets while items are added, deleted and moved.                   *)

\* All items but one that is not yet in its bucket.
InBuckets == IF wpc = "bucket" THEN Items(order) \ {adding} ELSE Items(order)

TableInv ==
  /\ tbl.n \in Nat \ {0}
  /\ wpc \in {"idle", "bucket", "expand", "move", "resize", "publish"}
  /\ wpc = "bucket" => adding \in Items(order)
  /\ tbl.items = IF wpc = "bucket" THEN Len(order) - 1 ELSE Len(order)
  /\ chainNext \in Pointers /\ chainPrev \in Pointers

\* Every item is in the chain of its bucket: in the old array until the moves
\* begin, in the new one if it has been moved.
ChainsInv ==
  /\ wpc \in {"idle", "bucket", "expand"} =>
       \E C : InChains(buckets, tbl.n, chainNext, chainPrev, InBuckets, C)
  /\ wpc = "move" =>
       /\ todo \in Seq(HashItem) /\ Distinct(todo) /\ Items(todo) \subseteq Items(order)
       /\ \E C : InChains(newBuckets, 2 * tbl.n, chainNext, chainPrev,
                          Items(order) \ Items(todo), C)
  /\ wpc = "resize" =>
       \E C : InChains(newBuckets, 2 * tbl.n, chainNext, chainPrev, Items(order), C)
  /\ wpc = "publish" =>
       \E C : InChains(newBuckets, tbl.n, chainNext, chainPrev, Items(order), C)

HashBucketsInv == TableInv /\ ChainsInv

LEMMA MembersAreItems ==
  ASSUME AppInv
  PROVE  /\ Members = Items(order) /\ Items(order) \in SUBSET HashItem
         /\ Len(order) \in Nat
         /\ hhead = NIL <=> order = << >>
<1>1. order \in Seq(HashItem) /\ DOMAIN order = 1..Len(order) /\ Len(order) \in Nat
      /\ \A j \in 1..Len(order) : order[j] \in HashItem /\ order[j] # NIL
  BY NoNilItem DEF AppInv
<1>2. order # << >> => 1 \in 1..Len(order)
  BY <1>1
<1> QED
  BY <1>1, <1>2 DEF Members, Items, AppInv

LEMMA ChainsStart == HashInit => HashBucketsInv
<1> SUFFICES ASSUME HashInit PROVE HashBucketsInv
  OBVIOUS
<1>1. /\ tbl = NoTable /\ wpc = "idle" /\ order = << >>
      /\ chainNext = [i \in HashItem |-> NIL] /\ chainPrev = [i \in HashItem |-> NIL]
      /\ buckets = EmptyArray(HASH_INITIAL_NUM_BUCKETS)
  BY DEF HashInit
<1>2. tbl.n = HASH_INITIAL_NUM_BUCKETS /\ tbl.items = 0 /\ tbl.n \in Nat \ {0}
  BY <1>1, HashAssumption DEF NoTable
<1>3. TableInv
  BY <1>1, <1>2 DEF TableInv, Pointers, Entry
<1>4. InBuckets = {}
  BY <1>1, NothingIn DEF InBuckets
<1>5. \E C : InChains(buckets, tbl.n, chainNext, chainPrev, InBuckets, C)
  BY <1>1, <1>2, <1>4, EmptyChains
<1>6. ChainsInv
  BY <1>1, <1>5 DEF ChainsInv
<1> QED
  BY <1>3, <1>6 DEF HashBucketsInv

\* The item added is at the end of order, and in no bucket yet.
LEMMA AddBegun ==
  ASSUME AppInv, NEW i \in HashItem, BeginAdd(i)
  PROVE  /\ wpc = "idle" /\ wpc' = "bucket" /\ adding' = i
         /\ i \notin Items(order) /\ Items(order') = Items(order) \cup {i}
         /\ Len(order') = Len(order) + 1
         /\ InBuckets' = InBuckets
<1>1. /\ wpc = "idle" /\ wpc' = "bucket" /\ adding' = i /\ i \notin Members
      /\ order' = Append(order, i)
  BY DEF BeginAdd
<1>2. i \notin Items(order) /\ order \in Seq(HashItem) /\ Distinct(order)
  BY <1>1, MembersAreItems DEF AppInv
<1>3. Items(order') = Items(order) \cup {i} /\ Len(order') = Len(order) + 1
  BY <1>1, <1>2, Appended
<1>4. InBuckets' = InBuckets
  BY <1>1, <1>2, <1>3 DEF InBuckets
<1> QED
  BY <1>1, <1>2, <1>3, <1>4

LEMMA AddFirstKeepsChains ==
  ASSUME AppInv, HashBucketsInv, NEW i \in HashItem, AddFirst(i)
  PROVE  HashBucketsInv'
<1>1. /\ hhead = NIL /\ BeginAdd(i) /\ tbl' = [NoTable EXCEPT !.tail = i]
      /\ buckets' = EmptyArray(HASH_INITIAL_NUM_BUCKETS)
      /\ UNCHANGED << chainNext, chainPrev >>
  BY DEF AddFirst
<1>2. /\ wpc = "idle" /\ wpc' = "bucket" /\ adding' = i
      /\ Items(order') = Items(order) \cup {i}
      /\ Len(order') = Len(order) + 1 /\ InBuckets' = InBuckets
  BY <1>1, AddBegun
<1>3. order = << >> /\ Items(order) = {} /\ Len(order) = 0
  BY <1>1, MembersAreItems, NothingIn
<1>4. /\ tbl'.n = HASH_INITIAL_NUM_BUCKETS /\ tbl'.items = 0
      /\ HASH_INITIAL_NUM_BUCKETS \in Nat \ {0}
  BY <1>1, HashAssumption DEF NoTable
<1>5. TableInv'
  BY <1>1, <1>2, <1>3, <1>4 DEF HashBucketsInv, TableInv
<1>6. InBuckets' = {}
  BY <1>2, <1>3 DEF InBuckets
<1>7. \E C : InChains(buckets', tbl'.n, chainNext', chainPrev', InBuckets', C)
  BY <1>1, <1>4, <1>6, EmptyChains
<1>8. ChainsInv'
  BY <1>2, <1>7 DEF ChainsInv
<1> QED
  BY <1>5, <1>8 DEF HashBucketsInv

LEMMA AddAppendKeepsChains ==
  ASSUME AppInv, HashBucketsInv, NEW i \in HashItem, AddAppend(i)
  PROVE  HashBucketsInv'
<1>1. /\ BeginAdd(i) /\ tbl' = [tbl EXCEPT !.tail = i] /\ IsTable(tbl)
      /\ UNCHANGED << chainNext, chainPrev, buckets >>
  BY DEF AddAppend, AppInv
<1>2. /\ wpc = "idle" /\ wpc' = "bucket" /\ adding' = i
      /\ Items(order') = Items(order) \cup {i}
      /\ Len(order') = Len(order) + 1 /\ InBuckets' = InBuckets
  BY <1>1, AddBegun
<1>3. tbl'.n = tbl.n /\ tbl'.items = tbl.items
  BY <1>1 DEF IsTable
<1>4. TableInv'
  <2>1. tbl.items = Len(order) /\ Len(order) \in Nat
    BY <1>2, MembersAreItems DEF HashBucketsInv, TableInv
  <2>2. tbl'.items = Len(order') - 1
    BY <1>2, <1>3, <2>1
  <2> QED
    BY <1>1, <1>2, <1>3, <2>2 DEF HashBucketsInv, TableInv
<1>5. \E C : InChains(buckets', tbl'.n, chainNext', chainPrev', InBuckets', C)
  BY <1>1, <1>2, <1>3 DEF HashBucketsInv, ChainsInv
<1>6. ChainsInv'
  BY <1>2, <1>5 DEF ChainsInv
<1> QED
  BY <1>4, <1>6 DEF HashBucketsInv

LEMMA AddToBucketKeepsChains ==
  ASSUME AppInv, HashBucketsInv, AddToBucket
  PROVE  HashBucketsInv'
<1> DEFINE b == ToBucket(adding, tbl.n)
           new == [first |-> adding, count |-> buckets[b].count + 1,
                   mult |-> buckets[b].mult]
<1>1. /\ wpc = "bucket"
      /\ chainNext' = [chainNext EXCEPT ![adding] = buckets[b].first]
      /\ chainPrev' = Linked(buckets, adding, b, chainPrev)
      /\ buckets' = [buckets EXCEPT ![b] = new]
      /\ wpc' \in {"expand", "idle"}
      /\ tbl' = [tbl EXCEPT !.items = tbl.items + 1]
      /\ order' = order
  BY DEF AddToBucket
<1>2. /\ tbl.n \in Nat \ {0} /\ adding \in Items(order) /\ IsTable(tbl)
      /\ Items(order) \in SUBSET HashItem
      /\ chainNext \in Pointers /\ chainPrev \in Pointers
      /\ InBuckets = Items(order) \ {adding}
      /\ tbl.items = Len(order) - 1 /\ Len(order) \in Nat
  BY <1>1, MembersAreItems DEF HashBucketsInv, TableInv, InBuckets, AppInv
<1>3. PICK C : InChains(buckets, tbl.n, chainNext, chainPrev, InBuckets, C)
  BY <1>1 DEF HashBucketsInv, ChainsInv
<1>4. b \in 0..(tbl.n - 1) /\ IsBucket(buckets[b])
  BY <1>2, <1>3, BucketInRange DEF InChains
<1>5. IsBucket(new) /\ new.first = adding /\ new.count = buckets[b].count + 1
  BY <1>4 DEF IsBucket
<1> HIDE DEF new
<1>6. InBuckets \in SUBSET HashItem /\ adding \in HashItem /\ adding \notin InBuckets
  BY <1>2
<1>7. /\ chainNext' \in Pointers /\ chainPrev' \in Pointers
      /\ \E D : InChains(buckets', tbl.n, chainNext', chainPrev',
                         InBuckets \cup {adding}, D)
  BY <1>1, <1>2, <1>3, <1>5, <1>6, ChainsPushed
<1>8. /\ tbl'.n = tbl.n /\ tbl'.items = Len(order)
  BY <1>1, <1>2 DEF IsTable
<1>9. InBuckets' = InBuckets \cup {adding}
  BY <1>1, <1>2 DEF InBuckets
<1>10. TableInv'
  BY <1>1, <1>2, <1>7, <1>8 DEF TableInv
<1>11. ChainsInv'
  BY <1>1, <1>7, <1>8, <1>9 DEF ChainsInv
<1> QED
  BY <1>10, <1>11 DEF HashBucketsInv

LEMMA DeleteOnlyKeepsChains ==
  ASSUME AppInv, HashBucketsInv, NEW i \in HashItem, DeleteOnly(i)
  PROVE  HashBucketsInv'
<1>1. /\ wpc = "idle" /\ hhead' = NIL /\ tbl' = NoTable
      /\ buckets' = EmptyArray(HASH_INITIAL_NUM_BUCKETS)
      /\ UNCHANGED << chainNext, chainPrev, wpc >>
  BY DEF DeleteOnly, Idle
<1>2. order' = << >>
  <2>1. AppInv'
    BY DeleteOnlyKeeps
  <2>2. order' \in Seq(HashItem)
        /\ hhead' = IF order' = << >> THEN NIL ELSE order'[1]
    BY <2>1 DEF AppInv
  <2>3. order' # << >> => 1 \in 1..Len(order')
    BY <2>2
  <2>4. order' # << >> => order'[1] \in HashItem
    BY <2>2, <2>3
  <2> QED
    BY <1>1, <2>2, <2>4, NoNilItem
<1>3. /\ tbl'.n = HASH_INITIAL_NUM_BUCKETS /\ tbl'.items = 0
      /\ HASH_INITIAL_NUM_BUCKETS \in Nat \ {0}
  BY <1>1, HashAssumption DEF NoTable
<1>4. TableInv'
  BY <1>1, <1>2, <1>3 DEF HashBucketsInv, TableInv
<1>5. InBuckets' = {}
  BY <1>1, <1>2, NothingIn DEF InBuckets
<1>6. \E C : InChains(buckets', tbl'.n, chainNext', chainPrev', InBuckets', C)
  BY <1>1, <1>3, <1>5, EmptyChains
<1>7. ChainsInv'
  BY <1>1, <1>6 DEF ChainsInv
<1> QED
  BY <1>4, <1>7 DEF HashBucketsInv

LEMMA DeleteOneKeepsChains ==
  ASSUME AppInv, HashBucketsInv, NEW i \in HashItem, DeleteOne(i)
  PROVE  HashBucketsInv'
<1> DEFINE b == ToBucket(i, tbl.n)
           new == [first |-> IF buckets[b].first = i THEN chainNext[i]
                             ELSE buckets[b].first,
                   count |-> buckets[b].count - 1, mult |-> buckets[b].mult]
<1>1. /\ wpc = "idle" /\ wpc' = wpc /\ i \in Members
      /\ chainNext' = Set(chainNext, chainPrev[i], chainNext[i])
      /\ chainPrev' = Set(chainPrev, chainNext[i], chainPrev[i])
      /\ buckets' = [buckets EXCEPT ![b] = new]
      /\ tbl' = [tbl EXCEPT !.items = tbl.items - 1,
                            !.tail = IF tbl.tail = i THEN appPrev[i] ELSE tbl.tail]
      /\ order' = Without(i)
  BY DEF DeleteOne, Idle
<1>2. /\ tbl.n \in Nat \ {0} /\ i \in Items(order) /\ IsTable(tbl)
      /\ Items(order) \in SUBSET HashItem
      /\ chainNext \in Pointers /\ chainPrev \in Pointers
      /\ InBuckets = Items(order)
      /\ tbl.items = Len(order) /\ Len(order) \in Nat
  BY <1>1, MembersAreItems DEF HashBucketsInv, TableInv, InBuckets, AppInv
<1>3. PICK C : InChains(buckets, tbl.n, chainNext, chainPrev, Items(order), C)
  BY <1>1, <1>2 DEF HashBucketsInv, ChainsInv
<1>4. b \in 0..(tbl.n - 1) /\ IsBucket(buckets[b])
  BY <1>2, <1>3, BucketInRange DEF InChains
<1>5. /\ IsBucket(new) /\ new.count = buckets[b].count - 1
      /\ new.first = IF buckets[b].first = i THEN chainNext[i] ELSE buckets[b].first
  BY DEF IsBucket
<1> HIDE DEF new
<1>6. /\ chainNext' \in Pointers /\ chainPrev' \in Pointers
      /\ \E D : InChains(buckets', tbl.n, chainNext', chainPrev',
                         Items(order) \ {i}, D)
  BY <1>1, <1>2, <1>3, <1>5, ChainsShortened
<1>7. Items(order') = Items(order) \ {i} /\ Len(order') = Len(order) - 1
  <2>1. PICK k \in 1..Len(order) :
             /\ order[k] = i
             /\ Without(i) \in Seq(HashItem) /\ Len(Without(i)) = Len(order) - 1
             /\ \A j \in 1..(Len(order) - 1) :
                  Without(i)[j] = IF j < k THEN order[j] ELSE order[j + 1]
    BY <1>1, WithoutShape
  <2>2. order \in Seq(HashItem) /\ Distinct(order)
    BY DEF AppInv
  <2>3. /\ RemoveAt(order, k) \in Seq(HashItem)
        /\ Len(RemoveAt(order, k)) = Len(order) - 1
        /\ \A j \in 1..(Len(order) - 1) :
             RemoveAt(order, k)[j] = IF j < k THEN order[j] ELSE order[j + 1]
    BY <2>2, RemoveAtShape
  <2>4. Without(i) = RemoveAt(order, k)
    <3>1. \A j \in 1..(Len(order) - 1) : Without(i)[j] = RemoveAt(order, k)[j]
      BY <2>1, <2>3
    <3> QED
      BY <2>1, <2>3, <3>1, SeqEqual
  <2>5. Items(RemoveAt(order, k)) = Items(order) \ {order[k]}
    BY <2>2, Removed
  <2> QED
    BY <1>1, <2>1, <2>4, <2>5
<1>8. tbl'.n = tbl.n /\ tbl'.items = tbl.items - 1
  BY <1>1, <1>2 DEF IsTable
<1>9. TableInv'
  <2>1. tbl'.items = Len(order')
    BY <1>2, <1>7, <1>8
  <2> QED
    BY <1>1, <1>2, <1>6, <1>8, <2>1 DEF TableInv
<1>10. InBuckets' = Items(order) \ {i}
  BY <1>1, <1>7 DEF InBuckets
<1>11. ChainsInv'
  BY <1>1, <1>6, <1>8, <1>10 DEF ChainsInv
<1> QED
  BY <1>9, <1>11 DEF HashBucketsInv

LEMMA ExpandBeginKeepsChains ==
  ASSUME AppInv, HashBucketsInv, ExpandBegin
  PROVE  HashBucketsInv'
<1>1. /\ wpc = "expand" /\ wpc' = "move"
      /\ newBuckets' = EmptyArray(2 * tbl.n) /\ todo' = ByBucket
      /\ tbl' = [tbl EXCEPT !.ideal = CeilDiv(tbl.items, 2 * tbl.n), !.nonideal = 0]
      /\ UNCHANGED << chainNext, chainPrev, order >>
  BY DEF ExpandBegin
<1>2. /\ tbl.n \in Nat \ {0} /\ IsTable(tbl)
      /\ Items(order) \in SUBSET HashItem
      /\ chainNext \in Pointers /\ chainPrev \in Pointers
      /\ InBuckets = Items(order)
  BY <1>1, MembersAreItems DEF HashBucketsInv, TableInv, InBuckets, AppInv
<1>3. PICK C : InChains(buckets, tbl.n, chainNext, chainPrev, Items(order), C)
  BY <1>1, <1>2 DEF HashBucketsInv, ChainsInv
<1>4. todo' \in Seq(HashItem) /\ Distinct(todo') /\ Items(todo') = Items(order)
  BY <1>1, <1>2, <1>3, AllToMove
<1>5. tbl'.n = tbl.n /\ tbl'.items = tbl.items
  BY <1>1, <1>2 DEF IsTable
<1>6. \E D : InChains(newBuckets', 2 * tbl.n, chainNext', chainPrev', {}, D)
  <2>1. 2 * tbl.n \in Nat \ {0}
    BY <1>2
  <2> QED
    BY <1>1, <2>1, EmptyChains
<1>7. Items(order') \ Items(todo') = {} /\ Items(todo') \subseteq Items(order')
  BY <1>1, <1>4
<1>8. TableInv'
  BY <1>1, <1>5 DEF HashBucketsInv, TableInv
<1>9. ChainsInv'
  BY <1>1, <1>4, <1>5, <1>6, <1>7 DEF ChainsInv
<1> QED
  BY <1>8, <1>9 DEF HashBucketsInv

LEMMA HeadAndTail ==
  ASSUME NEW s \in Seq(HashItem), s # << >>, Distinct(s)
  PROVE  /\ Head(s) \in Items(s) /\ Tail(s) \in Seq(HashItem) /\ Distinct(Tail(s))
         /\ Items(Tail(s)) = Items(s) \ {Head(s)}
<1> DEFINE n == Len(s)
           t == Tail(s)
<1>1. /\ n \in Nat /\ n # 0 /\ t \in Seq(HashItem) /\ Len(t) = n - 1
      /\ Head(s) = s[1] /\ \A j \in 1..(n - 1) : t[j] = s[j + 1]
  OBVIOUS
<1> HIDE DEF n, t
<1>2. /\ 1 \in 1..n /\ \A j \in 1..(n - 1) : j + 1 \in 1..n /\ j + 1 # 1
      /\ \A j \in 1..n : j = 1 \/ \E i \in 1..(n - 1) : j = i + 1
  <2>1. \A j \in 1..n : j # 1 => j - 1 \in 1..(n - 1) /\ j = (j - 1) + 1
    BY <1>1
  <2> QED
    BY <1>1, <2>1
<1>3. /\ Items(s) = {s[j] : j \in 1..n} /\ Items(t) = {t[j] : j \in 1..(n - 1)}
      /\ \A j, k \in 1..n : s[j] = s[k] => j = k
  BY <1>1 DEF Items, Distinct, n
<1>4. Distinct(t)
  <2>1. SUFFICES ASSUME NEW j \in 1..(n - 1), NEW k \in 1..(n - 1), t[j] = t[k]
                 PROVE  j = k
    BY <1>1 DEF Distinct
  <2>2. j + 1 = k + 1
    BY <1>1, <1>2, <1>3, <2>1
  <2> QED
    BY <2>2
<1>5. Items(t) = Items(s) \ {s[1]}
  <2>1. ASSUME NEW j \in 1..(n - 1) PROVE t[j] \in Items(s) \ {s[1]}
    BY <1>1, <1>2, <1>3
  <2>2. ASSUME NEW x \in Items(s) \ {s[1]} PROVE x \in Items(t)
    <3>1. PICK j \in 1..n : x = s[j] /\ j # 1
      BY <1>3
    <3>2. PICK i \in 1..(n - 1) : j = i + 1
      BY <1>2, <3>1
    <3>3. t[i] = x
      BY <1>1, <3>1, <3>2
    <3> QED
      BY <1>3, <3>3
  <2> QED
    BY <1>3, <2>1, <2>2
<1> QED
  BY <1>1, <1>2, <1>3, <1>4, <1>5 DEF t

\* A step of the expansion takes an item to its new bucket.
LEMMA ExpandMoveKeepsChains ==
  ASSUME AppInv, HashBucketsInv, ExpandMove
  PROVE  HashBucketsInv'
<1> DEFINE i == Head(todo)
           m == 2 * tbl.n
           b == ToBucket(i, m)
           S == Items(order) \ Items(todo)
<1>1. \E new, w :
        /\ IsBucket(new) /\ new.first = i /\ new.count = newBuckets[b].count + 1
        /\ newBuckets' = [newBuckets EXCEPT ![b] = new]
        /\ tbl' = [tbl EXCEPT !.nonideal = w]
  <2> DEFINE count == newBuckets[b].count + 1
             crowded == count > tbl.ideal
             more == crowded /\ count > newBuckets[b].mult * tbl.ideal
             new == [first |-> i, count |-> count,
                     mult |-> IF more THEN newBuckets[b].mult + 1
                              ELSE newBuckets[b].mult]
             w == IF crowded THEN tbl.nonideal + 1 ELSE tbl.nonideal
  <2>1. /\ newBuckets' = [newBuckets EXCEPT ![b] = new]
        /\ tbl' = [tbl EXCEPT !.nonideal = w]
    BY DEF ExpandMove
  <2>2. IsBucket(new) /\ new.first = i /\ new.count = newBuckets[b].count + 1
    BY DEF IsBucket
  <2> HIDE DEF new, w
  <2> QED
    BY <2>1, <2>2
<1>2. /\ wpc = "move" /\ wpc' = "move" /\ todo # << >> /\ todo' = Tail(todo)
      /\ chainNext' = [chainNext EXCEPT ![i] = newBuckets[b].first]
      /\ chainPrev' = Linked(newBuckets, i, b, chainPrev)
      /\ UNCHANGED order
  BY DEF ExpandMove
<1>3. /\ tbl.n \in Nat \ {0} /\ IsTable(tbl)
      /\ Items(order) \in SUBSET HashItem
      /\ chainNext \in Pointers /\ chainPrev \in Pointers
      /\ todo \in Seq(HashItem) /\ Distinct(todo) /\ Items(todo) \subseteq Items(order)
  BY <1>2, MembersAreItems DEF HashBucketsInv, TableInv, AppInv, ChainsInv
<1>4. PICK C : InChains(newBuckets, m, chainNext, chainPrev, S, C)
  BY <1>2 DEF HashBucketsInv, ChainsInv
<1>5. /\ i \in Items(todo) /\ todo' \in Seq(HashItem) /\ Distinct(todo')
      /\ Items(todo') = Items(todo) \ {i}
  BY <1>2, <1>3, HeadAndTail
<1>6. m \in Nat \ {0} /\ i \in HashItem /\ i \notin S /\ S \in SUBSET HashItem
  BY <1>3, <1>5
<1>7. S \cup {i} = Items(order') \ Items(todo')
  BY <1>2, <1>3, <1>5
<1>8. PICK new, w :
        /\ IsBucket(new) /\ new.first = i /\ new.count = newBuckets[b].count + 1
        /\ newBuckets' = [newBuckets EXCEPT ![b] = new]
        /\ tbl' = [tbl EXCEPT !.nonideal = w]
  BY <1>1
<1>9. tbl'.n = tbl.n /\ tbl'.items = tbl.items
  BY <1>3, <1>8 DEF IsTable
<1> HIDE DEF i, m, S
<1>10. /\ chainNext' \in Pointers /\ chainPrev' \in Pointers
       /\ \E D : InChains(newBuckets', m, chainNext', chainPrev', S \cup {i}, D)
  BY <1>2, <1>3, <1>4, <1>6, <1>8, ChainsPushed
<1>11. TableInv'
  BY <1>2, <1>9, <1>10 DEF HashBucketsInv, TableInv
<1>12. ChainsInv'
  <2>1. m = 2 * tbl'.n
    BY <1>9 DEF m
  <2> QED
    BY <1>2, <1>3, <1>5, <1>7, <1>10, <2>1 DEF ChainsInv
<1> QED
  BY <1>11, <1>12 DEF HashBucketsInv

\* The rest of the expansion, from the last move to the new array in place.
LEMMA ExpandEndKeepsChains ==
  ASSUME AppInv, HashBucketsInv, ExpandFree \/ ExpandResize \/ ExpandPublish
  PROVE  HashBucketsInv'
<1>1. IsTable(tbl)
  BY DEF AppInv
<1>2. CASE ExpandFree
  <2>1. /\ wpc = "move" /\ todo = << >> /\ wpc' = "resize"
        /\ UNCHANGED << tbl, chainNext, chainPrev, newBuckets, order >>
    BY <1>2 DEF ExpandFree
  <2>2. Items(order) \ Items(todo) = Items(order)
    BY <2>1, NothingIn
  <2>3. TableInv'
    BY <2>1 DEF HashBucketsInv, TableInv
  <2>4. ChainsInv'
    BY <2>1, <2>2 DEF HashBucketsInv, ChainsInv
  <2> QED
    BY <2>3, <2>4 DEF HashBucketsInv
<1>3. CASE ExpandResize
  <2>1. /\ wpc = "resize" /\ wpc' = "publish" /\ tbl' = [tbl EXCEPT !.n = 2 * tbl.n]
        /\ UNCHANGED << chainNext, chainPrev, newBuckets, order >>
    BY <1>3 DEF ExpandResize
  <2>2. tbl'.n = 2 * tbl.n /\ tbl'.items = tbl.items
    BY <1>1, <2>1 DEF IsTable
  <2>3. 2 * tbl.n \in Nat \ {0}
    BY DEF HashBucketsInv, TableInv
  <2>4. TableInv'
    BY <2>1, <2>2, <2>3 DEF HashBucketsInv, TableInv
  <2>5. ChainsInv'
    BY <2>1, <2>2 DEF HashBucketsInv, ChainsInv
  <2> QED
    BY <2>4, <2>5 DEF HashBucketsInv
<1>4. CASE ExpandPublish
  <2>1. \E x, y : tbl' = [tbl EXCEPT !.ineff = x, !.noexpand = y]
    BY <1>4 DEF ExpandPublish
  <2>2. /\ wpc = "publish" /\ wpc' = "idle" /\ buckets' = newBuckets
        /\ UNCHANGED << chainNext, chainPrev, order >>
    BY <1>4 DEF ExpandPublish
  <2>3. tbl'.n = tbl.n /\ tbl'.items = tbl.items
    BY <1>1, <2>1 DEF IsTable
  <2>4. InBuckets' = Items(order)
    BY <2>2 DEF InBuckets
  <2>5. TableInv'
    BY <2>2, <2>3 DEF HashBucketsInv, TableInv
  <2>6. ChainsInv'
    BY <2>2, <2>3, <2>4 DEF HashBucketsInv, ChainsInv
  <2> QED
    BY <2>5, <2>6 DEF HashBucketsInv
<1> QED
  BY <1>2, <1>3, <1>4

LEMMA ChainsUntouched ==
  ASSUME HashBucketsInv, UNCHANGED hashVars
  PROVE  HashBucketsInv'
  BY DEF HashBucketsInv, TableInv, ChainsInv, InBuckets, hashVars

LEMMA ChainsStep ==
  ASSUME AppInv, HashBucketsInv, [HashNext]_<< hashVars, findVars, iterVars >>
  PROVE  HashBucketsInv'
<1>1. ASSUME NEW i \in HashItem,
             AddFirst(i) \/ AddAppend(i) \/ DeleteOnly(i) \/ DeleteOne(i)
      PROVE  HashBucketsInv'
  BY <1>1, AddFirstKeepsChains, AddAppendKeepsChains, DeleteOnlyKeepsChains,
     DeleteOneKeepsChains
<1>2. ASSUME NEW i \in HashItem, FindBegin(i) PROVE HashBucketsInv'
  BY <1>2, ChainsUntouched DEF FindBegin, Unwritten
<1>3. CASE AddToBucket
  BY <1>3, AddToBucketKeepsChains
<1>4. CASE ExpandBegin
  BY <1>4, ExpandBeginKeepsChains
<1>5. CASE ExpandMove
  BY <1>5, ExpandMoveKeepsChains
<1>6. CASE ExpandFree \/ ExpandResize \/ ExpandPublish
  BY <1>6, ExpandEndKeepsChains
<1>7. CASE FindBucket \/ FindWalk \/ FindReturn
  BY <1>7, ChainsUntouched DEF FindBucket, FindWalk, FindReturn, Unwritten
<1>8. CASE IterBegin \/ IterNext \/ IterEnd
  BY <1>8, ChainsUntouched DEF IterBegin, IterNext, IterEnd
<1>9. CASE UNCHANGED << hashVars, findVars, iterVars >>
  BY <1>9, ChainsUntouched
<1> QED
  BY <1>1, <1>2, <1>3, <1>4, <1>5, <1>6, <1>7, <1>8, <1>9 DEF HashNext

-----------------------------------------------------------------------------
(* What HASH_FSCK asks of a table.                                         *)

LEMMA AppListIsOrder ==
  ASSUME AppInv
  PROVE  AppList = order /\ Backwards(order, appPrev)
<1>1. /\ order \in Seq(HashItem) /\ Distinct(order)
      /\ appNext \in [HashItem -> Entry] /\ hhead = FirstOf(order)
      /\ \A j \in 1..Len(order) : appNext[order[j]] = After(order, j)
  BY DEF AppInv, Entry, FirstOf
<1>2. Met(FirstOf(order), appNext) = order
  BY <1>1, MetIsList
<1>3. DOMAIN order = 1..Len(order)
  BY <1>1
<1>4. Backwards(order, appPrev)
  BY <1>3 DEF AppInv, Backwards, Before
<1> QED
  BY <1>1, <1>2, <1>4 DEF AppList

LEMMA TablesAreWhole ==
  ASSUME AppInv, HashBucketsInv
  PROVE  HashIntegrity
<1>1. SUFFICES ASSUME wpc = "idle"
               PROVE  /\ AppList = order /\ Backwards(order, appPrev)
                      /\ tbl.items = Len(order)
                      /\ \A b \in 0..(tbl.n - 1) :
                           LET c == Chain(buckets, b, chainNext) IN
                           /\ Backwards(c, chainPrev)
                           /\ buckets[b].count = Len(c)
                           /\ {c[j] : j \in DOMAIN c}
                                = {i \in Members : ToBucket(i, tbl.n) = b}
  BY DEF HashIntegrity
<1>2. /\ tbl.n \in Nat \ {0} /\ chainNext \in Pointers
      /\ tbl.items = Len(order) /\ InBuckets = Members
  BY <1>1, MembersAreItems DEF HashBucketsInv, TableInv, InBuckets
<1>3. PICK C : InChains(buckets, tbl.n, chainNext, chainPrev, Members, C)
  BY <1>1, <1>2 DEF HashBucketsInv, ChainsInv
<1>4. ASSUME NEW b \in 0..(tbl.n - 1)
      PROVE  LET c == Chain(buckets, b, chainNext) IN
             /\ Backwards(c, chainPrev)
             /\ buckets[b].count = Len(c)
             /\ {c[j] : j \in DOMAIN c} = {i \in Members : ToBucket(i, tbl.n) = b}
  <2> DEFINE c == C[b]
  <2>1. Chain(buckets, b, chainNext) = c
    BY <1>2, <1>3, ChainMet
  <2>2. /\ c \in Seq(HashItem) /\ buckets[b].count = Len(c)
        /\ Chained(c, chainNext, chainPrev)
        /\ Items(c) = {i \in Members : ToBucket(i, tbl.n) = b}
    BY <1>3 DEF InChains
  <2> HIDE DEF c
  <2>3. DOMAIN c = 1..Len(c)
    BY <2>2
  <2>4. Backwards(c, chainPrev)
    BY <2>2, <2>3 DEF Backwards, Chained, Before
  <2>5. {c[j] : j \in DOMAIN c} = Items(c)
    BY <2>3 DEF Items
  <2> QED
    BY <2>1, <2>2, <2>4, <2>5
<1> QED
  BY <1>2, <1>4, AppListIsOrder

\* After every add and delete the list of the items and the chains of the buckets
\* agree with their backward pointers, with the counters and with each other: what
\* HASH_FSCK checks of a table (uthash.h:526).
THEOREM HashIntegrityHolds == HashSpec => []HashIntegrity
<1>1. HashInit => HashListInv /\ HashBucketsInv
  BY HashListStart, ChainsStart
<1>2. HashListInv /\ HashBucketsInv /\ [HashNext]_<< hashVars, findVars, iterVars >>
        => HashListInv' /\ HashBucketsInv'
  BY HashListStep, ChainsStep DEF HashListInv
<1>3. HashListInv /\ HashBucketsInv => HashIntegrity
  BY TablesAreWhole DEF HashListInv
<1> QED
  BY <1>1, <1>2, <1>3, PTL DEF HashSpec

-----------------------------------------------------------------------------
(* What a lookup finds while a thread adds.                                *)

\* The lookup is at an item of a chain from which the links lead to the one wanted.
OnTheWay ==
  \E c \in Seq(HashItem) : \E j, k \in 1..Len(c) :
    /\ j <= k /\ c[j] = fat /\ c[k] = fkey
    /\ Items(c) \subseteq InBuckets
    /\ \A l \in 1..Len(c) : chainNext[c[l]] = After(c, l)

\* A lookup that began with its item in the table is on the way to it, as long as
\* no expansion has run.
FindInv ==
  /\ fpc \in {"idle", "bucket", "walk"}
  /\ hfault => fexpanded /\ fpc = "walk"
  /\ arrayFreed => wpc \in {"resize", "publish"}
  /\ fpc # "idle" =>
       /\ hhead # NIL /\ fkey \in HashItem
       /\ wpc \in {"move", "resize", "publish"} => fexpanded
       /\ ~fexpanded => fsize = tbl.n
       /\ ~fexpanded /\ fpresent => fkey \in InBuckets
  /\ fpc = "walk" /\ ~fexpanded /\ fpresent => OnTheWay

LEMMA FindStart == HashInit => FindInv
  BY DEF HashInit, FindInv

LEMMA WayKept ==
  ASSUME OnTheWay, UNCHANGED << fkey, fat >>, InBuckets \subseteq InBuckets',
         \A x \in InBuckets : chainNext'[x] = chainNext[x]
  PROVE  OnTheWay'
<1>1. PICK c \in Seq(HashItem) :
        /\ \E j, k \in 1..Len(c) : j <= k /\ c[j] = fat /\ c[k] = fkey
        /\ Items(c) \subseteq InBuckets
        /\ \A l \in 1..Len(c) : chainNext[c[l]] = After(c, l)
  BY DEF OnTheWay
<1>2. \A l \in 1..Len(c) : c[l] \in Items(c)
  BY DEF Items
<1>3. \A l \in 1..Len(c) : chainNext'[c[l]] = After(c, l)
  BY <1>1, <1>2
<1>4. Items(c) \subseteq InBuckets'
  BY <1>1
<1> QED
  BY <1>1, <1>3, <1>4 DEF OnTheWay

\* A step of the writer that leaves the chains as they are for a reader.
LEMMA FindKept ==
  ASSUME FindInv, UNCHANGED findVars, hhead # NIL => hhead' # NIL, tbl'.n = tbl.n,
         ~arrayFreed, ~arrayFreed', wpc' \in {"idle", "bucket", "expand"},
         InBuckets \subseteq InBuckets',
         \A x \in InBuckets : chainNext'[x] = chainNext[x]
  PROVE  FindInv'
<1>1. UNCHANGED << fpc, fkey, fsize, fat, fpresent, fexpanded, hfault >>
  BY DEF findVars
<1>2. fpc = "walk" /\ ~fexpanded /\ fpresent => OnTheWay'
  BY <1>1, WayKept DEF FindInv
<1> QED
  BY <1>1, <1>2 DEF FindInv

\* No lookup is about.
LEMMA FindIdle ==
  ASSUME FindInv, fpc' = "idle", ~hfault', arrayFreed' => wpc' \in {"resize", "publish"}
  PROVE  FindInv'
  BY DEF FindInv

\* A step of an expansion, which a lookup in progress may take the blame for.
LEMMA FindOverlapped ==
  ASSUME FindInv, Overlap, UNCHANGED << hhead, fpc, fkey, fsize, fat, fpresent, hfault >>,
         arrayFreed' => wpc' \in {"resize", "publish"}
  PROVE  FindInv'
<1>1. fexpanded \/ fpc # "idle" => fexpanded'
  BY DEF Overlap
<1> QED
  BY <1>1 DEF FindInv

LEMMA AddsKeepFind ==
  ASSUME AppInv, HashBucketsInv, FindInv, NEW i \in HashItem,
         AddFirst(i) \/ AddAppend(i)
  PROVE  FindInv'
<1>1. BeginAdd(i) /\ UNCHANGED << chainNext, arrayFreed, findVars >>
  BY DEF AddFirst, AddAppend
<1>2. wpc = "idle" /\ wpc' = "bucket" /\ InBuckets' = InBuckets /\ ~arrayFreed
  BY <1>1, AddBegun DEF FindInv
<1>3. CASE AddFirst(i)
  <2>1. hhead = NIL
    BY <1>3 DEF AddFirst
  <2>2. fpc' = "idle" /\ ~hfault'
    BY <1>1, <2>1 DEF FindInv, findVars
  <2> QED
    BY <1>1, <1>2, <2>2, FindIdle
<1>4. CASE AddAppend(i)
  <2>1. tbl' = [tbl EXCEPT !.tail = i] /\ IsTable(tbl) /\ hhead' = hhead
    BY <1>4 DEF AddAppend, AppInv
  <2>2. tbl'.n = tbl.n
    BY <2>1 DEF IsTable
  <2> QED
    BY <1>1, <1>2, <2>1, <2>2, FindKept
<1> QED
  BY <1>3, <1>4

LEMMA AddToBucketKeepsFind ==
  ASSUME AppInv, HashBucketsInv, FindInv, AddToBucket
  PROVE  FindInv'
<1>1. /\ wpc = "bucket" /\ wpc' \in {"expand", "idle"}
      /\ chainNext' = [chainNext EXCEPT ![adding] =
                         buckets[ToBucket(adding, tbl.n)].first]
      /\ tbl' = [tbl EXCEPT !.items = tbl.items + 1]
      /\ UNCHANGED << hhead, order, arrayFreed, findVars >>
  BY DEF AddToBucket
<1>2. /\ InBuckets = Items(order) \ {adding} /\ InBuckets' = Items(order)
      /\ chainNext \in Pointers /\ IsTable(tbl) /\ ~arrayFreed
      /\ Items(order) \in SUBSET HashItem
  BY <1>1, MembersAreItems DEF HashBucketsInv, TableInv, InBuckets, AppInv, FindInv
<1>3. \A x \in InBuckets : chainNext'[x] = chainNext[x]
  BY <1>1, <1>2 DEF Pointers
<1>4. tbl'.n = tbl.n
  BY <1>1, <1>2 DEF IsTable
<1> QED
  BY <1>1, <1>2, <1>3, <1>4, FindKept

LEMMA ExpansionKeepsFind ==
  ASSUME FindInv,
         ExpandBegin \/ ExpandMove \/ ExpandFree \/ ExpandResize \/ ExpandPublish
  PROVE  FindInv'
<1>1. Overlap /\ UNCHANGED << hhead, fpc, fkey, fsize, fat, fpresent, hfault >>
  BY DEF ExpandBegin, ExpandMove, ExpandFree, ExpandResize, ExpandPublish
<1>2. arrayFreed' => wpc' \in {"resize", "publish"}
  <2>1. CASE ExpandBegin
    BY <2>1 DEF ExpandBegin, FindInv
  <2>2. CASE ExpandMove
    BY <2>2 DEF ExpandMove, FindInv
  <2>3. CASE ExpandFree
    BY <2>3 DEF ExpandFree
  <2>4. CASE ExpandResize
    BY <2>4 DEF ExpandResize
  <2>5. CASE ExpandPublish
    BY <2>5 DEF ExpandPublish
  <2> QED
    BY <2>1, <2>2, <2>3, <2>4, <2>5
<1> QED
  BY <1>1, <1>2, FindOverlapped

\* The first of the bucket wanted is on the way to the item wanted.
LEMMA WayBegins ==
  ASSUME HashBucketsInv, wpc \in {"idle", "bucket", "expand"},
         fkey \in InBuckets, InBuckets \in SUBSET HashItem,
         UNCHANGED << fkey, chainNext, order, wpc, adding >>,
         fat' = buckets[ToBucket(fkey, tbl.n)].first
  PROVE  OnTheWay'
<1> DEFINE b == ToBucket(fkey, tbl.n)
<1>1. PICK C : InChains(buckets, tbl.n, chainNext, chainPrev, InBuckets, C)
  BY DEF HashBucketsInv, ChainsInv
<1>2. b \in 0..(tbl.n - 1)
  BY BucketInRange DEF HashBucketsInv, TableInv
<1> DEFINE c == C[b]
<1>3. /\ c \in Seq(HashItem) /\ fat' = FirstOf(c)
      /\ Chained(c, chainNext, chainPrev)
      /\ Items(c) = {i \in InBuckets : ToBucket(i, tbl.n) = b}
  BY <1>1, <1>2 DEF InChains
<1>4. fkey \in Items(c) /\ Items(c) \subseteq InBuckets
  BY <1>3
<1> HIDE DEF c
<1>5. PICK k \in 1..Len(c) : c[k] = fkey
  BY <1>4 DEF Items
<1>6. 1 \in 1..Len(c) /\ 1 <= k /\ c # << >>
  BY <1>3, <1>5
<1>7. c[1] = fat'
  BY <1>3, <1>6 DEF FirstOf
<1>8. InBuckets' = InBuckets
  BY DEF InBuckets
<1>9. \A l \in 1..Len(c) : chainNext'[c[l]] = After(c, l)
  BY <1>3 DEF Chained
<1> QED
  BY <1>3, <1>4, <1>5, <1>6, <1>7, <1>8, <1>9 DEF OnTheWay

\* The next of an item that is not the one wanted is on the way too.
LEMMA WayGoesOn ==
  ASSUME OnTheWay, fat # fkey, fat' = chainNext[fat],
         UNCHANGED << fkey, chainNext, order, wpc, adding >>
  PROVE  OnTheWay'
<1>1. PICK c \in Seq(HashItem) :
        /\ \E j, k \in 1..Len(c) : j <= k /\ c[j] = fat /\ c[k] = fkey
        /\ Items(c) \subseteq InBuckets
        /\ \A l \in 1..Len(c) : chainNext[c[l]] = After(c, l)
  BY DEF OnTheWay
<1>2. PICK j \in 1..Len(c), k \in 1..Len(c) : j <= k /\ c[j] = fat /\ c[k] = fkey
  BY <1>1
<1>3. Len(c) \in Nat /\ j # k
  BY <1>2
<1>4. j + 1 \in 1..Len(c) /\ j + 1 <= k /\ j # Len(c)
  BY <1>2, <1>3
<1>5. fat' = c[j + 1]
  BY <1>1, <1>2, <1>4 DEF After
<1>6. InBuckets' = InBuckets
  BY DEF InBuckets
<1>7. PICK i \in 1..Len(c) : i <= k /\ fat' = c[i]
  BY <1>4, <1>5
<1> QED
  BY <1>1, <1>2, <1>6, <1>7 DEF OnTheWay

LEMMA LookupKeepsFind ==
  ASSUME AppInv, HashBucketsInv, FindInv,
         \/ \E i \in HashItem : FindBegin(i)
         \/ FindBucket \/ FindWalk \/ FindReturn
  PROVE  FindInv'
<1>1. UNCHANGED hashVars
  BY DEF FindBegin, FindBucket, FindWalk, FindReturn, Unwritten
<1>2. UNCHANGED << hhead, tbl, chainNext, arrayFreed, wpc, adding, order >>
  BY <1>1 DEF hashVars
<1>3. InBuckets' = InBuckets
  BY <1>2 DEF InBuckets
<1>4. InBuckets \in SUBSET HashItem /\ Members = Items(order)
      /\ wpc \in {"idle", "bucket", "expand", "move", "resize", "publish"}
  BY MembersAreItems DEF InBuckets, HashBucketsInv, TableInv
<1>5. ASSUME NEW i \in HashItem, FindBegin(i) PROVE FindInv'
  <2>1. /\ ~hfault' /\ hhead # NIL /\ fkey' = i /\ fsize' = tbl.n
        /\ fpresent' = (i \in Completed) /\ fpc' = "bucket"
        /\ fexpanded' = (wpc \in {"expand", "move", "resize", "publish"})
    BY <1>5 DEF FindBegin
  <2>2. i \in Completed => i \in InBuckets
    BY <1>4 DEF Completed, InBuckets
  <2>3. fpresent' => i \in InBuckets
    BY <2>1, <2>2
  <2>4. wpc \in {"move", "resize", "publish"} => fexpanded'
    BY <2>1
  <2> QED
    BY <1>2, <1>3, <2>1, <2>3, <2>4 DEF FindInv
<1>6. CASE FindBucket
  <2>1. /\ fpc = "bucket" /\ hfault' = arrayFreed /\ fpc' = "walk"
        /\ fat' = IF arrayFreed THEN NIL ELSE buckets[ToBucket(fkey, fsize)].first
        /\ UNCHANGED << fkey, fsize, fpresent, fexpanded >>
    BY <1>6 DEF FindBucket
  <2>2. hfault' => fexpanded
    BY <2>1 DEF FindInv
  <2>3. ASSUME ~fexpanded, fpresent PROVE OnTheWay'
    <3>1. /\ wpc \in {"idle", "bucket", "expand"} /\ fsize = tbl.n /\ ~arrayFreed
          /\ fkey \in InBuckets
      BY <1>4, <2>1, <2>3 DEF FindInv
    <3> QED
      BY <1>2, <1>4, <2>1, <3>1, WayBegins
  <2> QED
    BY <1>2, <1>3, <2>1, <2>2, <2>3 DEF FindInv
<1>7. CASE FindWalk
  <2>1. /\ fpc = "walk" /\ fat # fkey /\ fat' = chainNext[fat]
        /\ UNCHANGED << fpc, fkey, fsize, fpresent, fexpanded, hfault >>
    BY <1>7 DEF FindWalk
  <2>2. ~fexpanded /\ fpresent => OnTheWay'
    BY <1>2, <2>1, WayGoesOn DEF FindInv
  <2> QED
    BY <1>2, <1>3, <2>1, <2>2 DEF FindInv
<1>8. CASE FindReturn
  <2>1. fpc' = "idle" /\ ~hfault'
    BY <1>8 DEF FindReturn
  <2>2. arrayFreed' => wpc' \in {"resize", "publish"}
    BY <1>2 DEF FindInv
  <2> QED
    BY <2>1, <2>2, FindIdle
<1> QED
  BY <1>5, <1>6, <1>7, <1>8

LEMMA FindStep ==
  ASSUME AppInv, HashBucketsInv, FindInv, [HashNext]_<< hashVars, findVars, iterVars >>
  PROVE  FindInv'
<1>1. ASSUME UNCHANGED << hashVars, findVars >> PROVE FindInv'
  <2>1. UNCHANGED << hhead, tbl, chainNext, arrayFreed, wpc, adding, order >>
        /\ UNCHANGED << fpc, fkey, fsize, fat, fpresent, fexpanded, hfault >>
    BY <1>1 DEF hashVars, findVars
  <2>2. InBuckets' = InBuckets
    BY <2>1 DEF InBuckets
  <2>3. OnTheWay => OnTheWay'
    BY <2>1, <2>2, WayKept
  <2> QED
    BY <2>1, <2>2, <2>3 DEF FindInv
<1>2. ASSUME NEW i \in HashItem, DeleteOnly(i) \/ DeleteOne(i) PROVE FindInv'
  <2>1. fpc' = "idle" /\ ~hfault' /\ wpc = "idle" /\ arrayFreed' = arrayFreed
    BY <1>2 DEF DeleteOnly, DeleteOne, Idle, findVars
  <2>2. ~arrayFreed
    BY <2>1 DEF FindInv
  <2> QED
    BY <2>1, <2>2, FindIdle
<1>3. ASSUME NEW i \in HashItem,
             AddFirst(i) \/ AddAppend(i) \/ DeleteOnly(i) \/ DeleteOne(i) \/ FindBegin(i)
      PROVE  FindInv'
  BY <1>2, <1>3, AddsKeepFind, LookupKeepsFind
<1>4. CASE AddToBucket
  BY <1>4, AddToBucketKeepsFind
<1>5. CASE ExpandBegin \/ ExpandMove \/ ExpandFree \/ ExpandResize \/ ExpandPublish
  BY <1>5, ExpansionKeepsFind
<1>6. CASE FindBucket \/ FindWalk \/ FindReturn
  BY <1>6, LookupKeepsFind
<1>7. CASE IterBegin \/ IterNext \/ IterEnd
  BY <1>1, <1>7 DEF IterBegin, IterNext, IterEnd
<1>8. CASE UNCHANGED << hashVars, findVars, iterVars >>
  BY <1>1, <1>8
<1> QED
  BY <1>3, <1>4, <1>5, <1>6, <1>7, <1>8 DEF HashNext

\* A lookup misses a term that was in the table when it began, or reads a freed
\* array of buckets, only if an expansion has run meanwhile (HASH_FIND of a
\* segment's table while its writer adds, segment.c:141 and :21).
THEOREM MissOnlyDuringExpansionHolds == HashSpec => []MissOnlyDuringExpansion
<1>1. HashInit => HashListInv /\ HashBucketsInv /\ FindInv
  BY HashListStart, ChainsStart, FindStart
<1>2. (/\ HashListInv /\ HashBucketsInv /\ FindInv
       /\ [HashNext]_<< hashVars, findVars, iterVars >>)
        => HashListInv' /\ HashBucketsInv' /\ FindInv'
  <2> SUFFICES ASSUME HashListInv, HashBucketsInv, FindInv,
                      [HashNext]_<< hashVars, findVars, iterVars >>
               PROVE  HashListInv' /\ HashBucketsInv' /\ FindInv'
    OBVIOUS
  <2>1. AppInv
    BY DEF HashListInv
  <2>2. HashListInv'
    BY HashListStep
  <2>3. HashBucketsInv'
    BY <2>1, ChainsStep
  <2>4. FindInv'
    BY <2>1, FindStep
  <2> QED
    BY <2>2, <2>3, <2>4
<1>3. FindInv => MissOnlyDuringExpansion
  <2>1. OnTheWay => fat # NIL
    <3>1. SUFFICES ASSUME NEW c \in Seq(HashItem), NEW j \in 1..Len(c), c[j] = fat
                   PROVE  fat # NIL
      BY DEF OnTheWay
    <3>2. c[j] \in HashItem
      OBVIOUS
    <3> QED
      BY <3>1, <3>2, NoNilItem
  <2> QED
    BY <2>1 DEF FindInv, MissOnlyDuringExpansion
<1> QED
  BY <1>1, <1>2, <1>3, PTL DEF HashSpec

-----------------------------------------------------------------------------
(* The list of utlist.h: sequences with an element put in, taken out or    *)
(* replaced, and the pointers that go with them.                           *)

\* s with t in the place of its k-th element.
Spliced(s, k, t) == SubSeq(s, 1, k - 1) \o t \o SubSeq(s, k + 1, Len(s))

LEMMA SplicedShape ==
  ASSUME NEW S, NEW s \in Seq(S), NEW k \in 1..Len(s), NEW t \in Seq(S)
  PROVE  /\ Spliced(s, k, t) \in Seq(S) /\ Len(Spliced(s, k, t)) = Len(s) - 1 + Len(t)
         /\ \A j \in 1..(Len(s) - 1 + Len(t)) :
              Spliced(s, k, t)[j] = IF j < k THEN s[j]
                                    ELSE IF j < k + Len(t) THEN t[j - k + 1]
                                    ELSE s[j - Len(t) + 1]
<1> DEFINE n == Len(s)
           m == Len(t)
           a == SubSeq(s, 1, k - 1)
           b == SubSeq(s, k + 1, n)
           c == a \o t
<1>1. n \in Nat /\ m \in Nat /\ k \in 1..n /\ \A j \in 1..n : s[j] \in S
  OBVIOUS
<1>2. Spliced(s, k, t) = c \o b
  BY DEF Spliced
<1> HIDE DEF n
<1>3. a \in Seq(S) /\ Len(a) = k - 1 /\ \A j \in 1..(k - 1) : a[j] = s[j]
  <2>1. /\ 1 \in Int /\ k - 1 \in Int /\ \A j \in 1..(k - 1) : s[j] \in S
    BY <1>1
  <2>2. /\ a \in Seq(S)
        /\ Len(a) = IF 1 <= k - 1 THEN (k - 1) - 1 + 1 ELSE 0
        /\ \A j \in 1..((k - 1) - 1 + 1) : a[j] = s[1 + j - 1]
    BY <2>1, SubSeqProperties
  <2>3. (k - 1) - 1 + 1 = k - 1 /\ (~(1 <= k - 1) => k - 1 = 0)
        /\ \A j \in Int : 1 + j - 1 = j
    BY <1>1
  <2> QED
    BY <2>2, <2>3
<1>4. b \in Seq(S) /\ Len(b) = n - k /\ \A j \in 1..(n - k) : b[j] = s[k + j]
  <2>1. /\ k + 1 \in Int /\ n \in Int /\ \A j \in (k + 1)..n : s[j] \in S
    BY <1>1
  <2>2. /\ b \in Seq(S)
        /\ Len(b) = IF k + 1 <= n THEN n - (k + 1) + 1 ELSE 0
        /\ \A j \in 1..(n - (k + 1) + 1) : b[j] = s[(k + 1) + j - 1]
    BY <2>1, SubSeqProperties
  <2>3. n - (k + 1) + 1 = n - k /\ (~(k + 1 <= n) => n - k = 0)
        /\ \A j \in Int : (k + 1) + j - 1 = k + j
    BY <1>1
  <2> QED
    BY <2>2, <2>3
<1> HIDE DEF a, b
<1>5. /\ c \in Seq(S) /\ Len(c) = Len(a) + Len(t)
      /\ \A j \in 1..(Len(a) + Len(t)) : c[j] = IF j <= Len(a) THEN a[j] ELSE t[j - Len(a)]
  BY <1>3, ConcatProperties
<1> HIDE DEF c
<1>6. /\ c \o b \in Seq(S) /\ Len(c \o b) = Len(c) + Len(b)
      /\ \A j \in 1..(Len(c) + Len(b)) :
           (c \o b)[j] = IF j <= Len(c) THEN c[j] ELSE b[j - Len(c)]
  <2>1. c \in Seq(S) /\ b \in Seq(S)
    BY <1>4, <1>5
  <2> QED
    BY <2>1, ConcatProperties
<1> HIDE DEF m
<1>7. Len(c) = k - 1 + m /\ Len(c) + Len(b) = n - 1 + m /\ Len(a) + Len(t) = k - 1 + m
  BY <1>1, <1>3, <1>4, <1>5 DEF m
<1>8. ASSUME NEW j \in 1..(n - 1 + m)
      PROVE  (c \o b)[j] = IF j < k THEN s[j]
                           ELSE IF j < k + m THEN t[j - k + 1] ELSE s[j - m + 1]
  <2>1. (c \o b)[j] = IF j <= k - 1 + m THEN c[j] ELSE b[j - (k - 1 + m)]
    BY <1>6, <1>7
  <2>2. j \in 1..(k - 1 + m) => c[j] = IF j <= k - 1 THEN a[j] ELSE t[j - (k - 1)]
    BY <1>3, <1>5, <1>7
  <2>3. CASE j < k
    <3>1. j \in 1..(k - 1 + m) /\ j <= k - 1 + m /\ j <= k - 1 /\ j \in 1..(k - 1)
      BY <1>1, <2>3
    <3> QED
      BY <1>3, <2>1, <2>2, <2>3, <3>1
  <2>4. CASE ~(j < k) /\ j < k + m
    <3>1. /\ j \in 1..(k - 1 + m) /\ j <= k - 1 + m /\ ~(j <= k - 1)
          /\ j - (k - 1) = j - k + 1
      BY <1>1, <2>4
    <3> QED
      BY <2>1, <2>2, <2>4, <3>1
  <2>5. CASE ~(j < k) /\ ~(j < k + m)
    <3>1. /\ ~(j <= k - 1 + m) /\ j - (k - 1 + m) \in 1..(n - k)
          /\ k + (j - (k - 1 + m)) = j - m + 1
      BY <1>1, <2>5
    <3> QED
      BY <1>4, <2>1, <2>5, <3>1
  <2> QED
    BY <2>3, <2>4, <2>5
<1> QED
  BY <1>2, <1>6, <1>7, <1>8 DEF n, m

\* w is s with e put in as the k-th element, with e for the k-th.
PutIn(s, k, e, w) ==
  /\ Len(w) = Len(s) + 1
  /\ \A j \in 1..(Len(s) + 1) :
       w[j] = IF j < k THEN s[j] ELSE IF j = k THEN e ELSE s[j - 1]
PutFor(s, k, e, w) ==
  /\ Len(w) = Len(s)
  /\ \A j \in 1..Len(s) : w[j] = IF j = k THEN e ELSE s[j]

LEMMA PutFirst ==
  ASSUME NEW S, NEW s \in Seq(S), NEW e \in S
  PROVE  << e >> \o s \in Seq(S) /\ PutIn(s, 1, e, << e >> \o s)
<1> DEFINE n == Len(s)
           w == << e >> \o s
<1>1. n \in Nat /\ << e >> \in Seq(S) /\ Len(<< e >>) = 1
  OBVIOUS
<1>2. /\ w \in Seq(S) /\ Len(w) = 1 + n
      /\ \A j \in 1..(1 + n) : w[j] = IF j <= 1 THEN << e >>[j] ELSE s[j - 1]
  BY <1>1, ConcatProperties
<1> HIDE DEF w, n
<1>3. ASSUME NEW j \in 1..(n + 1)
      PROVE  w[j] = IF j < 1 THEN s[j] ELSE IF j = 1 THEN e ELSE s[j - 1]
  <2>1. j \in 1..(1 + n) /\ ~(j < 1) /\ (j <= 1 <=> j = 1)
    BY <1>1
  <2> QED
    BY <1>2, <2>1
<1>4. 1 + n = n + 1
  BY <1>1
<1> QED
  BY <1>2, <1>3, <1>4 DEF PutIn, w, n

LEMMA PutLast ==
  ASSUME NEW S, NEW s \in Seq(S), NEW e \in S
  PROVE  s \o << e >> \in Seq(S) /\ PutIn(s, Len(s) + 1, e, s \o << e >>)
<1> DEFINE n == Len(s)
           w == s \o << e >>
<1>1. n \in Nat /\ << e >> \in Seq(S) /\ Len(<< e >>) = 1 /\ << e >>[1] = e
  OBVIOUS
<1>2. /\ w \in Seq(S) /\ Len(w) = n + 1
      /\ \A j \in 1..(n + 1) : w[j] = IF j <= n THEN s[j] ELSE << e >>[j - n]
  BY <1>1, ConcatProperties
<1> HIDE DEF w, n
<1>3. ASSUME NEW j \in 1..(n + 1)
      PROVE  w[j] = IF j < n + 1 THEN s[j] ELSE IF j = n + 1 THEN e ELSE s[j - 1]
  <2>1. (j <= n <=> j < n + 1) /\ (~(j <= n) => j = n + 1 /\ j - n = 1)
    BY <1>1
  <2> QED
    BY <1>1, <1>2, <2>1
<1> QED
  BY <1>2, <1>3 DEF PutIn, w, n

LEMMA PutBefore ==
  ASSUME NEW S, NEW s \in Seq(S), NEW e \in S, NEW k \in 1..Len(s)
  PROVE  /\ Spliced(s, k, << e, s[k] >>) \in Seq(S)
         /\ PutIn(s, k, e, Spliced(s, k, << e, s[k] >>))
<1> DEFINE n == Len(s)
           t == << e, s[k] >>
           w == Spliced(s, k, t)
<1>1. /\ n \in Nat /\ k \in 1..n /\ s[k] \in S
      /\ t \in Seq(S) /\ Len(t) = 2 /\ t[1] = e /\ t[2] = s[k]
  OBVIOUS
<1> HIDE DEF t
<1>0. /\ w \in Seq(S) /\ Len(w) = n - 1 + Len(t)
      /\ \A j \in 1..(n - 1 + Len(t)) : w[j] = IF j < k THEN s[j]
                                               ELSE IF j < k + Len(t) THEN t[j - k + 1]
                                               ELSE s[j - Len(t) + 1]
  BY <1>1, SplicedShape
<1> HIDE DEF w, n
<1>2. /\ w \in Seq(S) /\ Len(w) = n - 1 + 2
      /\ \A j \in 1..(n - 1 + 2) : w[j] = IF j < k THEN s[j]
                                          ELSE IF j < k + 2 THEN t[j - k + 1]
                                          ELSE s[j - 2 + 1]
  BY <1>0, <1>1
<1>3. ASSUME NEW j \in 1..(n + 1)
      PROVE  w[j] = IF j < k THEN s[j] ELSE IF j = k THEN e ELSE s[j - 1]
  <2>1. j \in 1..(n - 1 + 2) /\ j - 2 + 1 = j - 1
    BY <1>1
  <2>2. w[j] = IF j < k THEN s[j] ELSE IF j < k + 2 THEN t[j - k + 1] ELSE s[j - 1]
    BY <1>2, <2>1
  <2>3. CASE j = k
    <3>1. ~(j < k) /\ j < k + 2 /\ j - k + 1 = 1
      BY <1>1, <2>3
    <3> QED
      BY <1>1, <2>2, <2>3, <3>1
  <2>4. CASE j = k + 1
    <3>1. ~(j < k) /\ j # k /\ j < k + 2 /\ j - k + 1 = 2 /\ j - 1 = k
      BY <1>1, <2>4
    <3> QED
      BY <1>1, <2>2, <3>1
  <2>5. CASE j # k /\ j # k + 1
    <3>1. j < k + 2 => j < k
      BY <1>1, <2>5
    <3> QED
      BY <2>2, <2>5, <3>1
  <2> QED
    BY <2>3, <2>4, <2>5
<1>4. n - 1 + 2 = n + 1
  BY <1>1
<1> QED
  BY <1>2, <1>3, <1>4 DEF PutIn, w, t, n

LEMMA PutInPlace ==
  ASSUME NEW S, NEW s \in Seq(S), NEW e \in S, NEW k \in 1..Len(s)
  PROVE  Spliced(s, k, << e >>) \in Seq(S) /\ PutFor(s, k, e, Spliced(s, k, << e >>))
<1> DEFINE n == Len(s)
           t == << e >>
           w == Spliced(s, k, t)
<1>1. /\ n \in Nat /\ k \in 1..n
      /\ t \in Seq(S) /\ Len(t) = 1 /\ t[1] = e
  OBVIOUS
<1> HIDE DEF t
<1>0. /\ w \in Seq(S) /\ Len(w) = n - 1 + Len(t)
      /\ \A j \in 1..(n - 1 + Len(t)) : w[j] = IF j < k THEN s[j]
                                               ELSE IF j < k + Len(t) THEN t[j - k + 1]
                                               ELSE s[j - Len(t) + 1]
  BY <1>1, SplicedShape
<1> HIDE DEF w, n
<1>2. /\ w \in Seq(S) /\ Len(w) = n - 1 + 1
      /\ \A j \in 1..(n - 1 + 1) : w[j] = IF j < k THEN s[j]
                                          ELSE IF j < k + 1 THEN t[j - k + 1]
                                          ELSE s[j - 1 + 1]
  BY <1>0, <1>1
<1>3. ASSUME NEW j \in 1..n
      PROVE  w[j] = IF j = k THEN e ELSE s[j]
  <2>1. j \in 1..(n - 1 + 1) /\ j - 1 + 1 = j
    BY <1>1
  <2>2. w[j] = IF j < k THEN s[j] ELSE IF j < k + 1 THEN t[j - k + 1] ELSE s[j]
    BY <1>2, <2>1
  <2>3. CASE j = k
    <3>1. ~(j < k) /\ j < k + 1 /\ j - k + 1 = 1
      BY <1>1, <2>3
    <3> QED
      BY <1>1, <2>2, <2>3, <3>1
  <2>4. CASE j # k
    <3>1. j < k + 1 => j < k
      BY <1>1, <2>4
    <3> QED
      BY <2>2, <2>4, <3>1
  <2> QED
    BY <2>3, <2>4
<1>4. n - 1 + 1 = n
  BY <1>1
<1> QED
  BY <1>2, <1>3, <1>4 DEF PutFor, w, t, n

LEMMA PutInDistinct ==
  ASSUME NEW S, NEW s \in Seq(S), Distinct(s), NEW k \in 1..(Len(s) + 1),
         NEW e, e \notin Items(s), NEW w, PutIn(s, k, e, w)
  PROVE  Distinct(w) /\ Items(w) = Items(s) \cup {e}
<1> DEFINE n == Len(s)
           old(j) == IF j < k THEN j ELSE j - 1
<1>1. /\ n \in Nat /\ k \in 1..(n + 1) /\ Len(w) = n + 1
      /\ \A j \in 1..(n + 1) :
           w[j] = IF j < k THEN s[j] ELSE IF j = k THEN e ELSE s[j - 1]
      /\ \A i, j \in 1..n : s[i] = s[j] => i = j
      /\ \A j \in 1..n : s[j] # e
      /\ Items(s) = {s[j] : j \in 1..n}
  BY DEF PutIn, Distinct, Items
<1> HIDE DEF n
<1>2. \A j \in 1..(n + 1) : j # k => old(j) \in 1..n /\ w[j] = s[old(j)]
  <2>1. SUFFICES ASSUME NEW j \in 1..(n + 1), j # k
                 PROVE  old(j) \in 1..n /\ w[j] = s[old(j)]
    OBVIOUS
  <2>2. CASE j < k
    <3>1. j \in 1..n
      BY <1>1, <2>2
    <3> QED
      BY <1>1, <2>2, <3>1
  <2>3. CASE ~(j < k)
    <3>1. j - 1 \in 1..n
      BY <1>1, <2>1, <2>3
    <3> QED
      BY <1>1, <2>1, <2>3, <3>1
  <2> QED
    BY <2>2, <2>3
<1>3. \A i, j \in 1..(n + 1) : i # k /\ j # k /\ old(i) = old(j) => i = j
  BY <1>1
<1>4. \A i \in 1..n : \E j \in 1..(n + 1) : j # k /\ old(j) = i
  <2>1. SUFFICES ASSUME NEW i \in 1..n PROVE \E j \in 1..(n + 1) : j # k /\ old(j) = i
    OBVIOUS
  <2>2. CASE i < k
    <3>1. i \in 1..(n + 1) /\ i # k /\ old(i) = i
      BY <1>1, <2>2
    <3> QED
      BY <3>1
  <2>3. CASE ~(i < k)
    <3>1. i + 1 \in 1..(n + 1) /\ i + 1 # k /\ ~(i + 1 < k) /\ (i + 1) - 1 = i
      BY <1>1, <2>3
    <3>2. old(i + 1) = i
      BY <3>1
    <3> QED
      BY <3>1, <3>2
  <2> QED
    BY <2>2, <2>3
<1>5. k \in 1..(n + 1) /\ w[k] = e
  BY <1>1
<1> HIDE DEF old
<1>6. Distinct(w)
  <2>1. SUFFICES ASSUME NEW i \in 1..(n + 1), NEW j \in 1..(n + 1), w[i] = w[j]
                 PROVE  i = j
    BY <1>1 DEF Distinct
  <2> QED
    BY <1>1, <1>2, <1>3, <1>5, <2>1
<1>7. Items(w) = Items(s) \cup {e}
  <2>1. Items(w) = {w[j] : j \in 1..(n + 1)}
    BY <1>1 DEF Items
  <2>2. \A j \in 1..(n + 1) : w[j] \in Items(s) \cup {e}
    BY <1>1, <1>2, <1>5
  <2>3. \A x \in Items(s) \cup {e} : \E j \in 1..(n + 1) : w[j] = x
    BY <1>1, <1>2, <1>4, <1>5
  <2> QED
    BY <2>1, <2>2, <2>3
<1> QED
  BY <1>6, <1>7

LEMMA PutForDistinct ==
  ASSUME NEW S, NEW s \in Seq(S), Distinct(s), NEW k \in 1..Len(s),
         NEW e, e \notin Items(s), NEW w, PutFor(s, k, e, w)
  PROVE  Distinct(w) /\ Items(w) = (Items(s) \ {s[k]}) \cup {e}
<1> DEFINE n == Len(s)
<1>1. /\ n \in Nat /\ k \in 1..n /\ Len(w) = n
      /\ \A j \in 1..n : w[j] = IF j = k THEN e ELSE s[j]
      /\ \A i, j \in 1..n : s[i] = s[j] => i = j
      /\ \A j \in 1..n : s[j] # e
      /\ Items(s) = {s[j] : j \in 1..n}
  BY DEF PutFor, Distinct, Items
<1> HIDE DEF n
<1>2. Items(w) = {w[j] : j \in 1..n}
  BY <1>1 DEF Items
<1>3. Distinct(w)
  BY <1>1 DEF Distinct
<1>4. \A j \in 1..n : w[j] \in (Items(s) \ {s[k]}) \cup {e}
  BY <1>1
<1>5. \A x \in (Items(s) \ {s[k]}) \cup {e} : \E j \in 1..n : w[j] = x
  BY <1>1
<1> QED
  BY <1>2, <1>3, <1>4, <1>5

-----------------------------------------------------------------------------
(* The pointers of a list.                                                 *)

\* next leads from each element to the one after, and prev, but from the first,
\* to the one before.
Threaded(s, next, prev) ==
  \A j \in 1..Len(s) : /\ next[s[j]] = After(s, j)
                       /\ j # 1 => prev[s[j]] = s[j - 1]

LEMMA PutInThreaded ==
  ASSUME NEW S, NEW s \in Seq(S), NEW k \in 1..(Len(s) + 1), NEW e,
         NEW w, PutIn(s, k, e, w),
         NEW next, NEW prev, Threaded(s, next, prev), NEW next2, NEW prev2,
         next2[e] = IF k = Len(s) + 1 THEN NIL ELSE s[k],
         k # 1 => prev2[e] = s[k - 1],
         \A j \in 1..Len(s) :
           /\ next2[s[j]] = IF j = k - 1 THEN e ELSE next[s[j]]
           /\ j = k => prev2[s[j]] = e
           /\ j # k /\ j # 1 => prev2[s[j]] = prev[s[j]]
  PROVE  Threaded(w, next2, prev2)
<1> DEFINE n == Len(s)
<1>1. /\ n \in Nat /\ k \in 1..(n + 1) /\ Len(w) = n + 1
      /\ \A j \in 1..(n + 1) :
           w[j] = IF j < k THEN s[j] ELSE IF j = k THEN e ELSE s[j - 1]
  BY DEF PutIn
<1>2. /\ \A j \in 1..n :
           /\ next2[s[j]] = IF j = k - 1 THEN e ELSE IF j = n THEN NIL ELSE s[j + 1]
           /\ j = k => prev2[s[j]] = e
           /\ j # k /\ j # 1 => prev2[s[j]] = s[j - 1]
      /\ next2[e] = IF k = n + 1 THEN NIL ELSE s[k]
      /\ k # 1 => prev2[e] = s[k - 1]
  BY DEF Threaded, After
<1> HIDE DEF n
<1>3. ASSUME NEW j \in 1..(n + 1)
      PROVE  next2[w[j]] = IF j = n + 1 THEN NIL ELSE w[j + 1]
  <2>1. j # n + 1 => j + 1 \in 1..(n + 1)
    BY <1>1
  <2>2. CASE j = k
    <3>1. w[j] = e
      BY <1>1, <2>2
    <3>2. CASE j = n + 1
      BY <1>2, <2>2, <3>1, <3>2
    <3>3. CASE j # n + 1
      <4>1. ~(j + 1 < k) /\ j + 1 # k /\ (j + 1) - 1 = k
        BY <1>1, <2>2
      <4>2. w[j + 1] = s[k]
        BY <1>1, <2>1, <3>3, <4>1
      <4> QED
        BY <1>2, <2>2, <3>1, <3>3, <4>2
    <3> QED
      BY <3>2, <3>3
  <2>3. CASE j < k
    <3>1. j \in 1..n /\ j # n + 1 /\ w[j] = s[j]
      BY <1>1, <2>3
    <3>2. CASE j = k - 1
      <4>1. j + 1 = k
        BY <1>1, <3>2
      <4>2. w[j + 1] = e
        BY <1>1, <4>1
      <4> QED
        BY <1>2, <3>1, <3>2, <4>2
    <3>3. CASE j # k - 1
      <4>1. j + 1 < k /\ j # n
        BY <1>1, <2>3, <3>3
      <4>2. w[j + 1] = s[j + 1]
        BY <1>1, <2>1, <3>1, <4>1
      <4> QED
        BY <1>2, <3>1, <3>3, <4>1, <4>2
    <3> QED
      BY <3>2, <3>3
  <2>4. CASE j > k
    <3>1. /\ j - 1 \in 1..n /\ ~(j < k) /\ j # k /\ j - 1 # k - 1
          /\ (j - 1) + 1 = j /\ (j - 1 = n <=> j = n + 1)
      BY <1>1, <2>4
    <3>2. w[j] = s[j - 1]
      BY <1>1, <3>1
    <3>3. next2[s[j - 1]] = IF j = n + 1 THEN NIL ELSE s[j]
      BY <1>2, <3>1
    <3>4. j # n + 1 => w[j + 1] = s[j]
      <4>1. ~(j + 1 < k) /\ j + 1 # k /\ (j + 1) - 1 = j
        BY <1>1, <2>4
      <4> QED
        BY <1>1, <2>1, <4>1
    <3> QED
      BY <3>2, <3>3, <3>4
  <2>5. j = k \/ j < k \/ j > k
    BY <1>1
  <2> QED
    BY <2>2, <2>3, <2>4, <2>5
<1>4. ASSUME NEW j \in 1..(n + 1), j # 1
      PROVE  prev2[w[j]] = w[j - 1]
  <2>1. j - 1 \in 1..(n + 1) /\ j - 1 \in 1..n
    BY <1>1, <1>4
  <2>2. CASE j = k
    <3>1. w[j] = e /\ j - 1 < k
      BY <1>1, <2>2
    <3>2. w[j - 1] = s[k - 1]
      BY <1>1, <2>1, <2>2, <3>1
    <3> QED
      BY <1>2, <1>4, <2>2, <3>1, <3>2
  <2>3. CASE j < k
    <3>1. j \in 1..n /\ j - 1 < k /\ w[j] = s[j] /\ j # k
      BY <1>1, <2>3
    <3>2. w[j - 1] = s[j - 1]
      BY <1>1, <2>1, <3>1
    <3> QED
      BY <1>2, <1>4, <3>1, <3>2
  <2>4. CASE j > k
    <3>1. ~(j < k) /\ j # k /\ ~(j - 1 < k)
      BY <1>1, <2>4
    <3>2. w[j] = s[j - 1]
      BY <1>1, <3>1
    <3>3. CASE j - 1 = k
      <4>1. w[j - 1] = e
        BY <1>1, <2>1, <3>3
      <4> QED
        BY <1>2, <2>1, <3>2, <3>3, <4>1
    <3>4. CASE j - 1 # k
      <4>1. j - 1 # 1
        BY <1>1, <2>4, <3>4
      <4>2. w[j - 1] = s[(j - 1) - 1]
        BY <1>1, <2>1, <3>1, <3>4
      <4> QED
        BY <1>2, <2>1, <3>2, <3>4, <4>1, <4>2
    <3> QED
      BY <3>3, <3>4
  <2>5. j = k \/ j < k \/ j > k
    BY <1>1
  <2> QED
    BY <2>2, <2>3, <2>4, <2>5
<1> QED
  BY <1>1, <1>3, <1>4 DEF Threaded, After

LEMMA PutForThreaded ==
  ASSUME NEW S, NEW s \in Seq(S), NEW k \in 1..Len(s), NEW e,
         NEW w, PutFor(s, k, e, w),
         NEW next, NEW prev, Threaded(s, next, prev), NEW next2, NEW prev2,
         next2[e] = After(s, k), k # 1 => prev2[e] = s[k - 1],
         \A j \in 1..Len(s) :
           j # k => /\ next2[s[j]] = IF j = k - 1 THEN e ELSE next[s[j]]
                    /\ j # 1 => prev2[s[j]] = IF j = k + 1 THEN e ELSE prev[s[j]]
  PROVE  Threaded(w, next2, prev2)
<1> DEFINE n == Len(s)
<1>1. /\ n \in Nat /\ k \in 1..n /\ Len(w) = n
      /\ \A j \in 1..n : w[j] = IF j = k THEN e ELSE s[j]
  BY DEF PutFor
<1>2. /\ \A j \in 1..n :
           j # k =>
             /\ next2[s[j]] = IF j = k - 1 THEN e ELSE IF j = n THEN NIL ELSE s[j + 1]
             /\ j # 1 => prev2[s[j]] = IF j = k + 1 THEN e ELSE s[j - 1]
      /\ next2[e] = IF k = n THEN NIL ELSE s[k + 1]
      /\ k # 1 => prev2[e] = s[k - 1]
  BY DEF Threaded, After
<1> HIDE DEF n
<1>3. ASSUME NEW j \in 1..n
      PROVE  next2[w[j]] = IF j = n THEN NIL ELSE w[j + 1]
  <2>1. j # n => j + 1 \in 1..n
    BY <1>1
  <2>2. CASE j = k
    <3>1. j + 1 # k
      BY <1>1, <2>2
    <3>2. j # n => w[j + 1] = s[k + 1]
      BY <1>1, <2>1, <2>2, <3>1
    <3> QED
      BY <1>1, <1>2, <2>2, <3>2
  <2>3. CASE j # k
    <3>1. j + 1 = k <=> j = k - 1
      BY <1>1
    <3>2. j = k - 1 => j # n
      BY <1>1
    <3>3. j # n => w[j + 1] = IF j = k - 1 THEN e ELSE s[j + 1]
      BY <1>1, <2>1, <3>1
    <3>4. w[j] = s[j]
      BY <1>1, <2>3
    <3> QED
      BY <1>2, <2>3, <3>2, <3>3, <3>4
  <2> QED
    BY <2>2, <2>3
<1>4. ASSUME NEW j \in 1..n, j # 1
      PROVE  prev2[w[j]] = w[j - 1]
  <2>1. j - 1 \in 1..n /\ (j - 1 = k <=> j = k + 1)
    BY <1>1, <1>4
  <2>2. w[j - 1] = IF j = k + 1 THEN e ELSE s[j - 1]
    BY <1>1, <2>1
  <2>3. CASE j = k
    <3>1. j # k + 1
      BY <1>1, <2>3
    <3> QED
      BY <1>1, <1>2, <1>4, <2>2, <2>3, <3>1
  <2>4. CASE j # k
    <3>1. w[j] = s[j]
      BY <1>1, <2>4
    <3> QED
      BY <1>2, <1>4, <2>2, <2>4, <3>1
  <2> QED
    BY <2>3, <2>4
<1> QED
  BY <1>1, <1>3, <1>4 DEF Threaded, After

LEMMA TakenOutThreaded ==
  ASSUME NEW S, NEW s \in Seq(S), NEW k \in 1..Len(s), NEW w, TakenOut(s, k, w),
         NEW next, NEW prev, Threaded(s, next, prev), NEW next2, NEW prev2,
         \A j \in 1..Len(s) :
           j # k => /\ next2[s[j]] = IF j = k - 1 THEN After(s, k) ELSE next[s[j]]
                    /\ j # 1 /\ j = k + 1 /\ k # 1 => prev2[s[j]] = s[k - 1]
                    /\ j # 1 /\ j # k + 1 => prev2[s[j]] = prev[s[j]]
  PROVE  Threaded(w, next2, prev2)
<1> DEFINE n == Len(s)
           old(j) == IF j < k THEN j ELSE j + 1
<1>1. /\ n \in Nat /\ k \in 1..n /\ Len(w) = n - 1
      /\ \A j \in 1..(n - 1) : w[j] = IF j < k THEN s[j] ELSE s[j + 1]
  BY DEF TakenOut
<1>2. \A j \in 1..n :
        j # k =>
          /\ next2[s[j]] = IF j = k - 1 THEN (IF k = n THEN NIL ELSE s[k + 1])
                           ELSE IF j = n THEN NIL ELSE s[j + 1]
          /\ j # 1 /\ j = k + 1 /\ k # 1 => prev2[s[j]] = s[k - 1]
          /\ j # 1 /\ j # k + 1 => prev2[s[j]] = s[j - 1]
  BY DEF Threaded, After
<1> HIDE DEF n
<1>3. ASSUME NEW j \in 1..(n - 1)
      PROVE  next2[w[j]] = IF j = n - 1 THEN NIL ELSE w[j + 1]
  <2>1. j # n - 1 => j + 1 \in 1..(n - 1)
    BY <1>1
  <2>2. CASE j < k
    <3>1. j \in 1..n /\ j # k /\ j # n /\ w[j] = s[j]
      BY <1>1, <2>2
    <3>2. CASE j = k - 1
      <4>1. (k = n <=> j = n - 1) /\ ~(j + 1 < k) /\ (j + 1) + 1 = k + 1
        BY <1>1, <3>2
      <4>2. j # n - 1 => w[j + 1] = s[k + 1]
        BY <1>1, <2>1, <4>1
      <4> QED
        BY <1>2, <3>1, <3>2, <4>1, <4>2
    <3>3. CASE j # k - 1
      <4>1. j + 1 < k /\ j # n - 1
        BY <1>1, <2>2, <3>3
      <4>2. w[j + 1] = s[j + 1]
        BY <1>1, <2>1, <4>1
      <4> QED
        BY <1>2, <3>1, <3>3, <4>1, <4>2
    <3> QED
      BY <3>2, <3>3
  <2>3. CASE ~(j < k)
    <3>1. /\ j + 1 \in 1..n /\ j + 1 # k /\ j + 1 # k - 1
          /\ (j + 1 = n <=> j = n - 1) /\ ~(j + 1 < k)
      BY <1>1, <2>3
    <3>2. w[j] = s[j + 1]
      BY <1>1, <2>3
    <3>3. j # n - 1 => w[j + 1] = s[(j + 1) + 1]
      BY <1>1, <2>1, <3>1
    <3> QED
      BY <1>2, <3>1, <3>2, <3>3
  <2> QED
    BY <2>2, <2>3
<1>4. ASSUME NEW j \in 1..(n - 1), j # 1
      PROVE  prev2[w[j]] = w[j - 1]
  <2>1. j - 1 \in 1..(n - 1)
    BY <1>1, <1>4
  <2>2. CASE j < k
    <3>1. j \in 1..n /\ j # k /\ j # k + 1 /\ j - 1 < k /\ w[j] = s[j]
      BY <1>1, <2>2
    <3>2. w[j - 1] = s[j - 1]
      BY <1>1, <2>1, <3>1
    <3> QED
      BY <1>2, <1>4, <3>1, <3>2
  <2>3. CASE ~(j < k)
    <3>1. /\ j + 1 \in 1..n /\ j + 1 # k /\ j + 1 # 1 /\ (j + 1) - 1 = j
          /\ (j - 1 < k <=> j = k) /\ (j - 1) + 1 = j /\ (j + 1 = k + 1 <=> j = k)
      BY <1>1, <2>3
    <3>2. w[j] = s[j + 1]
      BY <1>1, <2>3
    <3>3. w[j - 1] = IF j = k THEN s[j - 1] ELSE s[j]
      BY <1>1, <2>1, <3>1
    <3>4. CASE j = k
      <4>1. prev2[s[j + 1]] = s[k - 1]
        BY <1>2, <1>4, <3>1, <3>4
      <4> QED
        BY <3>2, <3>3, <3>4, <4>1
    <3>5. CASE j # k
      <4>1. prev2[s[j + 1]] = s[j]
        BY <1>2, <3>1, <3>5
      <4> QED
        BY <3>2, <3>3, <3>5, <4>1
    <3> QED
      BY <3>4, <3>5
  <2> QED
    BY <2>2, <2>3
<1> QED
  BY <1>1, <1>3, <1>4 DEF Threaded, After

\* The elements in the list are those of s, linked both ways; the first leads back
\* to the last, but for a list begun by hand as long as its tail was not deleted.
Ring(s) ==
  /\ s \in Seq(ListElem) /\ Distinct(s) /\ Items(s) = inList
  /\ Threaded(s, lnext, lprev)
  /\ lhead = FirstOf(s)
  /\ s # << >> => lprev[s[1]] \in {NULLP, s[Len(s)]}
  /\ s # << >> /\ ~byHand => lprev[s[1]] # NULLP

LinksTyped ==
  /\ lnext \in [ListElem -> ListElem \cup {NULLP}]
  /\ lprev \in [ListElem -> ListElem \cup {NULLP}]

RingInv == LinksTyped /\ Ring(Walked)

LEMMA NoNullElem == NULLP \notin ListElem /\ NULLP = NIL
  BY ListElemAssumption DEF NULLP, NIL

LEMMA RingFacts ==
  ASSUME NEW s, Ring(s)
  PROVE  /\ Len(s) \in Nat /\ (s = << >> <=> Len(s) = 0)
         /\ \A j \in 1..Len(s) : s[j] \in ListElem /\ s[j] # NULLP /\ s[j] \in inList
         /\ \A i, j \in 1..Len(s) : s[i] = s[j] => i = j
         /\ \A e \in inList : \E k \in 1..Len(s) : s[k] = e
         /\ Len(s) # 0 => /\ 1 \in 1..Len(s) /\ Len(s) \in 1..Len(s)
                          /\ lhead = s[1] /\ lprev[s[1]] \in {NULLP, s[Len(s)]}
                          /\ (TailKnown <=> lprev[s[1]] # NULLP)
         /\ Len(s) = 0 => lhead = NULLP /\ TailKnown
         /\ ~byHand => TailKnown
<1>1. s \in Seq(ListElem)
  BY DEF Ring
<1>2. /\ Len(s) \in Nat /\ (s = << >> <=> Len(s) = 0)
      /\ \A j \in 1..Len(s) : s[j] \in ListElem
  BY <1>1
<1>3. Len(s) # 0 => 1 \in 1..Len(s) /\ Len(s) \in 1..Len(s)
  BY <1>2
<1>4. /\ \A i, j \in 1..Len(s) : s[i] = s[j] => i = j
      /\ inList = {s[j] : j \in 1..Len(s)}
  BY DEF Ring, Distinct, Items
<1>5. lhead = IF Len(s) = 0 THEN NULLP ELSE s[1]
  BY <1>2, NoNullElem DEF Ring, FirstOf
<1>6. /\ Len(s) # 0 => lprev[s[1]] \in {NULLP, s[Len(s)]}
      /\ Len(s) # 0 /\ ~byHand => lprev[s[1]] # NULLP
  BY <1>2 DEF Ring
<1>7. Len(s) # 0 => (TailKnown <=> lprev[s[1]] # NULLP)
  BY <1>2, <1>3, <1>5, NoNullElem DEF TailKnown
<1>8. Len(s) = 0 => TailKnown
  BY <1>5 DEF TailKnown
<1> QED
  BY <1>2, <1>3, <1>4, <1>5, <1>6, <1>7, <1>8, NoNullElem

WalkFrom(head, link, n) == (CHOOSE f : IsWalk(f, n, ListElem, link))[n][head]

LEMMA ThreadWalked ==
  ASSUME NEW w \in Seq(ListElem), Distinct(w),
         NEW next \in [ListElem -> ListElem \cup {NULLP}], NEW prev,
         Threaded(w, next, prev)
  PROVE  WalkFrom(FirstOf(w), next, Cardinality(Items(w))) = w
<1> DEFINE n == Cardinality(Items(w))
           f == CHOOSE g : IsWalk(g, n, ListElem, next)
<1>1. n = Len(w) /\ n \in Nat /\ Len(w) <= n
  BY LengthIsSize
<1>2. next \in [ListElem -> ListElem \cup {NIL}] /\ NIL \notin ListElem
  BY NoNullElem
<1>3. \A j \in 1..Len(w) : next[w[j]] = After(w, j)
  BY DEF Threaded
<1> HIDE DEF n
<1>4. \E g : IsWalk(g, n, ListElem, next)
  BY <1>1, <1>2, WalkExists
<1>5. IsWalk(f, n, ListElem, next)
  BY <1>4
<1> HIDE DEF f
<1>6. f[n][FirstOf(w)] = w
  BY <1>1, <1>2, <1>3, <1>5, WalkIsList
<1> QED
  BY <1>6 DEF WalkFrom, f, n

\* What a macro has to leave behind.
LEMMA RingAgain ==
  ASSUME NEW w, w \in Seq(ListElem), Distinct(w), Items(w) = inList',
         LinksTyped', Threaded(w, lnext', lprev'), lhead' = FirstOf(w),
         w # << >> => lprev'[w[1]] \in {NULLP, w[Len(w)]},
         w # << >> /\ ~byHand' => lprev'[w[1]] # NULLP
  PROVE  RingInv' /\ Walked' = w
<1>1. Walked' = WalkFrom(lhead', lnext', Cardinality(inList'))
  BY NoNullElem DEF Walked, WalkFrom, IsWalk
<1>2. WalkFrom(FirstOf(w), lnext', Cardinality(Items(w))) = w
  BY ThreadWalked DEF LinksTyped
<1>3. Walked' = w
  BY <1>1, <1>2
<1>4. Ring(Walked)'
  BY <1>3 DEF Ring
<1> QED
  BY <1>3, <1>4 DEF RingInv

LEMMA PlaceFound ==
  ASSUME NEW s, Ring(s), s = Walked, NEW k \in 1..Len(s)
  PROVE  AsSegmentList!Place(s[k]) = k /\ AsSegmentList!In(s[k])
<1>1. \A i, j \in 1..Len(s) : s[i] = s[j] => i = j
  BY RingFacts
<1>2. k \in 1..Len(Walked) /\ Walked[k] = s[k]
      /\ \A i \in 1..Len(Walked) : Walked[i] = s[k] => i = k
  BY <1>1
<1>3. AsSegmentList!Place(s[k]) = k
  BY <1>2 DEF AsSegmentList!Place
<1>4. AsSegmentList!In(s[k])
  BY <1>2 DEF AsSegmentList!In
<1> QED
  BY <1>3, <1>4

LEMMA NotFound ==
  ASSUME NEW s, Ring(s), s = Walked, NEW e, e \notin inList
  PROVE  ~AsSegmentList!In(e) /\ e \notin Items(s) /\ \A j \in 1..Len(s) : s[j] # e
<1>1. \A j \in 1..Len(s) : s[j] \in inList
  BY RingFacts
<1> QED
  BY <1>1 DEF AsSegmentList!In, Items

LEMMA RingStart == ListInit => RingInv /\ AsSegmentList!Init
<1> SUFFICES ASSUME ListInit PROVE RingInv /\ AsSegmentList!Init
  OBVIOUS
<1>1. /\ lprev = [e \in ListElem |-> NULLP] /\ lnext = [e \in ListElem |-> NULLP]
      /\ lfailed = FALSE
      /\ \/ lhead = NULLP /\ inList = {} /\ byHand = FALSE
         \/ lhead \in ListElem /\ inList = {lhead} /\ byHand = TRUE
  BY DEF ListInit
<1>2. LinksTyped
  BY <1>1 DEF LinksTyped
<1>3. Walked = WalkFrom(lhead, lnext, Cardinality(inList))
  BY NoNullElem DEF Walked, WalkFrom, IsWalk
<1>4. ASSUME NEW w \in Seq(ListElem), Ring(w) PROVE RingInv /\ Walked = w
  <2>1. WalkFrom(FirstOf(w), lnext, Cardinality(Items(w))) = w
    BY <1>2, <1>4, ThreadWalked DEF LinksTyped, Ring
  <2>2. Walked = w
    BY <1>3, <1>4, <2>1 DEF Ring
  <2> QED
    BY <1>2, <1>4, <2>2 DEF RingInv
<1>5. CASE lhead = NULLP /\ inList = {} /\ byHand = FALSE
  <2>1. Threaded(<< >>, lnext, lprev)
    BY DEF Threaded
  <2>2. Ring(<< >>)
    BY <1>5, <2>1, NothingIn, NoNullElem DEF Ring, FirstOf
  <2>3. RingInv /\ Walked = << >>
    <3>1. \A w \in Seq(ListElem) : Ring(w) => RingInv /\ Walked = w
      BY <1>4
    <3>2. << >> \in Seq(ListElem)
      OBVIOUS
    <3> QED
      BY <2>2, <3>1, <3>2
  <2> QED
    BY <1>1, <1>5, <2>3 DEF AsSegmentList!Init, TailKnown
<1>6. CASE lhead \in ListElem /\ inList = {lhead} /\ byHand = TRUE
  <2> DEFINE w == << lhead >>
  <2>1. /\ w \in Seq(ListElem) /\ Len(w) = 1 /\ w[1] = lhead /\ w # << >>
        /\ \A j \in 1..1 : j = 1
    BY <1>6
  <2> HIDE DEF w
  <2>2. Distinct(w) /\ Items(w) = inList /\ lhead = FirstOf(w)
    BY <1>6, <2>1 DEF Distinct, Items, FirstOf
  <2>3. Threaded(w, lnext, lprev)
    <3>1. lnext[w[1]] = NIL
      BY <1>1, <1>6, <2>1, NoNullElem
    <3> QED
      BY <2>1, <3>1 DEF Threaded, After
  <2>4. Ring(w)
    BY <1>1, <1>6, <2>1, <2>2, <2>3 DEF Ring
  <2>5. RingInv /\ Walked = w
    BY <1>4, <2>1, <2>4
  <2>6. TailKnown = FALSE
    BY <1>1, <1>6, NoNullElem DEF TailKnown
  <2> QED
    BY <1>1, <1>6, <2>5, <2>6 DEF AsSegmentList!Init, w
<1> QED
  BY <1>1, <1>5, <1>6

LEMMA PrependRefines ==
  ASSUME RingInv, NEW e \in ListElem, DL_PREPEND(e)
  PROVE  RingInv' /\ AsSegmentList!Next
<1>1. /\ ~lfailed /\ e \notin inList /\ inList' = inList \cup {e}
      /\ lnext' = [lnext EXCEPT ![e] = lhead]
      /\ lprev' = IF lhead = NULLP THEN [lprev EXCEPT ![e] = e]
                  ELSE [lprev EXCEPT ![e] = lprev[lhead], ![lhead] = e]
      /\ lhead' = e /\ byHand' = byHand /\ lfailed' = lfailed
  BY DEF DL_PREPEND, New
<1>2. PICK s : s = Walked /\ Ring(s) /\ LinksTyped
  BY DEF RingInv
<1> DEFINE n == Len(s)
           w == << e >> \o s
<1>3. /\ n \in Nat /\ (s = << >> <=> n = 0)
      /\ \A j \in 1..n : s[j] \in ListElem /\ s[j] # NULLP /\ s[j] \in inList
      /\ \A i, j \in 1..n : s[i] = s[j] => i = j
      /\ n # 0 => /\ 1 \in 1..n /\ n \in 1..n
                  /\ lhead = s[1] /\ lprev[s[1]] \in {NULLP, s[n]}
                  /\ (TailKnown <=> lprev[s[1]] # NULLP)
      /\ n = 0 => lhead = NULLP /\ TailKnown
      /\ ~byHand => TailKnown
  BY <1>2, RingFacts
<1>4. /\ s \in Seq(ListElem) /\ Distinct(s) /\ Items(s) = inList
      /\ Threaded(s, lnext, lprev)
  BY <1>2 DEF Ring
<1>5. /\ lnext \in [ListElem -> ListElem \cup {NULLP}]
      /\ lprev \in [ListElem -> ListElem \cup {NULLP}]
  BY <1>2 DEF LinksTyped
<1>6. ~AsSegmentList!In(e) /\ e \notin Items(s) /\ \A j \in 1..n : s[j] # e
  BY <1>1, <1>2, NotFound
<1>7. w \in Seq(ListElem) /\ PutIn(s, 1, e, w)
  BY <1>4, PutFirst
<1>8. PICK k : k = 1 /\ k \in 1..(n + 1) /\ PutIn(s, k, e, w) /\ k - 1 = 0
  BY <1>3, <1>7
<1> HIDE DEF w
<1>9. Distinct(w) /\ Items(w) = inList'
  BY <1>1, <1>4, <1>6, <1>8, PutInDistinct
<1>10. LinksTyped'
  <2>1. lnext' \in [ListElem -> ListElem \cup {NULLP}]
    BY <1>1, <1>3, <1>5
  <2>2. lprev' \in [ListElem -> ListElem \cup {NULLP}]
    BY <1>1, <1>3, <1>5
  <2> QED
    BY <2>1, <2>2 DEF LinksTyped
<1>11. /\ w # << >> /\ w[1] = e /\ Len(w) = n + 1 /\ FirstOf(w) = e
       /\ w[n + 1] = IF n = 0 THEN e ELSE s[n]
  <2>1. Len(w) = n + 1 /\ w[1] = e /\ w[n + 1] = IF n = 0 THEN e ELSE s[n]
    <3>1. /\ 1 \in 1..(n + 1) /\ n + 1 \in 1..(n + 1) /\ ~(1 < 1) /\ ~(n + 1 < 1)
          /\ (n + 1 = 1 <=> n = 0) /\ (n + 1) - 1 = n
      BY <1>3
    <3>2. Len(w) = n + 1 /\ \A j \in 1..(n + 1) :
            w[j] = IF j < 1 THEN s[j] ELSE IF j = 1 THEN e ELSE s[j - 1]
      BY <1>7 DEF PutIn
    <3> HIDE DEF n
    <3> QED
      BY <3>1, <3>2
  <2>2. w # << >>
    BY <1>3, <2>1
  <2> QED
    BY <2>1, <2>2 DEF FirstOf
<1>12. Threaded(w, lnext', lprev')
  <2>1. lnext'[e] = IF k = n + 1 THEN NIL ELSE s[k]
    <3>1. lnext'[e] = lhead
      BY <1>1, <1>5
    <3>2. k = n + 1 <=> n = 0
      BY <1>3, <1>8
    <3> QED
      BY <1>3, <1>8, <3>1, <3>2, NoNullElem
  <2>2. ASSUME NEW j \in 1..n
        PROVE  /\ lnext'[s[j]] = IF j = k - 1 THEN e ELSE lnext[s[j]]
               /\ j = k => lprev'[s[j]] = e
               /\ j # k /\ j # 1 => lprev'[s[j]] = lprev[s[j]]
    <3>1. /\ s[j] # e /\ s[j] \in ListElem /\ n # 0 /\ j # k - 1 /\ lhead = s[1]
          /\ lhead # NULLP /\ lhead \in ListElem /\ (j # 1 => s[j] # s[1])
      BY <1>3, <1>6, <1>8
    <3> QED
      BY <1>1, <1>5, <1>8, <3>1
  <2> QED
    BY <1>4, <1>8, <2>1, <2>2, PutInThreaded
<1>13. /\ lprev'[e] = IF n = 0 THEN e ELSE lprev[s[1]]
       /\ e # NULLP /\ lhead' = e
  <2>1. n # 0 => lhead = s[1] /\ s[1] # e /\ lhead # NULLP
    BY <1>3, <1>6
  <2> QED
    BY <1>1, <1>3, <1>5, <2>1, NoNullElem
<1>14. TailKnown' = TailKnown
  <2>1. TailKnown' <=> lprev'[e] # NULLP
    BY <1>13 DEF TailKnown
  <2>2. TailKnown' <=> TailKnown
    BY <1>3, <1>13, <2>1
  <2> QED
    BY <2>2 DEF TailKnown
<1>15. RingInv' /\ Walked' = w
  <2>1. lprev'[w[1]] \in {NULLP, w[Len(w)]}
    BY <1>3, <1>11, <1>13
  <2>2. ~byHand' => lprev'[w[1]] # NULLP
    BY <1>1, <1>3, <1>11, <1>13
  <2> QED
    BY <1>1, <1>7, <1>9, <1>10, <1>11, <1>12, <2>1, <2>2, RingAgain
<1>16. AsSegmentList!AddFirst(e)
  BY <1>1, <1>2, <1>6, <1>14, <1>15 DEF AsSegmentList!AddFirst, w
<1> QED
  BY <1>1, <1>15, <1>16 DEF AsSegmentList!Next

LEMMA AppendRefines ==
  ASSUME RingInv, NEW e \in ListElem, DL_APPEND(e)
  PROVE  RingInv' /\ AsSegmentList!Next
<1>1. /\ ~byHand /\ ~lfailed /\ e \notin inList /\ inList' = inList \cup {e}
      /\ byHand' = byHand /\ lfailed' = lfailed
  BY DEF DL_APPEND, New
<1>2. PICK s : s = Walked /\ Ring(s) /\ LinksTyped
  BY DEF RingInv
<1> DEFINE n == Len(s)
           w == s \o << e >>
<1>3. /\ n \in Nat /\ (s = << >> <=> n = 0)
      /\ \A j \in 1..n : s[j] \in ListElem /\ s[j] # NULLP /\ s[j] \in inList
      /\ \A i, j \in 1..n : s[i] = s[j] => i = j
      /\ n # 0 => /\ 1 \in 1..n /\ n \in 1..n
                  /\ lhead = s[1] /\ lprev[s[1]] \in {NULLP, s[n]}
                  /\ (TailKnown <=> lprev[s[1]] # NULLP)
      /\ n = 0 => lhead = NULLP /\ TailKnown
      /\ ~byHand => TailKnown
  BY <1>2, RingFacts
<1>4. /\ s \in Seq(ListElem) /\ Distinct(s) /\ Items(s) = inList
      /\ Threaded(s, lnext, lprev)
  BY <1>2 DEF Ring
<1>5. /\ lnext \in [ListElem -> ListElem \cup {NULLP}]
      /\ lprev \in [ListElem -> ListElem \cup {NULLP}]
  BY <1>2 DEF LinksTyped
<1>6. ~AsSegmentList!In(e) /\ e \notin Items(s) /\ \A j \in 1..n : s[j] # e
  BY <1>1, <1>2, NotFound
<1>7. w \in Seq(ListElem) /\ PutIn(s, n + 1, e, w)
  BY <1>4, PutLast
<1>8. PICK k : k = n + 1 /\ k \in 1..(n + 1) /\ PutIn(s, k, e, w) /\ k - 1 = n
  BY <1>3, <1>7
<1> HIDE DEF w
<1>9. Distinct(w) /\ Items(w) = inList'
  BY <1>1, <1>4, <1>6, <1>8, PutInDistinct
<1>10. n # 0 => lhead = s[1] /\ lprev[s[1]] = s[n] /\ lhead # NULLP
  BY <1>1, <1>3
<1>11. /\ lhead' = IF n = 0 THEN e ELSE s[1]
       /\ lprev' = IF n = 0 THEN [lprev EXCEPT ![e] = e]
                   ELSE [lprev EXCEPT ![e] = s[n], ![s[1]] = e]
       /\ lnext' = IF n = 0 THEN [lnext EXCEPT ![e] = NULLP]
                   ELSE [lnext EXCEPT ![s[n]] = e, ![e] = NULLP]
  <2>1. CASE n = 0
    <3>1. lhead = NULLP
      BY <1>3, <2>1
    <3>2. /\ lhead' = e /\ lprev' = [lprev EXCEPT ![e] = e]
          /\ lnext' = [lnext EXCEPT ![e] = NULLP]
      BY <3>1 DEF DL_APPEND
    <3> QED
      BY <2>1, <3>2
  <2>2. CASE n # 0
    <3>1. /\ lhead' = lhead /\ lprev' = [lprev EXCEPT ![e] = lprev[lhead], ![lhead] = e]
          /\ lnext' = [lnext EXCEPT ![lprev[lhead]] = e, ![e] = NULLP]
      BY <1>10, <2>2 DEF DL_APPEND
    <3> QED
      BY <1>10, <2>2, <3>1
  <2> QED
    BY <2>1, <2>2
<1>12. LinksTyped'
  <2>1. lnext' \in [ListElem -> ListElem \cup {NULLP}]
    BY <1>3, <1>5, <1>11
  <2>2. lprev' \in [ListElem -> ListElem \cup {NULLP}]
    BY <1>3, <1>5, <1>11
  <2> QED
    BY <2>1, <2>2 DEF LinksTyped
<1>13. /\ w # << >> /\ Len(w) = n + 1 /\ w[n + 1] = e
       /\ w[1] = IF n = 0 THEN e ELSE s[1]
  <2>1. Len(w) = n + 1 /\ w[n + 1] = e /\ w[1] = IF n = 0 THEN e ELSE s[1]
    <3>1. /\ 1 \in 1..(n + 1) /\ n + 1 \in 1..(n + 1) /\ ~(n + 1 < n + 1)
          /\ (1 < n + 1 <=> n # 0) /\ (1 = n + 1 <=> n = 0)
      BY <1>3
    <3>2. Len(w) = n + 1 /\ \A j \in 1..(n + 1) :
            w[j] = IF j < n + 1 THEN s[j] ELSE IF j = n + 1 THEN e ELSE s[j - 1]
      BY <1>7 DEF PutIn
    <3> HIDE DEF n
    <3> QED
      BY <3>1, <3>2
  <2>2. w # << >>
    BY <1>3, <2>1
  <2> QED
    BY <2>1, <2>2
<1>14. FirstOf(w) = lhead'
  BY <1>11, <1>13 DEF FirstOf
<1>15. Threaded(w, lnext', lprev')
  <2>1. lnext'[e] = NIL
    BY <1>3, <1>5, <1>11, NoNullElem
  <2>2. k # 1 => lprev'[e] = s[k - 1]
    <3>1. k # 1 => n # 0
      BY <1>8
    <3>2. n # 0 => s[1] # e /\ s[n] \in ListElem
      BY <1>3, <1>6
    <3> QED
      BY <1>5, <1>8, <1>11, <3>1, <3>2
  <2>3. ASSUME NEW j \in 1..n
        PROVE  /\ lnext'[s[j]] = IF j = k - 1 THEN e ELSE lnext[s[j]]
               /\ j = k => lprev'[s[j]] = e
               /\ j # k /\ j # 1 => lprev'[s[j]] = lprev[s[j]]
    <3>1. n # 0 /\ j # k /\ (j = k - 1 <=> j = n)
      <4> HIDE DEF n
      <4> QED
        BY <1>3, <1>8
    <3>2. s[j] # e /\ s[j] \in ListElem
      BY <1>3, <1>6
    <3>3. 1 \in 1..n /\ n \in 1..n /\ s[n] \in ListElem /\ s[1] \in ListElem
      BY <1>3, <3>1
    <3>4. s[j] = s[1] => j = 1
      BY <1>3, <3>3
    <3>5. s[j] = s[n] <=> j = n
      BY <1>3, <3>3
    <3>6. lprev' = [lprev EXCEPT ![e] = s[n], ![s[1]] = e]
          /\ lnext' = [lnext EXCEPT ![s[n]] = e, ![e] = NULLP]
      BY <1>11, <3>1
    <3>7. j # 1 => lprev'[s[j]] = lprev[s[j]]
      BY <1>5, <3>2, <3>4, <3>6
    <3>8. lnext'[s[j]] = IF s[j] = s[n] THEN e ELSE lnext[s[j]]
      BY <1>5, <3>2, <3>6
    <3> QED
      BY <3>1, <3>5, <3>7, <3>8
  <2>4. lnext'[e] = IF k = n + 1 THEN NIL ELSE s[k]
    BY <1>8, <2>1
  <2>5. \A j \in 1..n : /\ lnext'[s[j]] = IF j = k - 1 THEN e ELSE lnext[s[j]]
                        /\ j = k => lprev'[s[j]] = e
                        /\ j # k /\ j # 1 => lprev'[s[j]] = lprev[s[j]]
    BY <2>3
  <2>6. k \in 1..(n + 1) /\ PutIn(s, k, e, w)
    BY <1>8
  <2> QED
    BY <1>4, <2>2, <2>4, <2>5, <2>6, PutInThreaded
<1>16. lprev'[w[1]] = e /\ e # NULLP /\ lhead' = w[1]
  BY <1>3, <1>5, <1>6, <1>11, <1>13, NoNullElem
<1>17. TailKnown' = TailKnown
  <2>1. TailKnown' /\ TailKnown
    BY <1>1, <1>3, <1>16 DEF TailKnown
  <2> QED
    BY <2>1 DEF TailKnown
<1>18. RingInv' /\ Walked' = w
  BY <1>7, <1>9, <1>12, <1>13, <1>14, <1>15, <1>16, RingAgain
<1>19. AsSegmentList!AddLast(e)
  BY <1>1, <1>2, <1>3, <1>6, <1>17, <1>18 DEF AsSegmentList!AddLast, w
<1> QED
  BY <1>1, <1>18, <1>19 DEF AsSegmentList!Next

LEMMA PrependElemRefines ==
  ASSUME RingInv, NEW e \in ListElem, NEW at \in ListElem, DL_PREPEND_ELEM(at, e)
  PROVE  RingInv' /\ AsSegmentList!Next
<1>1. /\ ~byHand /\ ~lfailed /\ e \notin inList /\ inList' = inList \cup {e}
      /\ at \in inList
      /\ lprev' = [lprev EXCEPT ![e] = lprev[at], ![at] = e]
      /\ lnext' = IF lhead = at THEN [lnext EXCEPT ![e] = at]
                  ELSE [lnext EXCEPT ![e] = at, ![lprev[at]] = e]
      /\ lhead' = IF lhead = at THEN e ELSE lhead
      /\ byHand' = byHand /\ lfailed' = lfailed
  BY DEF DL_PREPEND_ELEM, New
<1>2. PICK s : s = Walked /\ Ring(s) /\ LinksTyped
  BY DEF RingInv
<1> DEFINE n == Len(s)
<1>3. /\ n \in Nat /\ (s = << >> <=> n = 0)
      /\ \A j \in 1..n : s[j] \in ListElem /\ s[j] # NULLP /\ s[j] \in inList
      /\ \A i, j \in 1..n : s[i] = s[j] => i = j
      /\ \A x \in inList : \E k \in 1..n : s[k] = x
      /\ n # 0 => /\ 1 \in 1..n /\ n \in 1..n
                  /\ lhead = s[1] /\ lprev[s[1]] \in {NULLP, s[n]}
                  /\ (TailKnown <=> lprev[s[1]] # NULLP)
      /\ ~byHand => TailKnown
  BY <1>2, RingFacts
<1>4. /\ s \in Seq(ListElem) /\ Distinct(s) /\ Items(s) = inList
      /\ Threaded(s, lnext, lprev)
  BY <1>2 DEF Ring
<1>5. /\ lnext \in [ListElem -> ListElem \cup {NULLP}]
      /\ lprev \in [ListElem -> ListElem \cup {NULLP}]
  BY <1>2 DEF LinksTyped
<1>6. ~AsSegmentList!In(e) /\ e \notin Items(s) /\ \A j \in 1..n : s[j] # e
  BY <1>1, <1>2, NotFound
<1>7. PICK k \in 1..n : s[k] = at
  BY <1>1, <1>3
<1>8. /\ n # 0 /\ lhead = s[1] /\ lprev[s[1]] = s[n] /\ TailKnown
      /\ (lhead = at <=> k = 1) /\ k \in 1..(n + 1) /\ k # n + 1
      /\ s[1] \in ListElem /\ s[n] \in ListElem
  BY <1>1, <1>3, <1>7
<1>9. lprev[at] = IF k = 1 THEN s[n] ELSE s[k - 1]
  BY <1>4, <1>7, <1>8 DEF Threaded
<1>10. k # 1 => k - 1 \in 1..n /\ s[k - 1] \in ListElem /\ s[k - 1] # e
  <2>1. k # 1 => k - 1 \in 1..n
    BY <1>3, <1>7
  <2> QED
    BY <1>3, <1>6, <2>1
<1>11. /\ lprev' = [lprev EXCEPT ![e] = lprev[at], ![at] = e]
       /\ lnext' = IF k = 1 THEN [lnext EXCEPT ![e] = at]
                   ELSE [lnext EXCEPT ![e] = at, ![s[k - 1]] = e]
       /\ lhead' = IF k = 1 THEN e ELSE s[1]
  BY <1>1, <1>8, <1>9
<1> DEFINE w == Spliced(s, k, << e, s[k] >>)
<1>12. w \in Seq(ListElem) /\ PutIn(s, k, e, w)
  BY <1>4, <1>7, PutBefore
<1> HIDE DEF w
<1>13. Distinct(w) /\ Items(w) = inList'
  BY <1>1, <1>4, <1>6, <1>8, <1>12, PutInDistinct
<1>14. LinksTyped'
  <2>1. lnext' \in [ListElem -> ListElem \cup {NULLP}]
    BY <1>5, <1>10, <1>11
  <2>2. lprev' \in [ListElem -> ListElem \cup {NULLP}]
    BY <1>5, <1>11
  <2> QED
    BY <2>1, <2>2 DEF LinksTyped
<1>15. /\ w # << >> /\ Len(w) = n + 1 /\ w[n + 1] = s[n]
       /\ w[1] = IF k = 1 THEN e ELSE s[1]
  <2>1. Len(w) = n + 1 /\ w[n + 1] = s[n] /\ w[1] = IF k = 1 THEN e ELSE s[1]
    <3>1. /\ 1 \in 1..(n + 1) /\ n + 1 \in 1..(n + 1) /\ ~(n + 1 < k) /\ n + 1 # k
          /\ (n + 1) - 1 = n /\ (1 < k <=> k # 1)
      BY <1>3, <1>7
    <3>2. Len(w) = n + 1 /\ \A j \in 1..(n + 1) :
            w[j] = IF j < k THEN s[j] ELSE IF j = k THEN e ELSE s[j - 1]
      BY <1>12 DEF PutIn
    <3> HIDE DEF n
    <3> QED
      BY <3>1, <3>2
  <2>2. w # << >>
    BY <1>3, <2>1
  <2> QED
    BY <2>1, <2>2
<1>16. FirstOf(w) = lhead'
  BY <1>11, <1>15 DEF FirstOf
<1>17. Threaded(w, lnext', lprev')
  <2>1. lnext'[e] = s[k]
    BY <1>5, <1>7, <1>10, <1>11
  <2>2. k # 1 => lprev'[e] = s[k - 1]
    BY <1>5, <1>6, <1>7, <1>9, <1>11
  <2>3. ASSUME NEW j \in 1..n
        PROVE  /\ lnext'[s[j]] = IF j = k - 1 THEN e ELSE lnext[s[j]]
               /\ j = k => lprev'[s[j]] = e
               /\ j # k /\ j # 1 => lprev'[s[j]] = lprev[s[j]]
    <3>1. s[j] # e /\ s[j] \in ListElem /\ (j = k <=> s[j] = at)
      BY <1>3, <1>6, <1>7
    <3>2. k # 1 => (j = k - 1 <=> s[j] = s[k - 1])
      BY <1>3, <1>10
    <3>3. k = 1 => j # k - 1
      BY <1>3
    <3> QED
      BY <1>5, <1>11, <3>1, <3>2, <3>3
  <2> QED
    BY <1>4, <1>8, <1>12, <2>1, <2>2, <2>3, PutInThreaded
<1>18. lprev'[w[1]] = s[n] /\ s[n] # NULLP /\ lhead' = w[1]
  <2>1. CASE k = 1
    <3>1. lprev'[e] = lprev[at] /\ w[1] = e
      BY <1>5, <1>6, <1>7, <1>11, <1>15, <2>1
    <3> QED
      BY <1>3, <1>8, <1>9, <1>11, <2>1, <3>1
  <2>2. CASE k # 1
    <3>1. s[1] # at /\ s[1] # e
      BY <1>3, <1>6, <1>7, <1>8, <2>2
    <3>2. lprev'[s[1]] = lprev[s[1]] /\ w[1] = s[1]
      BY <1>5, <1>8, <1>11, <1>15, <2>2, <3>1
    <3> QED
      BY <1>3, <1>8, <1>11, <2>2, <3>2
  <2> QED
    BY <2>1, <2>2
<1>19. TailKnown' = TailKnown
  <2>1. TailKnown'
    BY <1>18 DEF TailKnown
  <2> QED
    BY <1>8, <2>1 DEF TailKnown
<1>20. RingInv' /\ Walked' = w
  BY <1>12, <1>13, <1>14, <1>15, <1>16, <1>17, <1>18, RingAgain
<1>21. AsSegmentList!InsertBefore(e, at)
  <2>1. AsSegmentList!Place(at) = k /\ AsSegmentList!In(at)
    BY <1>2, <1>7, PlaceFound
  <2>2. AsSegmentList!Before(at) = SubSeq(s, 1, k - 1)
        /\ AsSegmentList!After(at) = SubSeq(s, k + 1, Len(s))
    BY <1>2, <2>1 DEF AsSegmentList!Before, AsSegmentList!After
  <2>3. w = SubSeq(s, 1, k - 1) \o << e, at >> \o SubSeq(s, k + 1, Len(s))
    BY <1>7 DEF w, Spliced
  <2> QED
    BY <1>1, <1>6, <1>8, <1>19, <1>20, <2>1, <2>2, <2>3 DEF AsSegmentList!InsertBefore
<1> QED
  BY <1>1, <1>20, <1>21 DEF AsSegmentList!Next

LEMMA ReplaceRefines ==
  ASSUME RingInv, NEW e \in ListElem, NEW by \in ListElem, DL_REPLACE_ELEM(e, by)
  PROVE  RingInv' /\ AsSegmentList!Next
<1> DEFINE before == IF lhead = e /\ lnext[e] = NULLP THEN by ELSE lprev[e]
<1>1. /\ ~byHand /\ ~lfailed /\ e \in inList /\ by \notin inList
      /\ inList' = (inList \ {e}) \cup {by}
      /\ lprev' = IF lnext[e] = NULLP
                  THEN [lprev EXCEPT ![by] = before,
                                     ![IF lhead = e THEN by ELSE lhead] = by]
                  ELSE [lprev EXCEPT ![by] = before, ![lnext[e]] = by]
      /\ lnext' = IF lhead = e THEN [lnext EXCEPT ![by] = lnext[e]]
                  ELSE [lnext EXCEPT ![by] = lnext[e], ![lprev[e]] = by]
      /\ lhead' = IF lhead = e THEN by ELSE lhead
      /\ byHand' = byHand /\ lfailed' = lfailed
  BY DEF DL_REPLACE_ELEM
<1>2. PICK s : s = Walked /\ Ring(s) /\ LinksTyped
  BY DEF RingInv
<1> DEFINE n == Len(s)
<1>3. /\ n \in Nat /\ (s = << >> <=> n = 0)
      /\ \A j \in 1..n : s[j] \in ListElem /\ s[j] # NULLP /\ s[j] \in inList
      /\ \A i, j \in 1..n : s[i] = s[j] => i = j
      /\ \A x \in inList : \E k \in 1..n : s[k] = x
      /\ n # 0 => /\ 1 \in 1..n /\ n \in 1..n
                  /\ lhead = s[1] /\ lprev[s[1]] \in {NULLP, s[n]}
                  /\ (TailKnown <=> lprev[s[1]] # NULLP)
      /\ ~byHand => TailKnown
  BY <1>2, RingFacts
<1>4. /\ s \in Seq(ListElem) /\ Distinct(s) /\ Items(s) = inList
      /\ Threaded(s, lnext, lprev)
  BY <1>2 DEF Ring
<1>5. /\ lnext \in [ListElem -> ListElem \cup {NULLP}]
      /\ lprev \in [ListElem -> ListElem \cup {NULLP}]
  BY <1>2 DEF LinksTyped
<1>6. ~AsSegmentList!In(by) /\ by \notin Items(s) /\ \A j \in 1..n : s[j] # by
  BY <1>1, <1>2, NotFound
<1>7. PICK k \in 1..n : s[k] = e
  BY <1>1, <1>3
<1>8. n # 0
  BY <1>3, <1>7
<1>9. /\ 1 \in 1..n /\ n \in 1..n /\ lhead = s[1] /\ lprev[s[1]] = s[n] /\ TailKnown
      /\ s[1] \in ListElem /\ s[n] \in ListElem /\ s[n] # NULLP
  BY <1>1, <1>3, <1>8
<1>10. lhead = e <=> k = 1
  BY <1>3, <1>7, <1>9
<1>11. /\ k - 1 \in Int /\ (k # 1 => k - 1 \in 1..n) /\ (k # n => k + 1 \in 1..n)
       /\ (k + 1 # k) /\ (k - 1 # k)
  <2> HIDE DEF n
  <2> QED
    BY <1>3, <1>7
<1>12. /\ k # 1 => lprev[e] = s[k - 1] /\ s[k - 1] \in ListElem
       /\ k # n => lnext[e] = s[k + 1] /\ s[k + 1] \in ListElem /\ s[k + 1] # NULLP
       /\ k = n => lnext[e] = NULLP
  <2>1. /\ k # 1 => lprev[e] = s[k - 1]
        /\ lnext[e] = IF k = n THEN NIL ELSE s[k + 1]
    BY <1>4, <1>7 DEF Threaded, After
  <2>2. k # 1 => s[k - 1] \in ListElem
    BY <1>3, <1>11
  <2>3. k # n => s[k + 1] \in ListElem /\ s[k + 1] # NULLP
    BY <1>3, <1>11
  <2> QED
    BY <2>1, <2>2, <2>3, NoNullElem
<1>13. lnext[e] = NULLP <=> k = n
  BY <1>12
<1>14. before = IF k = 1 THEN IF n = 1 THEN by ELSE s[n] ELSE s[k - 1]
  BY <1>7, <1>9, <1>10, <1>12, <1>13
<1> HIDE DEF before
<1>15. /\ lhead' = IF k = 1 THEN by ELSE s[1]
       /\ lnext' = IF k = 1 THEN [lnext EXCEPT ![by] = lnext[e]]
                   ELSE [lnext EXCEPT ![by] = lnext[e], ![s[k - 1]] = by]
       /\ k = n => lprev' = [lprev EXCEPT ![by] = before,
                                          ![IF k = 1 THEN by ELSE s[1]] = by]
       /\ k # n => lprev' = [lprev EXCEPT ![by] = before, ![s[k + 1]] = by]
  <2>1. lhead' = IF k = 1 THEN by ELSE s[1]
    BY <1>1, <1>9, <1>10
  <2>2. lnext' = IF k = 1 THEN [lnext EXCEPT ![by] = lnext[e]]
                 ELSE [lnext EXCEPT ![by] = lnext[e], ![s[k - 1]] = by]
    BY <1>1, <1>10, <1>12
  <2>3. k = n => lprev' = [lprev EXCEPT ![by] = before,
                                        ![IF k = 1 THEN by ELSE s[1]] = by]
    BY <1>1, <1>9, <1>10, <1>13
  <2>4. k # n => lprev' = [lprev EXCEPT ![by] = before, ![s[k + 1]] = by]
    BY <1>1, <1>12, <1>13
  <2> QED
    BY <2>1, <2>2, <2>3, <2>4
<1>16. before \in ListElem /\ before # NULLP
  BY <1>3, <1>9, <1>11, <1>12, <1>14, NoNullElem
<1> DEFINE w == Spliced(s, k, << by >>)
<1>17. w \in Seq(ListElem) /\ PutFor(s, k, by, w)
  BY <1>4, <1>7, PutInPlace
<1> HIDE DEF w
<1>18. Distinct(w) /\ Items(w) = inList'
  <2>1. Distinct(w) /\ Items(w) = (Items(s) \ {s[k]}) \cup {by}
    BY <1>4, <1>6, <1>17, PutForDistinct
  <2> QED
    BY <1>1, <1>4, <1>7, <2>1
<1>19. LinksTyped'
  <2>1. lnext' \in [ListElem -> ListElem \cup {NULLP}]
    BY <1>5, <1>12, <1>15
  <2>2. lprev' \in [ListElem -> ListElem \cup {NULLP}]
    BY <1>5, <1>9, <1>12, <1>15, <1>16
  <2> QED
    BY <2>1, <2>2 DEF LinksTyped
<1>20. /\ w # << >> /\ Len(w) = n
       /\ w[n] = (IF k = n THEN by ELSE s[n]) /\ w[1] = IF k = 1 THEN by ELSE s[1]
  <2>1. Len(w) = n /\ \A j \in 1..n : w[j] = IF j = k THEN by ELSE s[j]
    BY <1>17 DEF PutFor
  <2>2. w # << >>
    BY <1>8, <2>1
  <2>3. w[n] = (IF k = n THEN by ELSE s[n]) /\ w[1] = IF k = 1 THEN by ELSE s[1]
    <3> HIDE DEF n, w
    <3> QED
      BY <1>9, <2>1
  <2> QED
    BY <2>1, <2>2, <2>3
<1>21. FirstOf(w) = lhead'
  BY <1>15, <1>20 DEF FirstOf
<1>22. ASSUME NEW j \in 1..n
       PROVE  /\ s[j] # by /\ s[j] \in ListElem
              /\ (k # 1 => (j = k - 1 <=> s[j] = s[k - 1]))
              /\ (k # n => (j = k + 1 <=> s[j] = s[k + 1]))
              /\ (j # 1 => s[j] # s[1])
  <2>1. s[j] # by /\ s[j] \in ListElem
    BY <1>3, <1>6
  <2>2. k # 1 => (j = k - 1 <=> s[j] = s[k - 1])
    BY <1>3, <1>11
  <2>3. k # n => (j = k + 1 <=> s[j] = s[k + 1])
    BY <1>3, <1>11
  <2>4. j # 1 => s[j] # s[1]
    BY <1>3, <1>9
  <2> QED
    BY <2>1, <2>2, <2>3, <2>4
<1>23. Threaded(w, lnext', lprev')
  <2>1. lnext'[by] = After(s, k)
    <3>1. lnext[e] = After(s, k)
      BY <1>4, <1>7 DEF Threaded
    <3>2. k # 1 => s[k - 1] # by
      BY <1>6, <1>11
    <3> QED
      BY <1>5, <1>15, <3>1, <3>2
  <2>2. k # 1 => lprev'[by] = s[k - 1]
    <3>1. k # n => s[k + 1] # by
      BY <1>6, <1>11
    <3>2. s[1] # by
      BY <1>6, <1>9
    <3> QED
      BY <1>5, <1>14, <1>15, <3>1, <3>2
  <2>3. ASSUME NEW j \in 1..n, j # k
        PROVE  lnext'[s[j]] = IF j = k - 1 THEN by ELSE lnext[s[j]]
    <3>1. s[j] # by /\ s[j] \in ListElem
      BY <1>22
    <3>2. CASE k = 1
      <4>1. j # k - 1
        <5> HIDE DEF n
        <5> QED
          BY <1>3, <3>2
      <4> QED
        BY <1>5, <1>15, <3>1, <3>2, <4>1
    <3>3. CASE k # 1
      <4>1. j = k - 1 <=> s[j] = s[k - 1]
        BY <1>22, <3>3
      <4>2. lnext'[s[j]] = IF s[j] = s[k - 1] THEN by ELSE lnext[s[j]]
        BY <1>5, <1>15, <3>1, <3>3
      <4> QED
        BY <4>1, <4>2
    <3> QED
      BY <3>2, <3>3
  <2>4. ASSUME NEW j \in 1..n, j # k, j # 1
        PROVE  lprev'[s[j]] = IF j = k + 1 THEN by ELSE lprev[s[j]]
    <3>1. s[j] # by /\ s[j] \in ListElem /\ s[j] # s[1]
      BY <1>22, <2>4
    <3>2. CASE k = n
      <4>1. j # k + 1
        <5> HIDE DEF n
        <5> QED
          BY <1>3, <3>2
      <4>2. s[j] # IF k = 1 THEN by ELSE s[1]
        BY <3>1
      <4> QED
        BY <1>5, <1>15, <3>1, <3>2, <4>1, <4>2
    <3>3. CASE k # n
      <4>1. j = k + 1 <=> s[j] = s[k + 1]
        BY <1>22, <3>3
      <4>2. lprev'[s[j]] = IF s[j] = s[k + 1] THEN by ELSE lprev[s[j]]
        BY <1>5, <1>15, <3>1, <3>3
      <4> QED
        BY <4>1, <4>2
    <3> QED
      BY <3>2, <3>3
  <2>5. \A j \in 1..n :
          j # k => /\ lnext'[s[j]] = IF j = k - 1 THEN by ELSE lnext[s[j]]
                   /\ j # 1 => lprev'[s[j]] = IF j = k + 1 THEN by ELSE lprev[s[j]]
    BY <2>3, <2>4
  <2> QED
    BY <1>4, <1>17, <2>1, <2>2, <2>5, PutForThreaded
<1>24. lprev'[w[1]] = w[n] /\ w[n] # NULLP /\ lhead' = w[1]
  <2>1. lhead' = w[1]
    BY <1>15, <1>20
  <2>2. w[n] # NULLP
    BY <1>9, <1>20, NoNullElem
  <2>3. CASE k = 1 /\ k = n
    <3>1. lprev' = [lprev EXCEPT ![by] = before, ![by] = by]
      BY <1>15, <2>3
    <3>2. lprev'[by] = by
      BY <1>5, <3>1
    <3>3. w[1] = by /\ w[n] = by
      BY <1>20, <2>3
    <3> QED
      BY <2>1, <2>2, <3>2, <3>3
  <2>4. CASE k = 1 /\ k # n
    <3>1. lprev' = [lprev EXCEPT ![by] = before, ![s[k + 1]] = by] /\ before = s[n]
      BY <1>14, <1>15, <2>4
    <3>2. s[k + 1] # by
      BY <1>6, <1>11, <2>4
    <3>3. lprev'[by] = s[n]
      BY <1>5, <3>1, <3>2
    <3>4. w[1] = by /\ w[n] = s[n]
      BY <1>20, <2>4
    <3> QED
      BY <2>1, <2>2, <3>3, <3>4
  <2>5. CASE k # 1 /\ k = n
    <3>1. lprev' = [lprev EXCEPT ![by] = before, ![s[1]] = by]
      BY <1>15, <2>5
    <3>2. lprev'[s[1]] = by
      BY <1>5, <1>9, <3>1
    <3>3. w[1] = s[1] /\ w[n] = by
      BY <1>20, <2>5
    <3> QED
      BY <2>1, <2>2, <3>2, <3>3
  <2>6. CASE k # 1 /\ k # n
    <3>1. lprev' = [lprev EXCEPT ![by] = before, ![s[k + 1]] = by]
      BY <1>15, <2>6
    <3>2. s[1] # by /\ s[k + 1] # s[1]
      <4>1. k + 1 # 1
        <5> HIDE DEF n
        <5> QED
          BY <1>3, <1>7
      <4> QED
        BY <1>3, <1>6, <1>9, <1>11, <2>6, <4>1
    <3>3. lprev'[s[1]] = lprev[s[1]]
      BY <1>5, <1>9, <3>1, <3>2
    <3>4. w[1] = s[1] /\ w[n] = s[n] /\ lprev[s[1]] = s[n]
      BY <1>9, <1>20, <2>6
    <3> QED
      BY <2>1, <2>2, <3>3, <3>4
  <2> QED
    BY <2>1, <2>2, <2>3, <2>4, <2>5, <2>6
<1>25. TailKnown' = TailKnown
  <2>1. TailKnown'
    BY <1>24 DEF TailKnown
  <2> QED
    BY <1>9, <2>1 DEF TailKnown
<1>26. RingInv' /\ Walked' = w
  BY <1>17, <1>18, <1>19, <1>20, <1>21, <1>23, <1>24, RingAgain
<1>27. AsSegmentList!Replace(e, by)
  <2>1. AsSegmentList!Place(e) = k /\ AsSegmentList!In(e)
    BY <1>2, <1>7, PlaceFound
  <2>2. AsSegmentList!Before(e) = SubSeq(s, 1, k - 1)
        /\ AsSegmentList!After(e) = SubSeq(s, k + 1, Len(s))
    BY <1>2, <2>1 DEF AsSegmentList!Before, AsSegmentList!After
  <2>3. w = SubSeq(s, 1, k - 1) \o << by >> \o SubSeq(s, k + 1, Len(s))
    BY DEF w, Spliced
  <2> QED
    BY <1>1, <1>6, <1>9, <1>25, <1>26, <2>1, <2>2, <2>3 DEF AsSegmentList!Replace
<1> QED
  BY <1>1, <1>26, <1>27 DEF AsSegmentList!Next

LEMMA DeleteRefines ==
  ASSUME RingInv, NEW e \in ListElem, DL_DELETE(e)
  PROVE  RingInv' /\ AsSegmentList!Next
<1>1. ~lfailed /\ e \in inList /\ byHand' = byHand
  BY DEF DL_DELETE
<1>2. PICK s : s = Walked /\ Ring(s) /\ LinksTyped
  BY DEF RingInv
<1> DEFINE n == Len(s)
<1>3. /\ n \in Nat /\ (s = << >> <=> n = 0)
      /\ \A j \in 1..n : s[j] \in ListElem /\ s[j] # NULLP /\ s[j] \in inList
      /\ \A i, j \in 1..n : s[i] = s[j] => i = j
      /\ \A x \in inList : \E k \in 1..n : s[k] = x
      /\ n # 0 => /\ 1 \in 1..n /\ n \in 1..n
                  /\ lhead = s[1] /\ lprev[s[1]] \in {NULLP, s[n]}
                  /\ (TailKnown <=> lprev[s[1]] # NULLP)
      /\ ~byHand => TailKnown
  BY <1>2, RingFacts
<1>4. /\ s \in Seq(ListElem) /\ Distinct(s) /\ Items(s) = inList
      /\ Threaded(s, lnext, lprev)
  BY <1>2 DEF Ring
<1>5. /\ lnext \in [ListElem -> ListElem \cup {NULLP}]
      /\ lprev \in [ListElem -> ListElem \cup {NULLP}]
  BY <1>2 DEF LinksTyped
<1>7. PICK k \in 1..n : s[k] = e
  BY <1>1, <1>3
<1>8. n # 0
  BY <1>3, <1>7
<1>9. /\ 1 \in 1..n /\ n \in 1..n /\ lhead = s[1] /\ lprev[s[1]] \in {NULLP, s[n]}
      /\ (TailKnown <=> lprev[s[1]] # NULLP)
      /\ s[1] \in ListElem /\ s[n] \in ListElem /\ s[n] # NULLP /\ Head(s) = s[1]
  BY <1>1, <1>3, <1>4, <1>8
<1>10. (e = s[1] <=> k = 1) /\ (e = s[n] <=> k = n)
  BY <1>3, <1>7, <1>9
<1>11. /\ k - 1 \in Int /\ (k # 1 => k - 1 \in 1..n) /\ (k # n => k + 1 \in 1..n)
       /\ k + 1 # k /\ k - 1 # k /\ k + 1 # 1
  <2> HIDE DEF n
  <2> QED
    BY <1>3, <1>7
<1>12. /\ k # 1 => lprev[e] = s[k - 1] /\ s[k - 1] \in ListElem /\ s[k - 1] # NULLP
                   /\ s[k - 1] # e
       /\ k # n => lnext[e] = s[k + 1] /\ s[k + 1] \in ListElem /\ s[k + 1] # NULLP
       /\ k = n => lnext[e] = NULLP
  <2>1. /\ k # 1 => lprev[e] = s[k - 1]
        /\ lnext[e] = IF k = n THEN NIL ELSE s[k + 1]
    BY <1>4, <1>7 DEF Threaded, After
  <2>2. k # 1 => s[k - 1] \in ListElem /\ s[k - 1] # NULLP /\ s[k - 1] # s[k]
    BY <1>3, <1>7, <1>11
  <2>3. k # n => s[k + 1] \in ListElem /\ s[k + 1] # NULLP
    BY <1>3, <1>11
  <2> QED
    BY <1>7, <2>1, <2>2, <2>3, NoNullElem
<1>13. AsSegmentList!Place(e) = k /\ AsSegmentList!In(e)
  BY <1>2, <1>7, PlaceFound
<1>14. CASE lprev[e] = NULLP
  <2>1. lfailed' = TRUE /\ lhead' = lhead /\ lprev' = lprev /\ lnext' = lnext
        /\ inList' = inList
    BY <1>14 DEF DL_DELETE
  <2>2. RingInv' /\ Walked' = Walked /\ TailKnown' = TailKnown
    <3>1. Walked' = Walked /\ TailKnown' = TailKnown
      BY <2>1 DEF Walked, TailKnown
    <3>2. Ring(Walked)'
      BY <1>1, <1>2, <2>1, <3>1 DEF Ring
    <3>3. LinksTyped'
      BY <1>2, <2>1 DEF LinksTyped
    <3> QED
      BY <3>1, <3>2, <3>3 DEF RingInv
  <2>3. k = 1
    BY <1>12, <1>14
  <2>4. e = Head(Walked) /\ ~TailKnown
    BY <1>2, <1>9, <1>10, <1>14, <2>3
  <2>5. AsSegmentList!Delete(e)
    BY <1>13, <2>1, <2>2, <2>4 DEF AsSegmentList!Delete
  <2> QED
    BY <1>1, <2>2, <2>5 DEF AsSegmentList!Next
<1>15. CASE lprev[e] # NULLP
  <2> DEFINE w == RemoveAt(s, k)
  <2>1. /\ w \in Seq(ListElem) /\ Distinct(w) /\ Items(w) = Items(s) \ {e}
        /\ TakenOut(s, k, w)
    BY <1>4, <1>7, RemoveAtShape, Removed DEF TakenOut
  <2>2. w = SubSeq(s, 1, k - 1) \o SubSeq(s, k + 1, Len(s))
    BY DEF RemoveAt
  <2> HIDE DEF w
  <2>3. inList' = inList \ {e} /\ lfailed' = lfailed /\ Items(w) = inList'
    BY <1>4, <1>15, <2>1 DEF DL_DELETE
  <2>4. k = 1 => lprev[e] = s[n] /\ TailKnown
    BY <1>7, <1>9, <1>10, <1>15
  <2>5. lprev[e] = e <=> n = 1
    <3>1. CASE k = 1
      BY <1>9, <1>10, <2>4, <3>1
    <3>2. CASE k # 1
      <4>1. n # 1
        <5> HIDE DEF n
        <5> QED
          BY <1>7, <3>2
      <4> QED
        BY <1>12, <3>2, <4>1
    <3> QED
      BY <3>1, <3>2
  <2>6. e = lhead <=> k = 1
    BY <1>9, <1>10
  <2>7. lnext[e] = NULLP <=> k = n
    BY <1>12
  <2>8. /\ n = 1 => lhead' = NULLP /\ lprev' = lprev /\ lnext' = lnext
        /\ n # 1 /\ k = 1 => lprev' = [lprev EXCEPT ![lnext[e]] = lprev[e]]
                             /\ lhead' = lnext[e] /\ lnext' = lnext
        /\ n # 1 /\ k # 1 =>
             /\ lnext' = [lnext EXCEPT ![lprev[e]] = lnext[e]]
             /\ lprev' = [lprev EXCEPT ![IF lnext[e] # NULLP THEN lnext[e] ELSE lhead] =
                            lprev[e]]
             /\ lhead' = lhead
    <3>1. CASE n = 1
      BY <1>15, <2>5, <3>1 DEF DL_DELETE, DeleteOnlyElem
    <3>2. CASE n # 1 /\ k = 1
      BY <1>15, <2>5, <2>6, <3>2 DEF DL_DELETE, DeleteHead
    <3>3. CASE n # 1 /\ k # 1
      BY <1>15, <2>5, <2>6, <3>3 DEF DL_DELETE, DeleteInner
    <3> QED
      BY <3>1, <3>2, <3>3
  <2>9. /\ n = 1 => k = 1 /\ k = n
        /\ n # 1 /\ k = 1 => k # n
    <3> HIDE DEF n
    <3> QED
      BY <1>7
  <2>10. /\ n # 1 /\ k = 1 => /\ lprev' = [lprev EXCEPT ![s[k + 1]] = s[n]]
                              /\ lhead' = s[k + 1] /\ lnext' = lnext
         /\ k # 1 /\ k = n => lprev' = [lprev EXCEPT ![s[1]] = s[k - 1]]
                              /\ lnext' = [lnext EXCEPT ![s[k - 1]] = NULLP]
         /\ k # 1 /\ k # n => lprev' = [lprev EXCEPT ![s[k + 1]] = s[k - 1]]
                              /\ lnext' = [lnext EXCEPT ![s[k - 1]] = s[k + 1]]
         /\ k # 1 => lhead' = s[1]
    <3>1. CASE n # 1 /\ k = 1
      BY <1>12, <2>4, <2>8, <2>9, <3>1
    <3>2. CASE k # 1 /\ k = n
      BY <1>9, <1>12, <2>8, <2>9, <3>2
    <3>3. CASE k # 1 /\ k # n
      BY <1>9, <1>12, <2>8, <2>9, <3>3
    <3>4. CASE n = 1
      BY <2>9, <3>4
    <3> QED
      BY <3>1, <3>2, <3>3, <3>4
  <2>11. LinksTyped'
    <3>1. lnext' \in [ListElem -> ListElem \cup {NULLP}]
      <4>1. CASE k = 1
        BY <1>5, <2>8, <2>10, <4>1
      <4>2. CASE k # 1
        BY <1>5, <1>12, <2>10, <4>2
      <4> QED
        BY <4>1, <4>2
    <3>2. lprev' \in [ListElem -> ListElem \cup {NULLP}]
      <4>1. CASE k = 1
        BY <1>5, <1>9, <1>12, <2>8, <2>9, <2>10, <4>1
      <4>2. CASE k # 1
        BY <1>5, <1>9, <1>12, <2>10, <4>2
      <4> QED
        BY <4>1, <4>2
    <3> QED
      BY <3>1, <3>2 DEF LinksTyped
  <2>12. ASSUME NEW j \in 1..n
         PROVE  /\ s[j] \in ListElem
                /\ (k # 1 => (j = k - 1 <=> s[j] = s[k - 1]))
                /\ (k # n => (j = k + 1 <=> s[j] = s[k + 1]))
                /\ (j # 1 => s[j] # s[1])
    <3>1. s[j] \in ListElem
      BY <1>3
    <3>2. k # 1 => (j = k - 1 <=> s[j] = s[k - 1])
      BY <1>3, <1>11
    <3>3. k # n => (j = k + 1 <=> s[j] = s[k + 1])
      BY <1>3, <1>11
    <3>4. j # 1 => s[j] # s[1]
      BY <1>3, <1>9
    <3> QED
      BY <3>1, <3>2, <3>3, <3>4
  <2>13. ASSUME NEW j \in 1..n, j # k
         PROVE  lnext'[s[j]] = IF j = k - 1 THEN After(s, k) ELSE lnext[s[j]]
    <3>1. CASE k = 1
      <4>1. j # k - 1
        <5> HIDE DEF n
        <5> QED
          BY <3>1
      <4> QED
        BY <2>8, <2>10, <3>1, <4>1
    <3>2. CASE k # 1
      <4>1. lnext' = [lnext EXCEPT ![s[k - 1]] = After(s, k)]
        BY <2>10, <3>2, NoNullElem DEF After
      <4>2. lnext'[s[j]] = IF s[j] = s[k - 1] THEN After(s, k) ELSE lnext[s[j]]
        BY <1>5, <2>12, <4>1
      <4> QED
        BY <2>12, <3>2, <4>2
    <3> QED
      BY <3>1, <3>2
  <2>14. ASSUME NEW j \in 1..n, j # k, j # 1
         PROVE  /\ j = k + 1 /\ k # 1 => lprev'[s[j]] = s[k - 1]
                /\ j # k + 1 => lprev'[s[j]] = lprev[s[j]]
    <3>1. s[j] \in ListElem /\ s[j] # s[1]
      BY <2>12, <2>14
    <3>2. CASE k = n
      <4>1. j # k + 1
        <5> HIDE DEF n
        <5> QED
          BY <3>2
      <4>2. lprev'[s[j]] = lprev[s[j]]
        BY <1>5, <2>8, <2>9, <2>10, <3>1, <3>2
      <4> QED
        BY <4>1, <4>2
    <3>3. CASE k # n
      <4>1. j = k + 1 <=> s[j] = s[k + 1]
        BY <2>12, <3>3
      <4>2. n # 1
        BY <2>9, <3>3
      <4>3. lprev'[s[j]] = IF s[j] = s[k + 1] THEN IF k = 1 THEN s[n] ELSE s[k - 1]
                           ELSE lprev[s[j]]
        BY <1>5, <2>10, <3>1, <3>3, <4>2
      <4> QED
        BY <4>1, <4>3
    <3> QED
      BY <3>2, <3>3
  <2>15. Threaded(w, lnext', lprev')
    <3>1. \A j \in 1..n :
            j # k => /\ lnext'[s[j]] = IF j = k - 1 THEN After(s, k) ELSE lnext[s[j]]
                     /\ j # 1 /\ j = k + 1 /\ k # 1 => lprev'[s[j]] = s[k - 1]
                     /\ j # 1 /\ j # k + 1 => lprev'[s[j]] = lprev[s[j]]
      BY <2>13, <2>14
    <3> QED
      BY <1>4, <2>1, <3>1, TakenOutThreaded
  <2>16. CASE n = 1
    <3>1. w = << >>
      BY <2>1, <2>16 DEF TakenOut
    <3>2. lhead' = FirstOf(w)
      BY <2>8, <2>16, <3>1, NoNullElem DEF FirstOf
    <3>3. RingInv' /\ Walked' = w
      BY <2>1, <2>3, <2>11, <2>15, <3>1, <3>2, RingAgain
    <3>4. TailKnown' = TRUE
      BY <2>8, <2>16 DEF TailKnown
    <3>5. TailKnown
      BY <2>4, <2>9, <2>16
    <3>6. AsSegmentList!Delete(e)
      <4>1. AsSegmentList!Before(e) \o AsSegmentList!After(e) = w
        BY <1>2, <1>13, <2>2 DEF AsSegmentList!Before, AsSegmentList!After
      <4>2. TailKnown' = (TailKnown \/ AsSegmentList!Place(e) = Len(Walked))
        BY <3>4, <3>5
      <4> QED
        BY <1>13, <2>3, <3>3, <3>5, <4>1, <4>2 DEF AsSegmentList!Delete
    <3> QED
      BY <1>1, <3>3, <3>6 DEF AsSegmentList!Next
  <2>17. CASE n # 1
    <3>1. /\ w # << >> /\ Len(w) = n - 1
          /\ w[1] = (IF k = 1 THEN s[2] ELSE s[1])
          /\ w[n - 1] = IF k = n THEN s[n - 1] ELSE s[n]
      <4>1. Len(w) = n - 1 /\ \A j \in 1..(n - 1) : w[j] = IF j < k THEN s[j] ELSE s[j + 1]
        BY <2>1 DEF TakenOut
      <4>2. /\ 1 \in 1..(n - 1) /\ n - 1 \in 1..(n - 1) /\ n - 1 # 0
            /\ (1 < k <=> k # 1) /\ (n - 1 < k <=> k = n) /\ 1 + 1 = 2 /\ (n - 1) + 1 = n
        <5> HIDE DEF n
        <5> QED
          BY <1>3, <1>7, <1>8, <2>17
      <4>3. w # << >>
        BY <4>1, <4>2
      <4>4. w[1] = IF k = 1 THEN s[2] ELSE s[1]
        BY <4>1, <4>2
      <4>5. w[n - 1] = IF k = n THEN s[n - 1] ELSE s[n]
        <5> HIDE DEF n
        <5> QED
          BY <4>1, <4>2
      <4> QED
        BY <4>1, <4>3, <4>4, <4>5
    <3>2. lhead' = w[1]
      BY <2>10, <2>17, <3>1
    <3>3. lhead' = FirstOf(w)
      BY <3>1, <3>2 DEF FirstOf
    <3>4. lprev'[w[1]] = IF k = 1 \/ k = n THEN w[n - 1] ELSE lprev[s[1]]
      <4>1. CASE k = 1
        <5>1. lprev' = [lprev EXCEPT ![s[2]] = s[n]] /\ w[1] = s[2] /\ s[2] \in ListElem
          BY <1>12, <2>9, <2>10, <2>17, <3>1, <4>1
        <5>2. w[n - 1] = s[n]
          BY <2>9, <2>17, <3>1, <4>1
        <5> QED
          BY <1>5, <4>1, <5>1, <5>2
      <4>2. CASE k # 1 /\ k = n
        <5>1. lprev' = [lprev EXCEPT ![s[1]] = s[k - 1]] /\ w[1] = s[1]
          BY <2>10, <3>1, <4>2
        <5>2. w[n - 1] = s[k - 1]
          BY <3>1, <4>2
        <5> QED
          BY <1>5, <1>9, <4>2, <5>1, <5>2
      <4>3. CASE k # 1 /\ k # n
        <5>1. lprev' = [lprev EXCEPT ![s[k + 1]] = s[k - 1]] /\ w[1] = s[1]
          BY <2>10, <3>1, <4>3
        <5>2. s[k + 1] # s[1]
          BY <1>3, <1>9, <1>11, <4>3
        <5> QED
          BY <1>5, <1>9, <4>3, <5>1, <5>2
      <4> QED
        BY <4>1, <4>2, <4>3
    <3>5. k # 1 /\ k # n => w[n - 1] = s[n]
      BY <3>1
    <3>6. w[n - 1] \in ListElem /\ w[n - 1] # NULLP
      <4>1. k = n => k # 1 /\ k - 1 = n - 1
        BY <2>9, <2>17
      <4>2. k = n => s[n - 1] \in ListElem
        BY <1>12, <4>1
      <4> QED
        BY <1>9, <3>1, <4>2, NoNullElem
    <3>7. lprev'[w[1]] \in {NULLP, w[n - 1]}
      BY <1>9, <3>4, <3>5
    <3>8. TailKnown' <=> TailKnown \/ k = n
      <4>1. TailKnown' <=> lprev'[w[1]] # NULLP
        <5>1. lhead' # NULLP
          BY <1>9, <1>12, <2>9, <2>10, <2>17, NoNullElem
        <5> QED
          BY <3>2, <5>1 DEF TailKnown
      <4>2. k = 1 \/ k = n => TailKnown' /\ (TailKnown \/ k = n)
        BY <2>4, <3>4, <3>6, <4>1
      <4>3. ~(k = 1 \/ k = n) => (TailKnown' <=> TailKnown)
        BY <1>9, <3>4, <4>1
      <4> QED
        BY <4>2, <4>3
    <3>9. ~byHand' => lprev'[w[1]] # NULLP
      BY <1>1, <1>3, <1>9, <3>4, <3>6
    <3>10. RingInv' /\ Walked' = w
      BY <2>1, <2>3, <2>11, <2>15, <3>1, <3>3, <3>7, <3>9, RingAgain
    <3>11. AsSegmentList!Delete(e)
      <4>1. AsSegmentList!Before(e) \o AsSegmentList!After(e) = w
        BY <1>2, <1>13, <2>2 DEF AsSegmentList!Before, AsSegmentList!After
      <4>2. TailKnown' = (TailKnown \/ AsSegmentList!Place(e) = Len(Walked))
        BY <1>2, <1>13, <3>8 DEF TailKnown
      <4>3. ~(e = Head(Walked) /\ ~TailKnown)
        BY <1>2, <1>9, <1>10, <2>4
      <4> QED
        BY <1>13, <2>3, <3>10, <4>1, <4>2, <4>3 DEF AsSegmentList!Delete
    <3> QED
      BY <1>1, <3>10, <3>11 DEF AsSegmentList!Next
  <2> QED
    BY <2>16, <2>17
<1> QED
  BY <1>14, <1>15

LEMMA RingStep ==
  RingInv /\ [ListNext]_listVars
    => RingInv' /\ [AsSegmentList!Next]_<< Walked, TailKnown, lfailed >>
<1> SUFFICES ASSUME RingInv, [ListNext]_listVars
             PROVE  RingInv' /\ [AsSegmentList!Next]_<< Walked, TailKnown, lfailed >>
  OBVIOUS
<1>1. CASE ListNext
  <2>1. PICK e \in ListElem :
          \/ DL_PREPEND(e) \/ DL_APPEND(e) \/ DL_DELETE(e)
          \/ \E f \in ListElem : DL_PREPEND_ELEM(f, e) \/ DL_REPLACE_ELEM(f, e)
    BY <1>1 DEF ListNext
  <2>2. CASE DL_PREPEND(e)
    BY <2>2, PrependRefines
  <2>3. CASE DL_APPEND(e)
    BY <2>3, AppendRefines
  <2>4. CASE DL_DELETE(e)
    BY <2>4, DeleteRefines
  <2>5. CASE \E f \in ListElem : DL_PREPEND_ELEM(f, e) \/ DL_REPLACE_ELEM(f, e)
    <3>1. PICK f \in ListElem : DL_PREPEND_ELEM(f, e) \/ DL_REPLACE_ELEM(f, e)
      BY <2>5
    <3>2. CASE DL_PREPEND_ELEM(f, e)
      BY <3>2, PrependElemRefines
    <3>3. CASE DL_REPLACE_ELEM(f, e)
      BY <3>3, ReplaceRefines
    <3> QED
      BY <3>1, <3>2, <3>3
  <2> QED
    BY <2>1, <2>2, <2>3, <2>4, <2>5
<1>2. CASE UNCHANGED listVars
  <2>1. /\ lhead' = lhead /\ lprev' = lprev /\ lnext' = lnext /\ inList' = inList
        /\ byHand' = byHand /\ lfailed' = lfailed
    BY <1>2 DEF listVars
  <2>2. Walked' = Walked /\ TailKnown' = TailKnown
    BY <2>1 DEF Walked, TailKnown
  <2>3. RingInv'
    BY <2>1, <2>2 DEF RingInv, LinksTyped, Ring
  <2> QED
    BY <2>1, <2>2, <2>3
<1> QED
  BY <1>1, <1>2

\* The macros of utlist.h, applied to the pointers of any number of elements,
\* keep a list that begins empty, or with one element put there by hand as
\* engine.c does, linked both ways with the head leading back to the tail, and do
\* to what DL_FOREACH visits what the list of segments in Merger does, the delete
\* that fails for want of a tail pointer included.
THEOREM ListRefines == ListSpec => ListImplementsSequence
<1>1. ListInit => RingInv /\ AsSegmentList!Init
  BY RingStart
<1>2. RingInv /\ [ListNext]_listVars
        => RingInv' /\ [AsSegmentList!Next]_<< Walked, TailKnown, lfailed >>
  BY RingStep
<1> QED
  BY <1>1, <1>2, PTL DEF ListSpec, ListImplementsSequence, AsSegmentList!Spec
==============================================================================
