---------------------------- MODULE AnswerProofs -----------------------------
(***************************************************************************)
(* Theorems about what a lookup returns, for any number of workers,        *)
(* requests, documents and terms: AnswerInv is inductive together with the *)
(* invariants of the engine and of the lookups.                            *)
(*                                                                         *)
(* First what the walk over one segment finds; then what a step of the     *)
(* engine leaves of it while no merge is under way; then the steps of the  *)
(* lookup itself.                                                          *)
(***************************************************************************)
EXTENDS AnswerInv, LookupProofs

-----------------------------------------------------------------------------
(* The walk over a segment.                                                *)

\* InOrder has all elements of the set, once.
LEMMA InOrderAll ==
  ASSUME NEW S, IsFiniteSet(S), NEW before, StrictOrder(S, before)
  PROVE  /\ Range(InOrder(S, before)) = S
         /\ \A i, j \in 1..Len(InOrder(S, before)) :
              i < j => << InOrder(S, before)[i], InOrder(S, before)[j] >>
                         \in before
<1> DEFINE q == InOrder(S, before)
           n == Cardinality(S)
<1>1. /\ q \in Seq(S) /\ Len(q) = n
      /\ \A i, j \in 1..n : i < j => << q[i], q[j] >> \in before
  BY InOrderFacts
<1>2. n \in Nat /\ IsFiniteSet(1..n) /\ Cardinality(1..n) = n
  BY FS_CardinalityType, UpTo
<1> HIDE DEF q
<1>3. q \in [1..n -> S]
  BY <1>1, LenProperties
<1>4. ASSUME NEW i \in 1..n, NEW j \in 1..n, q[i] = q[j]
      PROVE  i = j
  <2>1. ASSUME NEW k \in 1..n, NEW l \in 1..n, k < l PROVE q[k] # q[l]
    <3>1. << q[k], q[l] >> \in before /\ q[k] \in S
      BY <1>1, <1>3, <2>1
    <3> QED
      BY <3>1 DEF StrictOrder
  <2>2. i \in Int /\ j \in Int
    BY <1>2
  <2> QED
    BY <1>4, <2>1, <2>2
<1>5. q \in Injection(1..n, S)
  BY <1>3, <1>4, Fun_IsInj
<1>6. q \in Surjection(1..n, S)
  BY <1>2, <1>5, FS_Injection
<1>7. \A d \in S : \E i \in 1..n : q[i] = d
  BY <1>6 DEF Surjection
<1>8. Range(q) = S
  <2> HIDE DEF n
  <2>1. Range(q) \subseteq S
    BY <1>1, RangeElements
  <2>2. \A d \in S : d \in Range(q)
    BY <1>1, <1>7, RangeElements
  <2> QED
    BY <2>1, <2>2
<1> QED
  BY <1>1, <1>8 DEF q

\* All documents of a part of a segment, in the order of the keys.
LEMMA KeyOrderAll ==
  ASSUME NEW s, docs[s] \in Seq(Doc), NEW P \in SUBSET DocsIn(s)
  PROVE  /\ InOrder(P, KeyOrder(s)) \in Seq(Doc)
         /\ Range(InOrder(P, KeyOrder(s))) = P
         /\ Len(InOrder(P, KeyOrder(s))) = Cardinality(P)
<1>1. DocsIn(s) \in SUBSET Doc /\ IsFiniteSet(Doc)
  BY RangeElements, MaxDocAssumption, UpTo DEF DocsIn, Doc
<1>2. IsFiniteSet(P) /\ P \subseteq Doc
  BY <1>1, FS_Subset
<1>3. StrictOrder(P, KeyOrder(s))
  BY StrictOnPart, KeyOrderStrict
<1>4. InOrder(P, KeyOrder(s)) \in Seq(P)
  BY <1>2, <1>3, InOrderFacts
<1> QED
  BY <1>2, <1>3, <1>4, InOrderFacts, InOrderAll, SeqMonotonic

\* The ids of the documents of a segment are their places.
InPlace(s) == \A i \in 1..Len(docs[s]) : docId[docs[s][i]] = i

\* The postings of a term are the documents that have it, in the order of
\* their ids.
LEMMA PostingsFacts ==
  ASSUME NEW s, docs[s] \in Seq(Doc), InPlace(s), NEW t
  PROVE  /\ Postings(s, t) \in Seq(Doc)
         /\ Range(Postings(s, t)) = {d \in DocsIn(s) : t \in TermsOf[d]}
         /\ Increasing(Postings(s, t), docId)
<1> DEFINE P == {d \in DocsIn(s) : t \in TermsOf[d]}
<1>1. DocsIn(s) \in SUBSET Doc /\ IsFiniteSet(Doc)
  BY RangeElements, MaxDocAssumption, UpTo DEF DocsIn, Doc
<1>2. IsFiniteSet(P) /\ P \subseteq Doc
  BY <1>1, FS_Subset
<1>3. StrictOrder(P, AddOrder(s))
  BY StrictOnPart, AddOrderStrict
<1>4. Postings(s, t) = InOrder(P, AddOrder(s))
  BY DEF Postings
<1> HIDE DEF P
<1>5. Postings(s, t) \in Seq(P)
  BY <1>2, <1>3, <1>4, InOrderFacts
<1>6. Range(Postings(s, t)) = P
  BY <1>2, <1>3, <1>4, InOrderAll
<1>7. ASSUME NEW i \in 1..Len(Postings(s, t)), NEW j \in 1..Len(Postings(s, t)),
             i < j
      PROVE  docId[Postings(s, t)[i]] < docId[Postings(s, t)[j]]
  <2> DEFINE d == Postings(s, t)[i]
             e == Postings(s, t)[j]
  <2>1. << d, e >> \in AddOrder(s)
    BY <1>2, <1>3, <1>4, <1>7, InOrderAll
  <2> HIDE DEF d, e
  <2>2. d \in DocsIn(s) /\ e \in DocsIn(s) /\ PlaceOf(s, d) < PlaceOf(s, e)
    BY <2>1 DEF AddOrder
  <2>3. docId[d] = PlaceOf(s, d) /\ docId[e] = PlaceOf(s, e)
    BY <2>2, PlacesOfDocs DEF InPlace
  <2> QED
    BY <2>2, <2>3 DEF d, e
<1> QED
  BY <1>2, <1>5, <1>6, <1>7, SeqMonotonic DEF Increasing, P

\* The first n of a sequence: some of it, or all if they are fewer than n.
LEMMA FirstNFacts ==
  ASSUME NEW S, NEW q \in Seq(S), NEW n \in Int
  PROVE  /\ FirstN(q, n) \in Seq(S)
         /\ Range(FirstN(q, n)) \subseteq Range(q)
         /\ Len(FirstN(q, n)) < n => FirstN(q, n) = q
<1> DEFINE m == IF n < Len(q) THEN n ELSE Len(q)
<1>1. Len(q) \in Nat /\ m \in Int /\ 1 \in Int /\ m <= Len(q)
  BY LenProperties
<1>2. \A i \in 1..m : i \in 1..Len(q) /\ q[i] \in S
  <2> SUFFICES ASSUME NEW i \in 1..m PROVE i \in 1..Len(q)
    BY ElementOfSeq
  <2> HIDE DEF m
  <2> QED
    BY <1>1
<1>3. FirstN(q, n) = SubSeq(q, 1, m)
  BY DEF FirstN
<1>4. /\ SubSeq(q, 1, m) \in Seq(S)
      /\ Len(SubSeq(q, 1, m)) = IF 1 <= m THEN m - 1 + 1 ELSE 0
      /\ \A i \in 1..Len(SubSeq(q, 1, m)) : SubSeq(q, 1, m)[i] = q[1 + i - 1]
  <2> HIDE DEF m
  <2> QED
    BY <1>1, <1>2, SubSeqProperties
<1>5. \A i \in 1..Len(SubSeq(q, 1, m)) :
        i \in 1..Len(q) /\ SubSeq(q, 1, m)[i] = q[i]
  <2> SUFFICES ASSUME NEW i \in 1..Len(SubSeq(q, 1, m))
               PROVE  i \in 1..Len(q) /\ SubSeq(q, 1, m)[i] = q[i]
    OBVIOUS
  <2> HIDE DEF m
  <2>1. i \in 1..m /\ 1 + i - 1 = i
    BY <1>1, <1>4
  <2> QED
    BY <1>2, <1>4, <2>1
<1>6. Range(SubSeq(q, 1, m)) \subseteq Range(q)
  <2> DEFINE p == SubSeq(q, 1, m)
  <2>1. p \in Seq(S) /\ \A i \in 1..Len(p) : i \in 1..Len(q) /\ p[i] = q[i]
    BY <1>4, <1>5
  <2> HIDE DEF p
  <2>2. \A x \in Range(p) : \E i \in 1..Len(p) : p[i] = x
    BY <2>1, RangeElements
  <2>3. \A x \in Range(p) : \E i \in 1..Len(q) : q[i] = x
    BY <2>1, <2>2
  <2>4. \A x \in Range(p) : x \in Range(q)
    BY <2>3, RangeElements
  <2> QED
    BY <2>4 DEF p
<1>7. ASSUME Len(SubSeq(q, 1, m)) < n
      PROVE  SubSeq(q, 1, m) = q
  <2>1. m = Len(q)
    BY <1>1, <1>4, <1>7
  <2>2. Len(SubSeq(q, 1, m)) = Len(q)
    BY <1>1, <1>4, <2>1
  <2> HIDE DEF m
  <2> QED
    BY <1>4, <1>5, <2>2, SeqEqual
<1> HIDE DEF m
<1> QED
  BY <1>3, <1>4, <1>6, <1>7

\* An id in a segment leads to one document.
LEMMA SameId ==
  ASSUME NEW s, docs[s] \in Seq(Doc), InPlace(s)
  PROVE  \A d \in DocsIn(s) :
           /\ docId[d] \in 1..Len(docs[s]) /\ docs[s][docId[d]] = d
           /\ \A e \in DocsIn(s) : docId[d] = docId[e] => d = e
<1>1. \A d \in DocsIn(s) :
        docId[d] \in 1..Len(docs[s]) /\ docs[s][docId[d]] = d
  <2> SUFFICES ASSUME NEW d \in DocsIn(s)
               PROVE  docId[d] \in 1..Len(docs[s]) /\ docs[s][docId[d]] = d
    OBVIOUS
  <2>1. PICK i \in 1..Len(docs[s]) : docs[s][i] = d
    BY RangeElements DEF DocsIn
  <2> QED
    BY <2>1 DEF InPlace
<1> QED
  BY <1>1

\* The documents without a mark are those that are not counted as deleted.
LEMMA ClearCount ==
  ASSUME NEW s, docs[s] \in Seq(Doc), InPlace(s),
         NEW ids \in SUBSET (1..Len(docs[s]))
  PROVE  Cardinality({d \in DocsIn(s) : docId[d] \notin ids})
           = Len(docs[s]) - Cardinality(ids)
<1> DEFINE n == Len(docs[s])
           S == (1..n) \ ids
           K == {d \in DocsIn(s) : docId[d] \notin ids}
           f == [i \in S |-> docs[s][i]]
<1>1. n \in Nat /\ IsFiniteSet(1..n) /\ Cardinality(1..n) = n
  BY LenProperties, UpTo
<1>2. (1..n) \cap ids = ids
  OBVIOUS
<1>3. IsFiniteSet(S) /\ Cardinality(S) = n - Cardinality(ids)
  <2> HIDE DEF n
  <2>1. /\ IsFiniteSet((1..n) \ ids)
        /\ Cardinality((1..n) \ ids)
             = Cardinality(1..n) - Cardinality((1..n) \cap ids)
    BY <1>1, FS_Difference
  <2> QED
    BY <1>1, <1>2, <2>1
<1>4. \A i \in S : docs[s][i] \in K /\ docId[docs[s][i]] = i
  <2> SUFFICES ASSUME NEW i \in S
               PROVE  docs[s][i] \in K /\ docId[docs[s][i]] = i
    OBVIOUS
  <2>1. i \in 1..n /\ i \notin ids
    OBVIOUS
  <2>2. docs[s][i] \in DocsIn(s)
    BY <2>1, RangeElements DEF DocsIn
  <2>3. docId[docs[s][i]] = i
    BY <2>1 DEF InPlace
  <2> QED
    BY <2>1, <2>2, <2>3
<1>5. \A d \in K : docId[d] \in S /\ docs[s][docId[d]] = d
  BY SameId
<1> HIDE DEF n, S, K
<1>6. f \in [S -> K]
  BY <1>4
<1>7. \A i, j \in S : f[i] = f[j] => i = j
  BY <1>4
<1>8. \A d \in K : \E i \in S : f[i] = d
  BY <1>5
<1> HIDE DEF f
<1>9. f \in Bijection(S, K)
  <2>1. f \in Injection(S, K)
    BY <1>6, <1>7, Fun_IsInj
  <2>2. f \in Surjection(S, K)
    BY <1>6, <1>8 DEF Surjection
  <2> QED
    BY <2>1, <2>2 DEF Bijection
<1>10. ExistsBijection(S, K)
  BY <1>9 DEF ExistsBijection
<1>11. Cardinality(K) = Cardinality(S)
  BY <1>3, <1>10, FS_Bijection
<1> QED
  BY <1>3, <1>11 DEF n, K

\* The types of what a lookup compares.
LEMMA QueryType ==
  ASSUME ReaderTypeOK, NEW r \in Reader
  PROVE  /\ query[r].terms \in Seq(Term) /\ Len(query[r].terms) \in Nat
         /\ query[r].limit \in Nat
         /\ Len(docsOut[r]) \in Nat /\ Len(found[r]) \in Nat
         /\ Limit(r) \in Int /\ FoundSize(r) \in Nat
         /\ docsOut[r] \in Seq(Doc) /\ found[r] \in Seq(Doc)
<1>1. query[r] \in Query \cup {NoQuery}
      /\ docsOut[r] \in Seq(Doc) /\ found[r] \in Seq(Doc)
  BY DEF ReaderTypeOK
<1>2. query[r].terms \in Seq(Term) /\ query[r].limit \in Nat
  <2>1. CASE query[r] \in Query
    BY <2>1, QueryAssumption
  <2>2. CASE query[r] = NoQuery
    <3>1. NoQuery.terms = << >> /\ NoQuery.limit = 0
      BY DEF NoQuery
    <3>2. << >> \in Seq(Term)
      OBVIOUS
    <3> QED
      BY <2>2, <3>1, <3>2
  <2> QED
    BY <1>1, <2>1, <2>2
<1>3. Len(docsOut[r]) \in Nat /\ Len(found[r]) \in Nat
      /\ Len(query[r].terms) \in Nat
  BY <1>1, <1>2, LenProperties
<1>4. Limit(r) \in Int
  BY <1>2, <1>3 DEF Limit
<1>5. FoundSize(r) \in Nat
  <2>1. \A a, b \in Nat : a + b \in Nat
    OBVIOUS
  <2> QED
    BY <1>3, <2>1, Zenon DEF FoundSize
<1> QED
  BY <1>1, <1>2, <1>3, <1>4, <1>5

\* The documents the walk may find.
Matches(r) ==
  {d \in DocsIn(rseg[r]) :
     /\ Terms(r) \subseteq TermsOf[d]
     /\ Len(query[r].terms) # 1 => docId[d] \notin bits[r]}

\* It finds some of them, and all unless it is cut short.
Finds(r, q) ==
  /\ q \in Seq(Doc)
  /\ Range(q) \subseteq Matches(r)
  /\ Len(q) < Limit(r) => Range(q) = Matches(r)

\* A sequence of all matches, cut at the limit.
LEMMA FindsFirst ==
  ASSUME ReaderTypeOK, NEW r \in Reader, NEW q \in Seq(Doc),
         Range(q) = Matches(r)
  PROVE  /\ Finds(r, FirstN(q, Limit(r)))
         /\ Len(FirstN(q, Limit(r))) < Limit(r) => FirstN(q, Limit(r)) = q
  BY QueryType, FirstNFacts DEF Finds

OnBothLists(r, lists) == I!SeekIntersect(lists, docId, bits[r])

\* The lists of several terms that all occur have the matches in common.
LEMMA IntersectsMatches ==
  ASSUME NEW r \in Reader, ReaderTypeOK, docs[rseg[r]] \in Seq(Doc),
         docId \in [Doc -> Nat], InPlace(rseg[r]),
         NEW lists, lists = PostingLists(rseg[r], query[r].terms),
         Len(lists) > 1
  PROVE  /\ OnBothLists(r, lists) \in Seq(Doc)
         /\ Range(OnBothLists(r, lists)) = Matches(r)
<1> DEFINE s == rseg[r]
           terms == query[r].terms
           n == Len(lists)
           both == OnBothLists(r, lists)
           Has(m, d) == terms[m] \in TermsOf[d]
<1>1. /\ terms \in Seq(Term) /\ n = Len(terms) /\ n \in Nat
      /\ lists \in Seq(Seq(DocsIn(s)))
  BY QueryType, PostingListsType
<1>2. \A m \in 1..n :
        /\ lists[m] \in Seq(Doc)
        /\ Range(lists[m]) = {d \in DocsIn(s) : Has(m, d)}
        /\ Increasing(lists[m], docId)
  <2> SUFFICES ASSUME NEW m \in 1..n
               PROVE  /\ lists[m] \in Seq(Doc)
                      /\ Range(lists[m]) = {d \in DocsIn(s) : Has(m, d)}
                      /\ Increasing(lists[m], docId)
    OBVIOUS
  <2>1. lists[m] = Postings(s, terms[m])
    BY <1>1 DEF PostingLists
  <2> QED
    BY <2>1, PostingsFacts
<1>3. lists \in Seq(Seq(Doc)) /\ lists # << >>
  <2>1. DocsIn(s) \subseteq Doc
    BY RangeElements DEF DocsIn
  <2>2. Seq(DocsIn(s)) \subseteq Seq(Doc)
    BY <2>1, SeqMonotonic
  <2>3. lists \in Seq(Seq(Doc))
    BY <1>1, <2>2, SeqMonotonic
  <2>4. Len(<< >>) = 0
    BY EmptySeq
  <2> QED
    BY <2>3, <2>4
<1>4. /\ both \in Seq(Doc)
      /\ \A d : IsIn(both, d) <=> InCommon(lists, docId, bits[r], n, d)
  <2>1. both = SeekIntersect(lists, docId, bits[r])
    BY SameIntersection DEF OnBothLists
  <2>2. both \in Seq(Doc)
    BY <1>3, <2>1, SeekIntersectSound
  <2>3. \A d : IsIn(both, d) <=> InCommon(lists, docId, bits[r], n, d)
    BY <1>2, <1>3, <2>1, SeekIntersectExact
  <2> QED
    BY <2>2, <2>3
<1>5. \A d : d \in Terms(r) <=> \E m \in 1..n : terms[m] = d
  <2>1. terms \in Seq(Term) /\ 1..n = 1..Len(terms) /\ Terms(r) = Range(terms)
    BY <1>1 DEF Terms
  <2> HIDE DEF terms, n
  <2>2. \A d : d \in Range(terms) <=> \E m \in 1..Len(terms) : terms[m] = d
    BY <2>1, RangeElements
  <2> QED
    BY <2>1, <2>2
<1> HIDE DEF n, both
<1>6. \A m \in 1..n, d \in DocsIn(s) : HasId(lists[m], docId, d) <=> Has(m, d)
  <2> SUFFICES ASSUME NEW m \in 1..n, NEW d \in DocsIn(s)
               PROVE  HasId(lists[m], docId, d) <=> Has(m, d)
    OBVIOUS
  <2> DEFINE q == lists[m]
  <2>1. q \in Seq(Doc) /\ Range(q) = {e \in DocsIn(s) : Has(m, e)}
    BY <1>2
  <2> HIDE DEF q, Has
  <2>2. HasId(q, docId, d) => \E e \in Range(q) : docId[e] = docId[d]
    BY <2>1, RangeElements DEF HasId
  <2>3. d \in Range(q) => HasId(q, docId, d)
    BY <2>1, RangeElements DEF HasId
  <2>4. HasId(q, docId, d) <=> Has(m, d)
    BY <2>1, <2>2, <2>3, SameId
  <2> QED
    BY <2>4 DEF q
<1>7. 1 \in 1..n /\ n > 1 /\ (\A m \in 2..n : m \in 1..n)
      /\ (\A m \in 1..n : m = 1 \/ m \in 2..n)
  BY <1>1 DEF n
<1>8. \A d : IsIn(lists[1], d) <=> d \in DocsIn(s) /\ Has(1, d)
  <2> DEFINE q == lists[1]
  <2>1. q \in Seq(Doc) /\ Range(q) = {e \in DocsIn(s) : Has(1, e)}
    BY <1>2, <1>7
  <2> HIDE DEF q, Has
  <2>2. \A d : IsIn(q, d) <=> d \in Range(q)
    BY <2>1, RangeElements DEF IsIn, InFrom
  <2>3. \A d : IsIn(q, d) <=> d \in DocsIn(s) /\ Has(1, d)
    BY <2>1, <2>2
  <2> QED
    BY <2>3 DEF q
<1>9. \A d : InCommon(lists, docId, bits[r], n, d)
               <=> /\ d \in DocsIn(s)
                   /\ \A m \in 1..n : Has(m, d)
                   /\ docId[d] \notin bits[r]
  <2> HIDE DEF Has
  <2> QED
    BY <1>6, <1>7, <1>8 DEF InCommon
<1>10. \A d : IsIn(both, d) <=> d \in Range(both)
  BY <1>4, RangeElements DEF IsIn, InFrom
<1>11. \A d : d \in Matches(r) <=> /\ d \in DocsIn(s)
                                   /\ \A m \in 1..n : Has(m, d)
                                   /\ docId[d] \notin bits[r]
  <2>1. \A d : Terms(r) \subseteq TermsOf[d] <=> \A m \in 1..n : Has(m, d)
    <3> HIDE DEF terms
    <3> SUFFICES ASSUME NEW d
                 PROVE  Terms(r) \subseteq TermsOf[d]
                          <=> \A m \in 1..n : terms[m] \in TermsOf[d]
      OBVIOUS
    <3> QED
      BY <1>5
  <2>2. n # 1
    BY <1>7
  <2>3. Len(terms) # 1
    BY <1>1, <2>2 DEF n
  <2> HIDE DEF Has
  <2> QED
    BY <2>1, <2>3 DEF Matches
<1>12. \A d : d \in Range(both) <=> d \in Matches(r)
  <2> HIDE DEF Has
  <2> QED
    BY <1>4, <1>9, <1>10, <1>11
<1>13. Range(both) = Matches(r)
  BY <1>12
<1> QED
  BY <1>4, <1>13 DEF both

\* The walk over the table of keys.
LEMMA NoTermsMatch ==
  ASSUME NEW r \in Reader, ReaderTypeOK, docs[rseg[r]] \in Seq(Doc),
         query[r].terms = << >>
  PROVE  LET whole == InOrder(Clear(r), KeyOrder(rseg[r]))
         IN  /\ whole \in Seq(Doc) /\ Range(whole) = Matches(r)
             /\ Len(whole) = Cardinality(Clear(r))
<1>1. Clear(r) \in SUBSET DocsIn(rseg[r])
  BY DEF Clear
<1>2. Terms(r) = {} /\ Len(query[r].terms) # 1
  BY RangeEmpty, EmptySeq DEF Terms
<1>3. Clear(r) = Matches(r)
  BY <1>2 DEF Clear, Matches
<1> QED
  BY <1>1, <1>3, KeyOrderAll

\* The walk over the postings of one term.
LEMMA OneTermMatches ==
  ASSUME NEW r \in Reader, ReaderTypeOK, docs[rseg[r]] \in Seq(Doc),
         InPlace(rseg[r]), Len(query[r].terms) = 1,
         NEW lists, lists = PostingLists(rseg[r], query[r].terms)
  PROVE  lists[1] \in Seq(Doc) /\ Range(lists[1]) = Matches(r)
<1> DEFINE t == query[r].terms[1]
<1>1. query[r].terms \in Seq(Term)
  BY QueryType
<1>2. \A d : d \in Terms(r) <=> \E i \in 1..1 : query[r].terms[i] = d
  BY <1>1, RangeElements DEF Terms
<1>3. Terms(r) = {t}
  BY <1>2
<1>4. lists[1] = Postings(rseg[r], t)
  BY DEF PostingLists
<1>5. Matches(r) = {d \in DocsIn(rseg[r]) : t \in TermsOf[d]}
  BY <1>3 DEF Matches
<1> QED
  BY <1>4, <1>5, PostingsFacts

\* A term that does not occur in the segment.
LEMMA EmptyListNoMatch ==
  ASSUME NEW r \in Reader, ReaderTypeOK, docs[rseg[r]] \in Seq(Doc),
         InPlace(rseg[r]),
         NEW lists, lists = PostingLists(rseg[r], query[r].terms),
         NEW i \in 1..Len(lists), lists[i] = << >>
  PROVE  Matches(r) = {}
<1>1. query[r].terms \in Seq(Term) /\ Len(lists) = Len(query[r].terms)
  BY QueryType, PostingListsType
<1>2. lists[i] = Postings(rseg[r], query[r].terms[i])
  BY <1>1 DEF PostingLists
<1>3. {d \in DocsIn(rseg[r]) : query[r].terms[i] \in TermsOf[d]} = {}
  BY <1>2, PostingsFacts, RangeEmpty
<1>4. query[r].terms[i] \in Terms(r)
  BY <1>1, RangeElements DEF Terms
<1> QED
  BY <1>3, <1>4 DEF Matches

\* What the walk finds, and what it makes of total: if no limit cuts it short
\* and the bitmap is that of now, the number of the documents found; without
\* terms, if that is what has been assigned to it.
LEMMA WalkResult ==
  ASSUME NEW r \in Reader, ReaderTypeOK, docs[rseg[r]] \in Seq(Doc),
         docId \in [Doc -> Nat], InPlace(rseg[r]),
         deletion[rseg[r]] \in SUBSET (1..Len(docs[rseg[r]])),
         deleted[rseg[r]] = Cardinality(deletion[rseg[r]]),
         NEW lists, lists = PostingLists(rseg[r], query[r].terms),
         NEW result, result = Result(r, lists)
  PROVE  /\ Finds(r, result.found)
         /\ /\ Len(query[r].terms) # 1 /\ bits[r] = deletion[rseg[r]]
            /\ query[r].terms = << >>
                 => total[r] = Len(docs[rseg[r]]) - deleted[rseg[r]]
            /\ ~LeavesTotal(lists, result.found)
            /\ Len(result.found) < Limit(r)
            => result.total = Len(result.found)
<1> DEFINE s == rseg[r]
           terms == query[r].terms
           both == OnBothLists(r, lists)
<1>1. /\ terms \in Seq(Term) /\ Len(lists) = Len(terms) /\ Len(terms) \in Nat
      /\ lists \in Seq(Seq(DocsIn(s)))
  BY QueryType, PostingListsType
<1>2. Finds(r, << >>) <=> (0 < Limit(r) => Matches(r) = {})
  BY RangeEmpty, EmptySeq DEF Finds
<1>3. CASE terms = << >>
  <2> DEFINE whole == InOrder(Clear(r), KeyOrder(s))
  <2>1. /\ whole \in Seq(Doc) /\ Range(whole) = Matches(r)
        /\ Len(whole) = Cardinality(Clear(r))
    BY <1>3, NoTermsMatch
  <2>2. lists = << >>
    BY <1>1, <1>3, EmptySeq
  <2>3. result = [found |-> FirstN(whole, Limit(r)), total |-> total[r]]
    BY <2>2 DEF Result, WithoutTerms
  <2>4. bits[r] = deletion[s] => Len(whole) = Len(docs[s]) - deleted[s]
    BY <2>1, ClearCount DEF Clear
  <2> HIDE DEF whole
  <2> QED
    BY <1>3, <2>1, <2>3, <2>4, FindsFirst
<1>4. CASE lists # << >> /\ \E i \in 1..Len(lists) : lists[i] = << >>
  <2>1. Matches(r) = {}
    BY <1>4, EmptyListNoMatch
  <2>2. result = [found |-> << >>, total |-> 0]
    BY <1>4 DEF Result, WithTerms
  <2> QED
    BY <1>2, <2>1, <2>2, EmptySeq
<1>5. CASE Len(lists) = 1 /\ ~\E i \in 1..Len(lists) : lists[i] = << >>
  <2>1. lists[1] \in Seq(Doc) /\ Range(lists[1]) = Matches(r)
    BY <1>1, <1>5, OneTermMatches
  <2>2. lists # << >>
    BY <1>5, EmptySeq
  <2>3. result = [found |-> FirstN(lists[1], Limit(r)), total |-> Len(lists[1])]
    BY <1>5, <2>2 DEF Result, WithTerms
  <2>4. Len(lists[1]) \in Nat
    BY <2>1, LenProperties
  <2> QED
    BY <1>1, <1>5, <2>1, <2>3, <2>4, FindsFirst
<1>6. CASE Len(lists) > 1 /\ ~\E i \in 1..Len(lists) : lists[i] = << >>
  <2> HIDE DEF both, s, terms
  <2>0. Len(lists) > 1
    BY <1>6
  <2>1. both \in Seq(Doc) /\ Range(both) = Matches(r)
    BY <2>0, IntersectsMatches DEF both
  <2>2. lists # << >> /\ Len(lists) # 1
    <3>1. Len(lists) \in Nat /\ \A k \in Nat : k > 1 => k # 0 /\ k # 1
      BY <1>1
    <3>2. Len(lists) # 0 /\ Len(lists) # 1
      BY <2>0, <3>1, Zenon
    <3>3. Len(<< >>) = 0
      OBVIOUS
    <3> QED
      BY <3>2, <3>3, Zenon
  <2>3. result = [found |-> FirstN(both, Limit(r)),
                  total |-> IF both = << >> THEN total[r] ELSE Len(both)]
    BY <1>6, <2>2 DEF Result, WithTerms, OnBothLists, both
  <2>4. Len(both) \in Nat
    BY <2>1, LenProperties
  <2>5. Finds(r, result.found)
    BY <2>1, <2>3, FindsFirst
  <2>6. ASSUME ~LeavesTotal(lists, result.found), Len(result.found) < Limit(r)
        PROVE  result.total = Len(result.found)
    <3>1. result.found # << >>
      BY <1>6, <2>6 DEF LeavesTotal
    <3>2. result.found = both
      BY <2>1, <2>3, <2>6, FindsFirst
    <3> QED
      BY <2>3, <3>1, <3>2
  <2> QED
    BY <2>5, <2>6
<1>7. terms = << >> \/ Len(lists) = 1 \/ Len(lists) > 1
  <2>1. terms # << >> => Len(terms) \in Nat \ {0}
    BY <1>1, EmptySeq
  <2>2. \A k \in Nat \ {0} : k = 1 \/ k > 1
    OBVIOUS
  <2> QED
    BY <1>1, <2>1, <2>2, Zenon
<1>8. terms # << >> => lists # << >>
  BY <1>1, EmptySeq
<1> QED
  BY <1>3, <1>4, <1>5, <1>6, <1>7, <1>8

-----------------------------------------------------------------------------
(* The lookups leave the engine alone, but for the counters.               *)

\* Neither KeysInv nor RemovalMarked mentions the counters.
LEMMA CounterKeepsKeys ==
  ASSUME EngineInv, KeysInv,
         UNCHANGED << pkOf, docId, docs, deletion, deleted, state, nsegs,
                      freedSegs, freedDocs, removal, engineVars, mergerVars,
                      headPrev >>
  PROVE  KeysInv' /\ (RemovalMarked => RemovalMarked')
<1>1. /\ UNCHANGED << docs, docId, deletion, freedDocs, segments, store,
                      updated, merging_deletion, merge_stage, mergerVars >>
      /\ UNCHANGED << pkOf, pc, cursor, task >>
  BY DEF engineVars
<1>2. TaskPk' = TaskPk
  BY <1>1 DEF TaskPk
<1>3. \A d \in Added : pkOf'[d] = pkOf[d]
  BY <1>1
<1>4. Sources' = Sources /\ (Removing' <=> Removing)
  BY <1>1 DEF Sources, mergerVars, Removing
<1>5. \A s : OfKey(s, TaskPk)' = OfKey(s, TaskPk)
  BY <1>1, <1>2 DEF OfKey, DocsIn
<1>6. RemovalMarked => RemovalMarked'
  BY <1>1, <1>2, <1>4, <1>5 DEF RemovalMarked, Marked
<1> QED
  BY <1>1, <1>2, <1>3, <1>6, NoMarkFrame

\* The variables of the engine that a lookup reads and does not write.
UnmovedEngine ==
  UNCHANGED << pkOf, docId, docs, deletion, deleted, state, nsegs, freedSegs,
               freedDocs, removal, engineVars, mergerVars, headPrev >>

LEMMA LookupLeavesEngine ==
  ASSUME NEW r \in Reader,
         LookupStep(r) \/ (\E q \in Query : RejectLookup(r, q)
                                              \/ BeginLookup(r, q))
  PROVE  UnmovedEngine /\ UNCHANGED next
<1>1. UNCHANGED vars => UnmovedEngine
  BY DEF vars, segVars, UnmovedEngine
<1>2. CASE \/ Enter(r) \/ CheckSize(r) \/ CheckDeleted(r) \/ CloneBits(r)
           \/ CountDocs(r) \/ Subtract(r)
  BY <1>1, <1>2 DEF Enter, CheckSize, CheckDeleted, CloneBits, CountDocs,
                    Subtract, UseAfterFree, UnmovedEngine
<1>3. CASE FindMisses(r) \/ FindFreed(r)
  BY <1>1, <1>3 DEF FindMisses, FindFreed
<1>4. CASE Walk(r) \/ Leave(r)
  BY <1>1, <1>4 DEF Walk, Leave, UnmovedEngine
<1>5. CASE Advance(r) \/ EndLookup(r)
  BY <1>1, <1>5 DEF Advance, EndLookup, UseAfterFree
<1>6. CASE \E q \in Query : RejectLookup(r, q) \/ BeginLookup(r, q)
  BY <1>1, <1>6 DEF RejectLookup, BeginLookup
<1> QED
  BY <1>2, <1>3, <1>4, <1>5, <1>6 DEF LookupStep

\* The marks and the keys in the presence of lookups.
LEMMA LookupNextKeepsKeys ==
  ASSUME EngineInv, KeysInv, RemovalMarked, [LookupNext]_allVars
  PROVE  KeysInv' /\ RemovalMarked'
<1>1. CASE EngineStep
  <2>1. Next \/ UNCHANGED vars
    BY <1>1 DEF EngineStep, ClientStepL, InputStepL, MergeThreadL, MergeStepL,
                ReleaseNull, Next
  <2> QED
    BY <2>1, NextKeepsKeys, NextKeepsRemovalMarked
<1>2. CASE \E r \in Reader : \/ \E q \in Query : RejectLookup(r, q)
                                                \/ BeginLookup(r, q)
                             \/ LookupStep(r)
  BY <1>2, LookupLeavesEngine, CounterKeepsKeys DEF UnmovedEngine
<1>3. CASE UNCHANGED allVars
  BY <1>3, NextKeepsKeys, NextKeepsRemovalMarked DEF allVars
<1> QED
  BY <1>1, <1>2, <1>3 DEF LookupNext

-----------------------------------------------------------------------------
(* The engine while no merge is under way.                                 *)

\* What the invariants say of an engine at rest: nothing is renumbered, no task
\* of the merger is queued, all segments that count are in the list.
LEMMA NoMerge ==
  ASSUME EngineInv, merge_stage = 0
  PROVE  /\ mpc = "loop" /\ ~ReplaceRuns /\ ~RedeleteRuns
         /\ \A i \in 1..Len(queue) : queue[i] \notin MergerTask
         /\ Plain = Listed /\ Renumbered = {} /\ Listed \subseteq InUse
         /\ newseg = NoSeg \/ newseg \in Listed \/ docs[newseg] = << >>
<1>1. Inv /\ LayoutInv /\ DocumentInv
  BY DEF EngineInv
<1>2. mpc = "loop"
  BY <1>1 DEF Inv, StagePlace, TypeOK, MergerTypeOK
<1>3. ~ReplacePhase /\ ~RedeletePhase
  BY <1>2 DEF ReplacePhase, RedeletePhase
<1>4. ~ReplaceRuns /\ ~RedeleteRuns
      /\ \A i \in 1..Len(queue) : queue[i] \notin MergerTask
  BY <1>1, <1>3 DEF Inv, OneMergerTask, MergerTask
<1>5. Sources = {}
  BY <1>1 DEF LayoutInv, SourcesLeave, Sources
<1>6. ~HasNew
  BY <1>2 DEF HasNew
<1>7. Plain = Listed
  BY <1>5, <1>6 DEF Plain
<1>8. Renumbered = {}
  BY <1>2 DEF Renumbered, CopyStarted, Copied
<1>9. ~NewPrivate
  BY <1>2, <1>4 DEF NewPrivate, MergerTask
<1>10. newseg = NoSeg \/ newseg \in Listed \/ docs[newseg] = << >>
  BY <1>1, <1>9, ListedLists
     DEF LayoutInv, NewSegmentRole, Inv, TypeOK, EngineTypeOK
<1> QED
  BY <1>2, <1>4, <1>7, <1>8, <1>10 DEF InUse

\* The documents in a segment of the list are in place.
LEMMA ListedInPlace ==
  ASSUME EngineInv, merge_stage = 0, NEW s \in Listed
  PROVE  s \in Seg /\ docs[s] \in Seq(Doc) /\ InPlace(s)
         /\ DocsIn(s) \subseteq Added
<1>1. s \in InUse \ Renumbered
  BY NoMerge
<1>2. s \in Seg /\ docs[s] \in Seq(Doc) /\ DocsIn(s) \subseteq Added
  BY KeyFacts
<1>3. InPlace(s)
  BY <1>1 DEF InPlace, EngineInv, DocumentInv, Numbered
<1> QED
  BY <1>2, <1>3

\* ... and its deleted documents are counted.
LEMMA ListedCounted ==
  ASSUME EngineInv, merge_stage = 0, NEW s \in Listed
  PROVE  /\ deletion[s] \in SUBSET (1..Len(docs[s]))
         /\ deleted[s] = Cardinality(deletion[s])
         /\ deleted[s] \in Nat /\ Len(docs[s]) \in Nat
         /\ deleted[s] <= Len(docs[s])
<1> DEFINE n == Len(docs[s])
<1>1. s \in Seg /\ docs[s] \in Seq(Doc)
  BY ListedInPlace
<1>2. s \notin Renumbered /\ Lists(s)
  BY NoMerge, KeyFacts, ListedLists
<1>3. deletion[s] \in SUBSET (1..n) /\ deleted[s] = Cardinality(deletion[s])
  BY <1>1, <1>2, CountedListed DEF EngineInv
<1>4. n \in Nat
  BY <1>1, LenProperties
<1>5. IsFiniteSet(1..n) /\ Cardinality(1..n) = n
  BY <1>4, UpTo
<1>6. deleted[s] \in Nat /\ deleted[s] <= n
  BY <1>3, <1>5, FS_Subset, FS_CardinalityType
<1> QED
  BY <1>3, <1>4, <1>6

\* What replaced a document has marked it, unless its key was added again
\* during a merge.
LEMMA ReplacedMarked ==
  ASSUME EngineInv, KeysInv, merge_stage = 0,
         NEW s \in Listed, NEW d \in DocsIn(s), d \in Superseded,
         ~Marked(s, d)
  PROVE  pkOf[d] \in updated
BY NoMerge DEF KeysInv, SupersededMarked, Twice

\* The latest document of a key, if nothing is under way for that key, is in
\* the list and has no mark.
LEMMA LatestInList ==
  ASSUME EngineInv, KeysInv, HandlerHasTask, merge_stage = 0,
         NEW d \in Latest, ~InDoubt(d)
  PROVE  /\ \A s \in Listed : d \in DocsIn(s) => ~Marked(s, d)
         /\ \E i \in 1..Len(segments) : d \in DocsIn(segments[i])
<1>1. PICK k \in PK : store[k] = d /\ d # 0
  BY DEF Latest
<1>2. d \in Added /\ pkOf[d] = k
  BY <1>1 DEF KeysInv, StoreKnown
<1>3. k \notin merging_deletion /\ ~(pc = "scan" /\ TaskPk = k)
  BY <1>2 DEF InDoubt, HandlerHasTask
<1>4. Clean(d)
  BY <1>1, <1>3 DEF KeysInv, LatestClean
<1>5. \A s \in Listed : d \in DocsIn(s) => ~Marked(s, d)
  BY <1>4, NoMerge DEF Clean
<1>6. \E s \in Listed : d \in DocsIn(s)
  <2>1. d \notin doomed \cup freedDocs
    BY <1>4 DEF Clean
  <2>2. PICK s \in Listed \cup ({newseg} \ {NoSeg}) : d \in DocsIn(s)
    BY <1>2, <2>1 DEF EngineInv, DocumentInv, NoneLost
  <2>3. docs[s] # << >>
    BY <2>2, RangeEmpty DEF DocsIn
  <2> QED
    BY <2>2, <2>3, NoMerge
<1>7. \E i \in 1..Len(segments) : d \in DocsIn(segments[i])
  <2>1. segments \in Seq(Seg)
    BY KeyFacts
  <2> QED
    BY <1>6, <2>1, RangeElements DEF Listed
<1> QED
  BY <1>5, <1>7

\* A step of the engine between two merges.
CalmStep ==
  /\ merge_stage = 0 /\ merge_stage' = 0
  /\ \/ segments' = segments
     \/ \E s \in Seg : docs'[s] = << >> /\ segments' = << s >> \o segments
  /\ Added \subseteq Added'
  /\ \A d \in Added : docId'[d] = docId[d] /\ pkOf'[d] = pkOf[d]
  /\ \A s \in Seg : \A d \in Added : d \in Range(docs'[s]) <=> d \in DocsIn(s)
  /\ updated \subseteq updated'
  /\ Superseded \subseteq Superseded'
  /\ \A d \in Added : d \in Latest' /\ ~InDoubt(d)' => d \in Latest /\ ~InDoubt(d)

\* A step that changes no document, no key and no mark is calm.
LEMMA CalmFrame ==
  ASSUME merge_stage = 0, docs \in [Seg -> Seq(Doc)],
         UNCHANGED << docs, docId, store, updated, merge_stage >>,
         \/ segments' = segments
         \/ \E s \in Seg : docs[s] = << >> /\ segments' = << s >> \o segments,
         \A d \in Added : pkOf'[d] = pkOf[d],
         \A d \in Added : InDoubt(d) => InDoubt(d)'
  PROVE  CalmStep
<1>1. Added' = Added /\ Latest' = Latest
  BY DEF Added, Latest
<1>2. Superseded \subseteq Superseded'
  BY <1>1 DEF Superseded
<1>3. \A s \in Seg : Range(docs'[s]) = DocsIn(s)
  BY DEF DocsIn
<1> QED
  BY <1>1, <1>2, <1>3 DEF CalmStep

\* A client writes to its own document only.
LEMMA ClientCalm ==
  ASSUME EngineInv, ClientStep, merge_stage = 0
  PROVE  CalmStep /\ UNCHANGED << docs, deletion, deleted >>
<1>1. PICK r \in Request : Accept(r) \/ RejectFull(r) \/ RejectInvalid(r)
  BY DEF ClientStep, Client
<1>2. /\ UNCHANGED << docs, docId, store, updated, merge_stage, deletion,
                      deleted, segments, pc, task, merging_deletion >>
      /\ issued \in Nat /\ issued < MaxDoc
      /\ pkOf' = pkOf \/ pkOf' = [pkOf EXCEPT ![issued + 1] = r.pk]
  <2>1. issued \in 0..MaxDoc
    BY DEF EngineInv, Inv, TypeOK, EngineTypeOK
  <2>2. issued \in Nat
    BY <2>1, MaxDocAssumption
  <2>3. pkOf' = pkOf \/ pkOf' = [pkOf EXCEPT ![issued + 1] = r.pk]
    BY <1>1, Zenon DEF Accept, RejectFull, RejectInvalid
  <2>4. Unclient /\ issued < MaxDoc
    BY <1>1, Zenon DEF Accept, RejectFull, RejectInvalid
  <2> QED
    BY <2>2, <2>3, <2>4 DEF Unclient
<1>3. \A d \in Doc : d # issued + 1 => pkOf'[d] = pkOf[d]
  BY <1>2 DEF EngineInv, Inv, TypeOK, SegTypeOK
<1>4. /\ \A d \in Added : d \in Doc /\ d # issued + 1
      /\ task.kind = "add" => task.doc # issued + 1
  <2>1. FreshDocuments
    BY DEF EngineInv, DocumentInv
  <2>2. \A d \in Doc : d > issued => docId[d] = 0
    BY <2>1 DEF FreshDocuments
  <2>3. task.kind = "add" => task.doc <= issued
    BY <2>1 DEF FreshDocuments
  <2>4. \A d \in Added : d \in Doc /\ d \in Int /\ ~(d > issued)
    BY <2>2 DEF Added, Doc
  <2> QED
    BY <1>2, <2>3, <2>4
<1>5. TaskPk' = TaskPk
  <2>1. task \in Task \cup {NoTask}
    BY DEF EngineInv, Inv, TypeOK, EngineTypeOK
  <2>2. task.kind = "add" => task.doc \in Doc
    <3>1. NoTask.kind # "add"
      BY DEF NoTask
    <3> QED
      BY <2>1, <3>1, TaskDoc
  <2> QED
    BY <1>2, <1>3, <1>4, <2>2 DEF TaskPk
<1>6. \A d \in Added : InDoubt(d) => InDoubt(d)'
  BY <1>2, <1>3, <1>4, <1>5 DEF InDoubt
<1> QED
  BY <1>2, <1>3, <1>4, <1>6, KeyFacts, CalmFrame

\* Polling, and a handler on its way along the list.
LEMMA HandlerCalm ==
  ASSUME EngineInv, merge_stage = 0,
         \/ FindEmpty \/ ReadSize \/ BeginAdd \/ Rotate \/ BeginRemove
         \/ ScanSegment \/ TestBit \/ SetBit
  PROVE  CalmStep
<1>1. /\ UNCHANGED << docs, docId, store, updated, merge_stage, pkOf,
                      merging_deletion >>
      /\ pc = "scan" => pc' = "scan" /\ task' = task
  BY DEF FindEmpty, ReadSize, BeginAdd, Rotate, BeginRemove, ScanSegment,
         TestBit, SetBit, Scanned, Take, segVars
<1>2. \/ segments' = segments
      \/ \E s \in Seg : docs[s] = << >> /\ segments' = << s >> \o segments
  <2>1. CASE Rotate
    <3>1. nsegs \in Seg /\ nsegs < MaxSeg /\ segments' = << Fresh >> \o segments
      BY <2>1 DEF Rotate, NewSegment, EngineInv, Inv, TypeOK, SegTypeOK
    <3>2. Fresh \in Seg /\ Fresh > nsegs
      BY <3>1, MaxSegAssumption DEF Fresh, Seg
    <3>3. docs[Fresh] = << >>
      BY <3>2 DEF EngineInv, LayoutInv, Allocated
    <3> QED
      BY <3>1, <3>2, <3>3
  <2> QED
    BY <2>1 DEF FindEmpty, ReadSize, BeginAdd, BeginRemove, ScanSegment,
                TestBit, SetBit, Scanned
<1>3. \A d \in Added : InDoubt(d) => InDoubt(d)'
  BY <1>1 DEF InDoubt, TaskPk
<1> QED
  BY <1>1, <1>2, <1>3, KeyFacts, CalmFrame

\* Remove forgets the document of its key, and supersedes it.
LEMMA FinishRemoveCalm ==
  ASSUME EngineInv, KeysInv, merge_stage = 0, FinishRemove
  PROVE  CalmStep
<1>1. /\ UNCHANGED << docs, docId, updated, merge_stage, pkOf,
                      merging_deletion, segments >>
      /\ store' = [store EXCEPT ![task.pk] = 0]
      /\ pc = "scan" /\ task.kind = "remove" /\ pc' = "idle"
  BY DEF FinishRemove, Merging, Return, segVars
<1>2. TaskPk = task.pk
  BY <1>1 DEF TaskPk
<1>3. store \in [PK -> Doc \cup {0}]
  BY DEF EngineInv, Inv, TypeOK, EngineTypeOK
<1>4. Added' = Added /\ 0 \notin Added
  BY <1>1 DEF Added, Doc
<1>5. Superseded \subseteq Superseded'
  <2> SUFFICES ASSUME NEW d \in Superseded PROVE d \in Superseded'
    OBVIOUS
  <2>1. d \in Added /\ store[pkOf[d]] # d /\ pkOf[d] \in PK
    BY DEF Superseded, KeysInv, StoreKnown
  <2>2. store'[pkOf[d]] # d
    BY <1>1, <1>3, <1>4, <2>1
  <2> QED
    BY <1>1, <1>4, <2>1, <2>2 DEF Superseded
<1>6. ASSUME NEW d \in Added, d \in Latest', ~InDoubt(d)'
      PROVE  d \in Latest /\ ~InDoubt(d)
  <2>1. PICK k \in PK : store'[k] = d /\ d # 0
    BY <1>6 DEF Latest
  <2>2. k # TaskPk /\ store[k] = d
    BY <1>1, <1>2, <1>3, <2>1
  <2>3. pkOf[d] = k
    BY <2>1, <2>2 DEF KeysInv, StoreKnown
  <2>4. pkOf[d] \notin merging_deletion
    BY <1>1, <1>6 DEF InDoubt
  <2> QED
    BY <2>1, <2>2, <2>3, <2>4 DEF Latest, InDoubt
<1>7. \A s \in Seg : Range(docs'[s]) = DocsIn(s)
  BY <1>1 DEF DocsIn
<1> QED
  BY <1>1, <1>4, <1>5, <1>6, <1>7 DEF CalmStep

\* Add appends to the active segment a document no lookup has seen.
LEMMA FinishAddCalm ==
  ASSUME EngineInv, KeysInv, merge_stage = 0, FinishAdd
  PROVE  CalmStep
<1> DEFINE e == task.doc
           a == segment_active
<1>1. /\ UNCHANGED << updated, merge_stage, pkOf, merging_deletion, segments >>
      /\ AddDocument(a, e)
      /\ store' = [store EXCEPT ![pkOf[e]] = e]
      /\ pc = "scan" /\ task.kind = "add" /\ pc' = "idle"
  BY DEF FinishAdd, Merging, Return
<1>2. /\ store \in [PK -> Doc \cup {0}] /\ a \in Seg
      /\ docs \in [Seg -> Seq(Doc)] /\ docId \in [Doc -> Nat]
      /\ task \in Task \cup {NoTask}
  BY DEF EngineInv, Inv, TypeOK, EngineTypeOK, SegTypeOK
<1>3. e \in Doc /\ docId[e] = 0 /\ pkOf[e] \in PK
  <2>1. NoTask.kind # "add"
    BY DEF NoTask
  <2>2. e \in Doc
    BY <1>1, <1>2, <2>1, TaskDoc
  <2> QED
    BY <1>1, <2>2 DEF EngineInv, DocumentInv, FreshDocuments, Inv, KeysKnown
<1> HIDE DEF e, a
<1>4. /\ Added' = Added \cup {e} /\ e \notin Added /\ 0 \notin Doc
      /\ Added \subseteq Doc
  BY <1>1, <1>2, <1>3, AddFacts DEF Added, Doc
<1>5. \A d \in Added : docId'[d] = docId[d]
  BY <1>1, <1>2, <1>3, <1>4, AddFacts
<1>6. \A s \in Seg : \A d \in Added : d \in Range(docs'[s]) <=> d \in DocsIn(s)
  <2> SUFFICES ASSUME NEW s \in Seg, NEW d \in Added
               PROVE  d \in Range(docs'[s]) <=> d \in DocsIn(s)
    OBVIOUS
  <2>1. CASE s = a
    BY <1>1, <1>2, <1>3, <1>4, <2>1, AddFacts
  <2>2. CASE s # a
    <3>1. docs'[s] = docs[s]
      BY <1>1, <1>2, <1>3, <2>2, AddFacts
    <3> QED
      BY <3>1 DEF DocsIn
  <2> QED
    BY <2>1, <2>2
<1>7. Superseded \subseteq Superseded'
  <2> SUFFICES ASSUME NEW d \in Superseded PROVE d \in Superseded'
    OBVIOUS
  <2>1. d \in Added /\ store[pkOf[d]] # d /\ pkOf[d] \in PK
    BY DEF Superseded, KeysInv, StoreKnown
  <2>2. store'[pkOf[d]] # d
    BY <1>1, <1>2, <1>3, <1>4, <2>1
  <2> QED
    BY <1>1, <1>4, <2>1, <2>2 DEF Superseded
<1>8. ASSUME NEW d \in Added, d \in Latest', ~InDoubt(d)'
      PROVE  d \in Latest /\ ~InDoubt(d)
  <2>1. PICK k \in PK : store'[k] = d /\ d # 0
    BY <1>8 DEF Latest
  <2>2. k # pkOf[e] /\ store[k] = d
    BY <1>1, <1>2, <1>3, <1>4, <2>1
  <2>3. pkOf[d] = k
    BY <2>1, <2>2 DEF KeysInv, StoreKnown
  <2>4. pkOf[d] \notin merging_deletion
    BY <1>1, <1>8 DEF InDoubt
  <2>5. TaskPk = pkOf[e]
    BY <1>1 DEF TaskPk, e
  <2> QED
    BY <2>1, <2>2, <2>3, <2>4, <2>5 DEF Latest, InDoubt
<1> QED
  BY <1>1, <1>4, <1>5, <1>6, <1>7, <1>8 DEF CalmStep

\* A poll in vain changes nothing of the segments.
LEMMA PolledUnmoved ==
  ASSUME InputStep, Polled
  PROVE  UNCHANGED << docs, deletion, deleted >>
<1>1. CASE FindEmpty \/ ReadSize
  BY <1>1 DEF FindEmpty, ReadSize, segVars
<1>2. CASE \/ BeginAdd \/ Rotate \/ BeginRemove \/ ScanSegment \/ TestBit
           \/ SetBit \/ FinishAdd \/ FinishRemove
  BY <1>2 DEF BeginAdd, Rotate, BeginRemove, ScanSegment, TestBit, SetBit,
              Scanned, FinishAdd, FinishRemove, Return, Take, Polled
<1>3. CASE MergerHandlers
  BY <1>3 DEF MergerHandlers, BeginReplace, ReplaceDelete1, ReplaceDelete2,
              ReplaceDelete, FinishReplace, Redelete, FinishRedelete, Return,
              Take, Polled
<1> QED
  BY <1>1, <1>2, <1>3 DEF InputStep, InputProcessor

\* Between merges the input processor has no task of the merger.
LEMMA InputCalm ==
  ASSUME EngineInv, KeysInv, InputStep, merge_stage' = 0, merge_stage = 0
  PROVE  CalmStep
<1>1. CASE InputProcessor
  BY <1>1, HandlerCalm, FinishRemoveCalm, FinishAddCalm DEF InputProcessor
<1>2. CASE MergerHandlers
  <2>1. ~ReplaceRuns /\ ~RedeleteRuns
        /\ \A i \in 1..Len(queue) : queue[i] \notin MergerTask
    BY NoMerge
  <2>2. ASSUME NEW t \in MergerTask, Take(t) PROVE FALSE
    <3>1. queue \in Seq(Task)
      BY DEF EngineInv, Inv, TypeOK, EngineTypeOK
    <3>2. Len(queue) \in Nat /\ Len(queue) >= 1 /\ t = queue[1]
      BY <2>2, <3>1, TakeFacts
    <3>3. 1 \in 1..Len(queue)
      BY <3>2
    <3> QED
      BY <2>1, <3>2, <3>3
  <2>3. ~BeginReplace /\ ~Redelete
    BY <2>2 DEF BeginReplace, Redelete, MergerTask
  <2>4. ~ReplaceDelete1 /\ ~ReplaceDelete2 /\ ~FinishReplace
        /\ ~FinishRedelete
    BY <2>1 DEF ReplaceRuns, RedeleteRuns, ReplaceDelete1, ReplaceDelete2,
                ReplaceDelete, FinishReplace, FinishRedelete
  <2> QED
    BY <1>2, <2>3, <2>4 DEF MergerHandlers
<1> QED
  BY <1>1, <1>2 DEF InputStep

-----------------------------------------------------------------------------
(* The list and its next pointers, and the handler that walks it.          *)

\* The macros of utlist.h keep the next pointers and the list the same.
LEMMA NextPointersFollow ==
  ASSUME Inv', ReaderTypeOK, next' = NextPointers(segments')
  PROVE  NextFollows'
<1> DEFINE list == segments'
<1>1. /\ list \in Seq(Seg) /\ Len(list) \in Nat
      /\ \A i, j \in 1..Len(list) : list[i] = list[j] => i = j
  <2>1. list \in Seq(Seg) /\ ListOfAllocated'
    BY DEF Inv, TypeOK, EngineTypeOK
  <2> QED
    BY <2>1, LenProperties DEF ListOfAllocated
<1> HIDE DEF list
<1>2. ASSUME NEW i \in 1..Len(list)
      PROVE  NextPointers(list)[list[i]]
               = IF i < Len(list) THEN list[i + 1] ELSE NoSeg
  <2> DEFINE k == CHOOSE j \in 1..Len(list) : list[j] = list[i]
  <2>1. list[i] \in Seg
    BY <1>1, ElementOfSeq
  <2>2. k \in 1..Len(list) /\ list[k] = list[i]
    OBVIOUS
  <2>3. k = i
    BY <1>1, <2>2
  <2>4. NextPointers(list)[list[i]]
          = IF k < Len(list) THEN list[k + 1] ELSE NoSeg
    <3> HIDE DEF k
    <3> QED
      BY <2>1 DEF NextPointers, k
  <2> QED
    BY <2>3, <2>4
<1> QED
  BY <1>2 DEF NextFollows, list

LEMMA NextFrame ==
  ASSUME NextFollows, UNCHANGED << next, segments >>
  PROVE  NextFollows'
BY DEF NextFollows

\* The task of a handler is set before it walks and reset as it returns.
LEMMA NextKeepsHandler ==
  ASSUME HandlerHasTask, [Next]_vars
  PROVE  HandlerHasTask'
<1>1. CASE ClientStep
  BY <1>1 DEF ClientStep, Client, Accept, RejectFull, RejectInvalid, Unclient,
              HandlerHasTask
<1>2. CASE MergeStep
  <2>1. UNCHANGED << pc, task >>
    BY <1>2 DEF MergeStep, MergeThread, Check, BeginMigrate, CloneDeletion,
         CopyDocument, EndSource, PostReplace, WriteStage2, Release1, Release2,
         Release3, PostRedelete, WriteStage5, Reset, Post, WriteStage, Unmerge
  <2> QED
    BY <2>1 DEF HandlerHasTask
<1>3. CASE InputProcessor
  <2>1. CASE BeginAdd \/ BeginRemove
    <3>1. \/ \E d \in Doc : task' = AddTask(d)
          \/ \E k \in PK : task' = RemoveTask(k)
      BY <2>1 DEF BeginAdd, BeginRemove, Take
    <3>2. task'.kind \in {"add", "remove"}
      BY <3>1 DEF AddTask, RemoveTask
    <3> QED
      BY <3>2 DEF HandlerHasTask
  <2>2. CASE Rotate \/ ScanSegment \/ TestBit \/ SetBit
    BY <2>2 DEF Rotate, ScanSegment, TestBit, SetBit, Scanned, HandlerHasTask
  <2>3. CASE FinishAdd \/ FinishRemove
    BY <2>3 DEF FinishAdd, FinishRemove, Return, HandlerHasTask
  <2>4. CASE FindEmpty \/ ReadSize
    BY <2>4 DEF FindEmpty, ReadSize, HandlerHasTask
  <2> QED
    BY <1>3, <2>1, <2>2, <2>3, <2>4 DEF InputProcessor
<1>4. CASE MergerHandlers
  <2>1. CASE BeginReplace \/ Redelete
    BY <2>1 DEF BeginReplace, Redelete, HandlerHasTask
  <2>2. CASE ReplaceDelete1 \/ ReplaceDelete2
    BY <2>2 DEF ReplaceDelete1, ReplaceDelete2, ReplaceDelete, HandlerHasTask
  <2>3. CASE FinishReplace \/ FinishRedelete
    BY <2>3 DEF FinishReplace, FinishRedelete, Return, HandlerHasTask
  <2> QED
    BY <1>4, <2>1, <2>2, <2>3 DEF MergerHandlers
<1>5. CASE UNCHANGED vars
  BY <1>5 DEF vars, engineVars, HandlerHasTask
<1> QED
  BY <1>1, <1>2, <1>3, <1>4, <1>5 DEF Next, InputStep

LEMMA MergeLeavesList ==
  ASSUME MergeStep
  PROVE  UNCHANGED segments
BY DEF MergeStep, MergeThread, Check, BeginMigrate, CloneDeletion,
       CopyDocument, EndSource, PostReplace, WriteStage2, Release1, Release2,
       Release3, PostRedelete, WriteStage5, Reset, Post, WriteStage, Unmerge

\* Every step of the engine keeps the list and its pointers together.
LEMMA EngineStepKeepsList ==
  ASSUME EngineInv', ReaderTypeOK, NextFollows, EngineStep
  PROVE  NextFollows'
<1>1. CASE ClientStepL
  <2>1. UNCHANGED << next, segments >>
    BY <1>1 DEF ClientStepL, ClientStep, Client, Accept, RejectFull,
                RejectInvalid, Unclient, lookupVars
  <2> QED
    BY <2>1, NextFrame
<1>2. CASE InputStepL
  BY <1>2, NextPointersFollow DEF InputStepL, EngineInv
<1>3. CASE MergeStepL
  BY <1>3, MergeLeavesList, NextFrame DEF MergeStepL
<1>4. CASE ReleaseNull
  <2>1. UNCHANGED << next, segments >>
    BY <1>4 DEF ReleaseNull, vars, engineVars
  <2> QED
    BY <2>1, NextFrame
<1> QED
  BY <1>1, <1>2, <1>3, <1>4 DEF EngineStep, MergeThreadL

-----------------------------------------------------------------------------
(* What a step of the engine leaves of a lookup.                           *)

\* What r remembers of its lookup.
Remembers(r) == << rpc[r], rseg[r], query[r], count[r], bits[r], found[r],
                   total[r], docsOut[r], totalOut[r], early[r], misled[r],
                   seen[r], current[r] >>

LEMMA PlaceInListed ==
  ASSUME segments \in Seq(Seg), NEW s \in Listed
  PROVE  \E j \in 1..Len(segments) : segments[j] = s
BY RangeElements DEF Listed

\* A document that was there is, after a calm step, in the segments it was in.
LEMMA CalmList ==
  ASSUME EngineInv, CalmStep
  PROVE  /\ Listed \subseteq Listed'
         /\ \A i \in 1..Len(segments') : \A d \in Added :
              d \in Range(docs'[segments'[i]]) =>
                \E k \in 1..Len(segments) :
                  /\ d \in DocsIn(segments[k])
                  /\ \A s : \A j \in 1..Len(segments) :
                       segments[j] = s =>
                         /\ j <= k => \E l \in 1..Len(segments') :
                                        segments'[l] = s /\ l <= i
                         /\ j < k => \E l \in 1..Len(segments') :
                                       segments'[l] = s /\ l < i
<1>1. segments \in Seq(Seg) /\ Len(segments) \in Nat
  BY KeyFacts
<1>2. \A i \in 1..Len(segments) : segments[i] \in Seg
  BY <1>1, ElementOfSeq
<1>3. CASE segments' = segments
  BY <1>2, <1>3 DEF CalmStep, Listed
<1>4. CASE \E s \in Seg : docs'[s] = << >> /\ segments' = << s >> \o segments
  <2>1. PICK h \in Seg : docs'[h] = << >> /\ segments' = << h >> \o segments
    BY <1>4
  <2>2. /\ Len(segments') = Len(segments) + 1
        /\ segments'[1] = h
        /\ \A i \in 2..Len(segments') : segments'[i] = segments[i - 1]
        /\ \A i \in 1..Len(segments) : segments[i] = segments'[i + 1]
        /\ Listed' = Listed \cup {h}
    BY <1>1, <2>1, PrependList, PrependListed
  <2>3. ASSUME NEW i \in 1..Len(segments'), NEW d \in Added,
               d \in Range(docs'[segments'[i]])
        PROVE  /\ i - 1 \in 1..Len(segments)
               /\ d \in DocsIn(segments[i - 1])
    <3>1. i # 1
      BY <2>1, <2>2, <2>3, RangeEmpty
    <3>2. i \in 2..Len(segments') /\ i - 1 \in 1..Len(segments)
      BY <1>1, <2>2, <3>1
    <3>3. segments'[i] = segments[i - 1] /\ segments[i - 1] \in Seg
      BY <1>2, <2>2, <3>2
    <3> QED
      BY <2>3, <3>2, <3>3 DEF CalmStep
  <2>4. ASSUME NEW i \in 1..Len(segments'), NEW j \in 1..Len(segments)
        PROVE  /\ j + 1 \in 1..Len(segments')
               /\ segments'[j + 1] = segments[j]
               /\ j <= i - 1 => j + 1 <= i
               /\ j < i - 1 => j + 1 < i
    BY <1>1, <2>2
  <2>5. ASSUME NEW i \in 1..Len(segments'), NEW k \in 1..Len(segments),
               k = i - 1, NEW s, NEW j \in 1..Len(segments), segments[j] = s
        PROVE  /\ j <= k => \E l \in 1..Len(segments') :
                               segments'[l] = s /\ l <= i
               /\ j < k => \E l \in 1..Len(segments') :
                              segments'[l] = s /\ l < i
    BY <2>4, <2>5
  <2>6. ASSUME NEW i \in 1..Len(segments'), NEW d \in Added,
               d \in Range(docs'[segments'[i]])
        PROVE  \E k \in 1..Len(segments) :
                 /\ d \in DocsIn(segments[k])
                 /\ \A s : \A j \in 1..Len(segments) :
                      segments[j] = s =>
                        /\ j <= k => \E l \in 1..Len(segments') :
                                       segments'[l] = s /\ l <= i
                        /\ j < k => \E l \in 1..Len(segments') :
                                      segments'[l] = s /\ l < i
    <3>1. i - 1 \in 1..Len(segments) /\ d \in DocsIn(segments[i - 1])
      BY <2>3, <2>6
    <3>2. \A s : \A j \in 1..Len(segments) :
            segments[j] = s =>
              /\ j <= i - 1 => \E l \in 1..Len(segments') :
                                 segments'[l] = s /\ l <= i
              /\ j < i - 1 => \E l \in 1..Len(segments') :
                                segments'[l] = s /\ l < i
      BY <2>5, <3>1
    <3> QED
      BY <3>1, <3>2, Zenon
  <2> QED
    BY <2>2, <2>6
<1> QED
  BY <1>3, <1>4 DEF CalmStep

\* What a calm step leaves of the invariant of one lookup, part by part.
LEMMA CalmKeepsSame ==
  ASSUME EngineInv, CalmStep, NEW r \in Reader, SameEngine(r),
         Remembers(r)' = Remembers(r)
  PROVE  SameEngine(r)'
<1>1. Listed \subseteq Listed'
  BY CalmList
<1> QED
  BY <1>1 DEF SameEngine, CalmStep, Remembers

LEMMA CalmKeepsSound ==
  ASSUME EngineInv, CalmStep, NEW r \in Reader, SameEngine(r), FoundSound(r),
         Remembers(r)' = Remembers(r)
  PROVE  FoundSound(r)'
<1>1. /\ rpc'[r] = rpc[r] /\ rseg'[r] = rseg[r] /\ query'[r] = query[r]
      /\ bits'[r] = bits[r] /\ found'[r] = found[r] /\ docsOut'[r] = docsOut[r]
      /\ seen'[r] = seen[r] /\ current'[r] = current[r]
  BY DEF Remembers
<1>2. seen[r] \subseteq Added
  BY DEF SameEngine
<1>3. \A d : NotReplaced(r, d) => NotReplaced(r, d)'
  BY <1>1, <1>2 DEF NotReplaced, CalmStep
<1>4. \A d \in Range(found'[r]) \cup Range(docsOut'[r]) :
        /\ Terms(r)' \subseteq TermsOf[d]
        /\ Len(query'[r].terms) # 1 => NotReplaced(r, d)'
  BY <1>1, <1>3 DEF FoundSound, Terms
<1>5. ASSUME HasBits(r)', NEW d \in Range(docs'[rseg'[r]]),
             docId'[d] \notin bits'[r]
      PROVE  NotReplaced(r, d)'
  <2>1. rseg[r] \in Listed /\ rseg[r] \in Seg /\ HasBits(r)
    BY <1>1, <1>5, KeyFacts DEF SameEngine, AtSegment, ToWalk, HasBits
  <2>2. CASE d \in Added
    <3>1. d \in DocsIn(rseg[r]) /\ docId[d] \notin bits[r]
      BY <1>1, <1>5, <2>1, <2>2 DEF CalmStep
    <3> QED
      BY <1>1, <1>3, <1>5, <2>1, <3>1 DEF FoundSound
  <2>3. CASE d \notin Added
    BY <1>1, <1>2, <2>3 DEF NotReplaced
  <2> QED
    BY <2>2, <2>3
<1> QED
  BY <1>4, <1>5 DEF FoundSound, DocsIn

LEMMA CalmKeepsComplete ==
  ASSUME EngineInv, CalmStep, NEW r \in Reader, SameEngine(r),
         FoundComplete(r), Remembers(r)' = Remembers(r)
  PROVE  FoundComplete(r)'
<1>1. /\ rpc'[r] = rpc[r] /\ rseg'[r] = rseg[r] /\ query'[r] = query[r]
      /\ bits'[r] = bits[r] /\ found'[r] = found[r] /\ docsOut'[r] = docsOut[r]
      /\ seen'[r] = seen[r] /\ current'[r] = current[r]
  BY DEF Remembers
<1>2. current[r] \subseteq Added
  BY DEF SameEngine
<1>3. Due(r)' \subseteq Due(r)
  BY <1>1, <1>2 DEF Due, Terms, CalmStep
<1>4. FoundSize(r)' = FoundSize(r) /\ Due(r) \subseteq Added
  BY <1>1, <1>2 DEF FoundSize, Due
<1>5. ASSUME NEW d \in Due(r)', NEW i \in 1..Len(segments'),
             d \in Range(docs'[segments'[i]])
      PROVE  \/ d \in Range(found'[r]) \cup Range(docsOut'[r])
             \/ Ahead(r, i)'
             \/ FoundSize(r)' >= query'[r].limit
  <2>1. PICK k \in 1..Len(segments) :
          /\ d \in DocsIn(segments[k])
          /\ \A s : \A j \in 1..Len(segments) :
               segments[j] = s =>
                 /\ j <= k => \E l \in 1..Len(segments') :
                                segments'[l] = s /\ l <= i
                 /\ j < k => \E l \in 1..Len(segments') :
                               segments'[l] = s /\ l < i
    BY <1>3, <1>4, <1>5, CalmList
  <2>2. \/ d \in Range(found[r]) \cup Range(docsOut[r])
        \/ Ahead(r, k)
        \/ FoundSize(r) >= query[r].limit
    BY <1>3, <1>5, <2>1 DEF FoundComplete
  <2>3. Ahead(r, k) => Ahead(r, i)'
    BY <1>1, <2>1 DEF Ahead
  <2> QED
    BY <1>1, <1>4, <2>2, <2>3
<1>6. ASSUME HasBits(r)', NEW d \in Due(r)', d \in Range(docs'[rseg'[r]])
      PROVE  docId'[d] \notin bits'[r]
  <2>1. rseg[r] \in Seg /\ HasBits(r)
    BY <1>1, <1>6, KeyFacts DEF SameEngine, AtSegment, ToWalk, HasBits
  <2>2. d \in DocsIn(rseg[r]) /\ d \in Due(r) /\ docId'[d] = docId[d]
    BY <1>1, <1>3, <1>4, <1>6, <2>1 DEF CalmStep
  <2> QED
    BY <1>1, <1>6, <2>1, <2>2 DEF FoundComplete
<1> QED
  BY <1>5, <1>6 DEF FoundComplete, DocsIn

\* ... and of the whole of it.
LEMMA CalmKeepsQuiet ==
  ASSUME EngineInv, CalmStep, NEW r \in Reader, QuietAt(r), quiet[r] # RACED,
         Remembers(r)' = Remembers(r),
         quiet'[r] = UNDISTURBED =>
           quiet[r] = UNDISTURBED /\ UNCHANGED << docs, deletion, deleted >>
  PROVE  QuietAt(r)'
<1>1. SameEngine(r)' /\ FoundSound(r)' /\ (~misled'[r] => FoundComplete(r)')
  <2>1. misled'[r] = misled[r]
    BY DEF Remembers
  <2> QED
    BY <2>1, CalmKeepsSame, CalmKeepsSound, CalmKeepsComplete DEF QuietAt
<1>2. TotalCounts(r)'
  <2>1. TotalCounts(r)
    BY DEF QuietAt
  <2>2. FoundSize(r)' = FoundSize(r)
    BY DEF FoundSize, Remembers
  <2> QED
    BY <2>1, <2>2 DEF TotalCounts, HasBits, Remembers
<1> QED
  BY <1>1, <1>2 DEF QuietAt

\* What the lookups see of the engine, when it does not move.
LEMMA UnmovedFrame ==
  ASSUME UnmovedEngine
  PROVE  /\ UNCHANGED << docs, docId, pkOf, deletion, segments, merge_stage,
                         updated >>
         /\ UNCHANGED deleted
         /\ UNCHANGED << Listed, Added, Superseded, Latest >>
         /\ \A d : InDoubt(d)' <=> InDoubt(d)
         /\ HandlerHasTask' <=> HandlerHasTask
<1>1. UNCHANGED << docs, docId, pkOf, deletion, segments, merge_stage,
                   updated, store, pc, task, merging_deletion, deleted >>
  BY DEF UnmovedEngine, engineVars
<1> QED
  BY <1>1 DEF Listed, Added, Superseded, Latest, InDoubt, TaskPk, HandlerHasTask

\* The steps of the others.
LEMMA UnmovedKeepsQuiet ==
  ASSUME UnmovedEngine, NEW r \in Reader, QuietAt(r),
         Remembers(r)' = Remembers(r), quiet'[r] = quiet[r]
  PROVE  QuietAt(r)'
<1>1. /\ rpc'[r] = rpc[r] /\ rseg'[r] = rseg[r] /\ query'[r] = query[r]
      /\ bits'[r] = bits[r] /\ found'[r] = found[r] /\ docsOut'[r] = docsOut[r]
      /\ seen'[r] = seen[r] /\ current'[r] = current[r] /\ total'[r] = total[r]
      /\ totalOut'[r] = totalOut[r] /\ early'[r] = early[r]
      /\ count'[r] = count[r] /\ misled'[r] = misled[r]
      /\ (HasBits(r)' <=> HasBits(r))
  BY DEF Remembers, HasBits
<1>2. /\ UNCHANGED << docs, docId, pkOf, deletion, segments, merge_stage,
                      updated >>
      /\ UNCHANGED deleted
      /\ UNCHANGED << Listed, Added, Superseded, Latest >>
      /\ \A d : InDoubt(d)' <=> InDoubt(d)
  BY UnmovedFrame
<1>3. SameEngine(r) => SameEngine(r)'
  BY <1>1, <1>2 DEF SameEngine
<1>4. FoundSound(r) => FoundSound(r)'
  BY <1>1, <1>2 DEF FoundSound, NotReplaced, Terms, DocsIn
<1>5. FoundComplete(r) => FoundComplete(r)'
  <2>1. Due(r)' = Due(r) /\ FoundSize(r)' = FoundSize(r)
    BY <1>1, <1>2 DEF Due, Terms, FoundSize
  <2>2. \A i : Ahead(r, i)' <=> Ahead(r, i)
    BY <1>1, <1>2 DEF Ahead
  <2> QED
    BY <1>1, <1>2, <2>1, <2>2 DEF FoundComplete, DocsIn
<1>6. TotalCounts(r) => TotalCounts(r)'
  <2>1. FoundSize(r)' = FoundSize(r)
    BY <1>1 DEF FoundSize
  <2> QED
    BY <1>1, <1>2, <2>1 DEF TotalCounts
<1> QED
  BY <1>1, <1>3, <1>4, <1>5, <1>6 DEF QuietAt

\* The steps of the engine.
LEMMA EngineKeepsQuiet ==
  ASSUME EngineInv, KeysInv, AnswerInv, EngineStep
  PROVE  QuietLookups'
<1> SUFFICES ASSUME NEW r \in Reader PROVE QuietAt(r)'
  BY DEF QuietLookups
<1>1. QuietAt(r) /\ quiet \in [Reader -> {RACED, UNMERGED, UNDISTURBED}]
  BY DEF AnswerInv, QuietLookups, AnswerTypeOK
<1>2. quiet[r] # RACED => merge_stage = 0
  BY <1>1 DEF QuietAt, SameEngine
<1>3. CASE ClientStepL
  <2>1. ClientStep /\ Remembers(r)' = Remembers(r) /\ quiet' = quiet
    BY <1>3 DEF ClientStepL, lookupVars, readerVars, Remembers
  <2>2. CASE quiet[r] = RACED
    BY <2>1, <2>2 DEF QuietAt
  <2>3. CASE quiet[r] # RACED
    BY <1>1, <1>2, <2>1, <2>3, ClientCalm, CalmKeepsQuiet
  <2> QED
    BY <2>2, <2>3
<1>4. CASE InputStepL
  <2>1. /\ InputStep /\ Remembers(r)' = Remembers(r)
        /\ Disturb(IF Polled THEN UNDISTURBED ELSE UNMERGED)
    BY <1>4 DEF InputStepL, Unlooked, Remembers
  <2>2. \E level \in {UNDISTURBED, UNMERGED} :
          /\ level = UNDISTURBED => Polled
          /\ quiet'[r] = IF rpc[r] = "idle" \/ merge_stage' # 0 THEN RACED
                         ELSE IF level < quiet[r] THEN level ELSE quiet[r]
    BY <2>1 DEF Disturb, UNDISTURBED, UNMERGED
  <2>3. quiet'[r] # RACED => quiet[r] # RACED /\ merge_stage' = 0
    BY <1>1, <2>2 DEF RACED, UNMERGED, UNDISTURBED
  <2>4. quiet'[r] = UNDISTURBED =>
          quiet[r] = UNDISTURBED /\ UNCHANGED << docs, deletion, deleted >>
    <3>1. quiet'[r] = UNDISTURBED => quiet[r] = UNDISTURBED /\ Polled
      BY <1>1, <2>2 DEF RACED, UNMERGED, UNDISTURBED
    <3> QED
      BY <2>1, <3>1, PolledUnmoved
  <2>5. CASE quiet'[r] = RACED
    BY <2>5 DEF QuietAt
  <2>6. CASE quiet'[r] # RACED
    BY <1>1, <1>2, <2>1, <2>3, <2>4, <2>6, InputCalm, CalmKeepsQuiet
  <2> QED
    BY <2>5, <2>6
<1>5. CASE MergeStepL
  <2>1. quiet'[r] = IF rpc[r] = "idle" \/ merge_stage' # 0 THEN RACED
                    ELSE IF RACED < quiet[r] THEN RACED ELSE quiet[r]
    BY <1>5 DEF MergeStepL, Disturb
  <2>2. quiet'[r] = RACED
    BY <1>1, <2>1 DEF RACED, UNMERGED, UNDISTURBED
  <2> QED
    BY <2>2 DEF QuietAt
<1>6. CASE ReleaseNull
  <2>1. UnmovedEngine /\ Remembers(r)' = Remembers(r) /\ quiet'[r] = quiet[r]
    BY <1>6 DEF ReleaseNull, vars, segVars, readerVars, UnmovedEngine, Remembers
  <2> QED
    BY <1>1, <2>1, UnmovedKeepsQuiet
<1> QED
  BY <1>3, <1>4, <1>5, <1>6 DEF EngineStep, MergeThreadL

-----------------------------------------------------------------------------
(* The steps of the lookup.                                                *)

\* What they assign, by way of the record of all a lookup remembers.
StaysWith(r) ==
  \A u \in Reader : u # r => Remembers(u)' = Remembers(u) /\ quiet'[u] = quiet[u]

\* Each step is one of r's own, and what r keeps in it.
LEMMA StaysWithOthers ==
  ASSUME NEW r \in Reader, ReaderTypeOK, AnswerTypeOK,
         LookupStep(r) \/ (\E q \in Query : RejectLookup(r, q)
                                              \/ BeginLookup(r, q))
  PROVE  StaysWith(r)
<1> SUFFICES ASSUME NEW u \in Reader, u # r
             PROVE  /\ rpc'[u] = rpc[u] /\ rseg'[u] = rseg[u]
                    /\ query'[u] = query[u] /\ bits'[u] = bits[u]
                    /\ found'[u] = found[u] /\ total'[u] = total[u]
                    /\ docsOut'[u] = docsOut[u] /\ totalOut'[u] = totalOut[u]
                    /\ early'[u] = early[u] /\ seen'[u] = seen[u]
                    /\ current'[u] = current[u] /\ quiet'[u] = quiet[u]
                    /\ count'[u] = count[u] /\ misled'[u] = misled[u]
  BY Zenon DEF StaysWith, Remembers
<1>1. CASE Enter(r)
  BY <1>1 DEF Enter, UseAfterFree, readerVars, ReaderTypeOK, AnswerTypeOK
<1>2. CASE CheckSize(r) \/ CheckDeleted(r) \/ CloneBits(r)
  BY <1>2 DEF CheckSize, CheckDeleted, CloneBits, Skip, ReaderTypeOK,
              AnswerTypeOK
<1>3. CASE CountDocs(r) \/ Subtract(r) \/ Walk(r)
  BY <1>3 DEF CountDocs, Subtract, Walk, ReaderTypeOK, AnswerTypeOK
<1>4. CASE FindMisses(r) \/ FindFreed(r)
  BY <1>4 DEF FindMisses, FindFreed, readerVars, ReaderTypeOK, AnswerTypeOK
<1>5. CASE Leave(r)
  BY <1>5 DEF Leave, ReaderTypeOK, AnswerTypeOK
<1>6. CASE Advance(r)
  BY <1>6 DEF Advance, UseAfterFree, readerVars, ReaderTypeOK, AnswerTypeOK
<1>7. CASE EndLookup(r)
  BY <1>7 DEF EndLookup, ReaderTypeOK, AnswerTypeOK
<1>8. CASE \E q \in Query : RejectLookup(r, q) \/ BeginLookup(r, q)
  BY <1>8 DEF RejectLookup, BeginLookup, ReaderTypeOK, AnswerTypeOK
<1> QED
  BY <1>1, <1>2, <1>3, <1>4, <1>5, <1>6, <1>7, <1>8 DEF LookupStep

\* The lookup has the head of the list, hence all of it, before it.
LEMMA BeginQuiet ==
  ASSUME EngineInv, KeysInv, LookupInv, AnswerInv,
         NEW r \in Reader, NEW q \in Query, BeginLookup(r, q)
  PROVE  QuietAt(r)'
<1>1. /\ rpc[r] = "idle" /\ rpc'[r] = "enter"
      /\ rseg'[r] = Head(segments)
      /\ quiet'[r] = IF merge_stage = 0 THEN UNDISTURBED ELSE RACED
      /\ seen'[r] = Added /\ current'[r] = Latest
      /\ found'[r] = << >> /\ docsOut'[r] = << >> /\ totalOut'[r] = 0
      /\ query'[r] = q
  BY DEF BeginLookup, LookupInv, ReaderTypeOK, HasSegment, AnswerInv,
         AnswerTypeOK, IdleClear
<1>2. SUFFICES ASSUME merge_stage = 0 PROVE QuietAt(r)'
  BY <1>1 DEF QuietAt
<1>3. /\ UNCHANGED << docs, docId, pkOf, deletion, segments, merge_stage,
                      updated >>
      /\ UNCHANGED << Listed, Added, Superseded, Latest >>
  BY LookupLeavesEngine, UnmovedFrame
<1>4. /\ segments \in Seq(Seg) /\ Len(segments) \in Nat /\ Len(segments) >= 1
      /\ Head(segments) = segments[1] /\ segments[1] \in Listed
  <2>1. segments \in Seq(Seg) /\ Len(segments) \in Nat
    BY KeyFacts
  <2>2. Lists(segment_active)
    BY DEF EngineInv, LayoutInv, ListStates
  <2>3. Len(segments) >= 1
    BY <2>1, <2>2 DEF Lists
  <2>4. 1 \in 1..Len(segments)
    BY <2>1, <2>3
  <2>5. segments # << >>
    BY <2>3, EmptySeq
  <2> QED
    BY <2>1, <2>3, <2>4, <2>5, HeadTailProperties, RangeElements DEF Listed
<1>5. Latest \subseteq Added /\ Added \ Latest \subseteq Superseded
  <2>1. Latest \subseteq Added
    BY DEF Latest, KeysInv, StoreKnown
  <2>2. ASSUME NEW d \in Added, d \notin Latest PROVE d \in Superseded
    <3>1. pkOf[d] \in PK /\ d # 0
      BY DEF KeysInv, StoreKnown, Added, Doc
    <3> QED
      BY <2>2, <3>1 DEF Latest, Superseded
  <2> QED
    BY <2>1, <2>2
<1>6. SameEngine(r)'
  BY <1>1, <1>2, <1>3, <1>4, <1>5 DEF SameEngine
<1>7. FoundSound(r)'
  BY <1>1, RangeEmpty DEF FoundSound, HasBits
<1>8. FoundComplete(r)'
  <2>1. \A i \in 1..Len(segments') : Ahead(r, i)'
    <3>1. \A i \in 1..Len(segments) : 1 \in 1..Len(segments) /\ 1 <= i
      BY <1>4
    <3> QED
      BY <1>1, <1>3, <1>4, <3>1 DEF Ahead, ToWalk
  <2> QED
    BY <1>1, <2>1 DEF FoundComplete, HasBits
<1>9. TotalCounts(r)'
  BY <1>1, EmptySeq DEF TotalCounts, HasBits
<1> QED
  BY <1>6, <1>7, <1>8, <1>9 DEF QuietAt

\* What r has found is as before, and what it had before it is so still.
LEMMA KeepsPlace ==
  ASSUME UnmovedEngine, NEW r \in Reader, QuietAt(r), quiet[r] # RACED,
         rpc'[r] # "idle",
         rpc'[r] \in AtSegment => rpc[r] \in AtSegment,
         rpc[r] \in ToWalk => rpc'[r] \in ToWalk,
         rpc[r] \in AtSegment => rpc'[r] \in AtSegment,
         rseg'[r] = rseg[r], query'[r] = query[r], found'[r] = found[r],
         docsOut'[r] = docsOut[r], seen'[r] = seen[r], current'[r] = current[r]
  PROVE  /\ SameEngine(r)'
         /\ (HasBits(r)' => HasBits(r) /\ bits'[r] = bits[r]) =>
              FoundSound(r)' /\ (~misled[r] => FoundComplete(r)')
         /\ \A d \in Range(found'[r]) \cup Range(docsOut'[r]) :
              /\ Terms(r)' \subseteq TermsOf[d]
              /\ Len(query'[r].terms) # 1 => NotReplaced(r, d)'
         /\ ~misled[r] =>
              \A d \in Due(r)' : \A i \in 1..Len(segments') :
                d \in DocsIn(segments[i]) =>
                  \/ d \in Range(found'[r]) \cup Range(docsOut'[r])
                  \/ Ahead(r, i)'
                  \/ FoundSize(r)' >= query'[r].limit
<1>1. /\ UNCHANGED << docs, docId, pkOf, deletion, segments, merge_stage,
                      updated >>
      /\ UNCHANGED << Listed, Added, Superseded, Latest >>
      /\ \A d : InDoubt(d)' <=> InDoubt(d)
  BY UnmovedFrame
<1>2. SameEngine(r)'
  BY <1>1 DEF QuietAt, SameEngine
<1>3. \A d \in Range(found'[r]) \cup Range(docsOut'[r]) :
        /\ Terms(r)' \subseteq TermsOf[d]
        /\ Len(query'[r].terms) # 1 => NotReplaced(r, d)'
  BY <1>1 DEF QuietAt, FoundSound, NotReplaced, Terms
<1>4. Due(r)' = Due(r) /\ FoundSize(r)' = FoundSize(r)
  BY <1>1 DEF Due, Terms, FoundSize
<1>5. \A i : Ahead(r, i) => Ahead(r, i)'
  BY <1>1 DEF Ahead
<1>6. ~misled[r] =>
        \A d \in Due(r)' : \A i \in 1..Len(segments') :
          d \in DocsIn(segments[i]) =>
            \/ d \in Range(found'[r]) \cup Range(docsOut'[r])
            \/ Ahead(r, i)'
            \/ FoundSize(r)' >= query'[r].limit
  BY <1>1, <1>4, <1>5 DEF QuietAt, FoundComplete
<1>7. \A s : DocsIn(s)' = DocsIn(s)
  BY <1>1 DEF DocsIn
<1>8. ASSUME HasBits(r)' => HasBits(r) /\ bits'[r] = bits[r]
      PROVE  FoundSound(r)' /\ (~misled[r] => FoundComplete(r)')
  <2>1. \A d : NotReplaced(r, d)' <=> NotReplaced(r, d)
    BY <1>1 DEF NotReplaced
  <2>2. FoundSound(r) /\ (~misled[r] => FoundComplete(r))
    BY DEF QuietAt
  <2>3. FoundSound(r)'
    BY <1>1, <1>3, <1>7, <1>8, <2>1, <2>2 DEF FoundSound
  <2>4. ~misled[r] => FoundComplete(r)'
    BY <1>1, <1>4, <1>6, <1>7, <1>8, <2>2 DEF FoundComplete
  <2> QED
    BY <2>3, <2>4
<1> QED
  BY <1>2, <1>3, <1>6, <1>8

\* The counter goes up.
LEMMA EnterQuiet ==
  ASSUME LookupInv, AnswerInv, NEW r \in Reader, Enter(r)
  PROVE  QuietAt(r)'
<1>1. QuietAt(r) /\ UnmovedEngine
  BY LookupLeavesEngine DEF AnswerInv, QuietLookups, LookupStep
<1>2. CASE UseAfterFree
  BY <1>1, <1>2, UnmovedKeepsQuiet DEF UseAfterFree, readerVars, Remembers
<1>3. CASE ~UseAfterFree
  <2>1. /\ rpc[r] = "enter" /\ rpc'[r] = "check"
        /\ UNCHANGED << rseg, query, bits, found, total, docsOut, totalOut,
                        quiet, early, misled, seen, current >>
    BY <1>3 DEF Enter, LookupInv, ReaderTypeOK
  <2>2. CASE quiet[r] = RACED
    BY <2>1, <2>2 DEF QuietAt
  <2>3. CASE quiet[r] # RACED
    <3>1. ~HasBits(r)'
      BY <2>1 DEF HasBits
    <3>2. SameEngine(r)' /\ FoundSound(r)' /\ (~misled[r] => FoundComplete(r)')
      BY <1>1, <2>1, <2>3, <3>1, KeepsPlace DEF AtSegment, ToWalk
    <3>3. TotalCounts(r)'
      BY <1>1, <2>1, <2>3, <3>1 DEF QuietAt, TotalCounts
    <3> QED
      BY <2>1, <3>2, <3>3 DEF QuietAt
  <2> QED
    BY <2>2, <2>3
<1> QED
  BY <1>2, <1>3

\* A document due in the segment of r has no mark, and the segment is then not
\* one to skip for its marks.
LEMMA DueNotMarked ==
  ASSUME EngineInv, KeysInv, HandlerHasTask, NEW r \in Reader, SameEngine(r),
         rpc[r] \in AtSegment, NEW d \in Due(r), d \in DocsIn(rseg[r])
  PROVE  /\ ~Marked(rseg[r], d)
         /\ Len(docs[rseg[r]]) # 0
         /\ Len(docs[rseg[r]]) # deleted[rseg[r]]
<1> DEFINE s == rseg[r]
           n == Len(docs[s])
<1>1. merge_stage = 0 /\ s \in Listed /\ d \in Latest /\ ~InDoubt(d)
  BY DEF SameEngine, Due
<1>2. ~Marked(s, d)
  BY <1>1, LatestInList
<1>3. s \in Seg /\ docs[s] \in Seq(Doc) /\ InPlace(s)
  BY <1>1, ListedInPlace
<1>4. docId[d] \in 1..n /\ n \in Nat
  BY <1>3, SameId, LenProperties
<1>5. deletion[s] \in SUBSET (1..n) /\ deleted[s] = Cardinality(deletion[s])
  BY <1>1, ListedCounted
<1>6. deleted[s] # n
  <2>1. IsFiniteSet(1..n) /\ Cardinality(1..n) = n
    BY <1>4, UpTo
  <2>2. deletion[s] # 1..n
    BY <1>2, <1>4 DEF Marked
  <2> QED
    BY <1>5, <2>1, <2>2, FS_Subset
<1>7. n # 0
  BY <1>4
<1> QED
  BY <1>2, <1>6, <1>7

\* A segment left before its walk has no document that is due, or the limit is
\* reached, or the lookup knows that it has been misled.
LEMMA SkipQuiet ==
  ASSUME EngineInv, KeysInv, LookupInv, AnswerInv, NEW r \in Reader,
         UnmovedEngine, quiet[r] # RACED,
         rpc[r] \in {"check", "compare"}, rpc'[r] = "leave", early'[r] = TRUE,
         UNCHANGED << rseg, query, found, docsOut, quiet, seen, current >>,
         misled[r] => misled'[r],
         \/ misled'[r]
         \/ Limit(r) < 1
         \/ Len(docs[rseg[r]]) = 0
         \/ Len(docs[rseg[r]]) = deleted[rseg[r]]
  PROVE  QuietAt(r)'
<1>1. QuietAt(r) /\ HandlerHasTask
  BY DEF AnswerInv, QuietLookups
<1>2. SameEngine(r) /\ FoundSound(r) /\ (~misled[r] => FoundComplete(r))
  BY <1>1 DEF QuietAt
<1>3. rpc[r] \in AtSegment /\ rpc[r] \in ToWalk
  BY DEF AtSegment, ToWalk
<1>4. /\ UNCHANGED << docs, docId, pkOf, deletion, segments, merge_stage,
                      updated >>
      /\ UNCHANGED << Listed, Added, Superseded, Latest >>
      /\ \A d : InDoubt(d)' <=> InDoubt(d)
  BY UnmovedFrame
<1>5. Due(r)' = Due(r) /\ FoundSize(r)' = FoundSize(r) /\ ~HasBits(r)'
  BY <1>4 DEF Due, Terms, FoundSize, HasBits
<1>6. SameEngine(r)'
  BY <1>2, <1>3, <1>4 DEF SameEngine
<1>7. FoundSound(r)'
  BY <1>2, <1>4, <1>5 DEF FoundSound, NotReplaced, Terms
<1>8. ASSUME ~misled'[r] PROVE FoundComplete(r)'
  <2>1. FoundComplete(r)
    BY <1>2, <1>8
  <2>2. ASSUME NEW d \in Due(r), NEW i \in 1..Len(segments),
               d \in DocsIn(segments[i])
        PROVE  \/ d \in Range(found[r]) \cup Range(docsOut[r])
               \/ Ahead(r, i)'
               \/ FoundSize(r) >= query[r].limit
    <3>1. CASE Ahead(r, i)
      <4>1. PICK j \in 1..Len(segments) : segments[j] = rseg[r] /\ j <= i
        BY <3>1 DEF Ahead, ToWalk
      <4>2. CASE j < i
        BY <1>4, <4>1, <4>2 DEF Ahead, AtSegment
      <4>3. CASE j = i
        <5>1. d \in DocsIn(rseg[r])
          BY <2>2, <4>1, <4>3
        <5>2. Limit(r) < 1
          BY <1>1, <1>2, <1>3, <1>8, <5>1, DueNotMarked
        <5>3. FoundSize(r) >= query[r].limit
          <6>1. /\ query[r].limit \in Nat /\ Len(docsOut[r]) \in Nat
                /\ Len(found[r]) \in Nat
            BY QueryType DEF LookupInv
          <6>2. query[r].limit - Len(docsOut[r]) < 1
            BY <5>2 DEF Limit
          <6>3. Len(docsOut[r]) + Len(found[r]) >= query[r].limit
            <7>1. \A a, b, c \in Nat : a - b < 1 => b + c >= a
              OBVIOUS
            <7> QED
              BY <6>1, <6>2, <7>1, Zenon
          <6> QED
            BY <6>3 DEF FoundSize
        <5> QED
          BY <5>3
      <4>4. i \in Int /\ j \in Int
        BY KeyFacts
      <4> QED
        BY <4>1, <4>2, <4>3, <4>4
    <3> QED
      BY <2>1, <2>2, <3>1 DEF FoundComplete
  <2> QED
    BY <1>4, <1>5, <2>2 DEF FoundComplete, DocsIn
<1>9. TotalCounts(r)'
  BY DEF TotalCounts
<1> QED
  BY <1>6, <1>7, <1>8, <1>9 DEF QuietAt

\* The first load of the documents.
LEMMA CheckSizeQuiet ==
  ASSUME EngineInv, KeysInv, LookupInv, AnswerInv, NEW r \in Reader,
         CheckSize(r)
  PROVE  QuietAt(r)'
<1>1. QuietAt(r) /\ UnmovedEngine
  BY LookupLeavesEngine DEF AnswerInv, QuietLookups, LookupStep
<1>2. /\ rpc[r] = "check"
      /\ UNCHANGED << rseg, query, bits, found, total, docsOut, totalOut, quiet,
                      misled, seen, current >>
  BY DEF CheckSize
<1>3. SUFFICES ASSUME quiet[r] # RACED PROVE QuietAt(r)'
  BY <1>2 DEF QuietAt
<1>4. CASE Limit(r) < 1 \/ Len(docs[rseg[r]]) = 0
  <2>1. rpc'[r] = "leave" /\ early'[r] = TRUE
    BY <1>4 DEF CheckSize, Skip, LookupInv, ReaderTypeOK, AnswerInv,
                AnswerTypeOK
  <2> QED
    BY <1>1, <1>2, <1>3, <1>4, <2>1, SkipQuiet
<1>5. CASE ~(Limit(r) < 1 \/ Len(docs[rseg[r]]) = 0)
  <2>1. rpc'[r] = "compare" /\ early' = early
    BY <1>5 DEF CheckSize, LookupInv, ReaderTypeOK
  <2>2. ~HasBits(r)'
    BY <2>1 DEF HasBits
  <2>3. SameEngine(r)' /\ FoundSound(r)' /\ (~misled[r] => FoundComplete(r)')
    BY <1>1, <1>2, <1>3, <2>1, <2>2, KeepsPlace DEF AtSegment, ToWalk
  <2>4. TotalCounts(r)'
    BY <1>1, <1>2, <1>3, <2>1, <2>2 DEF QuietAt, TotalCounts
  <2> QED
    BY <1>2, <2>3, <2>4 DEF QuietAt
<1> QED
  BY <1>4, <1>5

\* The load of the deleted: equal to documents counted before, it tells
\* something of the segment if none have been added since.
LEMMA CheckDeletedQuiet ==
  ASSUME EngineInv, KeysInv, LookupInv, AnswerInv, NEW r \in Reader,
         CheckDeleted(r)
  PROVE  QuietAt(r)'
<1>1. QuietAt(r) /\ UnmovedEngine
  BY LookupLeavesEngine DEF AnswerInv, QuietLookups, LookupStep
<1>2. /\ rpc[r] = "compare"
      /\ UNCHANGED << rseg, query, bits, found, total, docsOut, totalOut, quiet,
                      seen, current >>
  BY DEF CheckDeleted
<1>3. SUFFICES ASSUME quiet[r] # RACED PROVE QuietAt(r)'
  BY <1>2 DEF QuietAt
<1>4. CASE count[r] = deleted[rseg[r]]
  <2>1. rpc'[r] = "leave" /\ early'[r] = TRUE
    BY <1>4 DEF CheckDeleted, Skip, LookupInv, ReaderTypeOK, AnswerInv,
                AnswerTypeOK
  <2>2. misled'[r] = (misled[r] \/ count[r] # Len(docs[rseg[r]]))
    BY <1>4 DEF CheckDeleted, AnswerInv, AnswerTypeOK
  <2>3. /\ misled[r] => misled'[r]
        /\ misled'[r] \/ Len(docs[rseg[r]]) = deleted[rseg[r]]
    BY <1>4, <2>2
  <2> QED
    BY <1>1, <1>2, <1>3, <2>1, <2>3, SkipQuiet
<1>5. CASE count[r] # deleted[rseg[r]]
  <2>1. rpc'[r] = "clone" /\ early' = early /\ misled' = misled
    BY <1>5 DEF CheckDeleted, LookupInv, ReaderTypeOK
  <2>2. ~HasBits(r)'
    BY <2>1 DEF HasBits
  <2>3. SameEngine(r)' /\ FoundSound(r)' /\ (~misled[r] => FoundComplete(r)')
    BY <1>1, <1>2, <1>3, <2>1, <2>2, KeepsPlace DEF AtSegment, ToWalk
  <2>4. TotalCounts(r)'
    BY <1>1, <1>2, <1>3, <2>1, <2>2 DEF QuietAt, TotalCounts
  <2> QED
    BY <2>1, <2>3, <2>4 DEF QuietAt
<1> QED
  BY <1>4, <1>5

\* The clone is what the marks are now.
LEMMA CloneBitsQuiet ==
  ASSUME EngineInv, KeysInv, LookupInv, AnswerInv, NEW r \in Reader,
         CloneBits(r)
  PROVE  QuietAt(r)'
<1>1. QuietAt(r) /\ UnmovedEngine /\ HandlerHasTask
  BY LookupLeavesEngine DEF AnswerInv, QuietLookups, LookupStep
<1>2. /\ rpc[r] = "clone"
      /\ rpc'[r] = IF query[r].terms = << >> THEN "count" ELSE "walk"
      /\ bits'[r] = deletion[rseg[r]]
      /\ UNCHANGED << rseg, query, found, total, docsOut, totalOut, quiet,
                      early, misled, seen, current >>
  BY DEF CloneBits, LookupInv, ReaderTypeOK, AnswerInv, AnswerTypeOK
<1>3. SUFFICES ASSUME quiet[r] # RACED PROVE QuietAt(r)'
  BY <1>2 DEF QuietAt
<1>4. /\ SameEngine(r) /\ FoundSound(r) /\ TotalCounts(r)
      /\ ~misled[r] => FoundComplete(r)
  BY <1>1, <1>3 DEF QuietAt
<1>5. rpc[r] \in AtSegment /\ rpc[r] \in ToWalk /\ merge_stage = 0
      /\ rseg[r] \in Listed
  BY <1>2, <1>4 DEF AtSegment, ToWalk, SameEngine
<1>6. /\ UNCHANGED << docs, docId, pkOf, deletion, segments, merge_stage,
                      updated >>
      /\ UNCHANGED << Listed, Added, Superseded, Latest >>
      /\ \A d : InDoubt(d)' <=> InDoubt(d)
  BY <1>1, UnmovedFrame
<1>7. Due(r)' = Due(r) /\ FoundSize(r)' = FoundSize(r)
  BY <1>2, <1>6 DEF Due, Terms, FoundSize
<1>8. /\ SameEngine(r)'
      /\ \A d \in Range(found'[r]) \cup Range(docsOut'[r]) :
           /\ Terms(r)' \subseteq TermsOf[d]
           /\ Len(query'[r].terms) # 1 => NotReplaced(r, d)'
      /\ ~misled[r] =>
           \A d \in Due(r)' : \A i \in 1..Len(segments') :
             d \in DocsIn(segments[i]) =>
               \/ d \in Range(found'[r]) \cup Range(docsOut'[r])
               \/ Ahead(r, i)'
               \/ FoundSize(r)' >= query'[r].limit
  BY <1>1, <1>2, <1>3, KeepsPlace DEF AtSegment, ToWalk
<1>9. \A s : DocsIn(s)' = DocsIn(s)
  BY <1>6 DEF DocsIn
<1>10. FoundSound(r)'
  <2>1. ASSUME NEW d \in DocsIn(rseg[r]), docId[d] \notin deletion[rseg[r]]
        PROVE  NotReplaced(r, d)
    <3>1. CASE d \in seen[r] \ current[r]
      <4>1. d \in Superseded
        BY <1>4, <3>1 DEF SameEngine
      <4> QED
        BY <1>5, <2>1, <4>1, ReplacedMarked DEF Marked, NotReplaced
    <3> QED
      BY <3>1 DEF NotReplaced
  <2>2. \A d : NotReplaced(r, d)' <=> NotReplaced(r, d)
    BY <1>2, <1>6 DEF NotReplaced
  <2> QED
    BY <1>2, <1>6, <1>8, <1>9, <2>1, <2>2 DEF FoundSound
<1>11. ~misled[r] => FoundComplete(r)'
  <2>1. \A d \in Due(r) : d \in DocsIn(rseg[r])
                            => docId[d] \notin deletion[rseg[r]]
    BY <1>1, <1>4, <1>5, DueNotMarked DEF Marked
  <2> QED
    BY <1>2, <1>6, <1>7, <1>8, <1>9, <2>1 DEF FoundComplete
<1>12. TotalCounts(r)'
  BY <1>2, <1>4, <1>6 DEF TotalCounts
<1> QED
  BY <1>2, <1>8, <1>10, <1>11, <1>12 DEF QuietAt

\* Without terms: the two counters are loaded ...
LEMMA CountDocsQuiet ==
  ASSUME LookupInv, AnswerInv, NEW r \in Reader, CountDocs(r)
  PROVE  QuietAt(r)'
<1>1. QuietAt(r) /\ UnmovedEngine
  BY LookupLeavesEngine DEF AnswerInv, QuietLookups, LookupStep
<1>2. /\ rpc[r] = "count" /\ rpc'[r] = "subtract"
      /\ count'[r] = Len(docs[rseg[r]])
      /\ UNCHANGED << rseg, query, bits, found, total, docsOut, totalOut, quiet,
                      early, misled, seen, current >>
  BY DEF CountDocs, LookupInv, ReaderTypeOK, AnswerInv, AnswerTypeOK
<1>3. SUFFICES ASSUME quiet[r] # RACED PROVE QuietAt(r)'
  BY <1>2 DEF QuietAt
<1>4. HasBits(r) /\ UNCHANGED << docs, deletion >>
  BY <1>1, <1>2, UnmovedFrame DEF HasBits
<1>5. SameEngine(r)' /\ FoundSound(r)' /\ (~misled[r] => FoundComplete(r)')
  BY <1>1, <1>2, <1>3, <1>4, KeepsPlace DEF AtSegment, ToWalk
<1>6. TotalCounts(r)'
  BY <1>1, <1>2, <1>3, <1>4 DEF QuietAt, TotalCounts
<1> QED
  BY <1>2, <1>5, <1>6 DEF QuietAt

\* ... and subtracted, in this order if nothing has moved.
LEMMA SubtractQuiet ==
  ASSUME EngineInv, LookupInv, AnswerInv, NEW r \in Reader, Subtract(r)
  PROVE  QuietAt(r)'
<1>1. QuietAt(r) /\ UnmovedEngine
  BY LookupLeavesEngine DEF AnswerInv, QuietLookups, LookupStep
<1>2. /\ rpc[r] = "subtract" /\ rpc'[r] = "walk"
      /\ total'[r] = Difference(count[r], deleted[rseg[r]])
      /\ UNCHANGED << rseg, query, bits, found, docsOut, totalOut, quiet, early,
                      misled, seen, current >>
  BY DEF Subtract, Assigned, LookupInv, ReaderTypeOK, AnswerInv, AnswerTypeOK
<1>3. SUFFICES ASSUME quiet[r] # RACED PROVE QuietAt(r)'
  BY <1>2 DEF QuietAt
<1>4. HasBits(r) /\ UNCHANGED << docs, deletion, deleted >>
  BY <1>1, <1>2, UnmovedFrame DEF HasBits
<1>5. SameEngine(r)' /\ FoundSound(r)' /\ (~misled[r] => FoundComplete(r)')
  BY <1>1, <1>2, <1>3, <1>4, KeepsPlace DEF AtSegment, ToWalk
<1>6. merge_stage = 0 /\ rseg[r] \in Listed
  BY <1>1, <1>2, <1>3 DEF QuietAt, SameEngine, AtSegment, ToWalk
<1>7. deleted[rseg[r]] <= Len(docs[rseg[r]])
  BY <1>6, ListedCounted
<1>8. TotalCounts(r)'
  BY <1>1, <1>2, <1>3, <1>4, <1>7 DEF QuietAt, TotalCounts, Difference
<1> QED
  BY <1>2, <1>5, <1>8 DEF QuietAt

\* A find that misses has misled the lookup.
LEMMA FindMissesQuiet ==
  ASSUME LookupInv, AnswerInv, NEW r \in Reader, FindMisses(r)
  PROVE  QuietAt(r)'
<1>1. QuietAt(r) /\ UnmovedEngine
  BY LookupLeavesEngine DEF AnswerInv, QuietLookups, LookupStep
<1>2. /\ rpc[r] = "walk" /\ rpc'[r] = "leave" /\ total'[r] = 0
      /\ misled'[r] = TRUE /\ found[r] = << >>
      /\ UNCHANGED << rseg, query, found, docsOut, totalOut, quiet, early, seen,
                      current >>
  BY DEF FindMisses, LookupInv, ReaderTypeOK, HasSegment, AnswerInv,
         AnswerTypeOK
<1>3. SUFFICES ASSUME quiet[r] # RACED PROVE QuietAt(r)'
  BY <1>2 DEF QuietAt
<1>4. /\ UNCHANGED << docs, docId, pkOf, deletion, segments, merge_stage,
                      updated >>
      /\ UNCHANGED << Listed, Added, Superseded, Latest >>
  BY <1>1, UnmovedFrame
<1>5. SameEngine(r) /\ FoundSound(r) /\ TotalCounts(r)
  BY <1>1, <1>3 DEF QuietAt
<1>6. SameEngine(r)'
  BY <1>2, <1>4, <1>5 DEF SameEngine, AtSegment, ToWalk
<1>7. FoundSound(r)'
  BY <1>2, <1>4, <1>5 DEF FoundSound, NotReplaced, Terms, HasBits
<1>8. TotalCounts(r)'
  BY <1>2, <1>5, EmptySeq DEF TotalCounts, HasBits
<1> QED
  BY <1>2, <1>6, <1>7, <1>8 DEF QuietAt

\* The walk finds what the clone left of the segment.
LEMMA WalkQuiet ==
  ASSUME EngineInv, LookupInv, AnswerInv, NEW r \in Reader, Walk(r)
  PROVE  QuietAt(r)'
<1>1. QuietAt(r) /\ UnmovedEngine
  BY LookupLeavesEngine DEF AnswerInv, QuietLookups, LookupStep
<1>2. PICK lists \in {PostingLists(rseg[r], query[r].terms)} :
        \E result \in {Result(r, lists)} :
          /\ found' = [found EXCEPT ![r] = result.found]
          /\ total' = [total EXCEPT ![r] = result.total]
          /\ early' = [early EXCEPT ![r] = @ \/ LeavesTotal(lists, result.found)]
  BY Zenon DEF Walk
<1>3. PICK result \in {Result(r, lists)} :
        /\ found' = [found EXCEPT ![r] = result.found]
        /\ total' = [total EXCEPT ![r] = result.total]
        /\ early' = [early EXCEPT ![r] = @ \/ LeavesTotal(lists, result.found)]
  BY <1>2
<1>4. lists = PostingLists(rseg[r], query[r].terms) /\ result = Result(r, lists)
  OBVIOUS
<1>5. ReaderTypeOK /\ AnswerTypeOK
  BY DEF LookupInv, AnswerInv
<1>6. /\ found'[r] = result.found /\ total'[r] = result.total
      /\ early'[r] = (early[r] \/ LeavesTotal(lists, result.found))
  BY <1>3, <1>5 DEF ReaderTypeOK, AnswerTypeOK
<1>7. /\ rpc[r] = "walk" /\ rpc'[r] = "leave" /\ found[r] = << >>
      /\ UNCHANGED << rseg, query, docsOut, totalOut, quiet, misled, seen,
                      current >>
  BY DEF Walk, LookupInv, HasSegment, ReaderTypeOK
<1>8. SUFFICES ASSUME quiet[r] # RACED PROVE QuietAt(r)'
  BY <1>7 DEF QuietAt
<1>9. /\ SameEngine(r) /\ FoundSound(r) /\ TotalCounts(r)
      /\ ~misled[r] => FoundComplete(r)
  BY <1>1, <1>8 DEF QuietAt
<1>10. /\ rpc[r] \in AtSegment /\ merge_stage = 0 /\ rseg[r] \in Listed
       /\ rpc'[r] \in AtSegment
  BY <1>7, <1>9 DEF AtSegment, ToWalk, SameEngine
<1>11. /\ UNCHANGED << docs, docId, pkOf, deletion, segments, merge_stage,
                       updated >>
       /\ UNCHANGED << Listed, Added, Superseded, Latest >>
       /\ \A d : InDoubt(d)' <=> InDoubt(d)
  BY <1>1, UnmovedFrame
<1>12. /\ rseg[r] \in Seg /\ docs[rseg[r]] \in Seq(Doc) /\ InPlace(rseg[r])
       /\ docId \in [Doc -> Nat]
       /\ deletion[rseg[r]] \in SUBSET (1..Len(docs[rseg[r]]))
       /\ deleted[rseg[r]] = Cardinality(deletion[rseg[r]])
  BY <1>10, ListedInPlace, ListedCounted, KeyFacts
<1>13. HasBits(r) /\ ~HasBits(r)'
  BY <1>7 DEF HasBits
<1>14. /\ Finds(r, result.found)
       /\ /\ Len(query[r].terms) # 1 /\ bits[r] = deletion[rseg[r]]
          /\ query[r].terms = << >>
               => total[r] = Len(docs[rseg[r]]) - deleted[rseg[r]]
          /\ ~LeavesTotal(lists, result.found)
          /\ Len(result.found) < Limit(r)
          => result.total = Len(result.found)
  BY <1>4, <1>5, <1>12, WalkResult
<1>15. /\ query[r].limit \in Nat /\ Len(docsOut[r]) \in Nat
       /\ Len(found[r]) \in Nat /\ Len(found'[r]) \in Nat
       /\ Len(found[r]) = 0
  BY <1>5, <1>6, <1>7, <1>14, QueryType, LenProperties, EmptySeq DEF Finds
<1>16. /\ FoundSize(r)' = Len(docsOut[r]) + Len(found'[r])
       /\ FoundSize(r) = Len(docsOut[r])
       /\ Limit(r) = query[r].limit - Len(docsOut[r])
       /\ Due(r)' = Due(r)
  <2>1. \A a \in Nat : a + 0 = a
    OBVIOUS
  <2> QED
    BY <1>7, <1>11, <1>15, <2>1, Zenon DEF FoundSize, Limit, Due, Terms
<1>17. \/ Len(found'[r]) < Limit(r) /\ FoundSize(r)' < query[r].limit
       \/ ~(Len(found'[r]) < Limit(r)) /\ FoundSize(r)' >= query[r].limit
  <2>1. \A a, b, c \in Nat : \/ c < a - b /\ b + c < a
                             \/ ~(c < a - b) /\ b + c >= a
    OBVIOUS
  <2> QED
    BY <1>15, <1>16, <2>1
<1>18. FoundSize(r) >= query[r].limit => FoundSize(r)' >= query[r].limit
  <2>1. \A a, b, c \in Nat : b >= a => b + c >= a
    OBVIOUS
  <2> QED
    BY <1>15, <1>16, <2>1
<1>19. SameEngine(r)'
  BY <1>7, <1>9, <1>10, <1>11 DEF SameEngine
<1>20. FoundSound(r)'
  <2>1. ASSUME NEW d \in Range(found'[r])
        PROVE  /\ Terms(r) \subseteq TermsOf[d]
               /\ Len(query[r].terms) # 1 => NotReplaced(r, d)
    <3>1. d \in Matches(r)
      BY <1>6, <1>14, <2>1 DEF Finds
    <3> QED
      BY <1>7, <1>9, <1>13, <3>1 DEF Matches, FoundSound
  <2>2. \A d : NotReplaced(r, d)' <=> NotReplaced(r, d)
    BY <1>7, <1>11 DEF NotReplaced
  <2>3. Terms(r)' = Terms(r)
    BY <1>7 DEF Terms
  <2> QED
    BY <1>7, <1>9, <1>13, <2>1, <2>2, <2>3 DEF FoundSound
<1>21. ASSUME ~misled[r] PROVE FoundComplete(r)'
  <2>1. ASSUME NEW d \in Due(r), NEW i \in 1..Len(segments),
               d \in DocsIn(segments[i])
        PROVE  \/ d \in Range(found'[r]) \cup Range(docsOut[r])
               \/ Ahead(r, i)'
               \/ FoundSize(r)' >= query[r].limit
    <3>1. CASE Ahead(r, i)
      <4>1. PICK j \in 1..Len(segments) : segments[j] = rseg[r] /\ j <= i
        BY <1>7, <3>1 DEF Ahead, ToWalk
      <4>2. CASE j < i
        BY <1>7, <1>10, <1>11, <4>1, <4>2 DEF Ahead
      <4>3. CASE j = i
        <5>1. d \in DocsIn(rseg[r]) /\ docId[d] \notin bits[r]
          BY <1>7, <1>9, <1>13, <1>21, <2>1, <4>1, <4>3 DEF FoundComplete
        <5>2. d \in Matches(r)
          BY <2>1, <5>1 DEF Matches, Due
        <5> QED
          BY <1>6, <1>14, <1>17, <5>2 DEF Finds
      <4>4. i \in Int /\ j \in Int
        BY KeyFacts
      <4> QED
        BY <4>1, <4>2, <4>3, <4>4
    <3>2. CASE ~Ahead(r, i)
      <4>1. \/ d \in Range(found[r]) \cup Range(docsOut[r])
            \/ FoundSize(r) >= query[r].limit
        BY <1>9, <1>21, <2>1, <3>2 DEF FoundComplete
      <4> QED
        BY <1>7, <1>18, <4>1, RangeEmpty
    <3> QED
      BY <3>1, <3>2
  <2> QED
    BY <1>7, <1>11, <1>13, <1>16, <2>1 DEF FoundComplete, DocsIn
<1>22. TotalCounts(r)'
  <2> SUFFICES ASSUME quiet[r] = UNDISTURBED, ~early'[r],
                      Len(query[r].terms) # 1
               PROVE  /\ FoundSize(r)' < query[r].limit
                           => total'[r] = Len(found'[r])
                      /\ Len(docsOut[r]) < query[r].limit
                           => totalOut[r] = Len(docsOut[r])
    BY <1>7, <1>13 DEF TotalCounts
  <2>1. ~early[r] /\ ~LeavesTotal(lists, result.found)
    BY <1>6
  <2>2. /\ bits[r] = deletion[rseg[r]]
        /\ query[r].terms = << >>
             => total[r] = Len(docs[rseg[r]]) - deleted[rseg[r]]
        /\ Len(docsOut[r]) < query[r].limit => totalOut[r] = Len(docsOut[r])
    BY <1>7, <1>9, <1>13, <2>1 DEF TotalCounts
  <2>3. ASSUME FoundSize(r)' < query[r].limit
        PROVE  total'[r] = Len(found'[r])
    <3>1. Len(found'[r]) < Limit(r)
      <4>1. \A a, b, c \in Nat : b + c < a => c < a - b
        OBVIOUS
      <4> QED
        BY <1>15, <1>16, <2>3, <4>1
    <3> QED
      BY <1>6, <1>14, <2>1, <2>2, <3>1
  <2> QED
    BY <2>2, <2>3
<1> QED
  BY <1>7, <1>19, <1>20, <1>21, <1>22 DEF QuietAt

LEMMA RangeConcat ==
  ASSUME NEW S, NEW p \in Seq(S), NEW q \in Seq(S)
  PROVE  /\ p \o q \in Seq(S)
         /\ Len(p \o q) = Len(p) + Len(q)
         /\ Range(p \o q) = Range(p) \cup Range(q)
<1> DEFINE c == p \o q
<1>1. /\ c \in Seq(S) /\ Len(p) \in Nat /\ Len(q) \in Nat
      /\ Len(c) = Len(p) + Len(q)
      /\ \A i \in 1..Len(c) :
           c[i] = IF i <= Len(p) THEN p[i] ELSE q[i - Len(p)]
  BY ConcatProperties, LenProperties
<1> HIDE DEF c
<1>2. ASSUME NEW x \in Range(c) PROVE x \in Range(p) \cup Range(q)
  <2>1. PICK i \in 1..Len(c) : c[i] = x
    BY <1>1, RangeElements
  <2>2. CASE i <= Len(p)
    <3>1. i \in 1..Len(p) /\ p[i] = x
      BY <1>1, <2>1, <2>2
    <3> QED
      BY <3>1, RangeElements
  <2>3. CASE ~(i <= Len(p))
    <3>1. i - Len(p) \in 1..Len(q) /\ q[i - Len(p)] = x
      BY <1>1, <2>1, <2>3
    <3> QED
      BY <3>1, RangeElements
  <2> QED
    BY <2>2, <2>3
<1>3. ASSUME NEW x \in Range(p) PROVE x \in Range(c)
  <2>1. PICK i \in 1..Len(p) : p[i] = x
    BY RangeElements
  <2>2. i \in 1..Len(c) /\ c[i] = x
    BY <1>1, <2>1
  <2> QED
    BY <1>1, <2>2, RangeElements
<1>4. ASSUME NEW x \in Range(q) PROVE x \in Range(c)
  <2>1. PICK i \in 1..Len(q) : q[i] = x
    BY RangeElements
  <2>2. i + Len(p) \in 1..Len(c) /\ ~(i + Len(p) <= Len(p))
        /\ i + Len(p) - Len(p) = i
    BY <1>1
  <2>3. c[i + Len(p)] = x
    BY <1>1, <2>1, <2>2
  <2> QED
    BY <1>1, <2>2, <2>3, RangeElements
<1>5. Range(c) = Range(p) \cup Range(q)
  BY <1>2, <1>3, <1>4
<1> QED
  BY <1>1, <1>5 DEF c

\* The documents found in the segment join those of the response.
LEMMA LeaveQuiet ==
  ASSUME LookupInv, AnswerInv, NEW r \in Reader, Leave(r)
  PROVE  QuietAt(r)'
<1>1. QuietAt(r) /\ UnmovedEngine
  BY LookupLeavesEngine DEF AnswerInv, QuietLookups, LookupStep
<1>2. ReaderTypeOK /\ AnswerTypeOK
  BY DEF LookupInv, AnswerInv
<1>3. /\ rpc[r] = "leave" /\ found'[r] = << >>
      /\ docsOut'[r] = docsOut[r] \o found[r]
      /\ rpc'[r] = IF Reached(r) THEN "return" ELSE "advance"
      /\ UNCHANGED << rseg, query, bits, quiet, early, misled, seen, current >>
  BY <1>2 DEF Leave, ReaderTypeOK
<1>4. SUFFICES ASSUME quiet[r] # RACED PROVE QuietAt(r)'
  BY <1>3 DEF QuietAt
<1>5. /\ SameEngine(r) /\ FoundSound(r) /\ TotalCounts(r)
      /\ ~misled[r] => FoundComplete(r)
  BY <1>1, <1>4 DEF QuietAt
<1>6. /\ rpc[r] \in AtSegment /\ rpc[r] \notin ToWalk /\ ~HasBits(r)
      /\ rpc'[r] \notin ToWalk /\ ~HasBits(r)'
      /\ rpc'[r] \notin {"subtract", "walk", "leave", "idle"}
  BY <1>3 DEF AtSegment, ToWalk, HasBits
<1>7. /\ UNCHANGED << docs, docId, pkOf, deletion, segments, merge_stage,
                      updated >>
      /\ UNCHANGED << Listed, Added, Superseded, Latest >>
      /\ \A d : InDoubt(d)' <=> InDoubt(d)
  BY <1>1, UnmovedFrame
<1>8. /\ docsOut[r] \in Seq(Doc) /\ found[r] \in Seq(Doc)
      /\ Len(docsOut[r]) \in Nat /\ Len(found[r]) \in Nat
      /\ query[r].limit \in Nat
  BY <1>2, QueryType
<1>9. /\ Len(docsOut'[r]) = FoundSize(r)
      /\ FoundSize(r)' = FoundSize(r)
      /\ Range(docsOut'[r]) = Range(docsOut[r]) \cup Range(found[r])
      /\ Range(found'[r]) = {}
      /\ Due(r)' = Due(r)
  <2>1. /\ Len(docsOut'[r]) = Len(docsOut[r]) + Len(found[r])
        /\ Range(docsOut'[r]) = Range(docsOut[r]) \cup Range(found[r])
    BY <1>3, <1>8, RangeConcat
  <2>2. Range(found'[r]) = {} /\ Len(found'[r]) = 0
    BY <1>3, RangeEmpty, EmptySeq
  <2>3. \A a, b \in Nat : (a + b) + 0 = a + b
    OBVIOUS
  <2>4. Len(docsOut'[r]) + Len(found'[r]) = FoundSize(r)
    BY <1>8, <2>1, <2>2, <2>3, Zenon DEF FoundSize
  <2>5. Due(r)' = Due(r)
    BY <1>3, <1>7 DEF Due, Terms
  <2> QED
    BY <2>1, <2>2, <2>4, <2>5 DEF FoundSize
<1>10. SameEngine(r)'
  BY <1>3, <1>5, <1>6, <1>7 DEF SameEngine
<1>11. FoundSound(r)'
  <2>1. \A d : NotReplaced(r, d)' <=> NotReplaced(r, d)
    BY <1>3, <1>7 DEF NotReplaced
  <2>2. Terms(r)' = Terms(r)
    BY <1>3 DEF Terms
  <2> QED
    BY <1>3, <1>5, <1>6, <1>9, <2>1, <2>2 DEF FoundSound
<1>12. ASSUME ~misled[r] PROVE FoundComplete(r)'
  <2>1. ASSUME NEW d \in Due(r), NEW i \in 1..Len(segments),
               d \in DocsIn(segments[i])
        PROVE  \/ d \in Range(found'[r]) \cup Range(docsOut'[r])
               \/ Ahead(r, i)'
               \/ FoundSize(r)' >= query[r].limit
    <3>1. CASE Reached(r)
      BY <1>9, <3>1 DEF Reached
    <3>2. CASE ~Reached(r)
      <4>1. rpc'[r] \in AtSegment
        BY <1>3, <3>2 DEF AtSegment
      <4>2. Ahead(r, i) => Ahead(r, i)'
        BY <1>3, <1>6, <1>7, <4>1 DEF Ahead
      <4> QED
        BY <1>5, <1>9, <1>12, <2>1, <4>2 DEF FoundComplete
    <3> QED
      BY <3>1, <3>2
  <2> QED
    BY <1>3, <1>6, <1>7, <1>9, <2>1 DEF FoundComplete, DocsIn
<1>13. TotalCounts(r)'
  <2> SUFFICES ASSUME quiet[r] = UNDISTURBED, ~early[r],
                      Len(query[r].terms) # 1,
                      Len(docsOut'[r]) < query[r].limit
               PROVE  totalOut'[r] = Len(docsOut'[r])
    BY <1>3, <1>6 DEF TotalCounts
  <2>1. FoundSize(r) < query[r].limit
    BY <1>9
  <2>2. Len(docsOut[r]) < query[r].limit
    <3>1. \A a, b, c \in Nat : a + b < c => a < c
      OBVIOUS
    <3> QED
      BY <1>8, <2>1, <3>1, Zenon DEF FoundSize
  <2>3. total[r] = Len(found[r]) /\ totalOut[r] = Len(docsOut[r])
    BY <1>3, <1>5, <2>1, <2>2 DEF TotalCounts
  <2>4. total[r] # Unset
    BY <1>8, <2>3 DEF Unset
  <2>5. \E t \in {total[r]} : totalOut' = [totalOut EXCEPT ![r] = @ + t]
    BY <2>4 DEF Leave
  <2>6. totalOut'[r] = totalOut[r] + total[r]
    BY <1>2, <2>5 DEF AnswerTypeOK
  <2> QED
    BY <1>9, <2>3, <2>6 DEF FoundSize
<1> QED
  BY <1>3, <1>10, <1>11, <1>12, <1>13 DEF QuietAt

\* The next pointer leads to the segment that follows in the list.
LEMMA AdvanceQuiet ==
  ASSUME EngineInv, LookupInv, AnswerInv, NEW r \in Reader, Advance(r)
  PROVE  QuietAt(r)'
<1>1. QuietAt(r) /\ UnmovedEngine /\ NextFollows
  BY LookupLeavesEngine DEF AnswerInv, QuietLookups, LookupStep
<1>2. CASE UseAfterFree
  BY <1>1, <1>2, UnmovedKeepsQuiet DEF UseAfterFree, readerVars, Remembers
<1>3. CASE ~UseAfterFree
  <2>1. /\ rpc[r] = "advance"
        /\ rseg'[r] = next[rseg[r]]
        /\ rpc'[r] = IF next[rseg[r]] = NoSeg THEN "return" ELSE "enter"
        /\ UNCHANGED << query, bits, found, total, docsOut, totalOut, quiet,
                        early, misled, seen, current >>
    BY <1>3 DEF Advance, LookupInv, ReaderTypeOK
  <2>2. SUFFICES ASSUME quiet[r] # RACED PROVE QuietAt(r)'
    BY <2>1 DEF QuietAt
  <2>3. /\ SameEngine(r) /\ FoundSound(r) /\ TotalCounts(r)
        /\ ~misled[r] => FoundComplete(r)
    BY <1>1, <2>2 DEF QuietAt
  <2>4. /\ UNCHANGED << docs, docId, pkOf, deletion, segments, merge_stage,
                        updated >>
        /\ UNCHANGED << Listed, Added, Superseded, Latest >>
        /\ \A d : InDoubt(d)' <=> InDoubt(d)
    BY <1>1, UnmovedFrame
  <2>5. /\ rpc[r] \in AtSegment /\ rpc[r] \notin ToWalk /\ ~HasBits(r)'
        /\ rpc'[r] \notin {"subtract", "walk", "leave", "idle"}
        /\ rpc'[r] \in AtSegment \/ rpc'[r] \in ToWalk =>
             rpc'[r] = "enter" /\ rpc'[r] \in ToWalk
             /\ rseg'[r] # NoSeg
    BY <2>1 DEF AtSegment, ToWalk, HasBits
  <2>6. segments \in Seq(Seg) /\ Len(segments) \in Nat
    BY KeyFacts
  <2>7. \A j \in 1..Len(segments) : segments[j] = rseg[r] =>
          rseg'[r] = IF j < Len(segments) THEN segments[j + 1] ELSE NoSeg
    BY <1>1, <2>1 DEF NextFollows
  <2>8. \A j \in 1..Len(segments) : j < Len(segments) =>
          j + 1 \in 1..Len(segments) /\ segments[j + 1] \in Listed
            /\ segments[j + 1] # NoSeg
    <3> SUFFICES ASSUME NEW j \in 1..Len(segments), j < Len(segments)
                 PROVE  j + 1 \in 1..Len(segments) /\ segments[j + 1] \in Listed
                          /\ segments[j + 1] # NoSeg
      OBVIOUS
    <3>1. j + 1 \in 1..Len(segments)
      BY <2>6
    <3>2. segments[j + 1] \in Seg /\ NoSeg \notin Seg
      BY <2>6, <3>1, ElementOfSeq, KeyFacts
    <3> QED
      BY <2>6, <3>1, <3>2, RangeElements DEF Listed
  <2>9. SameEngine(r)'
    <3>1. rseg[r] \in Listed
      BY <2>3, <2>5 DEF SameEngine
    <3>2. PICK j \in 1..Len(segments) : segments[j] = rseg[r]
      BY <2>6, <3>1, PlaceInListed
    <3>3. rseg'[r] = NoSeg \/ rseg'[r] \in Listed
      BY <2>7, <2>8, <3>2
    <3> QED
      BY <2>1, <2>3, <2>4, <2>5, <3>3 DEF SameEngine
  <2>10. FoundSound(r)'
    BY <2>1, <2>3, <2>4, <2>5 DEF FoundSound, NotReplaced, Terms
  <2>11. ASSUME ~misled[r] PROVE FoundComplete(r)'
    <3>1. Due(r)' = Due(r) /\ FoundSize(r)' = FoundSize(r)
      BY <2>1, <2>4 DEF Due, Terms, FoundSize
    <3>2. ASSUME NEW i \in 1..Len(segments), Ahead(r, i) PROVE Ahead(r, i)'
      <4>1. PICK j \in 1..Len(segments) : segments[j] = rseg[r] /\ j < i
        BY <2>5, <3>2 DEF Ahead
      <4>2. j < Len(segments) /\ j + 1 <= i
        BY <2>6, <4>1
      <4>3. rseg'[r] = segments[j + 1] /\ j + 1 \in 1..Len(segments)
            /\ rseg'[r] # NoSeg
        BY <2>7, <2>8, <4>1, <4>2
      <4>4. rpc'[r] \in ToWalk
        BY <2>1, <4>3 DEF ToWalk
      <4> QED
        BY <2>4, <4>2, <4>3, <4>4 DEF Ahead
    <3> QED
      BY <2>1, <2>3, <2>4, <2>5, <2>11, <3>1, <3>2 DEF FoundComplete, DocsIn
  <2>12. TotalCounts(r)'
    BY <2>1, <2>3, <2>5 DEF TotalCounts
  <2> QED
    BY <2>1, <2>9, <2>10, <2>11, <2>12 DEF QuietAt
<1> QED
  BY <1>2, <1>3

\* The steps after which nothing, or nothing of this lookup, is to be shown.
LEMMA EndQuiet ==
  ASSUME AnswerTypeOK, NEW r \in Reader, EndLookup(r)
  PROVE  QuietAt(r)'
<1>1. quiet'[r] = RACED
  BY DEF EndLookup, AnswerTypeOK
<1> QED
  BY <1>1 DEF QuietAt

LEMMA RejectQuiet ==
  ASSUME AnswerInv, NEW r \in Reader, NEW q \in Query, RejectLookup(r, q)
  PROVE  QuietAt(r)'
<1>1. UnmovedEngine /\ QuietAt(r)
  BY LookupLeavesEngine DEF AnswerInv, QuietLookups
<1>2. Remembers(r)' = Remembers(r) /\ quiet'[r] = quiet[r]
  BY DEF RejectLookup, Remembers
<1> QED
  BY <1>1, <1>2, UnmovedKeepsQuiet

LEMMA FindFreedQuiet ==
  ASSUME AnswerInv, NEW r \in Reader, FindFreed(r)
  PROVE  QuietAt(r)'
<1>1. UnmovedEngine /\ QuietAt(r)
  BY LookupLeavesEngine DEF AnswerInv, QuietLookups, LookupStep
<1>2. Remembers(r)' = Remembers(r) /\ quiet'[r] = quiet[r]
  BY DEF FindFreed, readerVars, Remembers
<1> QED
  BY <1>1, <1>2, UnmovedKeepsQuiet

LEMMA StutterQuiet ==
  ASSUME QuietLookups, UNCHANGED allVars
  PROVE  QuietLookups'
<1> SUFFICES ASSUME NEW r \in Reader PROVE QuietAt(r)'
  BY DEF QuietLookups
<1>1. UnmovedEngine /\ QuietAt(r)
  BY DEF allVars, vars, segVars, UnmovedEngine, QuietLookups
<1>2. Remembers(r)' = Remembers(r) /\ quiet'[r] = quiet[r]
  BY DEF allVars, lookupVars, readerVars, Remembers
<1> QED
  BY <1>1, <1>2, UnmovedKeepsQuiet

\* A step of one lookup keeps what is known of all.
LEMMA LookupKeepsQuiet ==
  ASSUME EngineInv, KeysInv, LookupInv, AnswerInv, NEW r \in Reader,
         LookupStep(r) \/ (\E q \in Query : RejectLookup(r, q)
                                              \/ BeginLookup(r, q))
  PROVE  QuietLookups'
<1> SUFFICES ASSUME NEW u \in Reader PROVE QuietAt(u)'
  BY DEF QuietLookups
<1>1. CASE u = r
  BY <1>1, BeginQuiet, RejectQuiet, EnterQuiet, CheckSizeQuiet,
     CheckDeletedQuiet, CloneBitsQuiet, CountDocsQuiet, SubtractQuiet,
     WalkQuiet, FindMissesQuiet, FindFreedQuiet, LeaveQuiet, AdvanceQuiet,
     EndQuiet
     DEF LookupStep, AnswerInv
<1>2. CASE u # r
  <2>1. StaysWith(r)
    BY StaysWithOthers DEF LookupInv, AnswerInv
  <2>2. UnmovedEngine /\ QuietAt(u)
    BY LookupLeavesEngine DEF AnswerInv, QuietLookups
  <2> QED
    BY <1>2, <2>1, <2>2, UnmovedKeepsQuiet DEF StaysWith
<1> QED
  BY <1>1, <1>2

-----------------------------------------------------------------------------
(* The types, and the empty response of a lookup that begins.              *)

\* Whatever the walk reads, it assigns a number to total or leaves it alone.
LEMMA WalkCounts ==
  ASSUME NEW r \in Reader, ReaderTypeOK, docs[rseg[r]] \in Seq(Doc),
         docId \in [Doc -> Nat],
         total[r] \in Int,
         NEW lists, lists = PostingLists(rseg[r], query[r].terms)
  PROVE  Result(r, lists).total \in Int
<1> DEFINE s == rseg[r]
           both == I!SeekIntersect(lists, docId, bits[r])
<1>1. lists \in Seq(Seq(DocsIn(s))) /\ Len(lists) \in Nat
  BY QueryType, PostingListsType, LenProperties
<1>2. CASE lists = << >>
  BY <1>2 DEF Result, WithoutTerms
<1>3. CASE lists # << >>
  <2>1. Len(lists) >= 1 /\ 1 \in 1..Len(lists)
    BY <1>1, <1>3, EmptySeq
  <2>2. lists[1] \in Seq(DocsIn(s))
    BY <1>1, <2>1, ElementOfSeq
  <2>3. Len(lists[1]) \in Nat
    BY <2>2, LenProperties
  <2>4. lists \in Seq(Seq(Doc))
    <3>1. DocsIn(s) \subseteq Doc
      BY RangeElements DEF DocsIn
    <3>2. Seq(DocsIn(s)) \subseteq Seq(Doc)
      BY <3>1, SeqMonotonic
    <3> QED
      BY <1>1, <3>2, SeqMonotonic
  <2>5. both \in Seq(Doc)
    BY <1>3, <2>4, SeekIntersectSound, SameIntersection
  <2>6. Len(both) \in Nat
    BY <2>5, LenProperties
  <2> HIDE DEF both
  <2>7. Result(r, lists).total \in {0, Len(lists[1]), total[r], Len(both)}
    BY <1>3 DEF Result, WithTerms, both
  <2> QED
    BY <2>3, <2>6, <2>7
<1> QED
  BY <1>2, <1>3

LEMMA EngineKeepsTypes ==
  ASSUME AnswerTypeOK, EngineStep
  PROVE  AnswerTypeOK'
<1>1. CASE ClientStepL \/ ReleaseNull
  BY <1>1 DEF ClientStepL, ReleaseNull, lookupVars, readerVars, AnswerTypeOK
<1>2. CASE InputStepL \/ MergeStepL
  <2>1. UNCHANGED << bits, count, total, totalOut, early, misled, seen,
                     current >>
    BY <1>2 DEF InputStepL, MergeStepL, Unlooked
  <2>2. \E level \in {RACED, UNMERGED, UNDISTURBED} : Disturb(level)
    BY <1>2 DEF InputStepL, MergeStepL
  <2>3. quiet' \in [Reader -> {RACED, UNMERGED, UNDISTURBED}]
    BY <2>2 DEF Disturb, AnswerTypeOK
  <2> QED
    BY <2>1, <2>3 DEF AnswerTypeOK
<1> QED
  BY <1>1, <1>2 DEF EngineStep, MergeThreadL

LEMMA LookupKeepsTypes ==
  ASSUME EngineInv, KeysInv, LookupInv, AnswerTypeOK, NEW r \in Reader,
         LookupStep(r) \/ (\E q \in Query : RejectLookup(r, q)
                                              \/ BeginLookup(r, q))
  PROVE  AnswerTypeOK'
<1>1. /\ docs \in [Seg -> Seq(Doc)] /\ docId \in [Doc -> Nat]
      /\ deletion \in [Seg -> SUBSET Nat]
  BY DEF EngineInv, Inv, TypeOK, SegTypeOK
<1>2. Latest \subseteq Doc /\ Added \subseteq Doc
  BY DEF Latest, Added, EngineInv, Inv, TypeOK, EngineTypeOK
<1>3. CASE \E q \in Query : RejectLookup(r, q) \/ BeginLookup(r, q)
  <2>1. UNCHANGED << bits, count, total, totalOut, early, misled >>
    BY <1>3 DEF RejectLookup, BeginLookup
  <2>2. \/ UNCHANGED << quiet, seen, current >>
        \/ /\ seen' = [seen EXCEPT ![r] = Added]
           /\ current' = [current EXCEPT ![r] = Latest]
           /\ quiet' = [quiet EXCEPT ![r] = IF merge_stage = 0
                                            THEN UNDISTURBED ELSE RACED]
    BY <1>3 DEF RejectLookup, BeginLookup
  <2> QED
    BY <1>2, <2>1, <2>2 DEF AnswerTypeOK
<1>4. CASE Enter(r) \/ Advance(r)
  BY <1>4 DEF Enter, Advance, UseAfterFree, readerVars, AnswerTypeOK
<1>5. CASE \/ CheckSize(r) \/ CheckDeleted(r) \/ CloneBits(r) \/ CountDocs(r)
           \/ FindMisses(r) \/ FindFreed(r)
  <2>1. rseg[r] \in Seg
    BY <1>5 DEF CheckSize, CheckDeleted, CloneBits, CountDocs, FindMisses,
                FindFreed, LookupInv, HasSegment, Inside, HasBits
  <2>2. Len(docs[rseg[r]]) \in Nat
    BY <1>1, <2>1, LenProperties
  <2>3. CASE CheckSize(r) \/ CountDocs(r)
    BY <2>2, <2>3 DEF CheckSize, CountDocs, Skip, AnswerTypeOK
  <2>4. CASE CheckDeleted(r)
    <3>1. (misled[r] \/ count[r] # Len(docs[rseg[r]])) \in BOOLEAN
      OBVIOUS
    <3> QED
      BY <2>4, <3>1 DEF CheckDeleted, Skip, AnswerTypeOK
  <2>5. CASE CloneBits(r)
    BY <1>1, <2>1, <2>5 DEF CloneBits, AnswerTypeOK
  <2>6. CASE FindMisses(r)
    <3>1. /\ misled' = [misled EXCEPT ![r] = TRUE]
          /\ misled \in [Reader -> BOOLEAN]
      BY <2>6 DEF FindMisses, AnswerTypeOK
    <3>2. misled' \in [Reader -> BOOLEAN]
      BY <3>1, Zenon
    <3> QED
      BY <2>6, <3>2 DEF FindMisses, AnswerTypeOK
  <2>7. CASE FindFreed(r)
    BY <2>7 DEF FindFreed, readerVars, AnswerTypeOK
  <2> QED
    BY <1>5, <2>3, <2>4, <2>5, <2>6, <2>7
<1>6. CASE Subtract(r)
  <2>1. rseg[r] \in Seg /\ deleted \in [Seg -> Nat]
    BY <1>6 DEF Subtract, LookupInv, HasSegment, Inside, HasBits, EngineInv,
                Inv, TypeOK, SegTypeOK
  <2>2. count[r] \in Nat /\ deleted[rseg[r]] \in Nat /\ UINT32 \in Nat
    BY <2>1, LookupAssumption DEF AnswerTypeOK
  <2>3. Assigned(r) \in Int
    BY <2>2 DEF Assigned, Difference
  <2> QED
    BY <1>6, <2>3 DEF Subtract, AnswerTypeOK
<1>7. CASE Walk(r)
  <2>1. rseg[r] \in Seg
    BY <1>7 DEF Walk, LookupInv, HasSegment, Inside, HasBits
  <2>2. PICK lists \in {PostingLists(rseg[r], query[r].terms)} :
          \E result \in {Result(r, lists)} :
            /\ total' = [total EXCEPT ![r] = result.total]
            /\ early' = [early EXCEPT ![r] = @ \/ LeavesTotal(lists, result.found)]
    BY <1>7, Zenon DEF Walk
  <2>3. PICK result \in {Result(r, lists)} :
          /\ total' = [total EXCEPT ![r] = result.total]
          /\ early' = [early EXCEPT ![r] = @ \/ LeavesTotal(lists, result.found)]
    BY <2>2
  <2>4. result.total \in Int
    <3>1. ReaderTypeOK /\ total[r] \in Int
      BY DEF LookupInv, AnswerTypeOK
    <3>2. docs[rseg[r]] \in Seq(Doc)
      BY <1>1, <2>1
    <3> QED
      BY <1>1, <3>1, <3>2, WalkCounts
  <2>5. total' \in [Reader -> Int]
    BY <2>3, <2>4 DEF AnswerTypeOK
  <2>6. early' \in [Reader -> BOOLEAN]
    <3>1. (early[r] \/ LeavesTotal(lists, result.found)) \in BOOLEAN
      BY Zenon
    <3>2. early \in [Reader -> BOOLEAN]
      BY DEF AnswerTypeOK
    <3> QED
      BY <2>3, <3>1, <3>2, Zenon
  <2>7. bits' \in [Reader -> SUBSET Nat]
    BY <1>7 DEF Walk, AnswerTypeOK
  <2>8. UNCHANGED << count, totalOut, quiet, misled, seen, current >>
    BY <1>7 DEF Walk
  <2> QED
    BY <2>5, <2>6, <2>7, <2>8 DEF AnswerTypeOK
<1>8. CASE Leave(r)
  <2>1. PICK t \in IF total[r] = Unset THEN Garbage ELSE {total[r]} :
          /\ total' = [total EXCEPT ![r] = t]
          /\ totalOut' = [totalOut EXCEPT ![r] = @ + t]
    BY <1>8 DEF Leave
  <2>2. t \in Int
    BY <2>1, LookupAssumption DEF AnswerTypeOK
  <2>3. totalOut[r] + t \in Int
    BY <2>2 DEF AnswerTypeOK
  <2>4. UNCHANGED << bits, count, quiet, early, misled, seen, current >>
    BY <1>8 DEF Leave
  <2> QED
    BY <2>1, <2>2, <2>3, <2>4 DEF AnswerTypeOK
<1>9. CASE EndLookup(r)
  BY <1>9 DEF EndLookup, Unset, AnswerTypeOK
<1> QED
  BY <1>3, <1>4, <1>5, <1>6, <1>7, <1>8, <1>9 DEF LookupStep

LEMMA LookupKeepsIdle ==
  ASSUME LookupInv, AnswerTypeOK, IdleClear, NEW r \in Reader,
         LookupStep(r) \/ (\E q \in Query : RejectLookup(r, q)
                                              \/ BeginLookup(r, q))
  PROVE  IdleClear'
<1>1. ReaderTypeOK
  BY DEF LookupInv
<1>2. \A u \in Reader : u # r =>
        rpc'[u] = rpc[u] /\ docsOut'[u] = docsOut[u] /\ totalOut'[u] = totalOut[u]
  BY <1>1, StaysWithOthers DEF StaysWith, Remembers
<1>3. rpc'[r] = "idle" => docsOut'[r] = << >> /\ totalOut'[r] = 0
  <2>1. CASE Enter(r) \/ Advance(r) \/ Walk(r) \/ Leave(r)
    BY <1>1, <2>1 DEF Enter, Advance, UseAfterFree, readerVars, Walk, Leave,
                      ReaderTypeOK
  <2>2. CASE \/ CheckSize(r) \/ CheckDeleted(r) \/ CloneBits(r)
             \/ CountDocs(r) \/ Subtract(r) \/ FindMisses(r) \/ FindFreed(r)
    BY <1>1, <2>2 DEF CheckSize, CheckDeleted, Skip, CloneBits, CountDocs,
                      Subtract, FindMisses, FindFreed, readerVars, ReaderTypeOK
  <2>3. CASE EndLookup(r)
    BY <1>1, <2>3 DEF EndLookup, ReaderTypeOK, AnswerTypeOK
  <2>4. CASE \E q \in Query : RejectLookup(r, q) \/ BeginLookup(r, q)
    BY <1>1, <2>4 DEF RejectLookup, BeginLookup, ReaderTypeOK, IdleClear
  <2> QED
    BY <2>1, <2>2, <2>3, <2>4 DEF LookupStep
<1> QED
  BY <1>2, <1>3 DEF IdleClear

LEMMA EngineKeepsIdle ==
  ASSUME IdleClear, EngineStep
  PROVE  IdleClear'
<1>1. UNCHANGED << rpc, docsOut, totalOut >>
  BY DEF EngineStep, ClientStepL, InputStepL, MergeThreadL, MergeStepL,
         ReleaseNull, Unlooked, lookupVars, readerVars
<1> QED
  BY <1>1 DEF IdleClear

-----------------------------------------------------------------------------
(* The theorems.                                                           *)

\* Every step keeps AnswerInv.
LEMMA NextKeepsAnswers ==
  ASSUME EngineInv, KeysInv, LookupInv, AnswerInv, [LookupNext]_allVars
  PROVE  AnswerInv'
<1>1. EngineInv'
  BY LookupNextKeepsInv
<1>2. AnswerTypeOK /\ HandlerHasTask /\ IdleClear /\ NextFollows /\ QuietLookups
      /\ ReaderTypeOK
  BY DEF AnswerInv, LookupInv
<1>3. CASE EngineStep
  <2>1. [Next]_vars
    BY <1>3 DEF EngineStep, ClientStepL, InputStepL, MergeThreadL, MergeStepL,
                ReleaseNull, Next
  <2>2. QuietLookups'
    BY <1>3, EngineKeepsQuiet
  <2>3. HandlerHasTask'
    BY <1>2, <2>1, NextKeepsHandler
  <2>4. NextFollows'
    BY <1>1, <1>2, <1>3, EngineStepKeepsList
  <2>5. AnswerTypeOK' /\ IdleClear'
    BY <1>2, <1>3, EngineKeepsTypes, EngineKeepsIdle
  <2> QED
    BY <2>2, <2>3, <2>4, <2>5 DEF AnswerInv
<1>4. CASE \E r \in Reader : \/ \E q \in Query : RejectLookup(r, q)
                                                \/ BeginLookup(r, q)
                             \/ LookupStep(r)
  <2>1. PICK r \in Reader :
          LookupStep(r) \/ (\E q \in Query : RejectLookup(r, q)
                                               \/ BeginLookup(r, q))
    BY <1>4
  <2>2. UnmovedEngine /\ UNCHANGED next
    BY <2>1, LookupLeavesEngine
  <2>3. HandlerHasTask' /\ UNCHANGED segments
    BY <1>2, <2>2, UnmovedFrame
  <2>4. NextFollows'
    BY <1>2, <2>2, <2>3, NextFrame
  <2>5. QuietLookups'
    BY <2>1, LookupKeepsQuiet
  <2>6. AnswerTypeOK' /\ IdleClear'
    BY <1>2, <2>1, LookupKeepsTypes, LookupKeepsIdle
  <2> QED
    BY <2>3, <2>4, <2>5, <2>6 DEF AnswerInv
<1>5. CASE UNCHANGED allVars
  <2>1. QuietLookups'
    BY <1>2, <1>5, StutterQuiet
  <2>2. UNCHANGED vars /\ UNCHANGED next /\ UNCHANGED readerVars
    BY <1>5 DEF allVars, lookupVars
  <2>3. HandlerHasTask'
    BY <1>2, <2>2, NextKeepsHandler
  <2>4. NextFollows'
    BY <1>2, <2>2, NextFrame DEF vars, engineVars
  <2>5. AnswerTypeOK' /\ IdleClear'
    BY <1>2, <2>2 DEF readerVars, AnswerTypeOK, IdleClear
  <2> QED
    BY <2>1, <2>3, <2>4, <2>5 DEF AnswerInv
<1> QED
  BY <1>3, <1>4, <1>5 DEF LookupNext

LEMMA InitEstablishesAnswers ==
  ASSUME Init, LookupInit
  PROVE  AnswerInv
<1>1. AnswerTypeOK /\ IdleClear
  BY DEF LookupInit, Unset, AnswerTypeOK, IdleClear
<1>2. HandlerHasTask
  BY DEF Init, EngineInit, HandlerHasTask
<1>3. NextFollows
  <2>1. segments = << 1 >>
    BY DEF Init, EngineInit
  <2>2. Len(segments) = 1 /\ segments[1] = 1 /\ 1 \in Seg
    BY <2>1, MaxSegAssumption DEF Seg
  <2>3. \A i \in 1..1 : i = 1 /\ ~(i < 1)
    OBVIOUS
  <2> QED
    BY <2>2, <2>3 DEF LookupInit, NextFollows
<1>4. QuietLookups
  BY DEF LookupInit, QuietLookups, QuietAt
<1> QED
  BY <1>1, <1>2, <1>3, <1>4 DEF AnswerInv

\* Whatever the other threads do, a lookup without a merge knows at each step
\* what it has found, and what it will yet meet.
THEOREM AnswerInvHolds ==
  LookupSpec => [](KeyInv /\ LookupInv /\ AnswerInv)
<1> DEFINE AllInv == KeyInv /\ LookupInv /\ AnswerInv
<1>1. Init /\ LookupInit => AllInv
  <2>1. Init => RemovalMarked
    BY DEF Init, SegInit, RemovalMarked, Removing, NoRemoval
  <2> QED
    BY <2>1, InitEstablishesLookups, InitEstablishesKeys, InitEstablishesAnswers
       DEF KeyInv
<1>2. AllInv /\ [LookupNext]_allVars => AllInv'
  BY LookupNextKeepsInv, LookupNextKeepsKeys, NextKeepsAnswers DEF KeyInv
<1> QED
  BY <1>1, <1>2, PTL DEF LookupSpec

\* No lookup that a merge has not disturbed returns a document without the
\* terms, or one that had been replaced before it began: segment.c:104 to 213
\* and merger.c share no lock but that of a bitmap.
THEOREM AnswersSound == LookupSpec => []AnswerSound
<1>1. ASSUME AnswerInv PROVE AnswerSound
  <2> SUFFICES ASSUME NEW r \in Reader, quiet[r] # RACED,
                      NEW d \in Range(docsOut[r])
               PROVE  /\ Range(query[r].terms) \subseteq TermsOf[d]
                      /\ Len(query[r].terms) # 1 /\ d \in seen[r] =>
                           d \in current[r] \/ pkOf[d] \in updated
    BY DEF AnswerSound, AnswerMatches, AnswerNotDeleted
  <2>1. FoundSound(r)
    BY <1>1 DEF AnswerInv, QuietLookups, QuietAt
  <2> QED
    BY <2>1 DEF FoundSound, Terms, NotReplaced
<1> QED
  BY <1>1, AnswerInvHolds, PTL

\* A lookup that could have returned more documents has returned every one
\* that was its key's latest throughout, though segments were put in front of
\* the list and documents added while it followed the next pointers; unless an
\* add to the segment it was in misled it at segment.c:101 or 141.
THEOREM AnswersComplete == LookupSpec => []AnswerComplete
<1>1. ASSUME EngineInv, KeysInv, LookupInv, AnswerInv PROVE AnswerComplete
  <2> SUFFICES ASSUME NEW r \in Reader, rpc[r] = "return", quiet[r] # RACED,
                      ~misled[r], Len(docsOut[r]) < query[r].limit,
                      NEW d \in current[r] \cap Latest,
                      Range(query[r].terms) \subseteq TermsOf[d], ~InDoubt(d)
               PROVE  d \in Range(docsOut[r])
    BY DEF AnswerComplete
  <2>1. SameEngine(r) /\ FoundComplete(r)
    BY <1>1 DEF AnswerInv, QuietLookups, QuietAt
  <2>2. PICK i \in 1..Len(segments) : d \in DocsIn(segments[i])
    BY <1>1, <2>1, LatestInList DEF SameEngine, AnswerInv
  <2>3. d \in Due(r)
    BY DEF Due, Terms
  <2>4. found[r] = << >>
    BY <1>1 DEF LookupInv, HasSegment
  <2>5. FoundSize(r) = Len(docsOut[r])
    <3>1. Len(found[r]) = 0 /\ Len(docsOut[r]) \in Nat
      BY <1>1, <2>4, EmptySeq, QueryType DEF LookupInv
    <3>2. \A a \in Nat : a + 0 = a
      OBVIOUS
    <3> QED
      BY <3>1, <3>2, Zenon DEF FoundSize
  <2>6. ~Ahead(r, i)
    BY DEF Ahead, AtSegment, ToWalk
  <2>7. ~(FoundSize(r) >= query[r].limit)
    <3>1. query[r].limit \in Nat /\ Len(docsOut[r]) \in Nat
      BY <1>1, QueryType DEF LookupInv
    <3>2. \A a, b \in Nat : a < b => ~(a >= b)
      OBVIOUS
    <3> QED
      BY <2>5, <3>1, <3>2
  <2> QED
    BY <2>1, <2>2, <2>3, <2>4, <2>6, <2>7, RangeEmpty DEF FoundComplete
<1> QED
  BY <1>1, AnswerInvHolds, PTL DEF KeyInv

\* The total is right as long as no segment is left without an assignment to
\* it, the limit is not reached and there is not just one term.
THEOREM TotalsExact == LookupSpec => []TotalExact
<1>1. ASSUME AnswerInv PROVE TotalExact
  <2>1. \A r \in Reader : quiet[r] = UNDISTURBED => TotalCounts(r)
    BY <1>1 DEF AnswerInv, QuietLookups, QuietAt, UNDISTURBED, RACED
  <2> QED
    BY <2>1 DEF TotalExact, TotalCounts
<1> QED
  BY <1>1, AnswerInvHolds, PTL

\* The unsigned subtraction of segment.c:119 does not wrap, unless documents
\* have been added since they were counted or a merge is under way: no
\* interleaving of a remove (segment.c:80) with add and lookup counts a bit
\* twice.
THEOREM SubtractionsInOrder == LookupSpec => []SubtractionInOrder
<1>1. ASSUME EngineInv, AnswerInv PROVE SubtractionInOrder
  <2> SUFFICES ASSUME NEW r \in Reader, rpc[r] = "subtract", quiet[r] # RACED,
                      count[r] = Len(docs[rseg[r]])
               PROVE  deleted[rseg[r]] <= count[r]
    BY DEF SubtractionInOrder
  <2>1. merge_stage = 0 /\ rseg[r] \in Listed
    BY <1>1 DEF AnswerInv, QuietLookups, QuietAt, SameEngine, AtSegment, ToWalk
  <2> QED
    BY <1>1, <2>1, ListedCounted
<1> QED
  BY <1>1, AnswerInvHolds, PTL DEF KeyInv

=============================================================================
