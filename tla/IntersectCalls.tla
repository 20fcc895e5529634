--------------------------- MODULE IntersectCalls ---------------------------
(***************************************************************************)
(* A call of ts_seek_intersect by a lookup: the posting lists of the terms *)
(* it asks for, each in the order of its ids, and the ids whose bit is set *)
(* in the bitmap it has cloned.                                            *)
(***************************************************************************)
EXTENDS Intersect

CONSTANTS MaxId,    \* bound: the largest doc_id in a posting list
          MaxLists  \* bound: the terms of a lookup
ASSUME PostingsAssumption == MaxId \in Nat /\ MaxLists \in Nat

VARIABLES postings, excluded

postingVars == << postings, excluded >>

\* The id a pointer points to.
IdOf == [p \in 1..MaxId |-> p]

ByIds(list, id) == \A i, j \in 1..Len(list) : i < j => id[list[i]] < id[list[j]]

OrderedLists ==
  {list \in UNION {[1..n -> 1..MaxId] : n \in 0..MaxId} : ByIds(list, IdOf)}

PostingsInit == postings = << >> /\ excluded = {}

DrawLists ==
  /\ postings = << >>
  /\ \E n \in 2..MaxLists : postings' \in [1..n -> OrderedLists]
  /\ excluded' \in SUBSET (1..MaxId)

PostingsSpec == PostingsInit /\ [][DrawLists]_postingVars

\* The intersection of posting lists in order is what they have in common and
\* the bitmap does not exclude, in order and once (intersect.c:39).
IntersectExact ==
  postings # << >> =>
    LET found == SeekIntersect(postings, IdOf, excluded)
    IN  /\ ByIds(found, IdOf)
        /\ {found[i] : i \in 1..Len(found)} = Common(postings, IdOf, excluded)

==============================================================================
