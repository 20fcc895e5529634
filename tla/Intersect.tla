------------------------------ MODULE Intersect ------------------------------
(***************************************************************************)
(* intersect.c: the documents that several posting lists have in common.   *)
(* A list is a sequence of pointers to doc ids; id[p] is what p points to, *)
(* and removed the set of ids whose bit is set in the bitmap the lookup    *)
(* has cloned.  The lists are taken to be ordered by id (intersect.c:3);   *)
(* what the code computes when they are not is defined all the same.       *)
(***************************************************************************)
EXTENDS Naturals, Sequences

\* Mutant of LinearIntersect: both lists advance together.
LinearIntersectInStep(a, b, id, removed) ==
  LET from[i \in 1..(Len(a) + 1)] ==
        IF i > Len(a) \/ i > Len(b) THEN << >>
        ELSE (IF id[a[i]] = id[b[i]] /\ id[a[i]] \notin removed
              THEN << a[i] >> ELSE << >>) \o from[i + 1]
  IN  from[1]

\* linear_intersect: the list behind with the smaller id advances.
LinearIntersect(a, b, id, removed) ==
  LET from[p \in (1..(Len(a) + 1)) \X (1..(Len(b) + 1))] ==
        LET i == p[1]
            j == p[2]
        IN  IF i > Len(a) \/ j > Len(b) THEN << >>
            ELSE IF id[a[i]] < id[b[j]] THEN from[<< i + 1, j >>]
            ELSE IF id[a[i]] > id[b[j]] THEN from[<< i, j + 1 >>]
            ELSE (IF id[a[i]] \notin removed THEN << a[i] >> ELSE << >>)
                   \o from[<< i + 1, j + 1 >>]
  IN  from[<< 1, 1 >>]

\* ts_seek_intersect without its limit: the two containers of the double
\* buffer are the accumulator of a fold over the lists.  An empty
\* intersection stays empty, where the code leaves the loop.
SeekIntersect(lists, id, removed) ==
  LET upto[n \in 1..Len(lists)] ==
        IF n = 1 THEN lists[1]
                 ELSE LinearIntersect(upto[n - 1], lists[n], id, removed)
  IN  upto[Len(lists)]

\* The reference: the elements of every list that are not removed.
Common(lists, id, removed) ==
  {p \in {lists[1][i] : i \in 1..Len(lists[1])} :
     /\ id[p] \notin removed
     /\ \A n \in 2..Len(lists) : \E i \in 1..Len(lists[n]) : lists[n][i] = p}

=============================================================================
