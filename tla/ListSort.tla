------------------------------ MODULE ListSort -------------------------------
(***************************************************************************)
(* The merge sort of lib/utlist.h, for its three kinds of lists, and of    *)
(* lib/uthash.h, for the order in which a table is iterated.  All four are *)
(* the same algorithm on the pointers themselves: passes over the list     *)
(* merge runs of insize elements in pairs, and double insize, until a pass *)
(* has merged one pair.  They differ in the pointers they keep and in how  *)
(* a pass closes the list.                                                 *)
(*                                                                         *)
(* A list is a record: its head list, the pointers next and prev of every  *)
(* element, and tail, which is a field of the table in uthash and a local  *)
(* variable in utlist.  Elements are numbers, key[e] is what cmp compares. *)
(***************************************************************************)
EXTENDS Integers, Sequences, FiniteSets

NIL == 0

Kinds == {"LL", "DL", "CDL", "HASH"}

\* The list of the elements 1..n in this order.
ListOf(kind, n) ==
  [ list |-> IF n = 0 THEN NIL ELSE 1,
    tail |-> n,
    next |-> [e \in 1..n |-> IF e < n THEN e + 1
                             ELSE IF kind = "CDL" THEN 1 ELSE NIL],
    prev |-> [e \in 1..n |-> CASE kind = "LL" -> NIL
                               [] kind = "HASH" -> e - 1
                               [] OTHER -> IF e = 1 THEN n ELSE e - 1] ]

-----------------------------------------------------------------------------
(* A pass.  st holds the list as far as it is built, p and q, the heads of *)
(* the two runs being merged, how many elements are left of each, and the  *)
(* number of merges.  old is the list when the pass began: what has not    *)
(* been taken still has its pointers.                                      *)

\* The element after e, none after the last; a circular list ends where the pass
\* began (_ls_oldhead).
After(kind, old, e) ==
  IF kind = "CDL" /\ old.next[e] = old.list THEN NIL ELSE old.next[e]

\* Where the second run begins, and the length of the first: at most insize.
RECURSIVE SecondRun(_, _, _, _, _)
SecondRun(kind, old, q, size, insize) ==
  LET r == After(kind, old, q)
  IN  IF size + 1 = insize \/ r = NIL
      THEN [q |-> r, psize |-> size + 1]
      ELSE SecondRun(kind, old, r, size + 1, insize)

\* Mutant of TakesSecond: of two equal elements the second run's comes first.
TakesSecondOfEqual(st, key) ==
  \/ st.psize = 0
  \/ st.qsize > 0 /\ st.q # NIL /\ key[st.p] >= key[st.q]

\* The next element comes from the second run: the first one is used up, or has
\* the greater head.
TakesSecond(st, key) ==
  \/ st.psize = 0
  \/ st.qsize > 0 /\ st.q # NIL /\ key[st.p] > key[st.q]

\* e becomes the tail.  A singly linked list has no prev.
Take(kind, st, e) ==
  [st EXCEPT !.list = IF st.tail = NIL THEN e ELSE @,
             !.next = IF st.tail = NIL THEN @ ELSE [@ EXCEPT ![st.tail] = e],
             !.prev = IF kind = "LL" THEN @ ELSE [@ EXCEPT ![e] = st.tail],
             !.tail = e]

RECURSIVE MergeRuns(_, _, _, _)
MergeRuns(kind, old, st, key) ==
  IF st.psize = 0 /\ (st.qsize = 0 \/ st.q = NIL) THEN st
  ELSE IF TakesSecond(st, key)
       THEN MergeRuns(kind, old,
              [Take(kind, st, st.q) EXCEPT !.q = After(kind, old, st.q),
                                           !.qsize = @ - 1], key)
       ELSE MergeRuns(kind, old,
              [Take(kind, st, st.p) EXCEPT !.p = After(kind, old, st.p),
                                           !.psize = @ - 1], key)

RECURSIVE MergePairs(_, _, _, _, _)
MergePairs(kind, old, st, insize, key) ==
  IF st.p = NIL THEN st
  ELSE LET second == SecondRun(kind, old, st.p, 0, insize)
           merged == MergeRuns(kind, old,
             [st EXCEPT !.nmerges = @ + 1, !.q = second.q,
                        !.psize = second.psize, !.qsize = insize], key)
       IN  MergePairs(kind, old, [merged EXCEPT !.p = merged.q], insize, key)

\* How each kind closes the list at the end of a pass.
CloseLL(st)  == [st EXCEPT !.next[st.tail] = NIL]
CloseDL(st)  == [st EXCEPT !.prev[st.list] = st.tail, !.next[st.tail] = NIL]
CloseCDL(st) == [st EXCEPT !.prev[st.list] = st.tail, !.next[st.tail] = st.list]

Close(kind, st) == CASE kind = "DL"  -> CloseDL(st)
                     [] kind = "CDL" -> CloseCDL(st)
                     [] OTHER        -> CloseLL(st)

RECURSIVE Passes(_, _, _, _)
Passes(kind, l, insize, key) ==
  LET begun  == [list |-> NIL, tail |-> NIL, next |-> l.next, prev |-> l.prev,
                 p |-> l.list, q |-> NIL, psize |-> 0, qsize |-> 0,
                 nmerges |-> 0]
      merged == MergePairs(kind, l, begun, insize, key)
      closed == Close(kind, merged)
  IN  IF merged.nmerges <= 1 THEN closed ELSE Passes(kind, closed, 2 * insize, key)

\* The four macros; an empty list is left alone.
LL_SORT(l, key)  == IF l.list = NIL THEN l ELSE Passes("LL", l, 1, key)
DL_SORT(l, key)  == IF l.list = NIL THEN l ELSE Passes("DL", l, 1, key)
CDL_SORT(l, key) == IF l.list = NIL THEN l ELSE Passes("CDL", l, 1, key)
HASH_SRT(l, key) == IF l.list = NIL THEN l ELSE Passes("HASH", l, 1, key)

-----------------------------------------------------------------------------
(* What they are to do.                                                    *)

\* The elements 1..n by their keys, equal ones in the order they had.
StableOrder(key) ==
  LET n == Len(key)
      place(e) == Cardinality({f \in 1..n : \/ key[f] < key[e]
                                            \/ key[f] = key[e] /\ f <= e})
  IN  [i \in 1..n |-> CHOOSE e \in 1..n : place(e) = i]

\* l is the list of the elements of s in this order, with the pointers of its kind.
Links(kind, l, s) ==
  LET n == Len(s)
  IN  /\ l.list = IF n = 0 THEN NIL ELSE s[1]
      /\ n > 0 => l.tail = s[n]
      /\ \A i \in 1..n - 1 : l.next[s[i]] = s[i + 1]
      /\ n > 0 => l.next[s[n]] = IF kind = "CDL" THEN s[1] ELSE NIL
      /\ kind # "LL" => \A i \in 2..n : l.prev[s[i]] = s[i - 1]
      /\ n > 0 /\ kind \in {"DL", "CDL"} => l.prev[s[1]] = s[n]
      /\ n > 0 /\ kind = "HASH" => l.prev[s[1]] = NIL

=============================================================================
