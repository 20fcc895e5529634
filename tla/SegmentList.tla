----------------------------- MODULE SegmentList -----------------------------
(***************************************************************************)
(* A list of distinct elements as the engine sees it: a sequence, and      *)
(* whether its head knows the tail.  Merger keeps the list of segments in  *)
(* this form (segments, headPrev); DList shows that the macros of utlist.h *)
(* implement it.                                                           *)
(***************************************************************************)
EXTENDS Naturals, Sequences

CONSTANT Elem

VARIABLES lst,      \* the elements, head first
          known,    \* the head's prev pointer leads to the tail
          failed    \* an assertion has failed

In(e) == \E i \in 1..Len(lst) : lst[i] = e
Place(e) == CHOOSE i \in 1..Len(lst) : lst[i] = e
Before(e) == SubSeq(lst, 1, Place(e) - 1)
After(e)  == SubSeq(lst, Place(e) + 1, Len(lst))

\* Empty, or one element put there by hand (engine.c:24).
Init ==
  /\ \/ lst = << >> /\ known = TRUE
     \/ known = FALSE /\ \E e \in Elem : lst = << e >>
  /\ failed = FALSE

AddFirst(e) ==
  /\ ~In(e)
  /\ lst' = << e >> \o lst
  /\ UNCHANGED << known, failed >>

AddLast(e) ==
  /\ known /\ ~In(e)
  /\ lst' = lst \o << e >>
  /\ UNCHANGED << known, failed >>

InsertBefore(e, at) ==
  /\ known /\ ~In(e) /\ In(at)
  /\ lst' = Before(at) \o << e, at >> \o After(at)
  /\ UNCHANGED << known, failed >>

Replace(e, by) ==
  /\ known /\ In(e) /\ ~In(by)
  /\ lst' = Before(e) \o << by >> \o After(e)
  /\ UNCHANGED << known, failed >>

\* The head is deleted through its prev pointer; deleting the tail sets it.
Delete(e) ==
  /\ In(e)
  /\ IF e = Head(lst) /\ ~known
     THEN failed' = TRUE /\ UNCHANGED << lst, known >>
     ELSE /\ lst' = Before(e) \o After(e)
          /\ known' = (known \/ Place(e) = Len(lst))
          /\ UNCHANGED failed

Next ==
  /\ ~failed
  /\ \E e, f \in Elem : \/ AddFirst(e)
                        \/ AddLast(e)
                        \/ InsertBefore(e, f)
                        \/ Replace(e, f)
                        \/ Delete(e)

Spec == Init /\ [][Next]_<< lst, known, failed >>

=============================================================================
