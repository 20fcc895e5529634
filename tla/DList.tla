-------------------------------- MODULE DList --------------------------------
(***************************************************************************)
(* The doubly linked list of lib/utlist.h.  The head's prev pointer leads  *)
(* to the tail, the tail's next pointer is NULL.  One action per macro,    *)
(* each of them applied to the pointers as they are: that they make a list *)
(* is what is shown.                                                       *)
(*                                                                         *)
(* The engine puts its first segment in the list without a macro           *)
(* (engine.c:24), with both pointers NULL, and goes on with DL_PREPEND and *)
(* DL_DELETE.                                                              *)
(***************************************************************************)
EXTENDS Naturals, Sequences, FiniteSets

CONSTANT ListElem
ASSUME ListElemAssumption == ListElem \subseteq Nat \ {0}

NULLP == 0

VARIABLES lhead,     \* the user's head pointer
          lprev,     \* prev of every element
          lnext,     \* next of every element
          inList,    \* history: the elements in the list
          byHand,    \* the first element came by hand and is there
          lfailed    \* an assertion of DL_DELETE has failed

listVars == << lhead, lprev, lnext, inList, byHand, lfailed >>

ListInit ==
  /\ lprev = [e \in ListElem |-> NULLP]
  /\ lnext = [e \in ListElem |-> NULLP]
  /\ \/ lhead = NULLP /\ inList = {} /\ byHand = FALSE
     \/ lhead \in ListElem /\ inList = {lhead} /\ byHand = TRUE
  /\ lfailed = FALSE

New(e) == ~lfailed /\ e \notin inList /\ inList' = inList \cup {e}

DL_PREPEND(e) ==
  /\ New(e)
  /\ lnext' = [lnext EXCEPT ![e] = lhead]
  /\ lprev' = IF lhead = NULLP THEN [lprev EXCEPT ![e] = e]
              ELSE [lprev EXCEPT ![e] = lprev[lhead], ![lhead] = e]
  /\ lhead' = e
  /\ UNCHANGED << byHand, lfailed >>

DL_APPEND(e) ==
  /\ ~byHand
  /\ New(e)
  /\ IF lhead = NULLP
     THEN /\ lhead' = e
          /\ lprev' = [lprev EXCEPT ![e] = e]
          /\ lnext' = [lnext EXCEPT ![e] = NULLP]
     ELSE /\ lprev' = [lprev EXCEPT ![e] = lprev[lhead], ![lhead] = e]
          /\ lnext' = [lnext EXCEPT ![lprev[lhead]] = e, ![e] = NULLP]
          /\ UNCHANGED lhead
  /\ UNCHANGED << byHand, lfailed >>

\* DL_PREPEND_ELEM(head, at, e)
DL_PREPEND_ELEM(at, e) ==
  /\ ~byHand
  /\ at \in inList
  /\ New(e)
  /\ lprev' = [lprev EXCEPT ![e] = lprev[at], ![at] = e]
  /\ lnext' = IF lhead = at THEN [lnext EXCEPT ![e] = at]
              ELSE [lnext EXCEPT ![e] = at, ![lprev[at]] = e]
  /\ lhead' = IF lhead = at THEN e ELSE lhead
  /\ UNCHANGED << byHand, lfailed >>

\* DL_REPLACE_ELEM(head, e, by)
DL_REPLACE_ELEM(e, by) ==
  /\ ~byHand /\ ~lfailed
  /\ e \in inList /\ by \notin inList
  /\ inList' = (inList \ {e}) \cup {by}
  /\ LET last == lnext[e] = NULLP
         before == IF lhead = e /\ last THEN by ELSE lprev[e]
     IN  /\ lprev' = IF last THEN [lprev EXCEPT ![by] = before,
                                    ![IF lhead = e THEN by ELSE lhead] = by]
                     ELSE [lprev EXCEPT ![by] = before, ![lnext[e]] = by]
         /\ lnext' = IF lhead = e THEN [lnext EXCEPT ![by] = lnext[e]]
                     ELSE [lnext EXCEPT ![by] = lnext[e], ![lprev[e]] = by]
  /\ lhead' = IF lhead = e THEN by ELSE lhead
  /\ UNCHANGED << byHand, lfailed >>

\* The branches of DL_DELETE: the only element, the head, the others.
DeleteOnlyElem(e) ==
  /\ lhead' = NULLP
  /\ UNCHANGED << lprev, lnext >>

DeleteHead(e) ==
  /\ lprev' = [lprev EXCEPT ![lnext[e]] = lprev[e]]
  /\ lhead' = lnext[e]
  /\ UNCHANGED lnext

\* Mutant of DeleteInner: the head's prev is not set when the tail goes.
DeleteInnerKeepTail(e) ==
  /\ lnext' = [lnext EXCEPT ![lprev[e]] = lnext[e]]
  /\ lprev' = IF lnext[e] # NULLP THEN [lprev EXCEPT ![lnext[e]] = lprev[e]]
              ELSE lprev
  /\ UNCHANGED lhead

DeleteInner(e) ==
  /\ lnext' = [lnext EXCEPT ![lprev[e]] = lnext[e]]
  /\ lprev' = [lprev EXCEPT ![IF lnext[e] # NULLP THEN lnext[e] ELSE lhead] =
                 lprev[e]]
  /\ UNCHANGED lhead

\* DL_DELETE(head, e); e keeps its pointers.
DL_DELETE(e) ==
  /\ ~lfailed
  /\ e \in inList
  /\ IF lprev[e] = NULLP
     THEN lfailed' = TRUE /\ UNCHANGED << lhead, lprev, lnext, inList >>
     ELSE /\ CASE lprev[e] = e -> DeleteOnlyElem(e)
               [] lprev[e] # e /\ e = lhead -> DeleteHead(e)
               [] OTHER -> DeleteInner(e)
          /\ inList' = inList \ {e}
          /\ UNCHANGED lfailed
  /\ UNCHANGED byHand

ListNext ==
  \E e \in ListElem :
    \/ DL_PREPEND(e)
    \/ DL_APPEND(e)
    \/ DL_DELETE(e)
    \/ \E f \in ListElem : DL_PREPEND_ELEM(f, e) \/ DL_REPLACE_ELEM(f, e)

ListSpec == ListInit /\ [][ListNext]_listVars

-----------------------------------------------------------------------------

\* What DL_FOREACH visits.
Walked ==
  LET from[n \in 0..Cardinality(inList)] ==
        [e \in ListElem \cup {NULLP} |->
           IF e = NULLP \/ n = 0 THEN << >> ELSE << e >> \o from[n - 1][lnext[e]]]
  IN  from[Cardinality(inList)][lhead]

TailKnown == lhead = NULLP \/ lprev[lhead] # NULLP

\* What the list of segments is taken for in Merger: the elements DL_FOREACH
\* visits, and whether the head's prev pointer is set.
AsSegmentList == INSTANCE SegmentList
  WITH Elem <- ListElem, lst <- Walked, known <- TailKnown, failed <- lfailed

\* The macros, applied to a list that began empty or by hand, do to the
\* pointers what SegmentList says, the failing assertion included.
ListImplementsSequence == AsSegmentList!Spec

=============================================================================
