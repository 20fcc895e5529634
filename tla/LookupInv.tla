------------------------------ MODULE LookupInv -------------------------------
(***************************************************************************)
(* What the lookups add to the inductive invariant of the engine: the      *)
(* counters of the segments are the lookups inside of them, and a segment  *)
(* that a lookup found in the list stays in it or with the merge thread,   *)
(* which frees it only when the counter is zero.                           *)
(***************************************************************************)
EXTENDS Lookup, DocInv

ReaderTypeOK ==
  /\ next \in [Seg -> Seg \cup {NoSeg}]
  /\ rpc \in [Reader -> {"idle", "enter", "check", "compare", "clone", "count",
                         "subtract", "walk", "leave", "advance", "return"}]
  /\ rseg \in [Reader -> Seg \cup {NoSeg}]
  /\ query \in [Reader -> Query \cup {NoQuery}]
  /\ found \in [Reader -> Seq(Doc)]
  /\ docsOut \in [Reader -> Seq(Doc)]
  /\ listed \in [Reader -> BOOLEAN]

\* The places where a lookup holds a pointer to a segment, and a result.
HasSegment ==
  \A r \in Reader :
    /\ rpc[r] \in {"enter", "advance"} \/ Inside(r) => rseg[r] \in Seg
    /\ rpc[r] # "leave" => found[r] = << >>

\* The counter of a segment is exact.
InsideOf(s) == {r \in Reader : Inside(r) /\ rseg[r] = s}
CountsInside == \A s \in Seg : processes[s] = Cardinality(InsideOf(s))

\* A segment entered while it was in the list is still there, or being merged,
\* and the documents found are its documents.
EnteredKept ==
  \A r \in Reader : Inside(r) /\ listed[r] =>
    /\ rseg[r] \in Listed \cup Sources
    /\ Range(found[r]) \subseteq DocsIn(rseg[r])

LookupInv == ReaderTypeOK /\ HasSegment /\ CountsInside /\ EnteredKept

=============================================================================
