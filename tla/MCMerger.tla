------------------------------- MODULE MCMerger -------------------------------
(***************************************************************************)
(* Workloads for TLC.  Every one starts with the requests that bring the   *)
(* engine to its first merge, and goes on with free choices that meet the  *)
(* merge at any of its steps.                                              *)
(***************************************************************************)
EXTENDS KeyInv

A(k) == {[op |-> "add", pk |-> k]}
R(k) == {[op |-> "remove", pk |-> k]}

Free == A(1) \cup A(2) \cup R(1) \cup R(2)

\* One document per segment: after four requests segment 1 is deleted and a
\* merge of 1 and 2 begins.  A(0) is a document ts_document_check refuses.
MCWorkloadMerge ==
  << A(1), A(2), A(3), R(1), Free \cup R(3) \cup A(0), Free, Free >>

MCWorkloadMerge4 == SubSeq(MCWorkloadMerge, 1, 4)
MCWorkloadMerge5 == SubSeq(MCWorkloadMerge, 1, 5)

\* Two documents per segment.  Key 1 is added twice, so that one document of
\* segment 2 outlives one of segment 1; the remove of 2 completes segment 1.
MCWorkloadCapacity ==
  << A(1), A(2), A(3), A(1), A(3), R(2), Free \cup R(3), Free \cup A(3), Free >>

\* A remove recorded by one merge, its key added again, and a later merge.
MCWorkloadStale ==
  << A(1), A(2), A(3), R(1), R(4), A(4), A(5), R(2) >>

\* Segments 3 and 4 merge while the tail lives, then 2 and the merged one.
MCWorkloadHead == << A(1), A(2), A(3), A(4), A(5), R(3), R(2) >>

==============================================================================
