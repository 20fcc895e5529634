------------------------------- MODULE MCLookup -------------------------------
(***************************************************************************)
(* Workloads and requests for the lookups.                                 *)
(***************************************************************************)
EXTENDS Lookup

A(k) == {[op |-> "add", pk |-> k]}
R(k) == {[op |-> "remove", pk |-> k]}

\* Two documents per segment.  Adding 1 and 2 again deletes all of segment 1,
\* the fifth document fills segment 2: segments 1 and 2 merge, and the last
\* request comes before, during or after that.
MCWorkloadLookup ==
  << A(1), A(2), A(1), A(2), A(3), A(1) \cup R(2) >>

\* Fields of the documents.  The last one brings a term to segment 3.
MCTermsOf ==
  [d \in Doc |-> CASE d = 1 -> {"a"}
                   [] d = 2 -> {"a", "b"}
                   [] d = 3 -> {"a", "b"}
                   [] d = 4 -> {"b"}
                   [] d = 5 -> {"a"}
                   [] OTHER -> {"a", "b"}]

Ask(terms, limit) == [terms |-> terms, limit |-> limit]

MCQuery ==
  { Ask(<< >>, 3), Ask(<< "a" >>, 4), Ask(<< "a", "b" >>, 3), Ask(<< >>, 5) }

\* The requests before the last come one at a time: how clients interleave is
\* engine_merge's question.
MCClient ==
  /\ issued < MaxDoc - 1 => queue = << >> /\ pc = "idle"
  /\ ClientStepL

MCBegin(r) ==
  /\ issued >= MaxDoc - 1 /\ pc = "idle"
  /\ \E q \in Query : BeginLookup(r, q) \/ RejectLookup(r, q)

\* A poll of the empty queue changes nothing a lookup reads: there is none once
\* the lookup has begun.
MCInput ==
  /\ nlookups > 0 /\ pc = "idle" => queue # << >>
  /\ InputStepL

MCNext ==
  \/ MCClient
  \/ MCInput
  \/ MergeThreadL
  \/ \E r \in Reader : MCBegin(r) \/ LookupStep(r)

MCFairness ==
  /\ WF_allVars(MCInput)
  /\ WF_allVars(MergeThreadL)
  /\ \A r \in Reader : WF_allVars(LookupStep(r))

MCSpec == Init /\ LookupInit /\ [][MCNext]_allVars /\ MCFairness

==============================================================================
