----------------------------- MODULE MergerInv -------------------------------
(***************************************************************************)
(* The inductive invariant behind the theorems of MergerProofs.  TypeOK is *)
(* not inductive alone: that state++ yields VALID and never more, and that *)
(* the segments replace deletes are in the list, needs the hand-shake of   *)
(* the input processor and the merge thread.                               *)
(***************************************************************************)
EXTENDS Merger

\* merge_stage and the place of the merge thread agree, and what they say of
\* the segments it works on.
StagePlace ==
  /\ mpc \in {"clone", "copy", "post"} => merge_stage = 1
  /\ mpc = "posted" => merge_stage \in {1, 3}
  /\ mpc \in {"release2", "release3"} => merge_stage = 3
  /\ mpc = "reposted" => merge_stage \in {4, 6}
  /\ mpc \in {"clone", "copy"} => old \in {mseg1, mseg2}
  /\ mpc # "loop" \/ merge_stage >= 2 => newseg \in Seg

\* The states of the merge thread in which `replace' may be outstanding, and
\* those in which `redelete' may.
ReplacePhase ==
  (mpc = "posted" /\ merge_stage = 1) \/ (mpc = "loop" /\ merge_stage = 2)
RedeletePhase ==
  (mpc = "reposted" /\ merge_stage = 4) \/ (mpc = "loop" /\ merge_stage = 5)

ReplaceRuns == pc \in {"delete1", "delete2", "prepend"}
RedeleteRuns == pc = "redelete"

\* One merger task at most is queued or running, and in its phase only.
OneMergerTask ==
  /\ \A i \in 1..Len(queue) :
       /\ queue[i] = ReplaceTask => ReplacePhase
       /\ queue[i] = RedeleteTask => RedeletePhase
       /\ queue[i] \in MergerTask => ~ReplaceRuns /\ ~RedeleteRuns
  /\ \A i, j \in 1..Len(queue) :
       queue[i] \in MergerTask /\ queue[j] \in MergerTask => i = j
  /\ ReplaceRuns => ReplacePhase
  /\ RedeleteRuns => RedeletePhase

\* The place above the limit is the merger's.
LastPlaceForMerger ==
  /\ Len(queue) <= QUEUE_SIZE_INPUT + 1
  /\ Len(queue) = QUEUE_SIZE_INPUT + 1
       => \E i \in 1..Len(queue) : queue[i] \in MergerTask

\* Documents have a key before their task is queued.
KeysKnown ==
  /\ \A i \in 1..Len(queue) :
       queue[i].kind = "add" => pkOf[queue[i].doc] \in PK
  /\ task.kind = "add" => pkOf[task.doc] \in PK

\* The active segment is the only one written to by the input processor.
ActiveState ==
  /\ segment_active <= nsegs
  /\ pc # "rotate" => state[segment_active] = ACTIVE
  /\ \A s \in Seg : s > nsegs => state[s] = ACTIVE

Lists(s) == \E i \in 1..Len(segments) : segments[i] = s

\* A segment is in the list once, and has been allocated.
ListOfAllocated ==
  /\ \A i, j \in 1..Len(segments) : segments[i] = segments[j] => i = j
  /\ \A i \in 1..Len(segments) : segments[i] <= nsegs

\* Until it is in the list the new segment is the merge thread's alone.
NewPrivate ==
  \/ mpc \in {"clone", "copy", "post"}
  \/ ReplaceRuns
  \/ \E i \in 1..Len(queue) : queue[i] = ReplaceTask

NewSegmentPrivate ==
  NewPrivate =>
    /\ newseg \in Seg
    /\ newseg <= nsegs
    /\ newseg # segment_active
    /\ ~Lists(newseg)
    /\ state[newseg] = ACTIVE

\* The segments being merged are never the active one.
SourcesValid ==
  \A s \in Migrating \ {NoSeg} : state[s] = VALID

\* `replace' is still to come and finds both of its segments in the list.
ReplaceToCome ==
  \/ merge_stage = 1 /\ ~ReplaceRuns
  \/ \E i \in 1..Len(queue) : queue[i] = ReplaceTask
  \/ pc = "delete1"
SourcesListed ==
  /\ ReplaceToCome => mseg1 # mseg2 /\ Lists(mseg1)
  /\ ReplaceToCome \/ pc = "delete2" => Lists(mseg2)

Inv ==
  /\ TypeOK
  /\ StagePlace
  /\ OneMergerTask
  /\ LastPlaceForMerger
  /\ KeysKnown
  /\ ActiveState
  /\ ListOfAllocated
  /\ NewSegmentPrivate
  /\ SourcesValid
  /\ SourcesListed

=============================================================================
