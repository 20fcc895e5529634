------------------------------ MODULE AnswerInv -------------------------------
(***************************************************************************)
(* What holds of the answer of a lookup half-way through the list, as long *)
(* as no merge has been under way since it began: the invariant behind the *)
(* theorems of AnswerProofs.  It is inductive together with EngineInv,     *)
(* KeysInv and LookupInv.                                                  *)
(*                                                                         *)
(* Without a merge documents stay where they are, keep their ids and are   *)
(* never unmarked, and the list grows at its head only; so a lookup that   *)
(* follows the next pointers meets every segment that was there when it    *)
(* began, and what it remembers of a segment stays true.                   *)
(***************************************************************************)
EXTENDS LookupInv, KeyInv

AnswerTypeOK ==
  /\ bits \in [Reader -> SUBSET Nat]
  /\ count \in [Reader -> Nat]
  /\ total \in [Reader -> Int]
  /\ totalOut \in [Reader -> Int]
  /\ quiet \in [Reader -> {RACED, UNMERGED, UNDISTURBED}]
  /\ early \in [Reader -> BOOLEAN]
  /\ misled \in [Reader -> BOOLEAN]
  /\ seen \in [Reader -> SUBSET Doc]
  /\ current \in [Reader -> SUBSET Doc]

\* A handler that walks the list has a task.
HandlerHasTask == pc \in {"rotate", "scan"} => task.kind \in {"add", "remove"}

\* A lookup begins with an empty response.
IdleClear ==
  \A r \in Reader : rpc[r] = "idle" => docsOut[r] = << >> /\ totalOut[r] = 0

\* The next pointers of the segments in the list are the list.
NextFollows ==
  \A i \in 1..Len(segments) :
    next[segments[i]] = IF i < Len(segments) THEN segments[i + 1] ELSE NoSeg

-----------------------------------------------------------------------------
(* A lookup without a merge.                                               *)

Terms(r) == Range(query[r].terms)

\* Where the lookup has its segment still to walk, and has it at all.
ToWalk     == {"enter", "check", "compare", "clone", "count", "subtract",
               "walk"}
AtSegment  == ToWalk \cup {"leave", "advance"}

\* What was there when it began is there, and what was replaced stays so.
SameEngine(r) ==
  /\ merge_stage = 0
  /\ rpc[r] # "idle"
  /\ rpc[r] \in AtSegment => rseg[r] \in Listed
  /\ current[r] \subseteq seen[r]
  /\ seen[r] \subseteq Added
  /\ seen[r] \ current[r] \subseteq Superseded

\* A document that may be in the answer for what the bitmaps say.
NotReplaced(r, d) ==
  d \in seen[r] => d \in current[r] \/ pkOf[d] \in updated

\* All documents found so far have the terms, and none had been replaced.
FoundSound(r) ==
  /\ \A d \in Range(found[r]) \cup Range(docsOut[r]) :
       /\ Terms(r) \subseteq TermsOf[d]
       /\ Len(query[r].terms) # 1 => NotReplaced(r, d)
  /\ HasBits(r) =>
       \A d \in DocsIn(rseg[r]) : docId[d] \notin bits[r] => NotReplaced(r, d)

\* The documents the answer must have.
Due(r) ==
  {d \in current[r] \cap Latest : Terms(r) \subseteq TermsOf[d] /\ ~InDoubt(d)}

FoundSize(r) == Len(docsOut[r]) + Len(found[r])

\* The lookup has place i of the list before it.
Ahead(r, i) ==
  \E j \in 1..Len(segments) :
    /\ segments[j] = rseg[r]
    /\ \/ rpc[r] \in ToWalk /\ j <= i
       \/ rpc[r] \in AtSegment /\ j < i

\* A document that is due has been found, or will be met, or there is no room
\* for it.
FoundComplete(r) ==
  /\ \A d \in Due(r) : \A i \in 1..Len(segments) : d \in DocsIn(segments[i]) =>
       \/ d \in Range(found[r]) \cup Range(docsOut[r])
       \/ Ahead(r, i)
       \/ FoundSize(r) >= query[r].limit
  /\ HasBits(r) =>
       \A d \in Due(r) : d \in DocsIn(rseg[r]) => docId[d] \notin bits[r]

\* If nothing has changed at all, the total counts the documents found.
TotalCounts(r) ==
  quiet[r] = UNDISTURBED /\ ~early[r] /\ Len(query[r].terms) # 1 =>
    /\ HasBits(r) => bits[r] = deletion[rseg[r]]
    /\ rpc[r] = "subtract" => count[r] = Len(docs[rseg[r]])
    /\ rpc[r] = "walk" /\ query[r].terms = << >>
         => total[r] = Len(docs[rseg[r]]) - deleted[rseg[r]]
    /\ rpc[r] = "leave" /\ FoundSize(r) < query[r].limit
         => total[r] = Len(found[r])
    /\ Len(docsOut[r]) < query[r].limit => totalOut[r] = Len(docsOut[r])

QuietAt(r) ==
  quiet[r] # RACED =>
    /\ SameEngine(r)
    /\ FoundSound(r)
    /\ ~misled[r] => FoundComplete(r)
    /\ TotalCounts(r)
QuietLookups == \A r \in Reader : QuietAt(r)

AnswerInv ==
  /\ AnswerTypeOK
  /\ HandlerHasTask
  /\ IdleClear
  /\ NextFollows
  /\ QuietLookups

=============================================================================
