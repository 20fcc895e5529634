---------------------------- MODULE MergerProofs ----------------------------
(***************************************************************************)
(* Theorems about the engine and its merger, for every number of keys,     *)
(* documents and segments, every workload and every capacity.  Inv, of     *)
(* MergerInv, is shown to be inductive: one lemma per group of actions,    *)
(* one step per action, under it one per conjunct the action disturbs.     *)
(***************************************************************************)
EXTENDS MergerInv, TLAPS, FiniteSetTheorems, SequenceTheorems

States == {ACTIVE, VALID}

\* NewSegmentPrivate is expanded together with its condition.
USE DEF NewPrivate

\* state++ on an ACTIVE segment makes it VALID and no other.
LEMMA PromoteType ==
  ASSUME state \in [Seg -> States], NEW s \in Seg, state[s] = ACTIVE,
         Promote(s)
  PROVE  /\ state' \in [Seg -> States]
         /\ state'[s] = VALID
         /\ \A u \in Seg \ {s} : state'[u] = state[u]
  BY DEF Promote, States, ACTIVE, VALID

\* A document added to a segment leaves the mappings and the ids well typed.
LEMMA AddDocumentType ==
  ASSUME docs \in [Seg -> Seq(Doc)], docId \in [Doc -> Nat],
         NEW s \in Seg, NEW d \in Doc, AddDocument(s, d)
  PROVE  docs' \in [Seg -> Seq(Doc)] /\ docId' \in [Doc -> Nat]
<1>1. docs[s] \in Seq(Doc)
  OBVIOUS
<1>2. Append(docs[s], d) \in Seq(Doc) /\ Len(docs[s]) + 1 \in Nat
  BY <1>1
<1>3. docs' = [docs EXCEPT ![s] = Append(docs[s], d)]
  BY DEF AddDocument
<1>4. docId' = [docId EXCEPT ![d] = Len(docs[s]) + 1]
  BY DEF AddDocument
<1> QED
  BY <1>2, <1>3, <1>4

\* The ids of all documents are finitely many.
LEMMA FiniteIds ==
  ASSUME docId \in [Doc -> Nat]
  PROVE  IsFiniteSet({docId[d] : d \in Doc})
<1>1. IsFiniteSet(Doc)
  BY MaxDocAssumption, FS_Interval DEF Doc
<1>2. docId \in Surjection(Doc, {docId[d] : d \in Doc})
  BY DEF Surjection
<1> QED
  BY <1>1, <1>2, FS_Surjection

\* A segment lists documents.
LEMMA DocsInType ==
  ASSUME docs \in [Seg -> Seq(Doc)], NEW s \in Seg
  PROVE  DocsIn(s) \subseteq Doc
<1>1. docs[s] \in Seq(Doc)
  OBVIOUS
<1> QED
  BY <1>1 DEF DocsIn, Range

\* The documents of a key are documents.
LEMMA OfKeyType ==
  ASSUME docs \in [Seg -> Seq(Doc)], NEW s \in Seg, NEW k
  PROVE  OfKey(s, k) \in SUBSET Doc
  BY DocsInType DEF OfKey

RemovalType ==
  [at : {"test", "set"}, seg : Seg, doc : Doc, id : Nat, todo : SUBSET Doc]

\* The remove goes on to a document or is done.
LEMMA VisitType ==
  ASSUME docId \in [Doc -> Nat], NEW s \in Seg, NEW D \in SUBSET Doc,
         Visit(s, D)
  PROVE  removal' \in RemovalType \cup {NoRemoval}
<1>1. CASE removal' = NoRemoval
  BY <1>1
<1>2. CASE \E d \in D :
             removal' = [at |-> "test", seg |-> s, doc |-> d, id |-> docId[d],
                         todo |-> D \ {d}]
  <2>1. PICK d \in D :
          removal' = [at |-> "test", seg |-> s, doc |-> d, id |-> docId[d],
                      todo |-> D \ {d}]
    BY <1>2
  <2>2. d \in Doc /\ docId[d] \in Nat /\ D \ {d} \in SUBSET Doc
    OBVIOUS
  <2> QED
    BY <2>1, <2>2 DEF RemovalType
<1> QED
  BY <1>1, <1>2 DEF Visit

\* Ids read while they change are numbers still.
LEMMA TornType ==
  ASSUME NEW a \in Nat, NEW b \in Nat
  PROVE  Torn(a, b) \in SUBSET Nat
<1>1. ASSUME NEW x \in Nat, NEW y \in Nat
      PROVE  BYTE * (x \div BYTE) + (y % BYTE) \in Nat
  <2>1. x \div BYTE \in Nat /\ y % BYTE \in Nat /\ BYTE \in Nat
    BY ByteAssumption
  <2>2. BYTE * (x \div BYTE) \in Nat
    BY <2>1
  <2> QED
    BY <2>1, <2>2
<1>2. ASSUME NEW t \in Torn(a, b) PROVE t \in Nat
  <2>1. PICK x \in {a, b}, y \in {a, b} :
          t = BYTE * (x \div BYTE) + (y % BYTE)
    BY DEF Torn
  <2> QED
    BY <1>1, <2>1
<1> QED
  BY <1>2

\* An id that does not change is read as it is.
LEMMA TornStable ==
  ASSUME NEW a \in Nat
  PROVE  Torn(a, a) = {a}
<1>1. BYTE * (a \div BYTE) + (a % BYTE) = a
  BY ByteAssumption
<1> QED
  BY <1>1 DEF Torn

\* The ids a remove finds under a key are finitely many numbers.
LEMMA UndeletedType ==
  ASSUME docs \in [Seg -> Seq(Doc)], docId \in [Doc -> Nat],
         NEW s \in Seg, NEW k
  PROVE  Undeleted(s, k) \in SUBSET {docId[d] : d \in Doc}
  BY OfKeyType DEF Undeleted

\* A bitmap and its counter stay well typed when ids of documents are added.
LEMMA DeletionType ==
  ASSUME docId \in [Doc -> Nat], deletion \in [Seg -> SUBSET Nat],
         deleted \in [Seg -> Nat], NEW s \in Seg,
         NEW ids \in SUBSET {docId[d] : d \in Doc},
         deletion' = [deletion EXCEPT ![s] = @ \cup ids],
         deleted' = [deleted EXCEPT ![s] = @ + Cardinality(ids)]
  PROVE  deletion' \in [Seg -> SUBSET Nat] /\ deleted' \in [Seg -> Nat]
<1>1. ids \subseteq Nat
  OBVIOUS
<1>2. Cardinality(ids) \in Nat
  BY FiniteIds, FS_Subset, FS_CardinalityType
<1>3. deletion[s] \cup ids \in SUBSET Nat
  BY <1>1
<1>4. deleted[s] + Cardinality(ids) \in Nat
  BY <1>2
<1> QED
  BY <1>3, <1>4

\* The documents of add tasks are documents.
LEMMA TaskDoc == \A t \in Task : t.kind = "add" => t.doc \in Doc
  BY DEF Task, ClientTask, MergerTask, AddTask, RemoveTask, ReplaceTask,
         RedeleteTask

\* What the queue takes in goes to its end; only a forced task is above the
\* limit.
LEMMA EnqueueFacts ==
  ASSUME queue \in Seq(Task), NEW t \in Task, NEW force, Q!Enqueue(t, force)
  PROVE  /\ queue' \in Seq(Task)
         /\ Len(queue) \in Nat
         /\ Len(queue') = Len(queue) + 1
         /\ \A i \in 1..Len(queue) : queue'[i] = queue[i]
         /\ queue'[Len(queue) + 1] = t
         /\ force \/ Len(queue) < QUEUE_SIZE_INPUT
<1>1. queue' = Append(queue, t)
  BY DEF Q!Enqueue
<1>2. force \/ Len(queue) < QUEUE_SIZE_INPUT
  BY QueueSizeAssumption DEF Q!Enqueue, Q!Full
<1> QED
  BY <1>1, <1>2, AppendProperties

\* What the queue hands out is its oldest task.
LEMMA TakeFacts ==
  ASSUME queue \in Seq(Task), NEW t, Take(t)
  PROVE  /\ pc = "idle"
         /\ t \in Task
         /\ task' = t
         /\ Len(queue) \in Nat /\ Len(queue) >= 1
         /\ t = queue[1]
         /\ queue' \in Seq(Task)
         /\ Len(queue') = Len(queue) - 1
         /\ \A i \in 1..Len(queue') :
              queue'[i] = queue[i + 1] /\ i + 1 \in 1..Len(queue)
<1>1. queue # << >> /\ t = Head(queue) /\ queue' = Tail(queue)
  BY DEF Take, Q!Dequeue
<1>2. Len(queue) \in Nat /\ Len(queue) >= 1 /\ Head(queue) = queue[1]
  BY <1>1
<1>3. /\ t \in Task
      /\ queue' \in Seq(Task)
      /\ Len(queue') = Len(queue) - 1
      /\ \A i \in 1..Len(queue') : queue'[i] = queue[i + 1]
  BY <1>1, HeadTailProperties
<1> QED
  BY <1>1, <1>2, <1>3 DEF Take

\* Taking a task leaves at most one of the merger's in the queue, and none when
\* it is the one taken.
LEMMA TakeKeepsOne ==
  ASSUME OneMergerTask, queue \in Seq(Task), NEW t, Take(t)
  PROVE  /\ \A i \in 1..Len(queue') :
              /\ queue'[i] = ReplaceTask => ReplacePhase
              /\ queue'[i] = RedeleteTask => RedeletePhase
              /\ queue'[i] \in MergerTask => t \notin MergerTask
         /\ \A i, j \in 1..Len(queue') :
              queue'[i] \in MergerTask /\ queue'[j] \in MergerTask => i = j
         /\ t = ReplaceTask => ReplacePhase
         /\ t = RedeleteTask => RedeletePhase
<1>1. /\ Len(queue') \in Nat /\ Len(queue') = Len(queue) - 1
      /\ 1 \in 1..Len(queue) /\ t = queue[1]
  BY TakeFacts
<1>2. ASSUME NEW i \in 1..Len(queue')
      PROVE  queue'[i] = queue[i + 1] /\ i + 1 \in 1..Len(queue) /\ i + 1 # 1
  BY <1>1, TakeFacts
<1>3. ASSUME NEW i \in 1..Len(queue')
      PROVE  /\ queue'[i] = ReplaceTask => ReplacePhase
             /\ queue'[i] = RedeleteTask => RedeletePhase
             /\ queue'[i] \in MergerTask => t \notin MergerTask
  BY <1>1, <1>2 DEF OneMergerTask
<1>4. ASSUME NEW i \in 1..Len(queue'), NEW j \in 1..Len(queue'),
             queue'[i] \in MergerTask, queue'[j] \in MergerTask
      PROVE  i = j
  <2>1. i + 1 = j + 1
    BY <1>2, <1>4 DEF OneMergerTask
  <2> QED
    BY <1>1, <2>1
<1> QED
  BY <1>1, <1>3, <1>4 DEF OneMergerTask

\* DL_PREPEND: the list one longer, with s at its head.
LEMMA PrependList ==
  ASSUME segments \in Seq(Seg), NEW s \in Seg, segments' = << s >> \o segments
  PROVE  /\ segments' \in Seq(Seg)
         /\ Len(segments') = Len(segments) + 1
         /\ segments'[1] = s
         /\ \A i \in 2..Len(segments') : segments'[i] = segments[i - 1]
         /\ \A i \in 1..Len(segments) : segments[i] = segments'[i + 1]
<1>1. << s >> \in Seq(Seg) /\ Len(<< s >>) = 1 /\ << s >>[1] = s
  OBVIOUS
<1> QED
  BY <1>1, ConcatProperties

\* DL_DELETE: the list without its i-th segment.
LEMMA RemoveAtList ==
  ASSUME NEW seq \in Seq(Seg), NEW i \in 1..Len(seq)
  PROVE  /\ RemoveAt(seq, i) \in Seq(Seg)
         /\ Len(RemoveAt(seq, i)) = Len(seq) - 1
         /\ \A j \in 1..Len(seq) - 1 :
              RemoveAt(seq, i)[j] = IF j < i THEN seq[j] ELSE seq[j + 1]
<1> DEFINE a == SubSeq(seq, 1, i - 1)
           b == SubSeq(seq, i + 1, Len(seq))
<1>0. Len(seq) \in Nat /\ i \in Nat /\ i >= 1 /\ i <= Len(seq)
  OBVIOUS
<1>1. /\ a \in Seq(Seg)
      /\ Len(a) = i - 1
      /\ \A j \in 1..i - 1 : a[j] = seq[j]
  BY <1>0, SubSeqProperties, ElementOfSeq
<1>2. /\ b \in Seq(Seg)
      /\ Len(b) = Len(seq) - i
      /\ \A j \in 1..Len(seq) - i : b[j] = seq[i + j]
  BY <1>0, SubSeqProperties, ElementOfSeq
<1> HIDE DEF a, b
<1>3. /\ a \o b \in Seq(Seg)
      /\ Len(a \o b) = Len(seq) - 1
      /\ \A j \in 1..Len(seq) - 1 :
           (a \o b)[j] = IF j <= i - 1 THEN a[j] ELSE b[j - (i - 1)]
  <2>1. /\ a \o b \in Seq(Seg)
        /\ Len(a \o b) = Len(a) + Len(b)
        /\ \A j \in 1..Len(a) + Len(b) :
             (a \o b)[j] = IF j <= Len(a) THEN a[j] ELSE b[j - Len(a)]
    BY <1>1, <1>2, ConcatProperties
  <2>2. Len(a) + Len(b) = Len(seq) - 1
    BY <1>0, <1>1, <1>2
  <2> QED
    BY <1>1, <2>1, <2>2
<1>4. ASSUME NEW j \in 1..Len(seq) - 1
      PROVE  (a \o b)[j] = IF j < i THEN seq[j] ELSE seq[j + 1]
  <2>0. j \in Nat
    BY <1>0
  <2>1. CASE j < i
    BY <2>0, <1>0, <1>1, <1>3, <2>1
  <2>2. CASE j >= i
    <3>1. j - (i - 1) \in 1..Len(seq) - i
      BY <1>0, <2>0, <2>2
    <3>2. b[j - (i - 1)] = seq[j + 1]
      BY <1>0, <1>2, <3>1
    <3> QED
      BY <1>0, <1>3, <2>0, <2>2, <3>2
  <2>3. j < i \/ j >= i
    BY <1>0, <2>0
  <2> QED
    BY <2>1, <2>2, <2>3
<1> QED
  BY <1>3, <1>4 DEF RemoveAt, a, b

\* DL_DELETE of a listed segment takes it, and no other, out of the list.
LEMMA DeleteList ==
  ASSUME segments \in Seq(Seg), ListOfAllocated, NEW s, Lists(s),
         NEW rest, rest = RemoveAt(segments, PlaceInList(s))
  PROVE  /\ rest \in Seq(Seg)
         /\ \A i, j \in 1..Len(rest) : rest[i] = rest[j] => i = j
         /\ \A i \in 1..Len(rest) : Lists(rest[i])
         /\ \A u : Lists(u) /\ u # s => \E i \in 1..Len(rest) : rest[i] = u
<1> DEFINE p == PlaceInList(s)
<1>1. p \in 1..Len(segments) /\ segments[p] = s
  BY DEF Lists, PlaceInList
<1> HIDE DEF p
<1>0. Len(segments) \in Nat /\ p \in Nat /\ p >= 1 /\ p <= Len(segments)
  BY <1>1
<1>2. /\ rest \in Seq(Seg)
      /\ Len(rest) = Len(segments) - 1
      /\ \A j \in 1..Len(segments) - 1 :
           rest[j] = IF j < p THEN segments[j] ELSE segments[j + 1]
  BY <1>1, RemoveAtList DEF p
<1>3. \A i, j \in 1..Len(segments) : segments[i] = segments[j] => i = j
  BY DEF ListOfAllocated
<1>4. ASSUME NEW i \in 1..Len(rest), NEW j \in 1..Len(rest), rest[i] = rest[j]
      PROVE  i = j
  <2> DEFINE at(k) == IF k < p THEN k ELSE k + 1
  <2>1. /\ at(i) \in 1..Len(segments) /\ rest[i] = segments[at(i)]
        /\ at(j) \in 1..Len(segments) /\ rest[j] = segments[at(j)]
    BY <1>0, <1>2
  <2>2. at(i) = at(j)
    BY <1>3, <1>4, <2>1
  <2>3. i \in Nat /\ j \in Nat
    BY <1>0, <1>2
  <2> QED
    BY <1>0, <2>2, <2>3
<1>5. ASSUME NEW i \in 1..Len(rest) PROVE Lists(rest[i])
  <2>1. /\ i \in 1..Len(segments) /\ i + 1 \in 1..Len(segments)
        /\ rest[i] = segments[i] \/ rest[i] = segments[i + 1]
    BY <1>0, <1>2
  <2> QED
    BY <2>1 DEF Lists
<1>6. ASSUME NEW u, Lists(u), u # s
      PROVE  \E i \in 1..Len(rest) : rest[i] = u
  <2>1. PICK k \in 1..Len(segments) : segments[k] = u
    BY <1>6 DEF Lists
  <2>2. k \in Nat /\ k # p
    BY <1>0, <1>1, <1>6, <2>1
  <2>3. CASE k < p
    BY <1>0, <1>2, <2>1, <2>2, <2>3
  <2>4. CASE k > p
    <3>1. k - 1 \in 1..Len(rest) /\ ~(k - 1 < p) /\ (k - 1) + 1 = k
      BY <1>0, <1>2, <2>1, <2>2, <2>4
    <3> QED
      BY <1>2, <2>1, <3>1
  <2> QED
    BY <1>0, <2>2, <2>3, <2>4
<1> QED
  BY <1>2, <1>4, <1>5, <1>6

\* DL_PREPEND of a segment that is not in the list.
LEMMA PrependKeepsList ==
  ASSUME segments \in Seq(Seg), ListOfAllocated, nsegs \in Nat,
         nsegs' \in Nat, nsegs <= nsegs',
         NEW s \in Seg, ~Lists(s), s <= nsegs',
         segments' = << s >> \o segments
  PROVE  ListOfAllocated' /\ Lists(s)' /\ \A u : Lists(u) => Lists(u)'
<1>0. /\ segments' \in Seq(Seg)
      /\ Len(segments) \in Nat
      /\ Len(segments') = Len(segments) + 1
      /\ segments'[1] = s
      /\ \A i \in 2..Len(segments') : segments'[i] = segments[i - 1]
      /\ \A i \in 1..Len(segments) : segments[i] = segments'[i + 1]
  BY PrependList
<1>1. ASSUME NEW i \in 2..Len(segments')
      PROVE  i - 1 \in 1..Len(segments) /\ segments'[i] = segments[i - 1]
  BY <1>0
<1>2. \A i \in 1..Len(segments') : i = 1 \/ i \in 2..Len(segments')
  BY <1>0
<1>3. \A i \in 2..Len(segments') : segments'[i] # s
  BY <1>1 DEF Lists
<1>4. ASSUME NEW i \in 1..Len(segments'), NEW j \in 1..Len(segments'),
             segments'[i] = segments'[j]
      PROVE  i = j
  <2>1. CASE i = 1 \/ j = 1
    BY <1>0, <1>2, <1>3, <1>4, <2>1
  <2>2. CASE i \in 2..Len(segments') /\ j \in 2..Len(segments')
    <3>1. i - 1 = j - 1
      BY <1>1, <1>4, <2>2 DEF ListOfAllocated
    <3> QED
      BY <2>2, <3>1
  <2> QED
    BY <1>2, <2>1, <2>2
<1>5. ASSUME NEW i \in 1..Len(segments')
      PROVE  segments'[i] <= nsegs'
  <2>1. CASE i = 1
    BY <1>0, <2>1
  <2>2. CASE i \in 2..Len(segments')
    <3>1. segments[i - 1] <= nsegs /\ segments[i - 1] \in Seg
      BY <1>1, <2>2 DEF ListOfAllocated
    <3> QED
      BY <1>1, <2>2, <3>1 DEF Seg
  <2> QED
    BY <1>2, <2>1, <2>2
<1>6. Lists(s)'
  BY <1>0 DEF Lists
<1>7. ASSUME NEW u, Lists(u) PROVE Lists(u)'
  <2>1. PICK k \in 1..Len(segments) : segments[k] = u
    BY <1>7 DEF Lists
  <2>2. k + 1 \in 1..Len(segments') /\ segments'[k + 1] = u
    BY <1>0, <2>1
  <2> QED
    BY <2>2 DEF Lists
<1> QED
  BY <1>4, <1>5, <1>6, <1>7 DEF ListOfAllocated

-----------------------------------------------------------------------------

\* ts_engine_add_document and ts_engine_remove_document: what they queue is a
\* client's task with a known key, within the limit.
LEMMA ClientKeepsInv ==
  ASSUME Inv, NEW r \in Request, UNCHANGED << mergerVars, headPrev >>,
         Accept(r) \/ RejectFull(r) \/ RejectInvalid(r)
  PROVE  Inv'
<1>i. /\ SegTypeOK /\ EngineTypeOK /\ MergerTypeOK
      /\ StagePlace /\ OneMergerTask /\ LastPlaceForMerger /\ KeysKnown
      /\ ActiveState /\ ListOfAllocated /\ NewSegmentPrivate
      /\ SourcesValid /\ SourcesListed
  BY DEF Inv, TypeOK
<1>q. queue \in Seq(Task)
  BY <1>i DEF EngineTypeOK
<1>s. segments \in Seq(Seg) /\ segment_active \in Seg
  BY <1>i DEF EngineTypeOK
<1>n. nsegs \in Nat /\ nsegs >= 1 /\ nsegs <= MaxSeg /\ MaxSeg \in Nat
  BY <1>i, MaxSegAssumption DEF SegTypeOK, Seg
<1>st. state \in [Seg -> States] /\ ACTIVE = 0 /\ VALID = 1
  BY <1>i DEF SegTypeOK, States, ACTIVE, VALID
<1>1. ASSUME Accept(r) PROVE Inv'
  <2>1. issued \in Nat /\ issued + 1 \in Doc
    BY <1>1, <1>i, MaxDocAssumption DEF EngineTypeOK, Accept, Doc
  <2>2. \/ r.op = "add" /\ r.pk \in PK
        \/ r.op = "remove" /\ r.pk \in PK
    BY <1>1 DEF Accept, Acceptable, Request
  <2>3. /\ RequestTask(r, issued + 1) \in Task
        /\ RequestTask(r, issued + 1) \notin MergerTask
    BY <2>1, <2>2
       DEF RequestTask, Task, ClientTask, MergerTask, AddTask, RemoveTask,
           ReplaceTask, RedeleteTask
  <2>4. /\ queue' \in Seq(Task) /\ Len(queue) \in Nat
        /\ Len(queue') = Len(queue) + 1
        /\ \A i \in 1..Len(queue) : queue'[i] = queue[i]
        /\ queue'[Len(queue) + 1] = RequestTask(r, issued + 1)
        /\ Len(queue) < QUEUE_SIZE_INPUT
    BY <1>1, <1>q, <2>3, EnqueueFacts DEF Accept
  <2>5. UNCHANGED << segments, segment_active, nsegs, state, pc, task,
                     merge_stage, mpc, mseg1, mseg2, newseg, old >>
    BY <1>1 DEF Accept, Unclient, mergerVars
  <2>6. \A i \in 1..Len(queue') :
          \/ i \in 1..Len(queue) /\ queue'[i] = queue[i]
          \/ i = Len(queue) + 1 /\ queue'[i] = RequestTask(r, issued + 1)
             /\ queue'[i] \notin MergerTask
    BY <2>3, <2>4
  <2>7. (\E i \in 1..Len(queue') : queue'[i] = ReplaceTask)
          => \E i \in 1..Len(queue) : queue[i] = ReplaceTask
    BY <2>6 DEF MergerTask
  <2>8. SegTypeOK'
    BY <1>1, <1>i, <2>1, <2>2 DEF SegTypeOK, Accept, Unclient, mergerVars
  <2>9. EngineTypeOK'
    BY <1>1, <1>i, <2>4, <2>1, MaxDocAssumption
       DEF EngineTypeOK, Accept, Unclient, mergerVars, Doc
  <2>10. OneMergerTask'
    BY <1>1, <1>i, <2>6, <2>5
       DEF OneMergerTask, ReplacePhase, RedeletePhase, ReplaceRuns,
           RedeleteRuns, MergerTask
  <2>11. LastPlaceForMerger'
    BY <1>1, <1>i, <2>4, QueueSizeAssumption
       DEF LastPlaceForMerger, Accept, Unclient, mergerVars
  <2>12. KeysKnown'
    <3>1. /\ \A d \in Doc : pkOf[d] \in PK => pkOf'[d] \in PK
          /\ r.op = "add" => pkOf'[issued + 1] \in PK
      BY <1>1, <2>1, <2>2, <1>i DEF Accept, SegTypeOK
    <3>2. /\ task.kind = "add" => task.doc \in Doc
          /\ \A i \in 1..Len(queue) :
               queue[i].kind = "add" => queue[i].doc \in Doc
      BY <1>i, <1>q, TaskDoc DEF EngineTypeOK, NoTask
    <3>3. LET t == RequestTask(r, issued + 1)
          IN  t.kind = "add" => t.doc = issued + 1 /\ r.op = "add"
      BY <2>2 DEF RequestTask, AddTask, RemoveTask
    <3> QED
      BY <2>6, <2>5, <1>i, <3>1, <3>2, <3>3 DEF KeysKnown
  <2>13. NewSegmentPrivate'
    BY <1>1, <1>i, <2>7, <2>5 DEF NewSegmentPrivate, ReplaceRuns, Lists
  <2>14. SourcesListed'
    BY <1>1, <1>i, <2>7, <2>5
       DEF SourcesListed, ReplaceToCome, ReplaceRuns, Lists
  <2>15. /\ MergerTypeOK'
    BY <1>1, <1>i DEF MergerTypeOK, Accept, Unclient, mergerVars
  <2>16. /\ StagePlace' /\ ActiveState' /\ ListOfAllocated' /\ SourcesValid'
    BY <1>1, <1>i
       DEF StagePlace, ActiveState, ListOfAllocated, SourcesValid, Migrating,
           Merging, Accept, Unclient, mergerVars
  <2> QED
    BY <2>8, <2>9, <2>10, <2>11, <2>12, <2>13, <2>14, <2>15, <2>16
       DEF Inv, TypeOK
<1>2. ASSUME RejectFull(r) PROVE Inv'
  <2>1. UNCHANGED << segVars, queue, segments, segment_active, pc, task,
                     cursor, merge_stage, merging_deletion, crash, store,
                     updated >>
    BY <1>2 DEF RejectFull, Unclient, segVars, Q!Refuse
  <2>2. EngineTypeOK'
    BY <1>2, <1>i, MaxDocAssumption
       DEF EngineTypeOK, RejectFull, Unclient, Q!Refuse, mergerVars
  <2>3. /\ SegTypeOK' /\ MergerTypeOK'
    BY <2>1, <1>i DEF SegTypeOK, MergerTypeOK, segVars, mergerVars
  <2>4. /\ StagePlace' /\ OneMergerTask' /\ LastPlaceForMerger'
        /\ KeysKnown'
    BY <2>1, <1>i
       DEF StagePlace, OneMergerTask, LastPlaceForMerger, KeysKnown,
           ReplacePhase, RedeletePhase, ReplaceRuns, RedeleteRuns, MergerTask,
           segVars, mergerVars
  <2>5. /\ ActiveState' /\ ListOfAllocated' /\ NewSegmentPrivate'
        /\ SourcesValid' /\ SourcesListed'
    BY <2>1, <1>i
       DEF ActiveState, ListOfAllocated, NewSegmentPrivate, SourcesValid,
           SourcesListed, ReplaceRuns, Lists, Migrating, Merging,
           ReplaceToCome, segVars, mergerVars
  <2> QED
    BY <2>2, <2>3, <2>4, <2>5 DEF Inv, TypeOK
<1>3. ASSUME RejectInvalid(r) PROVE Inv'
  <2>1. UNCHANGED << segVars, queue, segments, segment_active, pc, task,
                     cursor, merge_stage, merging_deletion, crash, store,
                     updated >>
    BY <1>3 DEF RejectInvalid, Unclient, segVars
  <2>2. EngineTypeOK'
    BY <1>3, <1>i, MaxDocAssumption
       DEF EngineTypeOK, RejectInvalid, Unclient, mergerVars
  <2>3. /\ SegTypeOK' /\ MergerTypeOK'
    BY <2>1, <1>i DEF SegTypeOK, MergerTypeOK, segVars, mergerVars
  <2>4. /\ StagePlace' /\ OneMergerTask' /\ LastPlaceForMerger'
        /\ KeysKnown'
    BY <2>1, <1>i
       DEF StagePlace, OneMergerTask, LastPlaceForMerger, KeysKnown,
           ReplacePhase, RedeletePhase, ReplaceRuns, RedeleteRuns, MergerTask,
           segVars, mergerVars
  <2>5. /\ ActiveState' /\ ListOfAllocated' /\ NewSegmentPrivate'
        /\ SourcesValid' /\ SourcesListed'
    BY <2>1, <1>i
       DEF ActiveState, ListOfAllocated, NewSegmentPrivate, SourcesValid,
           SourcesListed, ReplaceRuns, Lists, Migrating, Merging,
           ReplaceToCome, segVars, mergerVars
  <2> QED
    BY <2>2, <2>3, <2>4, <2>5 DEF Inv, TypeOK
<1> QED
  BY <1>1, <1>2, <1>3

\* The add and remove handlers: the active segment is given up only between the
\* state++ and the DL_PREPEND of the next one, and is never one being merged.
LEMMA InputProcessorKeepsInv ==
  ASSUME Inv, InputProcessor, UNCHANGED << mergerVars, headPrev >>
  PROVE  Inv'
<1>i. /\ SegTypeOK /\ EngineTypeOK /\ MergerTypeOK
      /\ StagePlace /\ OneMergerTask /\ LastPlaceForMerger /\ KeysKnown
      /\ ActiveState /\ ListOfAllocated /\ NewSegmentPrivate
      /\ SourcesValid /\ SourcesListed
  BY DEF Inv, TypeOK
<1>q. queue \in Seq(Task)
  BY <1>i DEF EngineTypeOK
<1>s. segments \in Seq(Seg) /\ segment_active \in Seg
  BY <1>i DEF EngineTypeOK
<1>n. nsegs \in Nat /\ nsegs >= 1 /\ nsegs <= MaxSeg /\ MaxSeg \in Nat
  BY <1>i, MaxSegAssumption DEF SegTypeOK, Seg
<1>st. state \in [Seg -> States] /\ ACTIVE = 0 /\ VALID = 1
  BY <1>i DEF SegTypeOK, States, ACTIVE, VALID
<1>1. ASSUME BeginAdd PROVE Inv'
  <2>1. PICK d \in Doc : Take(AddTask(d))
    BY <1>1 DEF BeginAdd
  <2>2. /\ pc = "idle" /\ AddTask(d) \in Task /\ task' = AddTask(d)
        /\ Len(queue) \in Nat /\ Len(queue) >= 1 /\ AddTask(d) = queue[1]
        /\ queue' \in Seq(Task) /\ Len(queue') = Len(queue) - 1
        /\ \A i \in 1..Len(queue') :
             queue'[i] = queue[i + 1] /\ i + 1 \in 1..Len(queue)
    BY <1>1, <1>q, TakeFacts, <2>1
  <2>3. /\ \A i \in 1..Len(queue') :
             /\ queue'[i] = ReplaceTask => ReplacePhase
             /\ queue'[i] = RedeleteTask => RedeletePhase
             /\ queue'[i] \in MergerTask => AddTask(d) \notin MergerTask
        /\ \A i, j \in 1..Len(queue') :
             queue'[i] \in MergerTask /\ queue'[j] \in MergerTask => i = j
        /\ AddTask(d) = ReplaceTask => ReplacePhase
        /\ AddTask(d) = RedeleteTask => RedeletePhase
    BY <1>1, <1>i, <1>q, TakeKeepsOne, <2>1
  <2>4. UNCHANGED << mpc, merge_stage >> /\ pc' \in {"rotate", "scan"}
    BY <1>1 DEF BeginAdd, mergerVars
  <2>5. state[segment_active] = ACTIVE
    BY <2>2, <1>i DEF ActiveState
  <2>6. /\ state' \in [Seg -> States]
        /\ \A u \in Seg \ {segment_active} : state'[u] = state[u]
        /\ pc' # "rotate" => state' = state
    BY <1>1, <2>5, <1>s, <1>st, PromoteType DEF BeginAdd
  <2>7. (\E i \in 1..Len(queue') : queue'[i] = ReplaceTask)
          => \E i \in 1..Len(queue) : queue[i] = ReplaceTask
    BY <2>2
  <2>8. SegTypeOK'
    BY <1>1, <1>i, <2>6 DEF SegTypeOK, BeginAdd, mergerVars, States
  <2>9. EngineTypeOK'
    BY <1>1, <1>i, <2>2, <2>4 DEF EngineTypeOK, BeginAdd, mergerVars, ListHead
  <2>10. OneMergerTask'
    BY <1>1, <2>3, <2>4
       DEF OneMergerTask, ReplacePhase, RedeletePhase, ReplaceRuns,
           RedeleteRuns, MergerTask, ReplaceTask, RedeleteTask, AddTask
  <2>11. LastPlaceForMerger'
    BY <1>1, <1>i, <2>2, QueueSizeAssumption
       DEF LastPlaceForMerger, BeginAdd, mergerVars
  <2>12. KeysKnown'
    BY <1>1, <1>i, <2>2 DEF KeysKnown, NoTask, BeginAdd, mergerVars
  <2>13. ActiveState'
    BY <1>1, <1>i, <1>s, <1>n, <1>st, <2>6, <2>4, <2>5, <2>2
       DEF ActiveState, Seg, BeginAdd, mergerVars
  <2>14. NewSegmentPrivate'
    BY <1>1, <1>i, <2>2, <2>6, <2>4
       DEF NewSegmentPrivate, ReplaceRuns, Lists, BeginAdd, mergerVars
  <2>15. SourcesValid'
    <3>1. UNCHANGED << merge_stage, mseg1, mseg2 >>
      BY <1>1 DEF BeginAdd, mergerVars
    <3>2. ASSUME NEW s \in Migrating \ {NoSeg}
          PROVE  s \in Seg \ {segment_active} /\ state[s] = VALID
      BY <2>5, <1>i
         DEF SourcesValid, MergerTypeOK, Migrating, ACTIVE, VALID
    <3> QED
      BY <2>6, <3>1, <3>2 DEF SourcesValid, Migrating, Merging
  <2>16. SourcesListed'
    BY <1>1, <2>2, <2>4, <2>7, <1>i
       DEF SourcesListed, ReplaceToCome, ReplaceRuns, Lists, BeginAdd,
           mergerVars
  <2>17. /\ MergerTypeOK' /\ StagePlace' /\ ListOfAllocated'
    BY <1>1, <1>i
       DEF MergerTypeOK, StagePlace, ListOfAllocated, BeginAdd, mergerVars
  <2> QED
    BY <2>8, <2>9, <2>10, <2>11, <2>12, <2>13, <2>14, <2>15, <2>16, <2>17
       DEF Inv, TypeOK
<1>2. ASSUME Rotate PROVE Inv'
  <2>1. Fresh \in Seg /\ nsegs' = Fresh /\ Fresh = nsegs + 1
    BY <1>2, <1>n DEF Rotate, NewSegment, Fresh, Seg
  <2>2. ~Lists(Fresh)
    BY <2>1, <1>i, <1>n, <1>s DEF ListOfAllocated, Lists, Seg
  <2>3. segments' \in Seq(Seg)
    BY <1>2, <2>1, <1>s, PrependList DEF Rotate
  <2>4. ListOfAllocated' /\ \A u : Lists(u) => Lists(u)'
    BY <1>2, <2>1, <2>2, <1>i, <1>n, <1>s, PrependKeepsList DEF Rotate
  <2>5. \A u : Lists(u)' => Lists(u) \/ u = Fresh
    BY <1>2, <2>1, <1>s, PrependList DEF Rotate, Lists
  <2>6. SegTypeOK'
    BY <1>2, <1>i, <2>1 DEF SegTypeOK, Rotate, NewSegment, Fresh, mergerVars
  <2>7. EngineTypeOK'
    BY <1>2, <1>i, <2>1, <2>3
       DEF EngineTypeOK, Rotate, NewSegment, Fresh, mergerVars, ListHead
  <2>8. OneMergerTask'
    BY <1>2, <1>i, <1>q
       DEF OneMergerTask, ReplacePhase, RedeletePhase, ReplaceRuns,
           RedeleteRuns, MergerTask, Rotate, NewSegment, Fresh, mergerVars
  <2>9. ActiveState'
    BY <1>2, <1>i, <1>s, <1>n, <1>st, <2>1
       DEF ActiveState, Seg, Rotate, NewSegment, Fresh, mergerVars
  <2>10. ListOfAllocated'
    BY <1>2, <2>4
  <2>11. NewSegmentPrivate'
    BY <1>2, <1>i, <1>q, <1>s, <1>n, <1>st, <2>1, <2>5
       DEF NewSegmentPrivate, ReplaceRuns, Rotate, Seg, mergerVars
  <2>12. SourcesListed'
    BY <1>2, <1>i, <2>4
       DEF SourcesListed, ReplaceToCome, ReplaceRuns, Rotate, mergerVars
  <2>13. /\ MergerTypeOK'
    BY <1>2, <1>i DEF MergerTypeOK, Rotate, NewSegment, Fresh, mergerVars
  <2>14. /\ StagePlace' /\ LastPlaceForMerger' /\ KeysKnown'
          /\ SourcesValid'
    BY <1>2, <1>i
       DEF StagePlace, LastPlaceForMerger, KeysKnown, SourcesValid, Migrating,
           Merging, Rotate, NewSegment, Fresh, mergerVars
  <2> QED
    BY <2>6, <2>7, <2>8, <2>9, <2>10, <2>11, <2>12, <2>13, <2>14
       DEF Inv, TypeOK
<1>3. ASSUME BeginRemove PROVE Inv'
  <2>1. PICK k \in PK : Take(RemoveTask(k))
    BY <1>3 DEF BeginRemove
  <2>2. /\ pc = "idle" /\ RemoveTask(k) \in Task /\ task' = RemoveTask(k)
        /\ Len(queue) \in Nat /\ Len(queue) >= 1 /\ RemoveTask(k) = queue[1]
        /\ queue' \in Seq(Task) /\ Len(queue') = Len(queue) - 1
        /\ \A i \in 1..Len(queue') :
             queue'[i] = queue[i + 1] /\ i + 1 \in 1..Len(queue)
    BY <1>3, <1>q, TakeFacts, <2>1
  <2>3. /\ \A i \in 1..Len(queue') :
             /\ queue'[i] = ReplaceTask => ReplacePhase
             /\ queue'[i] = RedeleteTask => RedeletePhase
             /\ queue'[i] \in MergerTask => RemoveTask(k) \notin MergerTask
        /\ \A i, j \in 1..Len(queue') :
             queue'[i] \in MergerTask /\ queue'[j] \in MergerTask => i = j
        /\ RemoveTask(k) = ReplaceTask => ReplacePhase
        /\ RemoveTask(k) = RedeleteTask => RedeletePhase
    BY <1>3, <1>i, <1>q, TakeKeepsOne, <2>1
  <2>4. UNCHANGED << mpc, merge_stage >> /\ pc' = "scan"
    BY <1>3 DEF BeginRemove, mergerVars, segVars
  <2>5. EngineTypeOK'
    BY <1>3, <1>i, <2>2
       DEF EngineTypeOK, BeginRemove, mergerVars, segVars, ListHead
  <2>6. OneMergerTask'
    BY <1>3, <2>3, <2>4
       DEF OneMergerTask, ReplacePhase, RedeletePhase, ReplaceRuns,
           RedeleteRuns, MergerTask, ReplaceTask, RedeleteTask, RemoveTask
  <2>7. LastPlaceForMerger'
    BY <1>3, <1>i, <2>2, QueueSizeAssumption
       DEF LastPlaceForMerger, BeginRemove, mergerVars, segVars
  <2>8. KeysKnown'
    BY <1>3, <1>i, <2>2 DEF KeysKnown, NoTask, BeginRemove, mergerVars, segVars
  <2>9. ActiveState'
    BY <1>3, <1>i, <2>2 DEF ActiveState, BeginRemove, mergerVars, segVars
  <2>10. NewSegmentPrivate'
    BY <1>3, <1>i, <2>2
       DEF NewSegmentPrivate, ReplaceRuns, Lists, BeginRemove, mergerVars,
           segVars
  <2>11. SourcesListed'
    BY <1>3, <1>i, <2>2
       DEF SourcesListed, ReplaceToCome, ReplaceRuns, Lists, BeginRemove,
           mergerVars, segVars
  <2>12. /\ SegTypeOK' /\ MergerTypeOK'
    BY <1>3, <1>i DEF SegTypeOK, MergerTypeOK, segVars, BeginRemove, mergerVars
  <2>13. /\ StagePlace' /\ ListOfAllocated' /\ SourcesValid'
    BY <1>3, <1>i
       DEF StagePlace, ListOfAllocated, SourcesValid, Migrating, Merging,
           BeginRemove, mergerVars, segVars
  <2> QED
    BY <2>5, <2>6, <2>7, <2>8, <2>9, <2>10, <2>11, <2>12, <2>13 DEF Inv, TypeOK
<1>4. ASSUME ScanSegment \/ TestBit \/ SetBit PROVE Inv'
  <2>1. /\ docs \in [Seg -> Seq(Doc)] /\ docId \in [Doc -> Nat]
        /\ deletion \in [Seg -> SUBSET Nat] /\ deleted \in [Seg -> Nat]
        /\ removal \in RemovalType \cup {NoRemoval}
    BY <1>i DEF SegTypeOK, RemovalType
  <2>2. removal.at # "none"
          => /\ removal.seg \in Seg /\ removal.doc \in Doc
             /\ removal.id \in Nat /\ removal.todo \in SUBSET Doc
    BY <2>1 DEF RemovalType, NoRemoval
  <2>3. /\ deletion' \in [Seg -> SUBSET Nat] /\ deleted' \in [Seg -> Nat]
        /\ removal' \in RemovalType \cup {NoRemoval}
    <3>1. CASE ScanSegment
      <4>1. segments[cursor] \in Seg
        BY <3>1, <1>i, <1>s DEF ScanSegment, EngineTypeOK, ListHead
      <4>2. OfKey(segments[cursor], TaskPk) \in SUBSET Doc
        BY <4>1, <2>1, OfKeyType
      <4>3. /\ Visit(segments[cursor], OfKey(segments[cursor], TaskPk))
            /\ UNCHANGED << deletion, deleted >>
        BY <3>1 DEF ScanSegment
      <4> QED
        BY <2>1, <4>1, <4>2, <4>3, VisitType
    <3>2. CASE TestBit
      <4>0. /\ removal.at = "test" /\ UNCHANGED << deletion, deleted >>
        BY <3>2 DEF TestBit, TestDocument
      <4>1. \/ removal' = [removal EXCEPT !.at = "set",
                                         !.id = docId[removal.doc]]
            \/ Visit(removal.seg, removal.todo)
        BY <3>2 DEF TestBit, TestDocument
      <4>2. docId[removal.doc] \in Nat
        BY <4>0, <2>1, <2>2
      <4>3. CASE removal' = [removal EXCEPT !.at = "set",
                                          !.id = docId[removal.doc]]
        <5>1. removal \in RemovalType
          BY <4>0, <2>1 DEF NoRemoval
        <5> QED
          BY <4>0, <4>2, <4>3, <5>1, <2>1 DEF RemovalType
      <4> QED
        BY <2>1, <2>2, <4>0, <4>1, <4>3, VisitType
    <3>3. CASE SetBit
      <4>0. removal.at = "set" /\ Visit(removal.seg, removal.todo)
        BY <3>3 DEF SetBit, DeleteDocument
      <4>1. PICK b \in Torn(removal.id, docId[removal.doc]) :
              deletion' = [deletion EXCEPT ![removal.seg] = @ \cup {b}]
        BY <3>3 DEF SetBit, DeleteDocument
      <4>2. b \in Nat
        BY <4>0, <4>1, <2>1, <2>2, TornType
      <4>3. deleted' = [deleted EXCEPT ![removal.seg] = @ + 1]
        BY <3>3 DEF SetBit, DeleteDocument
      <4>4. deleted[removal.seg] + 1 \in Nat
        BY <4>0, <2>1, <2>2
      <4>5. deletion[removal.seg] \cup {b} \in SUBSET Nat
        BY <4>0, <4>2, <2>1, <2>2
      <4> QED
        BY <4>0, <4>1, <4>3, <4>4, <4>5, <2>1, <2>2, VisitType
    <3> QED
      BY <1>4, <3>1, <3>2, <3>3
  <2>4. Scanned /\ pc = "scan"
    BY <1>4 DEF ScanSegment, TestBit, SetBit
  <2>5. SegTypeOK'
    BY <1>i, <2>3, <2>4 DEF SegTypeOK, Scanned, RemovalType
  <2>6. EngineTypeOK'
    BY <2>4, <1>i DEF EngineTypeOK, Scanned, mergerVars, ListHead
  <2>7. /\ MergerTypeOK'
    BY <2>4, <1>i DEF MergerTypeOK, Scanned, mergerVars
  <2>8. /\ StagePlace' /\ OneMergerTask' /\ LastPlaceForMerger'
        /\ KeysKnown'
    BY <2>4, <1>i
       DEF StagePlace, OneMergerTask, LastPlaceForMerger, KeysKnown,
           ReplacePhase, RedeletePhase, ReplaceRuns, RedeleteRuns, MergerTask,
           Scanned, mergerVars
  <2>9. /\ ActiveState' /\ ListOfAllocated' /\ NewSegmentPrivate'
        /\ SourcesValid' /\ SourcesListed'
    BY <2>4, <1>i
       DEF ActiveState, ListOfAllocated, NewSegmentPrivate, SourcesValid,
           SourcesListed, ReplaceRuns, Lists, Migrating, Merging,
           ReplaceToCome, Scanned, mergerVars
  <2> QED
    BY <2>5, <2>6, <2>7, <2>8, <2>9 DEF Inv, TypeOK
<1>5. ASSUME FinishAdd PROVE Inv'
  <2>1. task.doc \in Doc /\ pkOf[task.doc] \in PK
    BY <1>5, <1>i
       DEF FinishAdd, EngineTypeOK, KeysKnown, Task, ClientTask, MergerTask,
           AddTask, RemoveTask, ReplaceTask, RedeleteTask, NoTask
  <2>2. docs' \in [Seg -> Seq(Doc)] /\ docId' \in [Doc -> Nat]
    BY <1>5, <2>1, <1>i, <1>s, AddDocumentType DEF FinishAdd, SegTypeOK
  <2>3. updated' \subseteq PK
    BY <1>5, <2>1, <1>i DEF FinishAdd, EngineTypeOK
  <2>4. store' \in [PK -> Doc \cup {0}]
    BY <1>5, <2>1, <1>i DEF FinishAdd, EngineTypeOK
  <2>5. SegTypeOK'
    BY <1>5, <1>i, <2>2 DEF SegTypeOK, FinishAdd, Return, mergerVars
  <2>6. EngineTypeOK'
    BY <1>5, <1>i, <2>3, <2>4 DEF EngineTypeOK, FinishAdd, Return, mergerVars
  <2>7. OneMergerTask'
    BY <1>5, <1>i, <1>q
       DEF OneMergerTask, ReplacePhase, RedeletePhase, ReplaceRuns,
           RedeleteRuns, MergerTask, FinishAdd, Return, mergerVars
  <2>8. KeysKnown'
    BY <1>5, <1>i DEF KeysKnown, NoTask, FinishAdd, Return, mergerVars
  <2>9. ActiveState'
    BY <1>5, <1>i DEF ActiveState, FinishAdd, Return, mergerVars
  <2>10. NewSegmentPrivate'
    BY <1>5, <1>i
       DEF NewSegmentPrivate, ReplaceRuns, Lists, FinishAdd, Return, mergerVars
  <2>11. SourcesListed'
    BY <1>5, <1>i
       DEF SourcesListed, ReplaceToCome, ReplaceRuns, Lists, FinishAdd, Return,
           mergerVars
  <2>12. /\ MergerTypeOK'
    BY <1>5, <1>i DEF MergerTypeOK, FinishAdd, Return, mergerVars
  <2>13. /\ StagePlace' /\ LastPlaceForMerger' /\ ListOfAllocated'
          /\ SourcesValid'
    BY <1>5, <1>i
       DEF StagePlace, LastPlaceForMerger, ListOfAllocated, SourcesValid,
           Migrating, Merging, FinishAdd, Return, mergerVars
  <2> QED
    BY <2>5, <2>6, <2>7, <2>8, <2>9, <2>10, <2>11, <2>12, <2>13 DEF Inv, TypeOK
<1>6. ASSUME FinishRemove PROVE Inv'
  <2>1. task.pk \in PK
    BY <1>6, <1>i
       DEF FinishRemove, EngineTypeOK, Task, ClientTask, MergerTask, AddTask,
           RemoveTask, ReplaceTask, RedeleteTask, NoTask
  <2>2. merging_deletion' \subseteq PK
    BY <1>6, <2>1, <1>i DEF FinishRemove, EngineTypeOK
  <2>3. store' \in [PK -> Doc \cup {0}]
    BY <1>6, <2>1, <1>i DEF FinishRemove, EngineTypeOK
  <2>4. EngineTypeOK'
    BY <1>6, <1>i, <2>2, <2>3
       DEF EngineTypeOK, FinishRemove, Return, mergerVars, segVars
  <2>5. OneMergerTask'
    BY <1>6, <1>i, <1>q
       DEF OneMergerTask, ReplacePhase, RedeletePhase, ReplaceRuns,
           RedeleteRuns, MergerTask, FinishRemove, Return, mergerVars, segVars
  <2>6. KeysKnown'
    BY <1>6, <1>i
       DEF KeysKnown, NoTask, FinishRemove, Return, mergerVars, segVars
  <2>7. ActiveState'
    BY <1>6, <1>i DEF ActiveState, FinishRemove, Return, mergerVars, segVars
  <2>8. NewSegmentPrivate'
    BY <1>6, <1>i
       DEF NewSegmentPrivate, ReplaceRuns, Lists, FinishRemove, Return,
           mergerVars, segVars
  <2>9. SourcesListed'
    BY <1>6, <1>i
       DEF SourcesListed, ReplaceToCome, ReplaceRuns, Lists, FinishRemove,
           Return, mergerVars, segVars
  <2>10. /\ SegTypeOK' /\ MergerTypeOK'
    BY <1>6, <1>i
       DEF SegTypeOK, MergerTypeOK, segVars, FinishRemove, Return, mergerVars
  <2>11. /\ StagePlace' /\ LastPlaceForMerger' /\ ListOfAllocated'
          /\ SourcesValid'
    BY <1>6, <1>i
       DEF StagePlace, LastPlaceForMerger, ListOfAllocated, SourcesValid,
           Migrating, Merging, FinishRemove, Return, mergerVars, segVars
  <2> QED
    BY <2>4, <2>5, <2>6, <2>7, <2>8, <2>9, <2>10, <2>11 DEF Inv, TypeOK
<1>7. ASSUME FindEmpty \/ ReadSize PROVE Inv'
  <2>1. /\ UNCHANGED << segVars, queue, issued, segments, segment_active, task,
                        cursor, merge_stage, merging_deletion, store, updated,
                        mergerVars, headPrev >>
        /\ pc \in {"idle", "empty"} /\ pc' \in {"idle", "empty"}
        /\ crash' \in {crash, "stale_task"}
    BY <1>7 DEF FindEmpty, ReadSize
  <2>2. /\ SegTypeOK' /\ MergerTypeOK'
    BY <2>1, <1>i DEF SegTypeOK, MergerTypeOK, segVars, mergerVars
  <2>3. EngineTypeOK'
    BY <2>1, <1>i DEF EngineTypeOK
  <2>4. /\ StagePlace' /\ OneMergerTask' /\ LastPlaceForMerger'
        /\ KeysKnown'
    BY <2>1, <1>i
       DEF StagePlace, OneMergerTask, LastPlaceForMerger, KeysKnown,
           ReplacePhase, RedeletePhase, ReplaceRuns, RedeleteRuns, MergerTask,
           mergerVars, segVars
  <2>5. /\ ActiveState' /\ ListOfAllocated' /\ NewSegmentPrivate'
        /\ SourcesValid' /\ SourcesListed'
    BY <2>1, <1>i
       DEF ActiveState, ListOfAllocated, NewSegmentPrivate, SourcesValid,
           SourcesListed, ReplaceRuns, Lists, Migrating, Merging,
           ReplaceToCome, mergerVars, segVars
  <2> QED
    BY <2>2, <2>3, <2>4, <2>5 DEF Inv, TypeOK
<1> QED
  BY <1>1, <1>2, <1>3, <1>4, <1>5, <1>6, <1>7 DEF InputProcessor

\* The replace and redelete handlers: both run in their phase only, DL_DELETE
\* finds its segments in the list and state++ finds the new one ACTIVE.
LEMMA MergerHandlersKeepInv ==
  ASSUME Inv, MergerHandlers
  PROVE  Inv'
<1>i. /\ SegTypeOK /\ EngineTypeOK /\ MergerTypeOK
      /\ StagePlace /\ OneMergerTask /\ LastPlaceForMerger /\ KeysKnown
      /\ ActiveState /\ ListOfAllocated /\ NewSegmentPrivate
      /\ SourcesValid /\ SourcesListed
  BY DEF Inv, TypeOK
<1>q. queue \in Seq(Task)
  BY <1>i DEF EngineTypeOK
<1>s. segments \in Seq(Seg) /\ segment_active \in Seg
  BY <1>i DEF EngineTypeOK
<1>n. nsegs \in Nat /\ nsegs >= 1 /\ nsegs <= MaxSeg /\ MaxSeg \in Nat
  BY <1>i, MaxSegAssumption DEF SegTypeOK, Seg
<1>st. state \in [Seg -> States] /\ ACTIVE = 0 /\ VALID = 1
  BY <1>i DEF SegTypeOK, States, ACTIVE, VALID
<1>1. ASSUME BeginReplace PROVE Inv'
  <2>1. /\ pc = "idle" /\ ReplaceTask \in Task /\ task' = ReplaceTask
        /\ Len(queue) \in Nat /\ Len(queue) >= 1 /\ ReplaceTask = queue[1]
        /\ queue' \in Seq(Task) /\ Len(queue') = Len(queue) - 1
        /\ \A i \in 1..Len(queue') :
             queue'[i] = queue[i + 1] /\ i + 1 \in 1..Len(queue)
    BY <1>1, <1>q, TakeFacts DEF BeginReplace
  <2>2. /\ \A i \in 1..Len(queue') :
             /\ queue'[i] = ReplaceTask => ReplacePhase
             /\ queue'[i] = RedeleteTask => RedeletePhase
             /\ queue'[i] \in MergerTask => ReplaceTask \notin MergerTask
        /\ \A i, j \in 1..Len(queue') :
             queue'[i] \in MergerTask /\ queue'[j] \in MergerTask => i = j
        /\ ReplaceTask = ReplaceTask => ReplacePhase
        /\ ReplaceTask = RedeleteTask => RedeletePhase
    BY <1>1, <1>i, <1>q, TakeKeepsOne DEF BeginReplace
  <2>3. UNCHANGED << mpc, merge_stage >> /\ pc' = "delete1"
    BY <1>1 DEF BeginReplace, mergerVars, segVars
  <2>4. EngineTypeOK'
    BY <1>1, <1>i, <2>1
       DEF EngineTypeOK, BeginReplace, mergerVars, segVars, ListHead
  <2>5. OneMergerTask'
    BY <1>1, <2>2, <2>3
       DEF OneMergerTask, ReplacePhase, RedeletePhase, ReplaceRuns,
           RedeleteRuns, MergerTask, ReplaceTask, RedeleteTask
  <2>6. LastPlaceForMerger'
    BY <1>1, <1>i, <2>1, QueueSizeAssumption
       DEF LastPlaceForMerger, BeginReplace, mergerVars, segVars
  <2>7. KeysKnown'
    BY <1>1, <1>i, <2>1
       DEF KeysKnown, NoTask, BeginReplace, mergerVars, segVars
  <2>8. ActiveState'
    BY <1>1, <1>i, <2>1 DEF ActiveState, BeginReplace, mergerVars, segVars
  <2>9. NewSegmentPrivate'
    BY <1>1, <1>i, <2>1
       DEF NewSegmentPrivate, ReplaceRuns, Lists, BeginReplace, mergerVars,
           segVars
  <2>10. SourcesListed'
    BY <1>1, <1>i, <2>1
       DEF SourcesListed, ReplaceToCome, ReplaceRuns, Lists, BeginReplace,
           mergerVars, segVars
  <2>11. /\ SegTypeOK' /\ MergerTypeOK'
    BY <1>1, <1>i
       DEF SegTypeOK, MergerTypeOK, segVars, BeginReplace, mergerVars
  <2>12. /\ StagePlace' /\ ListOfAllocated' /\ SourcesValid'
    BY <1>1, <1>i
       DEF StagePlace, ListOfAllocated, SourcesValid, Migrating, Merging,
           BeginReplace, mergerVars, segVars
  <2> QED
    BY <2>4, <2>5, <2>6, <2>7, <2>8, <2>9, <2>10, <2>11, <2>12 DEF Inv, TypeOK
<1>2. ASSUME ReplaceDelete1 PROVE Inv'
  <2>1. pc = "delete1"
    BY <1>2 DEF ReplaceDelete1, ReplaceDelete
  <2>2. Lists(mseg1)
    BY <2>1, <1>i DEF SourcesListed, ReplaceToCome
  <2>3. \/ segments' = segments /\ pc' = pc
        \/ /\ segments' = RemoveAt(segments, PlaceInList(mseg1))
           /\ pc' = "delete2"
    BY <1>2, <2>1 DEF ReplaceDelete1, ReplaceDelete
  <2>4. /\ segments' \in Seq(Seg)
        /\ \A i, j \in 1..Len(segments') : segments'[i] = segments'[j] => i = j
        /\ \A i \in 1..Len(segments') : Lists(segments'[i])
        /\ \A u : Lists(u) /\ u # mseg1
             => \E i \in 1..Len(segments') : segments'[i] = u
    <3>1. CASE segments' = segments
      BY <3>1, <1>i, <1>s DEF ListOfAllocated, Lists
    <3>2. CASE segments' = RemoveAt(segments, PlaceInList(mseg1))
      BY <3>2, <2>2, <1>i, <1>s, DeleteList
    <3> QED
      BY <2>3, <3>1, <3>2
  <2>5. \A i \in 1..Len(queue) : queue[i] # ReplaceTask
    BY <2>1, <1>i DEF OneMergerTask, ReplaceRuns, MergerTask
  <2>6. \A u : Lists(u) /\ u # mseg1 => Lists(u)'
    BY <2>4 DEF Lists
  <2>7. \A i \in 1..Len(segments') : segments'[i] <= nsegs
    BY <2>4, <1>i DEF ListOfAllocated, Lists
  <2>8. \A u : Lists(u)' => Lists(u)
    BY <2>4 DEF Lists
  <2>9. EngineTypeOK'
    BY <1>2, <1>i, <2>4, <2>1, <2>3
       DEF EngineTypeOK, ReplaceDelete1, ReplaceDelete, mergerVars, segVars
  <2>10. MergerTypeOK'
    BY <1>2, <1>i
       DEF MergerTypeOK, ReplaceDelete1, ReplaceDelete, mergerVars, segVars
  <2>11. OneMergerTask'
    BY <1>2, <1>i, <1>q
       DEF OneMergerTask, ReplacePhase, RedeletePhase, ReplaceRuns,
           RedeleteRuns, MergerTask, ReplaceDelete1, ReplaceDelete, mergerVars,
           segVars
  <2>12. ActiveState'
    BY <1>2, <1>i
       DEF ActiveState, ReplaceDelete1, ReplaceDelete, mergerVars, segVars
  <2>13. ListOfAllocated'
    BY <1>2, <1>i, <2>4, <2>7
       DEF ListOfAllocated, ReplaceDelete1, ReplaceDelete, mergerVars, segVars
  <2>14. NewSegmentPrivate'
    BY <1>2, <2>1, <2>3, <2>8, <1>i
       DEF NewSegmentPrivate, ReplaceRuns, ReplaceDelete1, ReplaceDelete,
           mergerVars, segVars
  <2>15. SourcesListed'
    <3>1. UNCHANGED << merge_stage, queue, mseg1, mseg2 >>
      BY <1>2 DEF ReplaceDelete1, ReplaceDelete, mergerVars
    <3>2. CASE segments' = segments /\ pc' = pc
      BY <3>1, <3>2, <1>i DEF SourcesListed, ReplaceToCome, ReplaceRuns, Lists
    <3>3. CASE pc' = "delete2"
      BY <3>1, <3>3, <2>6, <2>1, <2>5, <1>i
         DEF SourcesListed, ReplaceToCome, ReplaceRuns
    <3> QED
      BY <2>3, <3>2, <3>3
  <2>16. /\ SegTypeOK'
    BY <1>2, <1>i
       DEF SegTypeOK, segVars, ReplaceDelete1, ReplaceDelete, mergerVars
  <2>17. /\ StagePlace' /\ LastPlaceForMerger' /\ KeysKnown'
          /\ SourcesValid'
    BY <1>2, <1>i
       DEF StagePlace, LastPlaceForMerger, KeysKnown, SourcesValid, Migrating,
           Merging, ReplaceDelete1, ReplaceDelete, mergerVars, segVars
  <2> QED
    BY <2>9, <2>10, <2>11, <2>12, <2>13, <2>14, <2>15, <2>16, <2>17
       DEF Inv, TypeOK
<1>3. ASSUME ReplaceDelete2 PROVE Inv'
  <2>1. pc = "delete2"
    BY <1>3 DEF ReplaceDelete2, ReplaceDelete
  <2>2. Lists(mseg2)
    BY <2>1, <1>i DEF SourcesListed, ReplaceToCome
  <2>3. \/ segments' = segments /\ pc' = pc
        \/ /\ segments' = RemoveAt(segments, PlaceInList(mseg2))
           /\ pc' = "prepend"
    BY <1>3, <2>1 DEF ReplaceDelete2, ReplaceDelete
  <2>4. /\ segments' \in Seq(Seg)
        /\ \A i, j \in 1..Len(segments') : segments'[i] = segments'[j] => i = j
        /\ \A i \in 1..Len(segments') : Lists(segments'[i])
        /\ \A u : Lists(u) /\ u # mseg2
             => \E i \in 1..Len(segments') : segments'[i] = u
    <3>1. CASE segments' = segments
      BY <3>1, <1>i, <1>s DEF ListOfAllocated, Lists
    <3>2. CASE segments' = RemoveAt(segments, PlaceInList(mseg2))
      BY <3>2, <2>2, <1>i, <1>s, DeleteList
    <3> QED
      BY <2>3, <3>1, <3>2
  <2>5. \A i \in 1..Len(queue) : queue[i] # ReplaceTask
    BY <2>1, <1>i DEF OneMergerTask, ReplaceRuns, MergerTask
  <2>6. \A u : Lists(u) /\ u # mseg2 => Lists(u)'
    BY <2>4 DEF Lists
  <2>7. \A i \in 1..Len(segments') : segments'[i] <= nsegs
    BY <2>4, <1>i DEF ListOfAllocated, Lists
  <2>8. \A u : Lists(u)' => Lists(u)
    BY <2>4 DEF Lists
  <2>9. EngineTypeOK'
    BY <1>3, <1>i, <2>4, <2>1, <2>3
       DEF EngineTypeOK, ReplaceDelete2, ReplaceDelete, mergerVars, segVars
  <2>10. MergerTypeOK'
    BY <1>3, <1>i
       DEF MergerTypeOK, ReplaceDelete2, ReplaceDelete, mergerVars, segVars
  <2>11. OneMergerTask'
    BY <1>3, <1>i, <1>q
       DEF OneMergerTask, ReplacePhase, RedeletePhase, ReplaceRuns,
           RedeleteRuns, MergerTask, ReplaceDelete2, ReplaceDelete, mergerVars,
           segVars
  <2>12. ActiveState'
    BY <1>3, <1>i
       DEF ActiveState, ReplaceDelete2, ReplaceDelete, mergerVars, segVars
  <2>13. ListOfAllocated'
    BY <1>3, <1>i, <2>4, <2>7
       DEF ListOfAllocated, ReplaceDelete2, ReplaceDelete, mergerVars, segVars
  <2>14. NewSegmentPrivate'
    BY <1>3, <2>1, <2>3, <2>8, <1>i
       DEF NewSegmentPrivate, ReplaceRuns, ReplaceDelete2, ReplaceDelete,
           mergerVars, segVars
  <2>15. SourcesListed'
    <3>1. UNCHANGED << merge_stage, queue, mseg1, mseg2 >>
      BY <1>3 DEF ReplaceDelete2, ReplaceDelete, mergerVars
    <3>2. CASE segments' = segments /\ pc' = pc
      BY <3>1, <3>2, <1>i DEF SourcesListed, ReplaceToCome, ReplaceRuns, Lists
    <3>3. CASE pc' = "prepend"
      BY <3>1, <3>3, <2>6, <2>1, <2>5, <1>i
         DEF SourcesListed, ReplaceToCome, ReplaceRuns
    <3> QED
      BY <2>3, <3>2, <3>3
  <2>16. /\ SegTypeOK'
    BY <1>3, <1>i
       DEF SegTypeOK, segVars, ReplaceDelete2, ReplaceDelete, mergerVars
  <2>17. /\ StagePlace' /\ LastPlaceForMerger' /\ KeysKnown'
          /\ SourcesValid'
    BY <1>3, <1>i
       DEF StagePlace, LastPlaceForMerger, KeysKnown, SourcesValid, Migrating,
           Merging, ReplaceDelete2, ReplaceDelete, mergerVars, segVars
  <2> QED
    BY <2>9, <2>10, <2>11, <2>12, <2>13, <2>14, <2>15, <2>16, <2>17
       DEF Inv, TypeOK
<1>4. ASSUME FinishReplace PROVE Inv'
  <2>1. /\ pc = "prepend" /\ newseg \in Seg /\ newseg <= nsegs
        /\ newseg # segment_active /\ ~Lists(newseg) /\ state[newseg] = ACTIVE
    BY <1>4, <1>i DEF FinishReplace, NewSegmentPrivate, ReplaceRuns
  <2>2. merge_stage \in {1, 2}
    BY <2>1, <1>i DEF OneMergerTask, ReplaceRuns, ReplacePhase
  <2>3. /\ state' \in [Seg -> States]
        /\ \A u \in Seg \ {newseg} : state'[u] = state[u]
    BY <1>4, <2>1, <1>st, PromoteType DEF FinishReplace
  <2>4. segments' = segments \/ segments' = << newseg >> \o segments
    BY <1>4 DEF FinishReplace
  <2>5. segments' \in Seq(Seg) /\ ListOfAllocated'
    BY <1>4, <2>4, <2>1, <1>i, <1>n, <1>s, PrependList, PrependKeepsList
       DEF FinishReplace, ListOfAllocated
  <2>6. \A i \in 1..Len(queue) : queue[i] # ReplaceTask
    BY <2>1, <1>i DEF OneMergerTask, ReplaceRuns, MergerTask
  <2>7. SegTypeOK'
    BY <1>4, <1>i, <2>3
       DEF SegTypeOK, FinishReplace, Return, mergerVars, States
  <2>8. EngineTypeOK'
    BY <1>4, <1>i, <2>5 DEF EngineTypeOK, FinishReplace, Return, mergerVars
  <2>9. StagePlace'
    BY <1>4, <1>i
       DEF StagePlace, OneMergerTask, ReplacePhase, RedeletePhase, ReplaceRuns,
           RedeleteRuns, MergerTask, FinishReplace, Return, mergerVars
  <2>10. OneMergerTask'
    BY <1>4, <1>i, <1>q
       DEF OneMergerTask, ReplacePhase, RedeletePhase, ReplaceRuns,
           RedeleteRuns, MergerTask, FinishReplace, Return, mergerVars
  <2>11. KeysKnown'
    BY <1>4, <1>i DEF KeysKnown, NoTask, FinishReplace, Return, mergerVars
  <2>12. ActiveState'
    BY <1>4, <1>i, <1>s, <1>n, <1>st, <2>3, <2>1
       DEF ActiveState, Seg, FinishReplace, Return, mergerVars
  <2>13. ListOfAllocated'
    BY <1>4, <2>5
  <2>14. NewSegmentPrivate'
    BY <1>4, <2>6, <2>2, <2>1, <1>i
       DEF StagePlace, NewSegmentPrivate, OneMergerTask, ReplacePhase,
           ReplaceRuns, FinishReplace, Return, mergerVars
  <2>15. SourcesValid'
    BY <1>4, <2>2, <2>1, <2>3, <1>i, <1>st
       DEF SourcesValid, MergerTypeOK, NoSeg, Migrating, Merging,
           FinishReplace, mergerVars
  <2>16. SourcesListed'
    BY <1>4, <2>6
       DEF SourcesListed, ReplaceToCome, FinishReplace, Return, mergerVars
  <2>17. /\ MergerTypeOK' /\ LastPlaceForMerger'
    BY <1>4, <1>i
       DEF MergerTypeOK, LastPlaceForMerger, FinishReplace, Return, mergerVars
  <2> QED
    BY <2>7, <2>8, <2>9, <2>10, <2>11, <2>12, <2>13, <2>14, <2>15, <2>16, <2>17
       DEF Inv, TypeOK
<1>5. ASSUME Redelete PROVE Inv'
  <2>1. /\ pc = "idle" /\ RedeleteTask \in Task /\ task' = RedeleteTask
        /\ Len(queue) \in Nat /\ Len(queue) >= 1 /\ RedeleteTask = queue[1]
        /\ queue' \in Seq(Task) /\ Len(queue') = Len(queue) - 1
        /\ \A i \in 1..Len(queue') :
             queue'[i] = queue[i + 1] /\ i + 1 \in 1..Len(queue)
    BY <1>5, <1>q, TakeFacts DEF Redelete
  <2>2. /\ \A i \in 1..Len(queue') :
             /\ queue'[i] = ReplaceTask => ReplacePhase
             /\ queue'[i] = RedeleteTask => RedeletePhase
             /\ queue'[i] \in MergerTask => RedeleteTask \notin MergerTask
        /\ \A i, j \in 1..Len(queue') :
             queue'[i] \in MergerTask /\ queue'[j] \in MergerTask => i = j
        /\ RedeleteTask = ReplaceTask => ReplacePhase
        /\ RedeleteTask = RedeleteTask => RedeletePhase
    BY <1>5, <1>i, <1>q, TakeKeepsOne DEF Redelete
  <2>3. UNCHANGED << mpc, merge_stage >> /\ pc' = "redelete"
    BY <1>5 DEF Redelete, mergerVars, segVars
  <2>4. EngineTypeOK'
    BY <1>5, <1>i, <2>1
       DEF EngineTypeOK, Redelete, mergerVars, segVars, ListHead
  <2>5. OneMergerTask'
    BY <1>5, <2>2, <2>3
       DEF OneMergerTask, ReplacePhase, RedeletePhase, ReplaceRuns,
           RedeleteRuns, MergerTask, ReplaceTask, RedeleteTask
  <2>6. LastPlaceForMerger'
    BY <1>5, <1>i, <2>1, QueueSizeAssumption
       DEF LastPlaceForMerger, Redelete, mergerVars, segVars
  <2>7. KeysKnown'
    BY <1>5, <1>i, <2>1 DEF KeysKnown, NoTask, Redelete, mergerVars, segVars
  <2>8. ActiveState'
    BY <1>5, <1>i, <2>1 DEF ActiveState, Redelete, mergerVars, segVars
  <2>9. NewSegmentPrivate'
    BY <1>5, <1>i, <2>1
       DEF NewSegmentPrivate, ReplaceRuns, Lists, Redelete, mergerVars, segVars
  <2>10. SourcesListed'
    BY <1>5, <1>i, <2>1
       DEF SourcesListed, ReplaceToCome, ReplaceRuns, Lists, Redelete,
           mergerVars, segVars
  <2>11. /\ SegTypeOK' /\ MergerTypeOK'
    BY <1>5, <1>i DEF SegTypeOK, MergerTypeOK, segVars, Redelete, mergerVars
  <2>12. /\ StagePlace' /\ ListOfAllocated' /\ SourcesValid'
    BY <1>5, <1>i
       DEF StagePlace, ListOfAllocated, SourcesValid, Migrating, Merging,
           Redelete, mergerVars, segVars
  <2> QED
    BY <2>4, <2>5, <2>6, <2>7, <2>8, <2>9, <2>10, <2>11, <2>12 DEF Inv, TypeOK
<1>6. ASSUME FinishRedelete PROVE Inv'
  <2>1. newseg \in Seg
    BY <1>6, <1>i
       DEF FinishRedelete, StagePlace, OneMergerTask, RedeleteRuns,
           RedeletePhase
  <2>2. Redeleted \in SUBSET {docId[d] : d \in Doc}
    BY <2>1, <1>i, UndeletedType DEF SegTypeOK, Redeleted
  <2>3. deletion' \in [Seg -> SUBSET Nat] /\ deleted' \in [Seg -> Nat]
    BY <1>6, <2>1, <2>2, <1>i, DeletionType DEF SegTypeOK, FinishRedelete
  <2>4. SegTypeOK'
    BY <1>6, <1>i, <2>3 DEF SegTypeOK, FinishRedelete, Return, mergerVars
  <2>5. EngineTypeOK'
    BY <1>6, <1>i DEF EngineTypeOK, FinishRedelete, Return, mergerVars
  <2>6. StagePlace'
    BY <1>6, <1>i
       DEF StagePlace, OneMergerTask, ReplacePhase, RedeletePhase, ReplaceRuns,
           RedeleteRuns, MergerTask, FinishRedelete, Return, mergerVars
  <2>7. OneMergerTask'
    BY <1>6, <1>i, <1>q
       DEF OneMergerTask, ReplacePhase, RedeletePhase, ReplaceRuns,
           RedeleteRuns, MergerTask, FinishRedelete, Return, mergerVars
  <2>8. KeysKnown'
    BY <1>6, <1>i DEF KeysKnown, NoTask, FinishRedelete, Return, mergerVars
  <2>9. ActiveState'
    BY <1>6, <1>i DEF ActiveState, FinishRedelete, Return, mergerVars
  <2>10. NewSegmentPrivate'
    BY <1>6, <1>i
       DEF NewSegmentPrivate, ReplaceRuns, Lists, FinishRedelete, Return,
           mergerVars
  <2>11. SourcesValid'
    BY <1>6, <1>i, <1>s, <1>n, <1>st
       DEF SourcesValid, ActiveState, StagePlace, OneMergerTask, ReplacePhase,
           RedeletePhase, ReplaceRuns, RedeleteRuns, MergerTask,
           NewSegmentPrivate, Migrating, Merging, FinishRedelete, Return,
           mergerVars
  <2>12. SourcesListed'
    BY <1>6, <1>i
       DEF SourcesListed, ReplaceToCome, ReplaceRuns, Lists, FinishRedelete,
           Return, mergerVars
  <2>13. /\ MergerTypeOK' /\ LastPlaceForMerger' /\ ListOfAllocated'
    BY <1>6, <1>i
       DEF MergerTypeOK, LastPlaceForMerger, ListOfAllocated, FinishRedelete,
           Return, mergerVars
  <2> QED
    BY <2>4, <2>5, <2>6, <2>7, <2>8, <2>9, <2>10, <2>11, <2>12, <2>13
       DEF Inv, TypeOK
<1> QED
  BY <1>1, <1>2, <1>3, <1>4, <1>5, <1>6 DEF MergerHandlers

\* The merge thread up to the posting of replace: the new segment is its own,
\* and replace is forced into the queue when no other task of it is there.
LEMMA MigrationKeepsInv ==
  ASSUME Inv, Check \/ BeginMigrate \/ CloneDeletion \/ CopyDocument
           \/ EndSource \/ PostReplace \/ WriteStage2
  PROVE  Inv'
<1>i. /\ SegTypeOK /\ EngineTypeOK /\ MergerTypeOK
      /\ StagePlace /\ OneMergerTask /\ LastPlaceForMerger /\ KeysKnown
      /\ ActiveState /\ ListOfAllocated /\ NewSegmentPrivate
      /\ SourcesValid /\ SourcesListed
  BY DEF Inv, TypeOK
<1>q. queue \in Seq(Task)
  BY <1>i DEF EngineTypeOK
<1>s. segments \in Seq(Seg) /\ segment_active \in Seg
  BY <1>i DEF EngineTypeOK
<1>n. nsegs \in Nat /\ nsegs >= 1 /\ nsegs <= MaxSeg /\ MaxSeg \in Nat
  BY <1>i, MaxSegAssumption DEF SegTypeOK, Seg
<1>st. state \in [Seg -> States] /\ ACTIVE = 0 /\ VALID = 1
  BY <1>i DEF SegTypeOK, States, ACTIVE, VALID
<1>1. ASSUME Check PROVE Inv'
  <2>1. PICK i, j \in 1..Len(segments) :
          GetSegments(i, j) /\ mseg1' = segments[i] /\ mseg2' = segments[j]
    BY <1>1 DEF Check
  <2>2. i \in Eligible /\ j \in Eligible /\ i # j
    BY <2>1, <1>s DEF GetSegments, Kept
  <2>3. /\ mseg1' \in Seg /\ state[mseg1'] = VALID /\ Lists(mseg1')
        /\ mseg2' \in Seg /\ state[mseg2'] = VALID /\ Lists(mseg2')
        /\ mseg1' # mseg2'
    BY <2>1, <2>2, <1>i, <1>s, <1>st
       DEF Eligible, Lists, ListOfAllocated, States
  <2>4. ~ReplaceRuns
    BY <1>1, <1>i DEF Check, OneMergerTask, ReplacePhase
  <2>5. EngineTypeOK'
    BY <1>1, <1>i DEF EngineTypeOK, Check, Unmerge, segVars
  <2>6. MergerTypeOK'
    BY <1>1, <1>i, <2>3 DEF MergerTypeOK, Check, Unmerge, segVars
  <2>7. StagePlace'
    BY <1>1, <1>i DEF StagePlace, Check, Unmerge, segVars
  <2>8. OneMergerTask'
    BY <1>1, <1>i, <1>q
       DEF OneMergerTask, ReplacePhase, RedeletePhase, ReplaceRuns,
           RedeleteRuns, MergerTask, Check, Unmerge, segVars
  <2>9. SourcesValid'
    BY <1>1, <1>i, <2>3
       DEF SourcesValid, Migrating, Merging, Check, Unmerge, segVars
  <2>10. SourcesListed'
    BY <1>1, <1>i, <2>3, <2>4
       DEF SourcesListed, ReplaceToCome, ReplaceRuns, Lists, Check, Unmerge,
           segVars
  <2>11. /\ SegTypeOK'
    BY <1>1, <1>i DEF SegTypeOK, segVars, Check, Unmerge
  <2>12. /\ LastPlaceForMerger' /\ KeysKnown' /\ ActiveState'
          /\ ListOfAllocated' /\ NewSegmentPrivate'
    BY <1>1, <1>i
       DEF LastPlaceForMerger, KeysKnown, ActiveState, ListOfAllocated,
           NewSegmentPrivate, ReplaceRuns, Lists, Check, Unmerge, segVars
  <2> QED
    BY <2>5, <2>6, <2>7, <2>8, <2>9, <2>10, <2>11, <2>12 DEF Inv, TypeOK
<1>2. ASSUME BeginMigrate PROVE Inv'
  <2>1. Fresh \in Seg /\ nsegs' = Fresh /\ Fresh = nsegs + 1
    BY <1>2, <1>n DEF BeginMigrate, NewSegment, Fresh, Seg
  <2>2. ~Lists(Fresh)
    BY <2>1, <1>i, <1>n, <1>s DEF ListOfAllocated, Lists, Seg
  <2>3. Fresh # segment_active /\ state[Fresh] = ACTIVE
    BY <2>1, <1>i, <1>n, <1>s DEF ActiveState, Seg
  <2>4. SegTypeOK'
    BY <1>2, <1>i, <2>1 DEF SegTypeOK, BeginMigrate, Unmerge, NewSegment, Fresh
  <2>5. MergerTypeOK'
    BY <1>2, <1>i, <2>1
       DEF MergerTypeOK, BeginMigrate, Unmerge, NewSegment, Fresh
  <2>6. StagePlace'
    BY <1>2, <1>i, <2>1
       DEF StagePlace, BeginMigrate, Unmerge, NewSegment, Fresh
  <2>7. OneMergerTask'
    BY <1>2, <1>i, <1>q
       DEF OneMergerTask, ReplacePhase, RedeletePhase, ReplaceRuns,
           RedeleteRuns, MergerTask, BeginMigrate, Unmerge, NewSegment, Fresh
  <2>8. ActiveState'
    BY <1>2, <1>i, <1>s, <1>n, <1>st
       DEF ActiveState, Seg, BeginMigrate, Unmerge, NewSegment, Fresh
  <2>9. ListOfAllocated'
    BY <1>2, <1>i, <1>s, <1>n
       DEF ListOfAllocated, Seg, BeginMigrate, Unmerge, NewSegment, Fresh
  <2>10. NewSegmentPrivate'
    BY <1>2, <2>1, <2>2, <2>3, <1>n
       DEF NewSegmentPrivate, BeginMigrate, Unmerge, Lists
  <2>11. /\ EngineTypeOK'
    BY <1>2, <1>i DEF EngineTypeOK, BeginMigrate, Unmerge, NewSegment, Fresh
  <2>12. /\ LastPlaceForMerger' /\ KeysKnown' /\ SourcesValid'
          /\ SourcesListed'
    BY <1>2, <1>i
       DEF LastPlaceForMerger, KeysKnown, SourcesValid, SourcesListed,
           Migrating, Merging, ReplaceToCome, ReplaceRuns, Lists, BeginMigrate,
           Unmerge, NewSegment, Fresh
  <2> QED
    BY <2>4, <2>5, <2>6, <2>7, <2>8, <2>9, <2>10, <2>11, <2>12 DEF Inv, TypeOK
<1>3. ASSUME CloneDeletion PROVE Inv'
  <2>1. old \in Seg
    BY <1>3, <1>i, <1>s
       DEF CloneDeletion, StagePlace, SourcesListed, ReplaceToCome,
           OneMergerTask, ReplacePhase, Lists
  <2>2. DocsIn(old) \subseteq Doc /\ deletion[old] \subseteq Nat
    BY <2>1, <1>i, DocsInType DEF SegTypeOK
  <2>3. MergerTypeOK'
    BY <1>3, <1>i, <2>2 DEF MergerTypeOK, CloneDeletion, Unmerge, segVars
  <2>4. StagePlace'
    BY <1>3, <1>i DEF StagePlace, CloneDeletion, Unmerge, segVars
  <2>5. OneMergerTask'
    BY <1>3, <1>i, <1>q
       DEF OneMergerTask, ReplacePhase, RedeletePhase, ReplaceRuns,
           RedeleteRuns, MergerTask, CloneDeletion, Unmerge, segVars
  <2>6. NewSegmentPrivate'
    BY <1>3, <1>i
       DEF NewSegmentPrivate, ReplaceRuns, Lists, CloneDeletion, Unmerge,
           segVars
  <2>7. /\ SegTypeOK' /\ EngineTypeOK'
    BY <1>3, <1>i DEF SegTypeOK, EngineTypeOK, segVars, CloneDeletion, Unmerge
  <2>8. /\ LastPlaceForMerger' /\ KeysKnown' /\ ActiveState'
        /\ ListOfAllocated' /\ SourcesValid' /\ SourcesListed'
    BY <1>3, <1>i
       DEF LastPlaceForMerger, KeysKnown, ActiveState, ListOfAllocated,
           SourcesValid, SourcesListed, Migrating, Merging, ReplaceToCome,
           ReplaceRuns, Lists, CloneDeletion, Unmerge, segVars
  <2> QED
    BY <2>3, <2>4, <2>5, <2>6, <2>7, <2>8 DEF Inv, TypeOK
<1>4. ASSUME CopyDocument PROVE Inv'
  <2>1. newseg \in Seg
    BY <1>4, <1>i DEF CopyDocument, NewSegmentPrivate
  <2>2. PICK d \in pending :
          /\ pending' = pending \ {d}
          /\ \/ doomed' = doomed \cup {d} /\ UNCHANGED << docId, docs >>
             \/ AddDocument(newseg, d) /\ UNCHANGED doomed
    BY <1>4 DEF CopyDocument
  <2>3. d \in Doc /\ doomed' \subseteq Doc /\ pending' \subseteq Doc
    BY <2>2, <1>i DEF MergerTypeOK
  <2>4. docs' \in [Seg -> Seq(Doc)] /\ docId' \in [Doc -> Nat]
    BY <2>2, <2>3, <2>1, <1>i, AddDocumentType DEF SegTypeOK
  <2>5. SegTypeOK'
    BY <1>4, <1>i, <2>4 DEF SegTypeOK, CopyDocument, Unmerge
  <2>6. MergerTypeOK'
    BY <1>4, <1>i, <2>3 DEF MergerTypeOK, CopyDocument, Unmerge
  <2>7. /\ EngineTypeOK'
    BY <1>4, <1>i DEF EngineTypeOK, CopyDocument, Unmerge
  <2>8. /\ StagePlace' /\ OneMergerTask' /\ LastPlaceForMerger'
        /\ KeysKnown'
    BY <1>4, <1>i
       DEF StagePlace, OneMergerTask, LastPlaceForMerger, KeysKnown,
           ReplacePhase, RedeletePhase, ReplaceRuns, RedeleteRuns, MergerTask,
           CopyDocument, Unmerge
  <2>9. /\ ActiveState' /\ ListOfAllocated' /\ NewSegmentPrivate'
        /\ SourcesValid' /\ SourcesListed'
    BY <1>4, <1>i
       DEF ActiveState, ListOfAllocated, NewSegmentPrivate, SourcesValid,
           SourcesListed, ReplaceRuns, Lists, Migrating, Merging,
           ReplaceToCome, CopyDocument, Unmerge
  <2> QED
    BY <2>5, <2>6, <2>7, <2>8, <2>9 DEF Inv, TypeOK
<1>5. ASSUME EndSource PROVE Inv'
  <2>1. MergerTypeOK'
    BY <1>5, <1>i DEF MergerTypeOK, EndSource, Unmerge, segVars
  <2>2. StagePlace'
    BY <1>5, <1>i DEF StagePlace, EndSource, Unmerge, segVars
  <2>3. OneMergerTask'
    BY <1>5, <1>i, <1>q
       DEF OneMergerTask, ReplacePhase, RedeletePhase, ReplaceRuns,
           RedeleteRuns, MergerTask, EndSource, Unmerge, segVars
  <2>4. NewSegmentPrivate'
    BY <1>5, <1>i
       DEF NewSegmentPrivate, ReplaceRuns, Lists, EndSource, Unmerge, segVars
  <2>5. /\ SegTypeOK' /\ EngineTypeOK'
    BY <1>5, <1>i DEF SegTypeOK, EngineTypeOK, segVars, EndSource, Unmerge
  <2>6. /\ LastPlaceForMerger' /\ KeysKnown' /\ ActiveState'
        /\ ListOfAllocated' /\ SourcesValid' /\ SourcesListed'
    BY <1>5, <1>i
       DEF LastPlaceForMerger, KeysKnown, ActiveState, ListOfAllocated,
           SourcesValid, SourcesListed, Migrating, Merging, ReplaceToCome,
           ReplaceRuns, Lists, EndSource, Unmerge, segVars
  <2> QED
    BY <2>1, <2>2, <2>3, <2>4, <2>5, <2>6 DEF Inv, TypeOK
<1>6. ASSUME PostReplace PROVE Inv'
  <2>1. ReplaceTask \in Task
    BY DEF Task, MergerTask
  <2>2. /\ queue' \in Seq(Task) /\ Len(queue) \in Nat
        /\ Len(queue') = Len(queue) + 1
        /\ \A i \in 1..Len(queue) : queue'[i] = queue[i]
        /\ queue'[Len(queue) + 1] = ReplaceTask
    BY <1>6, <1>q, <2>1, EnqueueFacts DEF PostReplace, Post
  <2>3. /\ \A i \in 1..Len(queue) : queue[i] \notin MergerTask
        /\ ~ReplaceRuns /\ ~RedeleteRuns
    BY <1>6, <1>i
       DEF OneMergerTask, ReplacePhase, RedeletePhase, MergerTask, StagePlace,
           PostReplace, Post
  <2>4. ReplacePhase' /\ pc' = pc
    BY <1>6, <1>i DEF ReplacePhase, StagePlace, PostReplace, Post, Unmerge
  <2>5. \A i \in 1..Len(queue') : i \in 1..Len(queue) \/ i = Len(queue) + 1
    BY <2>2
  <2>6. EngineTypeOK'
    BY <1>6, <1>i, <2>2 DEF EngineTypeOK, PostReplace, Post, Unmerge, segVars
  <2>7. MergerTypeOK'
    BY <1>6, <1>i DEF MergerTypeOK, PostReplace, Post, Unmerge, segVars
  <2>8. StagePlace'
    BY <1>6, <1>i DEF StagePlace, PostReplace, Post, Unmerge, segVars
  <2>9. OneMergerTask'
    BY <1>6, <2>2, <2>3, <2>4, <2>5
       DEF OneMergerTask, ReplaceRuns, RedeleteRuns, MergerTask, ReplaceTask,
           RedeleteTask
  <2>10. LastPlaceForMerger'
    BY <1>6, <1>i, <2>2, <2>3, QueueSizeAssumption
       DEF LastPlaceForMerger, MergerTask
  <2>11. KeysKnown'
    BY <1>6, <1>i, <1>q, <2>2
       DEF KeysKnown, NoTask, ReplaceTask, RedeleteTask, AddTask, RemoveTask,
           PostReplace, Post, Unmerge, segVars, mergerVars
  <2>12. NewSegmentPrivate'
    BY <1>6, <1>i, <2>2
       DEF NewSegmentPrivate, ReplaceRuns, Lists, PostReplace, Post, Unmerge,
           segVars, mergerVars
  <2>13. SourcesListed'
    BY <1>6, <1>i, <1>q, <1>s, <2>2
       DEF SourcesListed, ReplaceToCome, Lists, OneMergerTask, StagePlace,
           ReplacePhase, RedeletePhase, ReplaceRuns, RedeleteRuns, MergerTask,
           ReplaceTask, RedeleteTask, AddTask, RemoveTask, PostReplace, Post,
           Unmerge, segVars, mergerVars
  <2>14. /\ SegTypeOK' /\ ActiveState' /\ ListOfAllocated' /\ SourcesValid'
    BY <1>6, <1>i
       DEF SegTypeOK, ActiveState, ListOfAllocated, SourcesValid, segVars,
           Migrating, Merging, PostReplace, Post, Unmerge
  <2> QED
    BY <2>6, <2>7, <2>8, <2>9, <2>10, <2>11, <2>12, <2>13, <2>14
       DEF Inv, TypeOK
<1>7. ASSUME WriteStage2 PROVE Inv'
  <2>1. EngineTypeOK'
    BY <1>7, <1>i DEF EngineTypeOK, WriteStage2, WriteStage, Unmerge, segVars
  <2>2. MergerTypeOK'
    BY <1>7, <1>i DEF MergerTypeOK, WriteStage2, WriteStage, Unmerge, segVars
  <2>3. StagePlace'
    BY <1>7, <1>i DEF StagePlace, WriteStage2, WriteStage, Unmerge, segVars
  <2>4. OneMergerTask'
    BY <1>7, <1>i, <1>q
       DEF OneMergerTask, ReplacePhase, RedeletePhase, ReplaceRuns,
           RedeleteRuns, MergerTask, WriteStage2, WriteStage, Unmerge, segVars
  <2>5. NewSegmentPrivate'
    BY <1>7, <1>i
       DEF NewSegmentPrivate, ReplaceRuns, Lists, WriteStage2, WriteStage,
           Unmerge, segVars
  <2>6. SourcesValid'
    BY <1>7, <1>i, <1>s, <1>n, <1>st
       DEF SourcesValid, ActiveState, StagePlace, OneMergerTask, ReplacePhase,
           RedeletePhase, ReplaceRuns, RedeleteRuns, MergerTask,
           NewSegmentPrivate, Migrating, Merging, WriteStage2, WriteStage,
           Unmerge, segVars
  <2>7. SourcesListed'
    BY <1>7, <1>i
       DEF SourcesListed, ReplaceToCome, ReplaceRuns, Lists, WriteStage2,
           WriteStage, Unmerge, segVars
  <2>8. /\ SegTypeOK'
    BY <1>7, <1>i DEF SegTypeOK, segVars, WriteStage2, WriteStage, Unmerge
  <2>9. /\ LastPlaceForMerger' /\ KeysKnown' /\ ActiveState'
        /\ ListOfAllocated'
    BY <1>7, <1>i
       DEF LastPlaceForMerger, KeysKnown, ActiveState, ListOfAllocated,
           WriteStage2, WriteStage, Unmerge, segVars
  <2> QED
    BY <2>1, <2>2, <2>3, <2>4, <2>5, <2>6, <2>7, <2>8, <2>9 DEF Inv, TypeOK
<1> QED
  BY <1>1, <1>2, <1>3, <1>4, <1>5, <1>6, <1>7

\* The merge thread after replace: the segments are released, and redelete is
\* forced into the queue when no other task of it is there.
LEMMA ReleaseKeepsInv ==
  ASSUME Inv, Release1 \/ Release2 \/ Release3 \/ PostRedelete
           \/ WriteStage5 \/ Reset
  PROVE  Inv'
<1>i. /\ SegTypeOK /\ EngineTypeOK /\ MergerTypeOK
      /\ StagePlace /\ OneMergerTask /\ LastPlaceForMerger /\ KeysKnown
      /\ ActiveState /\ ListOfAllocated /\ NewSegmentPrivate
      /\ SourcesValid /\ SourcesListed
  BY DEF Inv, TypeOK
<1>q. queue \in Seq(Task)
  BY <1>i DEF EngineTypeOK
<1>s. segments \in Seq(Seg) /\ segment_active \in Seg
  BY <1>i DEF EngineTypeOK
<1>n. nsegs \in Nat /\ nsegs >= 1 /\ nsegs <= MaxSeg /\ MaxSeg \in Nat
  BY <1>i, MaxSegAssumption DEF SegTypeOK, Seg
<1>st. state \in [Seg -> States] /\ ACTIVE = 0 /\ VALID = 1
  BY <1>i DEF SegTypeOK, States, ACTIVE, VALID
<1>1. ASSUME Release1 PROVE Inv'
  <2>1. freedSegs' \subseteq Seg
    BY <1>1, <1>i DEF Release1, FreeSegments, SegTypeOK, MergerTypeOK
  <2>2. SegTypeOK'
    BY <1>1, <1>i, <2>1 DEF SegTypeOK, Release1, Unmerge
  <2>3. MergerTypeOK'
    BY <1>1, <1>i DEF MergerTypeOK, Release1, Unmerge
  <2>4. StagePlace'
    BY <1>1, <1>i DEF StagePlace, Release1, Unmerge
  <2>5. OneMergerTask'
    BY <1>1, <1>i, <1>q
       DEF OneMergerTask, ReplacePhase, RedeletePhase, ReplaceRuns,
           RedeleteRuns, MergerTask, Release1, Unmerge
  <2>6. NewSegmentPrivate'
    BY <1>1, <1>i DEF NewSegmentPrivate, ReplaceRuns, Lists, Release1, Unmerge
  <2>7. SourcesValid'
    BY <1>1, <1>i DEF SourcesValid, Migrating, Merging, Release1, Unmerge
  <2>8. SourcesListed'
    BY <1>1, <1>i, <1>q, <1>s
       DEF SourcesListed, ReplaceToCome, Lists, OneMergerTask, StagePlace,
           ReplacePhase, RedeletePhase, ReplaceRuns, RedeleteRuns, MergerTask,
           ReplaceTask, RedeleteTask, AddTask, RemoveTask, Release1, Unmerge
  <2>9. /\ EngineTypeOK'
    BY <1>1, <1>i DEF EngineTypeOK, Release1, Unmerge
  <2>10. /\ LastPlaceForMerger' /\ KeysKnown' /\ ActiveState'
          /\ ListOfAllocated'
    BY <1>1, <1>i
       DEF LastPlaceForMerger, KeysKnown, ActiveState, ListOfAllocated,
           Release1, Unmerge
  <2> QED
    BY <2>2, <2>3, <2>4, <2>5, <2>6, <2>7, <2>8, <2>9, <2>10 DEF Inv, TypeOK
<1>2. ASSUME Release2 PROVE Inv'
  <2>1. freedSegs' \subseteq Seg
    BY <1>2, <1>i DEF Release2, FreeSegments, SegTypeOK, MergerTypeOK
  <2>2. SegTypeOK'
    BY <1>2, <1>i, <2>1 DEF SegTypeOK, Release2, Unmerge
  <2>3. MergerTypeOK'
    BY <1>2, <1>i DEF MergerTypeOK, Release2, Unmerge
  <2>4. StagePlace'
    BY <1>2, <1>i DEF StagePlace, Release2, Unmerge
  <2>5. OneMergerTask'
    BY <1>2, <1>i, <1>q
       DEF OneMergerTask, ReplacePhase, RedeletePhase, ReplaceRuns,
           RedeleteRuns, MergerTask, Release2, Unmerge
  <2>6. NewSegmentPrivate'
    BY <1>2, <1>i DEF NewSegmentPrivate, ReplaceRuns, Lists, Release2, Unmerge
  <2>7. SourcesValid'
    BY <1>2, <1>i DEF SourcesValid, Migrating, Merging, Release2, Unmerge
  <2>8. SourcesListed'
    BY <1>2, <1>i, <1>q, <1>s
       DEF SourcesListed, ReplaceToCome, Lists, OneMergerTask, StagePlace,
           ReplacePhase, RedeletePhase, ReplaceRuns, RedeleteRuns, MergerTask,
           ReplaceTask, RedeleteTask, AddTask, RemoveTask, Release2, Unmerge
  <2>9. /\ EngineTypeOK'
    BY <1>2, <1>i DEF EngineTypeOK, Release2, Unmerge
  <2>10. /\ LastPlaceForMerger' /\ KeysKnown' /\ ActiveState'
          /\ ListOfAllocated'
    BY <1>2, <1>i
       DEF LastPlaceForMerger, KeysKnown, ActiveState, ListOfAllocated,
           Release2, Unmerge
  <2> QED
    BY <2>2, <2>3, <2>4, <2>5, <2>6, <2>7, <2>8, <2>9, <2>10 DEF Inv, TypeOK
<1>3. ASSUME Release3 PROVE Inv'
  <2>1. freedSegs' \subseteq Seg /\ freedDocs' \subseteq Doc
    BY <1>3, <1>i
       DEF Release3, FreeSegments, SegTypeOK, MergerTypeOK, StagePlace
  <2>2. SegTypeOK'
    BY <1>3, <1>i, <2>1 DEF SegTypeOK, Release3, Unmerge
  <2>3. EngineTypeOK'
    BY <1>3, <1>i DEF EngineTypeOK, Release3, Unmerge
  <2>4. MergerTypeOK'
    BY <1>3, <1>i DEF MergerTypeOK, Release3, Unmerge
  <2>5. StagePlace'
    BY <1>3, <1>i DEF StagePlace, Release3, Unmerge
  <2>6. OneMergerTask'
    BY <1>3, <1>i, <1>q
       DEF OneMergerTask, ReplacePhase, RedeletePhase, ReplaceRuns,
           RedeleteRuns, MergerTask, Release3, Unmerge
  <2>7. NewSegmentPrivate'
    BY <1>3, <1>i DEF NewSegmentPrivate, ReplaceRuns, Lists, Release3, Unmerge
  <2>8. SourcesValid'
    BY <1>3, <1>i DEF SourcesValid, Migrating, Merging, Release3, Unmerge
  <2>9. SourcesListed'
    BY <1>3, <1>i
       DEF SourcesListed, ReplaceToCome, ReplaceRuns, Lists, Release3, Unmerge
  <2>10. /\ LastPlaceForMerger' /\ KeysKnown' /\ ActiveState'
          /\ ListOfAllocated'
    BY <1>3, <1>i
       DEF LastPlaceForMerger, KeysKnown, ActiveState, ListOfAllocated,
           Release3, Unmerge
  <2> QED
    BY <2>2, <2>3, <2>4, <2>5, <2>6, <2>7, <2>8, <2>9, <2>10 DEF Inv, TypeOK
<1>4. ASSUME PostRedelete PROVE Inv'
  <2>1. RedeleteTask \in Task
    BY DEF Task, MergerTask
  <2>2. /\ queue' \in Seq(Task) /\ Len(queue) \in Nat
        /\ Len(queue') = Len(queue) + 1
        /\ \A i \in 1..Len(queue) : queue'[i] = queue[i]
        /\ queue'[Len(queue) + 1] = RedeleteTask
    BY <1>4, <1>q, <2>1, EnqueueFacts DEF PostRedelete, Post
  <2>3. /\ \A i \in 1..Len(queue) : queue[i] \notin MergerTask
        /\ ~ReplaceRuns /\ ~RedeleteRuns
    BY <1>4, <1>i
       DEF OneMergerTask, ReplacePhase, RedeletePhase, MergerTask, StagePlace,
           PostRedelete, Post
  <2>4. RedeletePhase' /\ pc' = pc
    BY <1>4, <1>i DEF RedeletePhase, StagePlace, PostRedelete, Post, Unmerge
  <2>5. \A i \in 1..Len(queue') : i \in 1..Len(queue) \/ i = Len(queue) + 1
    BY <2>2
  <2>6. (\E i \in 1..Len(queue') : queue'[i] = ReplaceTask)
          => \E i \in 1..Len(queue) : queue[i] = ReplaceTask
    BY <2>2 DEF ReplaceTask, RedeleteTask
  <2>7. EngineTypeOK'
    BY <1>4, <1>i, <2>2 DEF EngineTypeOK, PostRedelete, Post, Unmerge, segVars
  <2>8. MergerTypeOK'
    BY <1>4, <1>i DEF MergerTypeOK, PostRedelete, Post, Unmerge, segVars
  <2>9. StagePlace'
    BY <1>4, <1>i DEF StagePlace, PostRedelete, Post, Unmerge, segVars
  <2>10. OneMergerTask'
    BY <1>4, <2>2, <2>3, <2>4, <2>5
       DEF OneMergerTask, ReplaceRuns, RedeleteRuns, MergerTask, ReplaceTask,
           RedeleteTask
  <2>11. LastPlaceForMerger'
    BY <1>4, <1>i, <2>2, <2>3, QueueSizeAssumption
       DEF LastPlaceForMerger, MergerTask
  <2>12. KeysKnown'
    BY <1>4, <1>i, <1>q, <2>2
       DEF KeysKnown, NoTask, ReplaceTask, RedeleteTask, AddTask, RemoveTask,
           PostRedelete, Post, Unmerge, segVars, mergerVars
  <2>13. NewSegmentPrivate'
    BY <1>4, <2>6, <1>i
       DEF NewSegmentPrivate, ReplaceRuns, Lists, PostRedelete, Post, Unmerge,
           segVars
  <2>14. SourcesListed'
    BY <1>4, <1>i, <1>q, <1>s, <2>2
       DEF SourcesListed, ReplaceToCome, Lists, OneMergerTask, StagePlace,
           ReplacePhase, RedeletePhase, ReplaceRuns, RedeleteRuns, MergerTask,
           ReplaceTask, RedeleteTask, AddTask, RemoveTask, PostRedelete, Post,
           Unmerge, segVars, mergerVars
  <2>15. /\ SegTypeOK' /\ ActiveState' /\ ListOfAllocated' /\ SourcesValid'
    BY <1>4, <1>i
       DEF SegTypeOK, ActiveState, ListOfAllocated, SourcesValid, segVars,
           Migrating, Merging, PostRedelete, Post, Unmerge
  <2> QED
    BY <2>7, <2>8, <2>9, <2>10, <2>11, <2>12, <2>13, <2>14, <2>15
       DEF Inv, TypeOK
<1>5. ASSUME WriteStage5 PROVE Inv'
  <2>1. EngineTypeOK'
    BY <1>5, <1>i DEF EngineTypeOK, WriteStage5, WriteStage, Unmerge, segVars
  <2>2. MergerTypeOK'
    BY <1>5, <1>i DEF MergerTypeOK, WriteStage5, WriteStage, Unmerge, segVars
  <2>3. StagePlace'
    BY <1>5, <1>i DEF StagePlace, WriteStage5, WriteStage, Unmerge, segVars
  <2>4. OneMergerTask'
    BY <1>5, <1>i, <1>q
       DEF OneMergerTask, ReplacePhase, RedeletePhase, ReplaceRuns,
           RedeleteRuns, MergerTask, WriteStage5, WriteStage, Unmerge, segVars
  <2>5. NewSegmentPrivate'
    BY <1>5, <1>i
       DEF NewSegmentPrivate, ReplaceRuns, Lists, WriteStage5, WriteStage,
           Unmerge, segVars
  <2>6. SourcesValid'
    BY <1>5, <1>i, <1>s, <1>n, <1>st
       DEF SourcesValid, ActiveState, StagePlace, OneMergerTask, ReplacePhase,
           RedeletePhase, ReplaceRuns, RedeleteRuns, MergerTask,
           NewSegmentPrivate, Migrating, Merging, WriteStage5, WriteStage,
           Unmerge, segVars
  <2>7. SourcesListed'
    BY <1>5, <1>i
       DEF SourcesListed, ReplaceToCome, ReplaceRuns, Lists, WriteStage5,
           WriteStage, Unmerge, segVars
  <2>8. /\ SegTypeOK'
    BY <1>5, <1>i DEF SegTypeOK, segVars, WriteStage5, WriteStage, Unmerge
  <2>9. /\ LastPlaceForMerger' /\ KeysKnown' /\ ActiveState'
        /\ ListOfAllocated'
    BY <1>5, <1>i
       DEF LastPlaceForMerger, KeysKnown, ActiveState, ListOfAllocated,
           WriteStage5, WriteStage, Unmerge, segVars
  <2> QED
    BY <2>1, <2>2, <2>3, <2>4, <2>5, <2>6, <2>7, <2>8, <2>9 DEF Inv, TypeOK
<1>6. ASSUME Reset PROVE Inv'
  <2>1. EngineTypeOK'
    BY <1>6, <1>i DEF EngineTypeOK, Reset, Unmerge, segVars
  <2>2. MergerTypeOK'
    BY <1>6, <1>i DEF MergerTypeOK, Reset, Unmerge, segVars
  <2>3. StagePlace'
    BY <1>6, <1>i DEF StagePlace, Reset, Unmerge, segVars
  <2>4. OneMergerTask'
    BY <1>6, <1>i, <1>q
       DEF OneMergerTask, ReplacePhase, RedeletePhase, ReplaceRuns,
           RedeleteRuns, MergerTask, Reset, Unmerge, segVars
  <2>5. SourcesValid'
    BY <1>6, <1>i DEF SourcesValid, Migrating, Merging, Reset, Unmerge, segVars
  <2>6. SourcesListed'
    BY <1>6, <1>i
       DEF SourcesListed, ReplaceToCome, ReplaceRuns, Lists, Reset, Unmerge,
           segVars
  <2>7. /\ SegTypeOK'
    BY <1>6, <1>i DEF SegTypeOK, segVars, Reset, Unmerge
  <2>8. /\ LastPlaceForMerger' /\ KeysKnown' /\ ActiveState'
        /\ ListOfAllocated' /\ NewSegmentPrivate'
    BY <1>6, <1>i
       DEF LastPlaceForMerger, KeysKnown, ActiveState, ListOfAllocated,
           NewSegmentPrivate, ReplaceRuns, Lists, Reset, Unmerge, segVars
  <2> QED
    BY <2>1, <2>2, <2>3, <2>4, <2>5, <2>6, <2>7, <2>8 DEF Inv, TypeOK
<1> QED
  BY <1>1, <1>2, <1>3, <1>4, <1>5, <1>6
-----------------------------------------------------------------------------

\* ts_engine_new: one empty ACTIVE segment, which is listed and active.
LEMMA InitEstablishesInv == Init => Inv
<1> SUFFICES ASSUME Init PROVE Inv
  OBVIOUS
<1>1. 1 \in Seg
  BY MaxSegAssumption DEF Seg
<1>2. << 1 >> \in Seq(Seg) /\ Len(<< 1 >>) = 1 /\ << 1 >>[1] = 1
  BY <1>1
<1>3. << >> \in Seq(Task) /\ << >> \in Seq(Doc) /\ Len(<< >>) = 0
  BY EmptySeq
<1>4. SegTypeOK
  BY <1>1, <1>3 DEF Init, SegInit, SegTypeOK, ACTIVE, VALID
<1>5. EngineTypeOK
  <2>1. store \in [PK -> Doc \cup {0}] /\ issued \in 0..MaxDoc
    BY MaxDocAssumption DEF Init, EngineInit
  <2>2. queue \in Seq(Task) /\ segments \in Seq(Seg)
    BY <1>2, <1>3 DEF Init, EngineInit
  <2>3. /\ segment_active \in Seg /\ cursor \in Nat /\ merge_stage \in 0..6
        /\ merging_deletion = {} /\ updated = {}
        /\ pc = "idle" /\ task = NoTask
    BY <1>1 DEF Init, EngineInit
  <2>4. crash \in {"none", "assertion", "stale_task"}
    BY DEF Init, EngineInit
  <2> QED
    BY <2>1, <2>2, <2>3, <2>4 DEF EngineTypeOK
<1>6. MergerTypeOK
  BY DEF Init, MergerInit, MergerTypeOK
<1>7. /\ StagePlace /\ OneMergerTask /\ LastPlaceForMerger /\ KeysKnown
      /\ NewSegmentPrivate /\ SourcesValid /\ SourcesListed
  BY <1>3, QueueSizeAssumption
     DEF Init, EngineInit, MergerInit, StagePlace, OneMergerTask,
         LastPlaceForMerger, KeysKnown, NewSegmentPrivate, SourcesValid,
         SourcesListed, ReplaceToCome, ReplaceRuns, RedeleteRuns, Migrating,
         Merging, NoTask
<1>8. ActiveState
  BY <1>1 DEF Init, SegInit, EngineInit, ActiveState
<1>9. ListOfAllocated
  BY <1>2 DEF Init, SegInit, EngineInit, ListOfAllocated
<1> QED
  BY <1>4, <1>5, <1>6, <1>7, <1>8, <1>9 DEF Inv, TypeOK

\* No step of a client, of the input processor or of the merge thread breaks
\* the invariant.
LEMMA NextKeepsInv == Inv /\ [Next]_vars => Inv'
<1> SUFFICES ASSUME Inv, [Next]_vars PROVE Inv'
  OBVIOUS
<1>1. CASE UNCHANGED vars
  <2>1. UNCHANGED << segVars, engineVars, mergerVars, headPrev >>
    BY <1>1 DEF vars
  <2>2. SegTypeOK'
    BY <2>1 DEF Inv, TypeOK, segVars, SegTypeOK
  <2>3. EngineTypeOK'
    BY <2>1 DEF Inv, TypeOK, engineVars, EngineTypeOK
  <2>4. MergerTypeOK'
    BY <2>1 DEF Inv, TypeOK, mergerVars, MergerTypeOK
  <2>5. StagePlace' /\ OneMergerTask' /\ LastPlaceForMerger' /\ KeysKnown'
    BY <2>1
       DEF Inv, segVars, engineVars, mergerVars, StagePlace, OneMergerTask,
           ReplacePhase, RedeletePhase, ReplaceRuns, RedeleteRuns,
           LastPlaceForMerger, KeysKnown
  <2>6. ActiveState' /\ ListOfAllocated' /\ NewSegmentPrivate'
    BY <2>1
       DEF Inv, segVars, engineVars, mergerVars, ActiveState, ListOfAllocated,
           NewSegmentPrivate, ReplaceRuns, Lists
  <2>7. SourcesValid' /\ SourcesListed'
    BY <2>1
       DEF Inv, segVars, engineVars, mergerVars, SourcesValid, Migrating,
           Merging, SourcesListed, ReplaceToCome, ReplaceRuns, Lists
  <2> QED
    BY <2>2, <2>3, <2>4, <2>5, <2>6, <2>7 DEF Inv, TypeOK
<1>2. CASE ClientStep
  BY <1>2, ClientKeepsInv DEF ClientStep, Client
<1>3. CASE InputStep
  BY <1>3, InputProcessorKeepsInv, MergerHandlersKeepInv DEF InputStep
<1>4. CASE MergeStep
  BY <1>4, MigrationKeepsInv, ReleaseKeepsInv DEF MergeStep, MergeThread
<1> QED
  BY <1>1, <1>2, <1>3, <1>4 DEF Next

\* The hand-shake of the two threads holds in every behaviour of the engine, up
\* to an assertion that fails (utlist.h:709) or a task that is run for a second
\* time (queue.c:49, engine.c:49): Spec takes no step after either.
THEOREM InvHolds == Spec => []Inv
  BY InitEstablishesInv, NextKeepsInv, PTL DEF Spec

\* Every variable keeps its type; what is not obvious is that no task run once
\* increments a state past VALID, that a handler finds the segments it deletes,
\* and that the merge thread only works on segments it has.  A replace task run
\* again would (queue.c:49); Spec ends where one is.
THEOREM TypeCorrect == Spec => []TypeOK
<1>1. Inv => TypeOK
  BY DEF Inv
<1> QED
  BY InvHolds, <1>1, PTL

\* However replace and redelete interleave with the requests of the clients,
\* the forced enqueues make the input queue exceed its limit by one task.
THEOREM QueueBounded == Spec => []QueueBound
<1>1. Inv => QueueBound
  BY DEF Inv, LastPlaceForMerger, QueueBound
<1> QED
  BY InvHolds, <1>1, PTL

\* A document is added to an ACTIVE segment only: the active one by the add
\* handler, the new one by the merge thread.
LEMMA OnlyActiveGrow ==
  ASSUME Inv, [Next]_vars, NEW s \in Seg, state[s] = VALID
  PROVE  docs'[s] = docs[s]
<1>0. /\ docs \in [Seg -> Seq(Doc)]
      /\ segment_active \in Seg
      /\ ACTIVE # VALID
  BY DEF Inv, TypeOK, SegTypeOK, EngineTypeOK, ACTIVE, VALID
<1>1. CASE FinishAdd
  <2>1. segment_active # s
    BY <1>0, <1>1 DEF Inv, ActiveState, FinishAdd
  <2>2. docs' = [docs EXCEPT ![segment_active] = Append(@, task.doc)]
    BY <1>1 DEF FinishAdd, AddDocument
  <2> QED
    BY <1>0, <2>1, <2>2
<1>2. CASE CopyDocument
  <2>1. newseg \in Seg /\ newseg # s
    BY <1>0, <1>2 DEF Inv, NewSegmentPrivate, CopyDocument
  <2>2. \/ docs' = docs
        \/ \E d \in pending : docs' = [docs EXCEPT ![newseg] = Append(@, d)]
    BY <1>2 DEF CopyDocument, AddDocument
  <2> QED
    BY <1>0, <2>1, <2>2
<1>3. CASE ~FinishAdd /\ ~CopyDocument
  <2>1. CASE UNCHANGED vars
    BY <2>1 DEF vars, segVars
  <2>2. CASE ClientStep
    BY <2>2
       DEF ClientStep, Client, Accept, RejectFull, RejectInvalid, Unclient
  <2>3. CASE InputProcessor
    BY <1>3, <2>3
       DEF InputProcessor, FindEmpty, ReadSize, BeginAdd, Rotate, BeginRemove,
           ScanSegment, TestBit, SetBit, Scanned, FinishRemove, segVars
  <2>4. CASE MergerHandlers
    BY <2>4
       DEF MergerHandlers, BeginReplace, ReplaceDelete1, ReplaceDelete2,
           ReplaceDelete, FinishReplace, Redelete, FinishRedelete, segVars
  <2>5. CASE MergeThread
    BY <1>3, <2>5
       DEF MergeThread, Check, BeginMigrate, CloneDeletion, EndSource,
           PostReplace, PostRedelete, Post, WriteStage2, WriteStage5,
           WriteStage, Release1, Release2, Release3, Reset, segVars
  <2> QED
    BY <2>1, <2>2, <2>3, <2>4, <2>5 DEF Next, InputStep, MergeStep
<1> QED
  BY <1>1, <1>2, <1>3

\* ts_segment_migrate copies segments nobody adds documents to: no document
\* can arrive behind the copy and be lost with the old segment.
THEOREM SourcesFrozen == Spec => MergeSourcesFrozen
<1>1. ASSUME Inv, [Next]_vars
      PROVE  \A s \in Migrating \ {NoSeg} : docs'[s] = docs[s]
  <2> TAKE s \in Migrating \ {NoSeg}
  <2>1. s \in Seg /\ state[s] = VALID
    BY <1>1 DEF Inv, TypeOK, MergerTypeOK, SourcesValid, Migrating
  <2> QED
    BY <1>1, <2>1, OnlyActiveGrow
<1>2. Inv /\ [Next]_vars
        => [\A s \in Migrating \ {NoSeg} : docs'[s] = docs[s]]_vars
  BY <1>1
<1> QED
  BY InvHolds, <1>2, PTL DEF Spec, MergeSourcesFrozen

=============================================================================
