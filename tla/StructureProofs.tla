--------------------------- MODULE StructureProofs ---------------------------
(***************************************************************************)
(* Theorems about the data structures under the engine, for any number of  *)
(* their elements, a part for each: the bitmap of deletions, the buckets   *)
(* of document ids, the memory of the documents that pass through the      *)
(* merger, the array of strings, and the search in a string.               *)
(***************************************************************************)
EXTENDS ListProofs, Bitmap, DocIds, Documents, Arrays, StringSearch

-----------------------------------------------------------------------------
(* The bitmap (bitmap.h).                                                  *)

IsBytes(b) ==
  /\ b = [l |-> b.l, c |-> b.c]
  /\ b.l \in Nat
  /\ b.c \in [0..(b.l - 1) -> SUBSET (0..7)]

\* b is the bitmap of the set s.
Holds(b, s) == \A p \in Nat : Get(b, p) <=> p \in s

\* The bits that positions stand for say which they are; this and the sizes of
\* the arrays make BitmapIsSet inductive.
BitmapInv ==
  /\ bits \subseteq Nat
  /\ blocks \in Nat /\ emptied \in Nat
  /\ IsBytes(bm) /\ Holds(bm, bits)
  /\ IsBytes(bmClone)
  /\ cloned => Holds(bmClone, cloneBits)
  /\ blocks = emptied + (IF cloned THEN 1 ELSE 0)

\* A position is its byte and its bit.
LEMMA PositionIsByteAndBit ==
  /\ \A p \in Nat : Dig(p) \in Nat /\ Mod(p) \in 0..7
  /\ \A p, q \in Nat : Dig(p) = Dig(q) /\ Mod(p) = Mod(q) => p = q
<1>1. \A p \in Nat : p \div 8 \in Nat /\ p % 8 \in 0..7
  OBVIOUS
<1>2. \A p, q \in Nat : p \div 8 = q \div 8 /\ p % 8 = q % 8 => p = q
  OBVIOUS
<1> QED
  BY <1>1, <1>2 DEF Dig, Mod

LEMMA AlignReaches ==
  ASSUME TS_BITMAP_PREALLOC \in Nat \ {0}, NEW n \in Nat
  PROVE  Align(n) \in Nat /\ Align(n) >= n
<1>1. ASSUME NEW s \in Nat, NEW u \in Nat \ {0}
      PROVE  (s \div u) * u > s - u /\ s \div u \in Nat /\ (s \div u) * u \in Nat
  OBVIOUS
<1> DEFINE s == n + TS_BITMAP_PREALLOC - 1
<1>2. s \in Nat
  OBVIOUS
<1> HIDE DEF s
<1>3. (s \div TS_BITMAP_PREALLOC) * TS_BITMAP_PREALLOC > s - TS_BITMAP_PREALLOC
      /\ (s \div TS_BITMAP_PREALLOC) * TS_BITMAP_PREALLOC \in Nat
  BY <1>1, <1>2
<1>4. Align(n) = (s \div TS_BITMAP_PREALLOC) * TS_BITMAP_PREALLOC
  BY DEF Align, s
<1>5. s - TS_BITMAP_PREALLOC = n - 1
  BY DEF s
<1> QED
  BY <1>3, <1>4, <1>5

\* What is reserved is there, and holds what it held.
LEMMA ReservedHolds ==
  ASSUME TS_BITMAP_PREALLOC \in Nat \ {0}, NEW b, IsBytes(b), NEW n \in Nat
  PROVE  /\ IsBytes(Reserved(b, n))
         /\ Reserved(b, n).l >= n
         /\ \A p \in Nat : Get(Reserved(b, n), p) <=> Get(b, p)
<1>1. CASE n <= b.l
  BY <1>1 DEF Reserved, IsBytes
<1>2. CASE ~(n <= b.l)
  <2> DEFINE a == Align(n)
             more == [i \in 0..(a - 1) |-> IF i < b.l THEN b.c[i] ELSE {}]
  <2>1. a \in Nat /\ a >= n /\ b.l \in Nat /\ b.l < a
    BY <1>2, AlignReaches DEF IsBytes
  <2>2. Reserved(b, n) = [l |-> a, c |-> more]
    BY <1>2 DEF Reserved
  <2> HIDE DEF a
  <2>3. more \in [0..(a - 1) -> SUBSET (0..7)]
    <3>1. \A i \in 0..(a - 1) : i < b.l => i \in 0..(b.l - 1)
      BY <2>1
    <3>2. \A i \in 0..(b.l - 1) : b.c[i] \in SUBSET (0..7)
      BY DEF IsBytes
    <3> QED
      BY <3>1, <3>2
  <2>4. ASSUME NEW p \in Nat
        PROVE  Get([l |-> a, c |-> more], p) <=> Get(b, p)
    <3>1. Dig(p) \in Nat
      BY PositionIsByteAndBit
    <3>2. CASE Dig(p) < b.l
      <4>1. Dig(p) \in 0..(a - 1) /\ Dig(p) < a
        BY <2>1, <3>1, <3>2
      <4>2. more[Dig(p)] = b.c[Dig(p)]
        BY <3>2, <4>1
      <4> QED
        BY <3>2, <4>1, <4>2 DEF Get
    <3>3. CASE ~(Dig(p) < b.l)
      <4>1. Dig(p) < a => Dig(p) \in 0..(a - 1)
        BY <2>1, <3>1
      <4>2. Dig(p) < a => more[Dig(p)] = {}
        BY <3>3, <4>1
      <4> QED
        BY <3>3, <4>2 DEF Get
    <3> QED
      BY <3>2, <3>3
  <2>5. IsBytes([l |-> a, c |-> more])
    BY <2>1, <2>3 DEF IsBytes
  <2> HIDE DEF more
  <2> QED
    BY <2>1, <2>2, <2>4, <2>5
<1> QED
  BY <1>1, <1>2

\* Writing the byte of a position writes that position only.
LEMMA ByteWritten ==
  ASSUME NEW b, IsBytes(b), NEW s \in SUBSET Nat, Holds(b, s),
         NEW p \in Nat, Dig(p) < b.l,
         NEW m \in {b.c[Dig(p)] \cup {Mod(p)}, b.c[Dig(p)] \ {Mod(p)}}
  PROVE  /\ IsBytes([b EXCEPT !.c[Dig(p)] = m])
         /\ Mod(p) \in m  => Holds([b EXCEPT !.c[Dig(p)] = m], s \cup {p})
         /\ Mod(p) \notin m => Holds([b EXCEPT !.c[Dig(p)] = m], s \ {p})
<1> DEFINE w == [b EXCEPT !.c[Dig(p)] = m]
           c == [b.c EXCEPT ![Dig(p)] = m]
<1>1. b.l \in Nat /\ Dig(p) \in 0..(b.l - 1) /\ Mod(p) \in 0..7
  BY PositionIsByteAndBit DEF IsBytes
<1>2. b.c[Dig(p)] \in SUBSET (0..7)
  BY <1>1 DEF IsBytes
<1>3. m \in SUBSET (0..7)
  BY <1>1, <1>2
<1>4. c \in [0..(b.l - 1) -> SUBSET (0..7)]
  BY <1>3 DEF IsBytes
<1>5. w = [l |-> b.l, c |-> c]
  <2>1. \A l, f, d, v : [[l |-> l, c |-> f] EXCEPT !.c[d] = v]
                          = [l |-> l, c |-> [f EXCEPT ![d] = v]]
    OBVIOUS
  <2>2. [[l |-> b.l, c |-> b.c] EXCEPT !.c[Dig(p)] = m] = [l |-> b.l, c |-> c]
    BY <2>1
  <2>3. b = [l |-> b.l, c |-> b.c]
    BY DEF IsBytes
  <2> QED
    BY <2>2, <2>3, Zenon
<1>6. IsBytes(w)
  BY <1>1, <1>4, <1>5 DEF IsBytes
<1>7. ASSUME NEW q \in Nat
      PROVE  Get(w, q) <=> IF q = p THEN Mod(p) \in m ELSE Get(b, q)
  <2>1. w.l = b.l /\ w.c = c
    BY <1>5
  <2>2. Dig(q) \in Nat /\ (Dig(q) < b.l => Dig(q) \in 0..(b.l - 1))
    BY <1>1, PositionIsByteAndBit
  <2>3. Dig(q) < b.l => c[Dig(q)] = IF Dig(q) = Dig(p) THEN m ELSE b.c[Dig(q)]
    BY <2>2 DEF IsBytes
  <2>4. q # p /\ Dig(q) = Dig(p) => Mod(q) # Mod(p)
    BY PositionIsByteAndBit
  <2>5. Mod(q) # Mod(p) => (Mod(q) \in m <=> Mod(q) \in b.c[Dig(p)])
    OBVIOUS
  <2> HIDE DEF w, c
  <2>6. CASE q = p
    BY <2>1, <2>3, <2>6 DEF Get
  <2>7. CASE q # p /\ Dig(q) = Dig(p)
    BY <2>1, <2>3, <2>4, <2>5, <2>7 DEF Get
  <2>8. CASE q # p /\ Dig(q) # Dig(p)
    BY <2>1, <2>3, <2>8 DEF Get
  <2> QED
    BY <2>6, <2>7, <2>8
<1> HIDE DEF w
<1>8. Mod(p) \in m => Holds(w, s \cup {p})
  BY <1>7 DEF Holds
<1>9. Mod(p) \notin m => Holds(w, s \ {p})
  BY <1>7 DEF Holds
<1> QED
  BY <1>6, <1>8, <1>9 DEF w

LEMMA BitmapStart == BitmapInit => BitmapInv
<1> SUFFICES ASSUME BitmapInit PROVE BitmapInv
  OBVIOUS
<1>1. IsBytes(NoBytes)
  BY DEF IsBytes, NoBytes
<1>2. ASSUME NEW p \in Nat PROVE ~Get(NoBytes, p)
  <2>1. Dig(p) \in Nat
    BY PositionIsByteAndBit
  <2> QED
    BY <2>1 DEF Get, NoBytes
<1> QED
  BY <1>1, <1>2 DEF BitmapInit, BitmapInv, Holds

LEMMA SetStep ==
  ASSUME TS_BITMAP_PREALLOC \in Nat \ {0}, BitmapInv,
         NEW p \in Nat, BitmapSet(p)
  PROVE  BitmapInv'
<1> DEFINE r == Reserved(bm, Dig(p) + 1)
           m == r.c[Dig(p)] \cup {Mod(p)}
<1>1. Dig(p) \in Nat /\ Dig(p) + 1 \in Nat
  BY PositionIsByteAndBit
<1>2. /\ IsBytes(r) /\ r.l >= Dig(p) + 1
      /\ \A q \in Nat : Get(r, q) <=> Get(bm, q)
  BY <1>1, ReservedHolds DEF BitmapInv
<1>3. Dig(p) < r.l /\ Holds(r, bits)
  <2>1. r.l \in Nat
    BY <1>2 DEF IsBytes
  <2> QED
    BY <1>1, <1>2, <2>1 DEF BitmapInv, Holds
<1>4. bm' = [r EXCEPT !.c[Dig(p)] = m] /\ bits' = bits \cup {p}
  BY DEF BitmapSet
<1> HIDE DEF r
<1>5. bits \in SUBSET Nat
  BY DEF BitmapInv
<1>6. IsBytes(bm') /\ Holds(bm', bits')
  BY <1>2, <1>3, <1>4, <1>5, ByteWritten
<1> QED
  BY <1>5, <1>6, <1>4 DEF BitmapInv, BitmapSet, Holds, Get, IsBytes

LEMMA UnsetStep ==
  ASSUME BitmapInv, NEW p \in Nat, BitmapUnset(p)
  PROVE  BitmapInv'
<1>1. bits \in SUBSET Nat /\ IsBytes(bm) /\ Holds(bm, bits)
  BY DEF BitmapInv
<1>2. bits' = bits \ {p}
  BY DEF BitmapUnset
<1>3. CASE Dig(p) < bm.l
  <2>1. bm' = [bm EXCEPT !.c[Dig(p)] = bm.c[Dig(p)] \ {Mod(p)}]
    BY <1>3 DEF BitmapUnset
  <2>2. IsBytes(bm') /\ Holds(bm', bits')
    BY <1>1, <1>2, <1>3, <2>1, ByteWritten
  <2> QED
    BY <1>1, <1>2, <2>2 DEF BitmapInv, BitmapUnset, Holds, Get, IsBytes
<1>4. CASE ~(Dig(p) < bm.l)
  <2>1. bm' = bm
    BY <1>4 DEF BitmapUnset
  <2>2. p \notin bits
    BY <1>1, <1>4 DEF Holds, Get
  <2> QED
    BY <1>2, <2>1, <2>2 DEF BitmapInv, BitmapUnset, Holds, Get, IsBytes
<1> QED
  BY <1>3, <1>4

LEMMA CloneStep ==
  ASSUME BitmapInv, BitmapClone \/ BitmapDestroy
  PROVE  BitmapInv'
<1>1. CASE BitmapClone
  BY <1>1 DEF BitmapInv, BitmapClone, Holds, Get, IsBytes
<1>2. CASE BitmapDestroy
  <2>1. IsBytes(NoBytes)
    BY DEF IsBytes, NoBytes
  <2>2. blocks' = emptied' /\ blocks' \in Nat /\ emptied' \in Nat
    BY <1>2 DEF BitmapInv, BitmapDestroy, IsBytes
  <2> QED
    BY <1>2, <2>1, <2>2 DEF BitmapInv, BitmapDestroy, Holds, Get, IsBytes
<1> QED
  BY <1>1, <1>2

LEMMA BitmapStep ==
  ASSUME TS_BITMAP_PREALLOC \in Nat \ {0}, Bit \subseteq Nat,
         BitmapInv, [BitmapNext]_bitmapVars
  PROVE  BitmapInv'
<1>1. CASE UNCHANGED bitmapVars
  BY <1>1 DEF bitmapVars, BitmapInv, Holds, Get, IsBytes
<1>2. ASSUME NEW p \in Bit, BitmapSet(p) \/ BitmapUnset(p)
      PROVE  BitmapInv'
  BY <1>2, SetStep, UnsetStep
<1>3. CASE BitmapClone \/ BitmapDestroy
  BY <1>3, CloneStep
<1> QED
  BY <1>1, <1>2, <1>3 DEF BitmapNext

\* The bitmap of a segment is the set of the documents deleted from it, whatever
\* order it grew in and whatever size it grows by, and the clone a lookup or a
\* merge took of it stays what it was then (bitmap.h).
THEOREM BitmapSetHolds == BitmapSpec => []BitmapIsSet
<1>1. BitmapInit => BitmapInv
  BY BitmapStart
<1>2. BitmapInv /\ [BitmapNext]_bitmapVars => BitmapInv'
  BY BitmapStep, BitmapAssumption
<1>3. BitmapInv => BitmapIsSet
  BY BitmapAssumption DEF BitmapInv, BitmapIsSet, Holds
<1> QED
  BY <1>1, <1>2, <1>3, PTL DEF BitmapSpec

-----------------------------------------------------------------------------
(* The buckets of document ids (docid.c).                                  *)

\* How many pointers the buckets before the k-th hold: each is twice as large
\* as the one before it.
Base(k) == SizeOf(bkts[k]) - BUCKET_SIZE

Buckets == [offset : Nat, ids : UNION {[0..(n - 1) -> Nat] : n \in Nat}]

\* The buckets but the last are full.
BucketsInv ==
  /\ bkts \in Seq(Buckets) /\ Len(bkts) >= 1
  /\ SizeOf(bkts[1]) = BUCKET_SIZE
  /\ \A k \in 1..Len(bkts) :
       BUCKET_SIZE <= SizeOf(bkts[k]) /\ bkts[k].offset <= SizeOf(bkts[k])
  /\ \A k \in 1..(Len(bkts) - 1) :
       /\ SizeOf(bkts[k + 1]) = 2 * SizeOf(bkts[k])
       /\ bkts[k].offset = SizeOf(bkts[k])

\* A slot is NULL or holds the pointer whose place it is, and holds it where the
\* offset has passed it.
SlotsInv ==
  \A k \in 1..Len(bkts) : \A o \in 0..(SizeOf(bkts[k]) - 1) :
    /\ bkts[k].ids[o] \in {EMPTY, Base(k) + o + 1}
    /\ bkts[k].ids[o] <= appended
    /\ o < bkts[k].offset => bkts[k].ids[o] # EMPTY

\* Where the writer is tells what it has still to store.
WriterInv ==
  LET last == bkts[Len(bkts)]
  IN  /\ appended \in Nat /\ total \in Nat
      /\ dpc \in {"idle", "tail", "store", "offset", "total"}
      /\ Len(bkts) = IF dpc = "tail" THEN tailBkt + 1 ELSE tailBkt
      /\ tailBkt \in Nat \ {0}
      /\ dpc = "tail" => last.offset = 0
      /\ dpc \in {"store", "offset"} => last.offset < SizeOf(last)
      /\ dpc = "offset" => last.ids[last.offset] # EMPTY
      /\ appended = Base(Len(bkts)) + last.offset
                      + (IF dpc \in {"tail", "store", "offset"} THEN 1 ELSE 0)
      /\ appended = total + (IF dpc = "idle" THEN 0 ELSE 1)

\* What a reader has been given: pointers in their order, the first startTotal of
\* them without a gap.
SeenInv ==
  /\ seen \in Seq(Nat)
  /\ \A i \in 1..Len(seen) : 1 <= seen[i] /\ seen[i] <= appended
  /\ \A i, j \in 1..Len(seen) : i < j => seen[i] < seen[j]
  /\ \A i \in 1..Len(seen) : i <= startTotal \/ rpc = "foreach" => seen[i] = i

SeenUpTo(n) == \A i \in 1..Len(seen) : seen[i] <= n

\* It lies before the reader's place, and is all that does, unless the reader has
\* all that total counted when it began; so has one without a place, and one
\* about to leave a bucket before its end.
ReaderInv ==
  /\ rpc \in {"idle", "foreach", "next", "follow", "load", "done"}
  /\ SeenInv
  /\ startTotal \in Nat /\ startTotal <= total
  /\ bkt \in 0..Len(bkts) /\ offset \in Nat
  /\ rpc = "idle" => seen = << >> /\ startTotal = 0 /\ bkt = NOBKT
  /\ rpc \in {"foreach", "next", "follow", "load"} =>
       IF bkt = NOBKT THEN Len(seen) >= startTotal
       ELSE /\ SeenUpTo(Base(bkt) + offset)
            /\ \/ Len(seen) = Base(bkt) + offset
               \/ rpc # "foreach" /\ Len(seen) >= startTotal
  /\ rpc = "foreach" /\ bkt # NOBKT =>
       /\ offset <= bkts[bkt].offset
       /\ IF tmpBkt = NOBKT THEN startTotal <= Base(bkt) + SizeOf(bkts[bkt])
          ELSE tmpBkt = bkt + 1 /\ tmpBkt <= Len(bkts)
  /\ rpc \in {"next", "follow"} => bkt # NOBKT /\ offset <= SizeOf(bkts[bkt])
  /\ rpc = "follow" => offset = SizeOf(bkts[bkt]) \/ Len(seen) >= startTotal
  /\ rpc = "load" /\ bkt # NOBKT => offset < SizeOf(bkts[bkt])
  /\ rpc = "done" => Len(seen) >= startTotal

DocIdsInv == BucketsInv /\ SlotsInv /\ WriterInv /\ ReaderInv

LEMMA BucketShape ==
  ASSUME NEW b \in Buckets
  PROVE  /\ SizeOf(b) \in Nat /\ b.offset \in Nat
         /\ b.ids \in [0..(SizeOf(b) - 1) -> Nat]
         /\ b = [offset |-> b.offset, ids |-> b.ids]
<1>1. b.offset \in Nat /\ b = [offset |-> b.offset, ids |-> b.ids]
  BY DEF Buckets
<1>2. PICK n \in Nat : b.ids \in [0..(n - 1) -> Nat]
  BY DEF Buckets
<1>3. Cardinality(0..(n - 1)) = n
  <2>1. CASE n = 0
    BY <2>1, FS_EmptySet
  <2>2. CASE n # 0
    <3>1. 0 \in Int /\ n - 1 \in Int /\ 0 <= n - 1
      BY <2>2
    <3>2. Cardinality(0..(n - 1)) = (n - 1) - 0 + 1
      BY <3>1, FS_Interval
    <3> QED
      BY <3>2
  <2> QED
    BY <2>1, <2>2
<1>4. SizeOf(b) = n
  BY <1>2, <1>3 DEF SizeOf
<1> QED
  BY <1>1, <1>2, <1>4

LEMMA BucketOf ==
  ASSUME NEW n \in Nat, NEW f \in [0..(n - 1) -> Nat], NEW o \in Nat
  PROVE  /\ [offset |-> o, ids |-> f] \in Buckets
         /\ SizeOf([offset |-> o, ids |-> f]) = n
<1> DEFINE b == [offset |-> o, ids |-> f]
<1>1. b \in Buckets
  BY DEF Buckets
<1>2. SizeOf(b) \in Nat /\ b.ids \in [0..(SizeOf(b) - 1) -> Nat] /\ b.ids = f
  BY <1>1, BucketShape
<1>3. 0..(n - 1) = 0..(SizeOf(b) - 1)
  <2> HIDE DEF b
  <2> QED
    BY <1>2
<1>4. \A p, q \in Nat : 0..(p - 1) = 0..(q - 1) => p = q
  <2>1. SUFFICES ASSUME NEW p \in Nat, NEW q \in Nat, 0..(p - 1) = 0..(q - 1)
                 PROVE  p = q
    OBVIOUS
  <2>2. p \notin 0..(p - 1) /\ q \notin 0..(q - 1)
    OBVIOUS
  <2>3. (p < q => p \in 0..(q - 1)) /\ (q < p => q \in 0..(p - 1))
    OBVIOUS
  <2> QED
    BY <2>1, <2>2, <2>3
<1> HIDE DEF b
<1>5. SizeOf(b) = n
  BY <1>2, <1>3, <1>4
<1> QED
  BY <1>1, <1>5 DEF b

LEMMA NewBucketShape ==
  ASSUME NEW n \in Nat
  PROVE  /\ NewBucket(n) \in Buckets /\ SizeOf(NewBucket(n)) = n
         /\ NewBucket(n).offset = 0
         /\ \A o \in 0..(n - 1) : NewBucket(n).ids[o] = EMPTY
<1>1. [o \in 0..(n - 1) |-> EMPTY] \in [0..(n - 1) -> Nat]
  BY DEF EMPTY
<1>2. NewBucket(n) \in Buckets /\ SizeOf(NewBucket(n)) = n
  BY <1>1, BucketOf DEF NewBucket
<1> QED
  BY <1>2 DEF NewBucket

\* Where the buckets lie, as numbers: what the steps reason with.
LEMMA Laid ==
  ASSUME BUCKET_SIZE \in Nat \ {0}, BucketsInv
  PROVE  /\ Len(bkts) \in Nat \ {0}
         /\ \A k \in 1..Len(bkts) :
              /\ bkts[k] \in Buckets
              /\ SizeOf(bkts[k]) \in Nat \ {0} /\ bkts[k].offset \in Nat
              /\ bkts[k].offset <= SizeOf(bkts[k])
              /\ Base(k) \in Nat
              /\ SizeOf(bkts[k]) = Base(k) + BUCKET_SIZE
         /\ Base(1) = 0
         /\ \A k \in 1..(Len(bkts) - 1) :
              /\ k \in 1..Len(bkts) /\ k + 1 \in 1..Len(bkts)
              /\ bkts[k].offset = SizeOf(bkts[k])
              /\ Base(k + 1) = Base(k) + SizeOf(bkts[k])
<1>1. Len(bkts) \in Nat /\ Len(bkts) >= 1 /\ bkts \in Seq(Buckets)
  BY DEF BucketsInv
<1>2. ASSUME NEW k \in 1..Len(bkts)
      PROVE  /\ bkts[k] \in Buckets
             /\ SizeOf(bkts[k]) \in Nat \ {0} /\ bkts[k].offset \in Nat
             /\ bkts[k].offset <= SizeOf(bkts[k])
             /\ Base(k) \in Nat
             /\ SizeOf(bkts[k]) = Base(k) + BUCKET_SIZE
  <2>1. bkts[k] \in Buckets
    BY <1>1
  <2>2. SizeOf(bkts[k]) \in Nat /\ bkts[k].offset \in Nat
    BY <2>1, BucketShape
  <2>3. BUCKET_SIZE <= SizeOf(bkts[k]) /\ bkts[k].offset <= SizeOf(bkts[k])
    BY DEF BucketsInv
  <2> QED
    BY <2>1, <2>2, <2>3 DEF Base
<1>3. Base(1) = 0
  BY DEF Base, BucketsInv
<1>4. ASSUME NEW k \in 1..(Len(bkts) - 1)
      PROVE  /\ k \in 1..Len(bkts) /\ k + 1 \in 1..Len(bkts)
             /\ bkts[k].offset = SizeOf(bkts[k])
             /\ Base(k + 1) = Base(k) + SizeOf(bkts[k])
  <2>1. k \in 1..Len(bkts) /\ k + 1 \in 1..Len(bkts)
    BY <1>1
  <2>2. SizeOf(bkts[k + 1]) = 2 * SizeOf(bkts[k])
        /\ bkts[k].offset = SizeOf(bkts[k])
    BY DEF BucketsInv
  <2>3. SizeOf(bkts[k]) \in Nat
    BY <1>2, <2>1
  <2>4. \A s, u \in Nat : 2 * s - u = (s - u) + s
    OBVIOUS
  <2> QED
    BY <2>1, <2>2, <2>3, <2>4 DEF Base
<1> QED
  BY <1>1, <1>2, <1>3, <1>4

\* What total has counted lies before the offset of the last bucket.
LEMMA TotalReached ==
  ASSUME BUCKET_SIZE \in Nat \ {0}, BucketsInv, WriterInv
  PROVE  total <= Base(Len(bkts)) + bkts[Len(bkts)].offset
<1>1. Base(Len(bkts)) \in Nat /\ bkts[Len(bkts)].offset \in Nat
  BY Laid
<1>2. /\ appended = Base(Len(bkts)) + bkts[Len(bkts)].offset
                      + (IF dpc \in {"tail", "store", "offset"} THEN 1 ELSE 0)
      /\ appended = total + (IF dpc = "idle" THEN 0 ELSE 1)
      /\ total \in Nat
  BY DEF WriterInv
<1> QED
  BY <1>1, <1>2

\* The writer takes nothing from the readers.
Grows ==
  /\ Len(bkts') \in Nat /\ Len(bkts) <= Len(bkts')
  /\ \A k \in 1..Len(bkts) :
       /\ SizeOf(bkts'[k]) = SizeOf(bkts[k])
       /\ bkts'[k].offset \in Nat /\ bkts[k].offset <= bkts'[k].offset
  /\ appended' \in Nat /\ appended <= appended'
  /\ total' \in Nat /\ total <= total'

LEMMA ReaderKept ==
  ASSUME BUCKET_SIZE \in Nat \ {0}, BucketsInv, WriterInv, ReaderInv, Grows,
         UNCHANGED docReader
  PROVE  ReaderInv'
<1> USE DEF docReader
<1>1. Len(bkts) \in Nat /\ Len(bkts') \in Nat /\ Len(bkts) <= Len(bkts')
  BY Laid DEF Grows
<1>2. \A k \in 1..Len(bkts) :
        /\ SizeOf(bkts[k])' = SizeOf(bkts[k]) /\ Base(k)' = Base(k)
        /\ bkts[k].offset <= bkts'[k].offset
        /\ bkts[k].offset \in Nat /\ bkts'[k].offset \in Nat
  BY Laid DEF Grows, Base, SizeOf
<1>3. bkt \in 0..Len(bkts) /\ offset \in Nat
  BY DEF ReaderInv
<1>4. /\ rpc' \in {"idle", "foreach", "next", "follow", "load", "done"}
      /\ startTotal' \in Nat
      /\ bkt' \in 0..Len(bkts') /\ offset' \in Nat
      /\ rpc' = "idle" => seen' = << >> /\ startTotal' = 0 /\ bkt' = NOBKT
      /\ rpc' = "done" => Len(seen') >= startTotal'
  BY <1>1 DEF ReaderInv
<1>5. SeenInv' /\ startTotal' <= total'
  <2>1. startTotal \in Nat /\ startTotal <= total /\ SeenInv
    BY DEF ReaderInv
  <2>2. appended \in Nat /\ total \in Nat
    BY DEF WriterInv
  <2>3. appended' \in Nat /\ appended <= appended' /\ total' \in Nat
        /\ total <= total'
    BY DEF Grows
  <2>4. seen \in Seq(Nat) /\ \A i \in 1..Len(seen) : seen[i] \in Nat
    BY <2>1 DEF SeenInv
  <2>5. \A i \in 1..Len(seen) : 1 <= seen[i] /\ seen[i] <= appended'
    BY <2>1, <2>2, <2>3, <2>4 DEF SeenInv
  <2> QED
    BY <2>1, <2>2, <2>3, <2>5 DEF SeenInv
<1>6. bkt # NOBKT => bkt \in 1..Len(bkts)
  BY <1>1, <1>3 DEF NOBKT
<1>7. (rpc \in {"foreach", "next", "follow", "load"} =>
         IF bkt = NOBKT THEN Len(seen) >= startTotal
         ELSE /\ SeenUpTo(Base(bkt) + offset)
              /\ \/ Len(seen) = Base(bkt) + offset
                 \/ rpc # "foreach" /\ Len(seen) >= startTotal)'
  <2>1. rpc \in {"foreach", "next", "follow", "load"} =>
          IF bkt = NOBKT THEN Len(seen) >= startTotal
          ELSE /\ SeenUpTo(Base(bkt) + offset)
               /\ \/ Len(seen) = Base(bkt) + offset
                  \/ rpc # "foreach" /\ Len(seen) >= startTotal
    BY DEF ReaderInv
  <2>2. bkt # NOBKT => Base(bkt)' = Base(bkt)
    BY <1>2, <1>6
  <2> QED
    BY <2>1, <2>2 DEF NOBKT, Base, SeenUpTo
<1>8. (rpc = "foreach" /\ bkt # NOBKT =>
         /\ offset <= bkts[bkt].offset
         /\ IF tmpBkt = NOBKT THEN startTotal <= Base(bkt) + SizeOf(bkts[bkt])
            ELSE tmpBkt = bkt + 1 /\ tmpBkt <= Len(bkts))'
  <2> SUFFICES ASSUME rpc = "foreach", bkt # NOBKT
               PROVE  /\ offset <= bkts'[bkt].offset
                      /\ IF tmpBkt = NOBKT
                         THEN startTotal <= Base(bkt)' + SizeOf(bkts[bkt])'
                         ELSE tmpBkt = bkt + 1 /\ tmpBkt <= Len(bkts')
    BY DEF NOBKT, Base
  <2>1. /\ offset <= bkts[bkt].offset
        /\ IF tmpBkt = NOBKT THEN startTotal <= Base(bkt) + SizeOf(bkts[bkt])
           ELSE tmpBkt = bkt + 1 /\ tmpBkt <= Len(bkts)
    BY DEF ReaderInv
  <2>2. bkts[bkt].offset <= bkts'[bkt].offset
        /\ bkts[bkt].offset \in Nat /\ bkts'[bkt].offset \in Nat
        /\ SizeOf(bkts[bkt])' = SizeOf(bkts[bkt]) /\ Base(bkt)' = Base(bkt)
    BY <1>2, <1>6
  <2> QED
    BY <2>1, <2>2, <1>1, <1>3
<1>9. (/\ rpc \in {"next", "follow"} =>
            bkt # NOBKT /\ offset <= SizeOf(bkts[bkt])
       /\ rpc = "follow" =>
            offset = SizeOf(bkts[bkt]) \/ Len(seen) >= startTotal
       /\ rpc = "load" /\ bkt # NOBKT => offset < SizeOf(bkts[bkt]))'
  <2>1. /\ rpc \in {"next", "follow"} =>
             bkt # NOBKT /\ offset <= SizeOf(bkts[bkt])
        /\ rpc = "follow" =>
             offset = SizeOf(bkts[bkt]) \/ Len(seen) >= startTotal
        /\ rpc = "load" /\ bkt # NOBKT => offset < SizeOf(bkts[bkt])
    BY DEF ReaderInv
  <2>2. bkt # NOBKT => SizeOf(bkts[bkt])' = SizeOf(bkts[bkt])
    BY <1>2, <1>6
  <2> QED
    BY <2>1, <2>2 DEF NOBKT, SizeOf
<1> QED
  BY <1>4, <1>5, <1>7, <1>8, <1>9 DEF ReaderInv

\* A change of the last bucket that is not one of its size.
LEMMA LastChanged ==
  ASSUME BUCKET_SIZE \in Nat \ {0}, BucketsInv,
         NEW b \in Buckets, SizeOf(b) = SizeOf(bkts[Len(bkts)]),
         bkts[Len(bkts)].offset <= b.offset, b.offset <= SizeOf(b),
         bkts' = [bkts EXCEPT ![Len(bkts)] = b]
  PROVE  /\ BucketsInv'
         /\ Len(bkts') = Len(bkts) /\ bkts'[Len(bkts)] = b
         /\ \A k \in 1..(Len(bkts) - 1) : bkts'[k] = bkts[k]
         /\ \A k \in 1..Len(bkts) :
              /\ SizeOf(bkts'[k]) = SizeOf(bkts[k]) /\ Base(k)' = Base(k)
              /\ bkts'[k].offset \in Nat /\ bkts[k].offset <= bkts'[k].offset
<1> DEFINE t == Len(bkts)
<1>1. bkts \in Seq(Buckets) /\ t \in Nat \ {0} /\ t \in 1..t
  BY Laid DEF BucketsInv
<1>2. /\ bkts' \in Seq(Buckets) /\ Len(bkts') = t /\ bkts'[t] = b
      /\ \A k \in 1..t : k # t => bkts'[k] = bkts[k]
  BY <1>1
<1>3. ASSUME NEW k \in 1..t
      PROVE  /\ SizeOf(bkts'[k]) = SizeOf(bkts[k])
             /\ bkts'[k].offset \in Nat /\ bkts[k].offset <= bkts'[k].offset
             /\ bkts'[k].offset <= SizeOf(bkts'[k])
  <2>1. bkts[k].offset \in Nat /\ bkts[k].offset <= SizeOf(bkts[k])
    BY Laid
  <2>2. b.offset \in Nat
    BY BucketShape
  <2> HIDE DEF t
  <2>3. CASE k = t
    BY <1>2, <2>2, <2>3 DEF t
  <2>4. CASE k # t
    BY <1>2, <2>1, <2>4
  <2> QED
    BY <2>3, <2>4
<1>4. \A k \in 1..t : Base(k)' = Base(k)
  BY <1>3 DEF Base, SizeOf
<1>5. \A k \in 1..(t - 1) : k \in 1..t /\ k + 1 \in 1..t /\ k # t
  BY <1>1
<1>6. \A k \in 1..(t - 1) : bkts'[k] = bkts[k]
  BY <1>2, <1>5
<1>7. SizeOf(bkts'[1]) = BUCKET_SIZE
  BY <1>1, <1>3 DEF BucketsInv
<1>8. ASSUME NEW k \in 1..(t - 1)
      PROVE  /\ SizeOf(bkts'[k + 1]) = 2 * SizeOf(bkts'[k])
             /\ bkts'[k].offset = SizeOf(bkts'[k])
  <2>1. /\ SizeOf(bkts[k + 1]) = 2 * SizeOf(bkts[k])
        /\ bkts[k].offset = SizeOf(bkts[k])
    BY DEF BucketsInv
  <2> QED
    BY <1>3, <1>5, <1>6, <2>1
<1>9. \A k \in 1..t :
        BUCKET_SIZE <= SizeOf(bkts'[k]) /\ bkts'[k].offset <= SizeOf(bkts'[k])
  BY <1>3 DEF BucketsInv
<1>10. BucketsInv'
  BY <1>1, <1>2, <1>7, <1>8, <1>9 DEF BucketsInv, SizeOf
<1> QED
  BY <1>2, <1>3, <1>4, <1>6, <1>10

LEMMA StoreStep ==
  ASSUME BUCKET_SIZE \in Nat \ {0}, BucketsInv, SlotsInv, WriterInv, StoreId
  PROVE  BucketsInv' /\ SlotsInv' /\ WriterInv' /\ Grows
<1> DEFINE t == Len(bkts)
           o == bkts[t].offset
           n == SizeOf(bkts[t])
           f == [bkts[t].ids EXCEPT ![o] = appended]
           b == [offset |-> o, ids |-> f]
<1>1. /\ dpc = "store" /\ dpc' = "offset" /\ tailBkt = t
      /\ UNCHANGED << tailBkt, total, appended, docReader >>
      /\ appended \in Nat /\ total \in Nat /\ o < n
      /\ appended = Base(t) + o + 1 /\ appended = total + 1
  BY DEF StoreId, WriterInv
<1>2. /\ t \in Nat \ {0} /\ t \in 1..t /\ bkts[t] \in Buckets
      /\ n \in Nat /\ o \in Nat /\ Base(t) \in Nat
  BY Laid
<1>3. bkts[t].ids \in [0..(n - 1) -> Nat]
      /\ bkts[t] = [offset |-> o, ids |-> bkts[t].ids]
  BY <1>2, BucketShape
<1>4. o \in 0..(n - 1)
  BY <1>1, <1>2
<1>5. f \in [0..(n - 1) -> Nat] /\ f[o] = appended
      /\ \A p \in 0..(n - 1) : p # o => f[p] = bkts[t].ids[p]
  BY <1>1, <1>3, <1>4
<1>6. b \in Buckets /\ SizeOf(b) = n
  <2> HIDE DEF f, n, o
  <2> QED
    BY <1>2, <1>5, BucketOf
<1>7. bkts' = [bkts EXCEPT ![t] = b]
  <2>1. bkts' = [bkts EXCEPT ![t] = [bkts[t] EXCEPT !.ids = f]]
    BY <1>1 DEF StoreId
  <2>2. [bkts[t] EXCEPT !.ids = f] = b
    BY <1>3
  <2> QED
    BY <2>1, <2>2
<1>8. o <= b.offset /\ b.offset <= SizeOf(b) /\ b.offset = o /\ b.ids = f
  BY <1>1, <1>2, <1>6
<1> HIDE DEF b, f, n, o
<1>9. /\ BucketsInv'
      /\ Len(bkts') = t /\ bkts'[t] = b
      /\ \A k \in 1..(t - 1) : bkts'[k] = bkts[k]
      /\ \A k \in 1..t :
           /\ SizeOf(bkts'[k]) = SizeOf(bkts[k]) /\ Base(k)' = Base(k)
           /\ bkts'[k].offset \in Nat /\ bkts[k].offset <= bkts'[k].offset
  BY <1>6, <1>7, <1>8, LastChanged DEF n, o
<1>10. Grows
  BY <1>1, <1>2, <1>9 DEF Grows
<1>11. SlotsInv'
  <2>1. ASSUME NEW k \in 1..t, NEW p \in 0..(SizeOf(bkts[k]) - 1)
        PROVE  /\ bkts'[k].ids[p] \in {EMPTY, Base(k) + p + 1}
               /\ bkts'[k].ids[p] <= appended
               /\ p < bkts'[k].offset => bkts'[k].ids[p] # EMPTY
    <3>1. /\ bkts[k].ids[p] \in {EMPTY, Base(k) + p + 1}
          /\ bkts[k].ids[p] <= appended
          /\ p < bkts[k].offset => bkts[k].ids[p] # EMPTY
      BY DEF SlotsInv
    <3>2. CASE k # t
      <4>1. k \in 1..(t - 1)
        BY <1>2, <3>2
      <4> QED
        BY <1>9, <3>1, <4>1
    <3>3. CASE k = t /\ p # o
      BY <1>5, <1>8, <1>9, <3>1, <3>3 DEF n, o
    <3>4. CASE k = t /\ p = o
      <4>1. bkts'[k].ids[p] = appended
        BY <1>5, <1>8, <1>9, <3>4
      <4> QED
        BY <1>1, <1>2, <3>4, <4>1 DEF EMPTY
    <3> QED
      BY <3>2, <3>3, <3>4
  <2> QED
    BY <1>1, <1>9, <2>1 DEF SlotsInv, EMPTY, Base, SizeOf
<1>12. WriterInv'
  <2>1. bkts'[t].offset = o /\ bkts'[t].ids[o] # EMPTY /\ Len(bkts') = t
        /\ SizeOf(bkts'[t]) = n /\ Base(t)' = Base(t)
    BY <1>1, <1>2, <1>5, <1>6, <1>8, <1>9 DEF EMPTY
  <2>2. Base(Len(bkts))' = Base(t)
    BY <2>1 DEF Base, SizeOf
  <2> QED
    BY <1>1, <1>2, <2>1, <2>2 DEF WriterInv, EMPTY, SizeOf
<1> QED
  BY <1>9, <1>10, <1>11, <1>12

LEMMA AdvanceStep ==
  ASSUME BUCKET_SIZE \in Nat \ {0}, BucketsInv, SlotsInv, WriterInv,
         AdvanceOffset
  PROVE  BucketsInv' /\ SlotsInv' /\ WriterInv' /\ Grows
<1> DEFINE t == Len(bkts)
           o == bkts[t].offset
           n == SizeOf(bkts[t])
           f == bkts[t].ids
           b == [offset |-> o + 1, ids |-> f]
<1>1. /\ dpc = "offset" /\ dpc' = "total" /\ tailBkt = t
      /\ UNCHANGED << tailBkt, total, appended, docReader >>
      /\ appended \in Nat /\ total \in Nat /\ o < n /\ f[o] # EMPTY
      /\ appended = Base(t) + o + 1 /\ appended = total + 1
  BY DEF AdvanceOffset, WriterInv
<1>2. /\ t \in Nat \ {0} /\ t \in 1..t /\ bkts[t] \in Buckets
      /\ n \in Nat /\ o \in Nat /\ Base(t) \in Nat
  BY Laid
<1>3. f \in [0..(n - 1) -> Nat] /\ bkts[t] = [offset |-> o, ids |-> f]
  BY <1>2, BucketShape
<1>4. b \in Buckets /\ SizeOf(b) = n
  <2>1. o + 1 \in Nat
    BY <1>2
  <2> HIDE DEF f, n, o
  <2> QED
    BY <1>2, <1>3, <2>1, BucketOf
<1>5. bkts' = [bkts EXCEPT ![t] = b]
  <2>1. bkts' = [bkts EXCEPT ![t] = [bkts[t] EXCEPT !.offset = o + 1]]
    BY <1>1 DEF AdvanceOffset
  <2>2. [bkts[t] EXCEPT !.offset = o + 1] = b
    BY <1>3
  <2> QED
    BY <2>1, <2>2
<1>6. o <= b.offset /\ b.offset <= SizeOf(b) /\ b.offset = o + 1 /\ b.ids = f
  BY <1>1, <1>2, <1>4
<1> HIDE DEF b, f, n, o
<1>7. /\ BucketsInv'
      /\ Len(bkts') = t /\ bkts'[t] = b
      /\ \A k \in 1..(t - 1) : bkts'[k] = bkts[k]
      /\ \A k \in 1..t :
           /\ SizeOf(bkts'[k]) = SizeOf(bkts[k]) /\ Base(k)' = Base(k)
           /\ bkts'[k].offset \in Nat /\ bkts[k].offset <= bkts'[k].offset
  BY <1>4, <1>5, <1>6, LastChanged DEF n, o
<1>8. Grows
  BY <1>1, <1>2, <1>7 DEF Grows
<1>9. SlotsInv'
  <2>1. ASSUME NEW k \in 1..t, NEW p \in 0..(SizeOf(bkts[k]) - 1)
        PROVE  /\ bkts'[k].ids[p] \in {EMPTY, Base(k) + p + 1}
               /\ bkts'[k].ids[p] <= appended
               /\ p < bkts'[k].offset => bkts'[k].ids[p] # EMPTY
    <3>1. /\ bkts[k].ids[p] \in {EMPTY, Base(k) + p + 1}
          /\ bkts[k].ids[p] <= appended
          /\ p < bkts[k].offset => bkts[k].ids[p] # EMPTY
      BY DEF SlotsInv
    <3>2. CASE k # t
      <4>1. k \in 1..(t - 1)
        BY <1>2, <3>2
      <4> QED
        BY <1>7, <3>1, <4>1
    <3>3. CASE k = t
      <4>1. bkts'[k].ids = f /\ bkts'[k].offset = o + 1 /\ f = bkts[k].ids
            /\ o = bkts[k].offset
        BY <1>6, <1>7, <3>3 DEF f, o
      <4>2. p \in Nat
        OBVIOUS
      <4>3. p < o + 1 => p < o \/ p = o
        BY <1>2, <4>2
      <4> QED
        BY <1>1, <3>1, <4>1, <4>3
    <3> QED
      BY <3>2, <3>3
  <2> QED
    BY <1>1, <1>7, <2>1 DEF SlotsInv, EMPTY, Base, SizeOf
<1>10. WriterInv'
  <2>1. bkts'[t].offset = o + 1 /\ Len(bkts') = t /\ Base(t)' = Base(t)
    BY <1>2, <1>6, <1>7
  <2>2. Base(Len(bkts))' = Base(t)
    BY <2>1 DEF Base, SizeOf
  <2> QED
    BY <1>1, <1>2, <2>1, <2>2 DEF WriterInv, EMPTY, SizeOf
<1> QED
  BY <1>7, <1>8, <1>9, <1>10

\* A full bucket gets a successor of twice its size.
LEMMA BucketAdded ==
  ASSUME BUCKET_SIZE \in Nat \ {0}, BucketsInv, SlotsInv, WriterInv,
         AppendBegin, ~(bkts[tailBkt].offset < SizeOf(bkts[tailBkt]))
  PROVE  BucketsInv' /\ SlotsInv' /\ WriterInv' /\ Grows
<1> DEFINE t == Len(bkts)
           n == SizeOf(bkts[t])
           b == NewBucket(2 * n)
<1>1. /\ dpc = "idle" /\ dpc' = "tail" /\ tailBkt = t
      /\ UNCHANGED << tailBkt, total, docReader >>
      /\ appended \in Nat /\ total \in Nat /\ appended' = appended + 1
      /\ appended = Base(t) + bkts[t].offset /\ appended = total
      /\ bkts' = Append(bkts, b)
  <2>1. dpc = "idle" /\ appended' = appended + 1
        /\ UNCHANGED << tailBkt, total, docReader >>
    BY DEF AppendBegin
  <2>2. dpc' = "tail"
        /\ bkts' = Append(bkts, NewBucket(2 * SizeOf(bkts[tailBkt])))
    BY DEF AppendBegin
  <2>3. tailBkt = t
    BY <2>1 DEF WriterInv
  <2>4. Base(t) \in Nat /\ bkts[t].offset \in Nat
    BY Laid
  <2>5. appended \in Nat /\ total \in Nat
        /\ appended = Base(t) + bkts[t].offset /\ appended = total
    BY <2>1, <2>4 DEF WriterInv
  <2> QED
    BY <2>1, <2>2, <2>3, <2>5
<1>2. /\ t \in Nat \ {0} /\ t \in 1..t /\ bkts \in Seq(Buckets)
      /\ n \in Nat \ {0} /\ Base(t) \in Nat
  BY Laid DEF BucketsInv
<1>3. bkts[t].offset = n
  <2>1. ~(bkts[t].offset < SizeOf(bkts[t]))
    BY <1>1
  <2>2. bkts[t].offset \in Nat /\ bkts[t].offset <= SizeOf(bkts[t])
        /\ SizeOf(bkts[t]) \in Nat
    BY Laid
  <2> QED
    BY <2>1, <2>2
<1>4. /\ b \in Buckets /\ SizeOf(b) = 2 * n /\ b.offset = 0
      /\ \A p \in 0..((2 * n) - 1) : b.ids[p] = EMPTY
  <2>1. 2 * n \in Nat
    BY <1>2
  <2> HIDE DEF n
  <2> QED
    BY <2>1, NewBucketShape
<1> HIDE DEF b, n
<1>5. /\ bkts' \in Seq(Buckets) /\ Len(bkts') = t + 1 /\ bkts'[t + 1] = b
      /\ \A k \in 1..t : bkts'[k] = bkts[k]
  BY <1>1, <1>2, <1>4
<1>6. \A k \in 1..t : Base(k)' = Base(k) /\ SizeOf(bkts[k])' = SizeOf(bkts[k])
  BY <1>5 DEF Base, SizeOf
<1>7. BucketsInv'
  <2>1. SizeOf(bkts'[1]) = BUCKET_SIZE
    BY <1>2, <1>5 DEF BucketsInv
  <2>2. ASSUME NEW k \in 1..(t + 1)
        PROVE  BUCKET_SIZE <= SizeOf(bkts'[k])
               /\ bkts'[k].offset <= SizeOf(bkts'[k])
    <3>1. CASE k \in 1..t
      BY <1>5, <3>1 DEF BucketsInv
    <3>2. CASE k = t + 1
      <4>1. BUCKET_SIZE <= n
        BY <1>2 DEF BucketsInv, n
      <4>2. BUCKET_SIZE <= 2 * n /\ 0 <= 2 * n
        BY <1>2, <4>1
      <4> QED
        BY <1>4, <1>5, <3>2, <4>2
    <3> QED
      BY <1>2, <3>1, <3>2
  <2>3. ASSUME NEW k \in 1..t
        PROVE  /\ SizeOf(bkts'[k + 1]) = 2 * SizeOf(bkts'[k])
               /\ bkts'[k].offset = SizeOf(bkts'[k])
    <3>1. CASE k = t
      BY <1>3, <1>4, <1>5, <3>1 DEF n
    <3>2. CASE k # t
      <4>1. k \in 1..(t - 1) /\ k + 1 \in 1..t
        BY <1>2, <3>2
      <4> QED
        BY <1>5, <4>1 DEF BucketsInv
    <3> QED
      BY <3>1, <3>2
  <2>4. Len(bkts') >= 1 /\ Len(bkts') - 1 = t
    BY <1>2, <1>5
  <2> QED
    BY <1>5, <2>1, <2>2, <2>3, <2>4 DEF BucketsInv, SizeOf
<1>8. Grows
  <2>1. \A k \in 1..t : bkts[k].offset \in Nat
    BY Laid
  <2> QED
    BY <1>1, <1>2, <1>5, <2>1 DEF Grows
<1>9. SlotsInv'
  <2>1. ASSUME NEW k \in 1..t, NEW p \in 0..(SizeOf(bkts[k]) - 1)
        PROVE  /\ bkts[k].ids[p] \in {EMPTY, Base(k) + p + 1}
               /\ bkts[k].ids[p] <= appended + 1
               /\ p < bkts[k].offset => bkts[k].ids[p] # EMPTY
    <3>1. /\ bkts[k].ids[p] \in {EMPTY, Base(k) + p + 1}
          /\ bkts[k].ids[p] <= appended
          /\ p < bkts[k].offset => bkts[k].ids[p] # EMPTY
      BY DEF SlotsInv
    <3>2. Base(k) + p + 1 \in Nat
      BY Laid
    <3> QED
      BY <1>1, <3>1, <3>2 DEF EMPTY
  <2>2. ASSUME NEW p \in 0..((2 * n) - 1)
        PROVE  b.ids[p] = EMPTY /\ EMPTY <= appended + 1 /\ ~(p < b.offset)
    BY <1>1, <1>4 DEF EMPTY
  <2>3. ASSUME NEW k \in 1..(t + 1), NEW p \in 0..(SizeOf(bkts'[k]) - 1)
        PROVE  /\ bkts'[k].ids[p] \in {EMPTY, Base(k)' + p + 1}
               /\ bkts'[k].ids[p] <= appended + 1
               /\ p < bkts'[k].offset => bkts'[k].ids[p] # EMPTY
    <3>1. CASE k \in 1..t
      BY <1>5, <1>6, <2>1, <3>1
    <3>2. CASE k = t + 1
      BY <1>4, <1>5, <2>2, <3>2
    <3> QED
      BY <1>2, <3>1, <3>2
  <2> QED
    BY <1>1, <1>5, <2>3 DEF SlotsInv, EMPTY, SizeOf
<1>10. WriterInv'
  <2>1. bkts'[t + 1].offset = 0 /\ Len(bkts') = t + 1
        /\ SizeOf(bkts'[t + 1]) = 2 * n
    BY <1>4, <1>5
  <2>2. Base(Len(bkts))' = 2 * n - BUCKET_SIZE
    BY <2>1 DEF Base, SizeOf
  <2>3. 2 * n - BUCKET_SIZE = Base(t) + n /\ Base(t) + n \in Nat
    BY <1>2 DEF Base, n
  <2>4. appended' = Base(t) + n + 0 + 1
    BY <1>1, <1>3, <1>2
  <2>5. dpc' = "tail" /\ Len(bkts)' = tailBkt' + 1
    BY <1>1, <1>2, <2>1
  <2>6. /\ appended' \in Nat /\ total' \in Nat /\ tailBkt' \in Nat \ {0}
        /\ appended' = total' + 1
    BY <1>1, <1>2
  <2>7. appended' = Base(Len(bkts))' + bkts'[Len(bkts')].offset + 1
    BY <2>1, <2>2, <2>3, <2>4
  <2> QED
    BY <2>1, <2>5, <2>6, <2>7 DEF WriterInv
<1> QED
  BY <1>7, <1>8, <1>9, <1>10

\* The steps of an append that leave the buckets alone.
LEMMA CountStep ==
  ASSUME BUCKET_SIZE \in Nat \ {0}, BucketsInv, SlotsInv, WriterInv,
         UNCHANGED bkts,
         \/ AppendBegin
         \/ MoveTail
         \/ CountTotal
  PROVE  BucketsInv' /\ SlotsInv' /\ WriterInv' /\ Grows
<1> DEFINE t == Len(bkts)
<1>1. /\ t \in Nat \ {0} /\ t \in 1..t
      /\ SizeOf(bkts[t]) \in Nat \ {0} /\ bkts[t].offset \in Nat
      /\ Base(t) \in Nat
  BY Laid
<1>2. BucketsInv'
  BY DEF BucketsInv, SizeOf
<1>3. appended \in Nat /\ total \in Nat
  BY DEF WriterInv
<1>4. appended' \in {appended, appended + 1} /\ total' \in {total, total + 1}
  BY <1>3 DEF AppendBegin, MoveTail, CountTotal
<1>5. Grows
  <2>1. \A k \in 1..t : bkts[k].offset \in Nat
    BY Laid
  <2> QED
    BY <1>1, <1>3, <1>4, <2>1 DEF Grows
<1>6. SlotsInv'
  <2>1. ASSUME NEW k \in 1..t, NEW p \in 0..(SizeOf(bkts[k]) - 1)
        PROVE  /\ bkts[k].ids[p] \in {EMPTY, Base(k) + p + 1}
               /\ bkts[k].ids[p] <= appended'
               /\ p < bkts[k].offset => bkts[k].ids[p] # EMPTY
    <3>1. /\ bkts[k].ids[p] \in {EMPTY, Base(k) + p + 1}
          /\ bkts[k].ids[p] <= appended
          /\ p < bkts[k].offset => bkts[k].ids[p] # EMPTY
      BY DEF SlotsInv
    <3>2. Base(k) + p + 1 \in Nat
      BY Laid
    <3>3. bkts[k].ids[p] \in Nat
      BY <3>1, <3>2 DEF EMPTY
    <3> QED
      BY <1>3, <1>4, <3>1, <3>3
  <2> QED
    BY <2>1 DEF SlotsInv, EMPTY, Base, SizeOf
<1>7. WriterInv'
  <2>1. bkts'[Len(bkts')] = bkts[t] /\ Len(bkts') = t /\ Base(Len(bkts))' = Base(t)
        /\ SizeOf(bkts[Len(bkts)])' = SizeOf(bkts[t])
    BY DEF Base, SizeOf
  <2>2. CASE AppendBegin
    <3>1. dpc = "idle" /\ appended' = appended + 1 /\ tailBkt' = tailBkt
          /\ total' = total
      BY <2>2 DEF AppendBegin
    <3>2. tailBkt = t /\ appended = total
          /\ appended = Base(t) + bkts[t].offset
      BY <1>1, <3>1 DEF WriterInv
    <3>3. dpc' = "store" /\ bkts[t].offset < SizeOf(bkts[t])
      <4>1. bkts # Append(bkts, NewBucket(2 * SizeOf(bkts[tailBkt])))
        <5>1. bkts \in Seq(Buckets)
          BY DEF BucketsInv
        <5>2. Len(Append(bkts, NewBucket(2 * SizeOf(bkts[tailBkt])))) = t + 1
          BY <5>1
        <5> QED
          BY <1>1, <5>2
      <4> QED
        BY <2>2, <3>2, <4>1 DEF AppendBegin
    <3> QED
      BY <1>1, <1>3, <2>1, <3>1, <3>2, <3>3 DEF WriterInv
  <2>3. CASE MoveTail
    <3>1. dpc = "tail" /\ dpc' = "store" /\ tailBkt' = t
          /\ UNCHANGED << total, appended >>
      BY <2>3 DEF MoveTail
    <3>2. bkts[t].offset = 0 /\ appended = Base(t) + bkts[t].offset + 1
          /\ appended = total + 1
      BY <1>1, <3>1 DEF WriterInv
    <3> QED
      BY <1>1, <1>3, <2>1, <3>1, <3>2 DEF WriterInv
  <2>4. CASE CountTotal
    <3>1. dpc = "total" /\ dpc' = "idle" /\ total' = total + 1
          /\ UNCHANGED << tailBkt, appended >>
      BY <2>4 DEF CountTotal
    <3>2. tailBkt = t /\ appended = Base(t) + bkts[t].offset
          /\ appended = total + 1
      BY <1>1, <3>1 DEF WriterInv
    <3> QED
      BY <1>1, <1>3, <2>1, <3>1, <3>2 DEF WriterInv
  <2> QED
    BY <2>2, <2>3, <2>4
<1> QED
  BY <1>2, <1>5, <1>6, <1>7

\* The container of one empty bucket.
Fresh ==
  /\ bkts = << NewBucket(BUCKET_SIZE) >> /\ tailBkt = 1
  /\ total = 0 /\ appended = 0 /\ dpc = "idle"
  /\ rpc = "idle" /\ bkt = NOBKT /\ offset \in Nat
  /\ seen = << >> /\ startTotal = 0

LEMMA FreshInv ==
  ASSUME BUCKET_SIZE \in Nat \ {0}, Fresh
  PROVE  DocIdsInv
<1> USE DEF Fresh
<1>1. /\ bkts[1] \in Buckets /\ SizeOf(bkts[1]) = BUCKET_SIZE
      /\ bkts[1].offset = 0
      /\ \A o \in 0..(BUCKET_SIZE - 1) : bkts[1].ids[o] = EMPTY
      /\ Len(bkts) = 1 /\ bkts \in Seq(Buckets)
  BY NewBucketShape
<1>2. BucketsInv
  BY <1>1 DEF BucketsInv
<1>3. Base(1) = 0
  BY <1>1 DEF Base
<1>4. SlotsInv
  BY <1>1, <1>3 DEF SlotsInv, EMPTY
<1>5. WriterInv
  BY <1>1, <1>3 DEF WriterInv
<1>6. SeenInv
  BY DEF SeenInv
<1>7. ReaderInv
  BY <1>1, <1>6 DEF ReaderInv, NOBKT
<1> QED
  BY <1>2, <1>4, <1>5, <1>7 DEF DocIdsInv

-----------------------------------------------------------------------------
(* The readers.                                                            *)

\* A place after the last bucket, or in one of them that the writer has not
\* filled, has all that total has counted before it.
LEMMA AllBefore ==
  ASSUME BUCKET_SIZE \in Nat \ {0}, BucketsInv, WriterInv,
         NEW k \in 1..Len(bkts), NEW o \in Nat, o >= bkts[k].offset
  PROVE  /\ k = Len(bkts) => total <= Base(k) + o
         /\ o < SizeOf(bkts[k]) => k = Len(bkts)
<1>1. k \in Nat /\ Len(bkts) \in Nat /\ bkts[k].offset \in Nat /\ Base(k) \in Nat
  BY Laid
<1>2. total \in Nat
  BY DEF WriterInv
<1>3. k = Len(bkts) => total <= Base(k) + bkts[k].offset
  BY TotalReached
<1>4. k # Len(bkts) => bkts[k].offset = SizeOf(bkts[k])
  <2>1. k # Len(bkts) => k \in 1..(Len(bkts) - 1)
    BY <1>1
  <2> QED
    BY <2>1, Laid
<1>5. k = Len(bkts) => total <= Base(k) + o
  BY <1>1, <1>2, <1>3
<1>6. bkts[k].offset = SizeOf(bkts[k]) => ~(o < SizeOf(bkts[k]))
  BY <1>1
<1> QED
  BY <1>4, <1>5, <1>6

\* A reader is given one more pointer.
LEMMA NextSeen ==
  ASSUME SeenInv, NEW v \in Nat, 1 <= v, v <= appended, appended \in Nat,
         startTotal \in Nat, seen' = Append(seen, v),
         UNCHANGED << startTotal, appended >>, rpc' \in {rpc, "next"},
         \A i \in 1..Len(seen) : seen[i] < v,
         \/ v = Len(seen) + 1
         \/ rpc' # "foreach" /\ Len(seen) >= startTotal
  PROVE  SeenInv' /\ Len(seen') = Len(seen) + 1
         /\ \A i \in 1..Len(seen') : seen'[i] <= v
<1>1. /\ seen \in Seq(Nat)
      /\ \A i \in 1..Len(seen) : 1 <= seen[i] /\ seen[i] <= appended
      /\ \A i, j \in 1..Len(seen) : i < j => seen[i] < seen[j]
      /\ \A i \in 1..Len(seen) :
           i <= startTotal \/ rpc = "foreach" => seen[i] = i
  BY DEF SeenInv
<1> DEFINE n == Len(seen)
<1>2. /\ n \in Nat /\ seen' \in Seq(Nat) /\ Len(seen') = n + 1
      /\ seen'[n + 1] = v /\ \A i \in 1..n : seen'[i] = seen[i]
      /\ \A i \in 1..n : seen[i] \in Nat
  BY <1>1
<1>3. \A i \in 1..(n + 1) : i \in 1..n \/ i = n + 1
  BY <1>2
<1> HIDE DEF n
<1>4. \A i \in 1..(n + 1) : 1 <= seen'[i] /\ seen'[i] <= v /\ seen'[i] <= appended
  <2>1. SUFFICES ASSUME NEW i \in 1..(n + 1)
        PROVE  1 <= seen'[i] /\ seen'[i] <= v /\ seen'[i] <= appended
    OBVIOUS
  <2>2. CASE i \in 1..n
    <3>1. 1 <= seen[i] /\ seen[i] <= appended /\ seen[i] < v /\ seen[i] \in Nat
      BY <1>1, <1>2, <2>2 DEF n
    <3> QED
      BY <1>2, <2>2, <3>1
  <2> QED
    BY <1>2, <1>3, <2>2
<1>5. \A i, j \in 1..(n + 1) : i < j => seen'[i] < seen'[j]
  <2>1. SUFFICES ASSUME NEW i \in 1..(n + 1), NEW j \in 1..(n + 1), i < j
        PROVE  seen'[i] < seen'[j]
    OBVIOUS
  <2>2. i \in 1..n
    BY <1>2, <2>1
  <2>3. CASE j \in 1..n
    BY <1>1, <1>2, <2>1, <2>2, <2>3 DEF n
  <2>4. CASE j = n + 1
    BY <1>2, <2>2, <2>4 DEF n
  <2> QED
    BY <1>3, <2>3, <2>4
<1>6. \A i \in 1..(n + 1) : i <= startTotal \/ rpc' = "foreach" => seen'[i] = i
  <2>1. SUFFICES ASSUME NEW i \in 1..(n + 1), i <= startTotal \/ rpc' = "foreach"
        PROVE  seen'[i] = i
    OBVIOUS
  <2>2. CASE i \in 1..n
    <3>1. i <= startTotal \/ rpc = "foreach"
      BY <2>1
    <3> QED
      BY <1>1, <1>2, <2>2, <3>1 DEF n
  <2>3. CASE i = n + 1
    <3>1. ~(i <= startTotal) \/ n + 1 <= startTotal
      BY <2>3
    <3>2. v = n + 1 \/ (rpc' # "foreach" /\ n >= startTotal)
      BY DEF n
    <3> QED
      BY <1>2, <2>1, <2>3, <3>1, <3>2
  <2> QED
    BY <1>3, <2>2, <2>3
<1> QED
  BY <1>2, <1>4, <1>5, <1>6 DEF SeenInv, n

LEMMA SeenKept ==
  ASSUME SeenInv, UNCHANGED << seen, appended >>,
         \/ seen = << >>
         \/ UNCHANGED startTotal /\ (rpc' = "foreach" => rpc = "foreach")
  PROVE  SeenInv'
<1>1. CASE seen = << >>
  <2>1. seen' \in Seq(Nat) /\ 1..Len(seen') = {}
    BY <1>1
  <2> QED
    BY <2>1 DEF SeenInv
<1>2. CASE UNCHANGED startTotal /\ (rpc' = "foreach" => rpc = "foreach")
  BY <1>2 DEF SeenInv
<1> QED
  BY <1>1, <1>2

LEMMA ForeachStep ==
  ASSUME BUCKET_SIZE \in Nat \ {0}, BucketsInv, SlotsInv, WriterInv, ReaderInv,
         UNCHANGED docVars,
         ForeachBegin \/ ForeachId \/ ForeachBucket \/ ForeachEnd
  PROVE  ReaderInv'
<1>1. /\ Len(bkts) \in Nat \ {0} /\ total \in Nat /\ appended \in Nat
      /\ \A k \in 1..Len(bkts) :
           /\ SizeOf(bkts[k]) \in Nat /\ bkts[k].offset \in Nat
           /\ bkts[k].offset <= SizeOf(bkts[k]) /\ Base(k) \in Nat
  BY Laid DEF WriterInv
<1>2. /\ bkts' = bkts /\ total' = total /\ appended' = appended
      /\ \A k : SizeOf(bkts[k])' = SizeOf(bkts[k]) /\ Base(k)' = Base(k)
  BY DEF docVars, SizeOf, Base
<1>3. /\ SeenInv /\ Len(seen) \in Nat
      /\ startTotal \in Nat /\ startTotal <= total
      /\ bkt \in 0..Len(bkts) /\ offset \in Nat
  <2>1. seen \in Seq(Nat)
    BY DEF ReaderInv, SeenInv
  <2> QED
    BY <2>1 DEF ReaderInv
<1>4. \A k \in 1..Len(bkts) :
        /\ NextBkt(k) = NOBKT =>
             k = Len(bkts) /\ total <= Base(k) + SizeOf(bkts[k])
        /\ NextBkt(k) # NOBKT => NextBkt(k) = k + 1 /\ k + 1 <= Len(bkts)
  <2>1. SUFFICES ASSUME NEW k \in 1..Len(bkts)
        PROVE  /\ NextBkt(k) = NOBKT =>
                    k = Len(bkts) /\ total <= Base(k) + SizeOf(bkts[k])
               /\ NextBkt(k) # NOBKT => NextBkt(k) = k + 1 /\ k + 1 <= Len(bkts)
    OBVIOUS
  <2>2. /\ NextBkt(k) = NOBKT => k = Len(bkts)
        /\ NextBkt(k) # NOBKT => NextBkt(k) = k + 1 /\ k + 1 <= Len(bkts)
    BY <1>1 DEF NextBkt, NOBKT
  <2>3. k = Len(bkts) => total <= Base(k) + SizeOf(bkts[k])
    BY <1>1, AllBefore
  <2> QED
    BY <2>2, <2>3
<1>9. rpc = "foreach" => SeenUpTo(Len(seen))
  <2>1. ASSUME rpc = "foreach", NEW i \in 1..Len(seen)
        PROVE  seen[i] <= Len(seen)
    <3>1. seen[i] = i
      BY <1>3, <2>1 DEF SeenInv
    <3> QED
      BY <1>3, <3>1
  <2> QED
    BY <2>1 DEF SeenUpTo
<1>5. CASE ForeachBegin
  <2>1. /\ rpc = "idle" /\ rpc' = "foreach" /\ bkt' = 1 /\ offset' = 0
        /\ tmpBkt' = NextBkt(1) /\ startTotal' = total /\ seen' = seen
    BY <1>5 DEF ForeachBegin
  <2>2. seen = << >> /\ 1 \in 1..Len(bkts) /\ Base(1) = 0
    BY <2>1, Laid DEF ReaderInv
  <2>3. /\ NextBkt(1) = NOBKT => total <= Base(1) + SizeOf(bkts[1])
        /\ NextBkt(1) # NOBKT => NextBkt(1) = 1 + 1 /\ 1 + 1 <= Len(bkts)
    BY <1>4, <2>2
  <2>4. 0 <= bkts[1].offset
    BY <1>1, <2>2
  <2>5. SeenInv'
    BY <1>2, <1>3, <2>1, <2>2, SeenKept
  <2>6. SeenUpTo(Base(bkt) + offset)' /\ Len(seen)' = (Base(bkt) + offset)'
    BY <1>2, <2>1, <2>2 DEF SeenUpTo
  <2>7. /\ offset' <= bkts'[bkt'].offset
        /\ IF tmpBkt' = NOBKT
           THEN startTotal' <= (Base(bkt) + SizeOf(bkts[bkt]))'
           ELSE tmpBkt' = bkt' + 1 /\ tmpBkt' <= Len(bkts')
    BY <1>2, <2>1, <2>3, <2>4
  <2>8. startTotal' \in Nat /\ startTotal' <= total' /\ offset' \in Nat
        /\ bkt' \in 1..Len(bkts')
    BY <1>1, <1>2, <2>1, <2>2
  <2> QED
    BY <2>1, <2>5, <2>6, <2>7, <2>8 DEF ReaderInv, NOBKT
<1>6. CASE ForeachId
  <2>1. /\ rpc = "foreach" /\ bkt # NOBKT /\ offset < bkts[bkt].offset
        /\ seen' = Append(seen, bkts[bkt].ids[offset]) /\ offset' = offset + 1
        /\ UNCHANGED << rpc, bkt, tmpBkt, startTotal >>
    BY <1>6 DEF ForeachId
  <2>2. bkt \in 1..Len(bkts) /\ offset \in 0..(SizeOf(bkts[bkt]) - 1)
    <3>1. bkt \in 1..Len(bkts)
      BY <1>1, <1>3, <2>1 DEF NOBKT
    <3>2. bkts[bkt].offset \in Nat /\ bkts[bkt].offset <= SizeOf(bkts[bkt])
          /\ SizeOf(bkts[bkt]) \in Nat
      BY <1>1, <3>1
    <3> QED
      BY <1>3, <2>1, <3>1, <3>2
  <2>3. /\ bkts[bkt].ids[offset] = Base(bkt) + offset + 1
        /\ bkts[bkt].ids[offset] <= appended
    BY <2>1, <2>2 DEF SlotsInv
  <2>4. Len(seen) = Base(bkt) + offset
    BY <2>1 DEF ReaderInv
  <2>5. bkts[bkt].ids[offset] = Len(seen) + 1 /\ Len(seen) + 1 \in Nat
    BY <1>3, <2>3, <2>4, <2>2, <1>1
  <2> DEFINE v == bkts[bkt].ids[offset]
  <2>10. v \in Nat /\ 1 <= v /\ v <= appended /\ v = Len(seen) + 1
    BY <1>3, <2>3, <2>5
  <2>11. \A i \in 1..Len(seen) : seen[i] < v
    <3>1. ASSUME NEW i \in 1..Len(seen) PROVE seen[i] < v
      <4>1. seen[i] = i
        BY <1>3, <2>1 DEF SeenInv
      <4> HIDE DEF v
      <4> QED
        BY <1>3, <2>10, <4>1
    <3> QED
      BY <3>1
  <2>12. seen' = Append(seen, v) /\ UNCHANGED << startTotal, appended >>
         /\ rpc' \in {rpc, "next"}
    BY <1>2, <2>1
  <2> HIDE DEF v
  <2>6. SeenInv' /\ Len(seen') = Len(seen) + 1
        /\ \A i \in 1..Len(seen') : seen'[i] <= v
    BY <1>1, <1>3, <2>10, <2>11, <2>12, NextSeen
  <2>7. Len(seen') = Base(bkt) + offset' /\ v = Base(bkt) + offset'
    BY <1>1, <1>3, <2>1, <2>2, <2>4, <2>6, <2>10
  <2>13. SeenUpTo(Base(bkt) + offset)'
    BY <1>2, <2>1, <2>6, <2>7 DEF SeenUpTo
  <2>8. offset' \in Nat /\ offset' <= bkts[bkt].offset
    BY <1>1, <1>3, <2>1, <2>2
  <2>9. IF tmpBkt = NOBKT THEN startTotal <= Base(bkt) + SizeOf(bkts[bkt])
        ELSE tmpBkt = bkt + 1 /\ tmpBkt <= Len(bkts)
    BY <2>1 DEF ReaderInv
  <2> QED
    BY <1>2, <1>3, <2>1, <2>6, <2>7, <2>8, <2>9, <2>13 DEF ReaderInv, NOBKT
<1>7. CASE ForeachBucket
  <2>1. /\ rpc = "foreach" /\ bkt # NOBKT /\ offset >= bkts[bkt].offset
        /\ bkt' = tmpBkt /\ offset' = 0
        /\ tmpBkt' = IF tmpBkt = NOBKT THEN NOBKT ELSE NextBkt(tmpBkt)
        /\ UNCHANGED << rpc, seen, startTotal >>
    BY <1>7 DEF ForeachBucket
  <2>6. SeenInv'
    BY <1>2, <1>3, <2>1, SeenKept
  <2>2. /\ bkt \in 1..Len(bkts) /\ offset = bkts[bkt].offset
        /\ Len(seen) = Base(bkt) + offset
        /\ IF tmpBkt = NOBKT THEN startTotal <= Base(bkt) + SizeOf(bkts[bkt])
           ELSE tmpBkt = bkt + 1 /\ tmpBkt <= Len(bkts)
    <3>1. bkt \in 1..Len(bkts)
      BY <1>1, <1>3, <2>1 DEF NOBKT
    <3>2. offset <= bkts[bkt].offset
      BY <2>1 DEF ReaderInv
    <3>3. offset = bkts[bkt].offset
      BY <1>1, <1>3, <2>1, <3>1, <3>2
    <3> QED
      BY <2>1, <3>1, <3>3 DEF ReaderInv
  <2>3. bkt # Len(bkts) => /\ bkt \in 1..(Len(bkts) - 1)
                           /\ bkts[bkt].offset = SizeOf(bkts[bkt])
                           /\ Base(bkt + 1) = Base(bkt) + SizeOf(bkts[bkt])
    <3>1. bkt # Len(bkts) => bkt \in 1..(Len(bkts) - 1)
      BY <1>1, <2>2
    <3> QED
      BY <3>1, Laid
  <2>4. CASE tmpBkt = NOBKT
    <3>1. Len(seen) >= startTotal
      <4>1. CASE bkt = Len(bkts)
        <5>1. total <= Base(bkt) + offset
          BY <1>3, <2>1, <2>2, <4>1, AllBefore
        <5> QED
          BY <1>1, <1>3, <2>2, <5>1
      <4>2. CASE bkt # Len(bkts)
        BY <2>2, <2>3, <2>4, <4>2
      <4> QED
        BY <4>1, <4>2
    <3>2. rpc' = "foreach" /\ bkt' = 0 /\ offset' = 0 /\ seen' = seen
          /\ startTotal' = startTotal
      BY <2>1, <2>4 DEF NOBKT
    <3> QED
      BY <1>1, <1>2, <1>3, <2>6, <3>1, <3>2 DEF ReaderInv, NOBKT
  <2>5. CASE tmpBkt # NOBKT
    <3>1. tmpBkt = bkt + 1 /\ tmpBkt <= Len(bkts)
      BY <2>2, <2>5
    <3>2. bkt # Len(bkts) /\ tmpBkt \in 1..Len(bkts)
      BY <1>1, <2>2, <3>1
    <3>3. Base(tmpBkt) = Base(bkt) + offset
      BY <2>2, <2>3, <3>1, <3>2
    <3>4. Len(seen) = Base(tmpBkt) + 0
      BY <1>1, <2>2, <3>2, <3>3
    <3>5. /\ NextBkt(tmpBkt) = NOBKT =>
               total <= Base(tmpBkt) + SizeOf(bkts[tmpBkt])
          /\ NextBkt(tmpBkt) # NOBKT =>
               NextBkt(tmpBkt) = tmpBkt + 1 /\ tmpBkt + 1 <= Len(bkts)
      BY <1>4, <3>2
    <3>6. /\ rpc' = "foreach" /\ bkt' = tmpBkt /\ offset' = 0 /\ seen' = seen
          /\ startTotal' = startTotal /\ tmpBkt' = NextBkt(tmpBkt)
      BY <2>1, <2>5
    <3>7. 0 <= bkts[tmpBkt].offset /\ tmpBkt # 0
      BY <1>1, <3>2
    <3>8. /\ NextBkt(tmpBkt) = NOBKT =>
               startTotal <= Base(tmpBkt) + SizeOf(bkts[tmpBkt])
      BY <1>1, <1>3, <3>2, <3>5
    <3>9. bkt' \in 0..Len(bkts)
      BY <1>1, <3>2, <3>6
    <3>10. /\ offset' <= bkts[bkt'].offset
           /\ IF tmpBkt' = NOBKT
              THEN startTotal' <= Base(tmpBkt) + SizeOf(bkts[tmpBkt])
              ELSE tmpBkt' = bkt' + 1 /\ tmpBkt' <= Len(bkts)
      BY <3>5, <3>6, <3>7, <3>8
    <3>11. SeenUpTo(Base(bkt) + offset)'
      <4>1. Base(bkt)' + offset' = Len(seen)
        BY <1>2, <3>4, <3>6
      <4> QED
        BY <1>9, <2>1, <4>1 DEF SeenUpTo
    <3> HIDE <2>1, <2>2
    <3> QED
      BY <1>2, <1>3, <2>6, <3>4, <3>6, <3>7, <3>9, <3>10, <3>11
         DEF ReaderInv, NOBKT
  <2> QED
    BY <2>4, <2>5
<1>8. CASE ForeachEnd
  <2>1. /\ rpc = "foreach" /\ bkt = NOBKT /\ rpc' = "done"
        /\ UNCHANGED << bkt, tmpBkt, offset, seen, startTotal >>
    BY <1>8 DEF ForeachEnd
  <2>2. Len(seen) >= startTotal
    BY <2>1 DEF ReaderInv
  <2>3. SeenInv'
    BY <1>2, <1>3, <2>1, SeenKept
  <2> QED
    BY <1>2, <1>3, <2>1, <2>2, <2>3 DEF ReaderInv, NOBKT
<1> QED
  BY <1>5, <1>6, <1>7, <1>8

LEMMA IterateStep ==
  ASSUME BUCKET_SIZE \in Nat \ {0}, BucketsInv, SlotsInv, WriterInv, ReaderInv,
         UNCHANGED docVars,
         IterateBegin \/ NextTest \/ NextBucket \/ NextId \/ ReadEnd
  PROVE  ReaderInv'
<1>1. /\ Len(bkts) \in Nat \ {0} /\ total \in Nat /\ appended \in Nat
      /\ \A k \in 1..Len(bkts) :
           /\ SizeOf(bkts[k]) \in Nat \ {0} /\ bkts[k].offset \in Nat
           /\ bkts[k].offset <= SizeOf(bkts[k]) /\ Base(k) \in Nat
  BY Laid DEF WriterInv
<1>2. /\ bkts' = bkts /\ total' = total /\ appended' = appended
      /\ \A k : SizeOf(bkts[k])' = SizeOf(bkts[k]) /\ Base(k)' = Base(k)
  BY DEF docVars, SizeOf, Base
<1>3. /\ SeenInv /\ Len(seen) \in Nat
      /\ startTotal \in Nat /\ startTotal <= total
      /\ bkt \in 0..Len(bkts) /\ offset \in Nat
  <2>1. seen \in Seq(Nat)
    BY DEF ReaderInv, SeenInv
  <2> QED
    BY <2>1 DEF ReaderInv
<1>4. CASE IterateBegin
  <2>1. /\ rpc = "idle" /\ rpc' = "next" /\ bkt' = 1 /\ offset' = 0
        /\ startTotal' = total /\ UNCHANGED << tmpBkt, seen >>
    BY <1>4 DEF IterateBegin
  <2>2. seen = << >> /\ 1 \in 1..Len(bkts) /\ Base(1) = 0
    BY <2>1, Laid DEF ReaderInv
  <2>3. 0 <= SizeOf(bkts[1])
    BY <1>1, <2>2
  <2>4. SeenInv'
    BY <1>2, <1>3, <2>1, <2>2, SeenKept
  <2>5. SeenUpTo(Base(bkt) + offset)' /\ Len(seen') = Base(1) + 0
    BY <2>1, <2>2 DEF SeenUpTo
  <2> QED
    BY <1>1, <1>2, <1>3, <2>1, <2>2, <2>3, <2>4, <2>5 DEF ReaderInv, NOBKT
<1> DEFINE pos == Base(bkt) + offset
<1>8. CASE NextTest
  <2>1. /\ rpc = "next"
        /\ rpc' = IF offset >= bkts[bkt].offset THEN "follow" ELSE "load"
        /\ UNCHANGED << bkt, tmpBkt, offset, seen, startTotal >>
    BY <1>8 DEF NextTest
  <2>2. /\ bkt \in 1..Len(bkts) /\ bkt # NOBKT /\ offset <= SizeOf(bkts[bkt])
        /\ SeenUpTo(pos) /\ (Len(seen) = pos \/ Len(seen) >= startTotal)
    BY <1>1, <1>3, <2>1 DEF ReaderInv, NOBKT
  <2>3. SeenInv' /\ SeenUpTo(pos)' /\ pos' = pos
    BY <1>2, <1>3, <2>1, <2>2, SeenKept DEF SeenUpTo
  <2>4. rpc' = "load" => offset < SizeOf(bkts[bkt])
    BY <1>1, <1>3, <2>1, <2>2
  <2>5. rpc' = "follow" => offset = SizeOf(bkts[bkt]) \/ Len(seen) >= startTotal
    <3>1. SUFFICES ASSUME offset >= bkts[bkt].offset, offset # SizeOf(bkts[bkt])
                   PROVE  Len(seen) >= startTotal
      BY <2>1
    <3>2. offset < SizeOf(bkts[bkt])
      BY <1>1, <1>3, <2>2, <3>1
    <3>3. total <= pos
      BY <1>3, <2>2, <3>1, <3>2, AllBefore
    <3> QED
      BY <1>1, <1>3, <2>2, <3>3
  <2>6. rpc' \in {"follow", "load"}
    BY <2>1
  <2> QED
    BY <1>2, <1>3, <2>1, <2>2, <2>3, <2>4, <2>5, <2>6 DEF ReaderInv, NOBKT
<1>5. CASE NextBucket
  <2>1. /\ rpc = "follow" /\ rpc' = "load" /\ bkt' = NextBkt(bkt) /\ offset' = 0
        /\ UNCHANGED << tmpBkt, seen, startTotal >>
    BY <1>5 DEF NextBucket
  <2>2. /\ bkt \in 1..Len(bkts) /\ offset <= SizeOf(bkts[bkt])
        /\ SeenUpTo(pos) /\ (Len(seen) = pos \/ Len(seen) >= startTotal)
        /\ offset = SizeOf(bkts[bkt]) \/ Len(seen) >= startTotal
    BY <1>1, <1>3, <2>1 DEF ReaderInv, NOBKT
  <2>3. SeenInv'
    BY <1>2, <1>3, <2>1, SeenKept
  <2>4. CASE bkt = Len(bkts)
    <3>1. bkt' = 0
      BY <1>1, <2>1, <2>4 DEF NextBkt, NOBKT
    <3>2. offset = SizeOf(bkts[bkt]) => total <= pos
      <4>1. SUFFICES ASSUME offset = SizeOf(bkts[bkt]) PROVE total <= pos
        OBVIOUS
      <4>2. offset >= bkts[bkt].offset
        BY <1>1, <2>2, <4>1
      <4> QED
        BY <1>3, <2>2, <2>4, <4>2, AllBefore
    <3>3. Len(seen) >= startTotal
      <4>1. pos \in Nat
        BY <1>1, <1>3, <2>2
      <4> HIDE DEF pos
      <4> QED
        BY <1>1, <1>3, <2>2, <3>2, <4>1
    <3> QED
      BY <1>1, <1>2, <1>3, <2>1, <2>3, <3>1, <3>3 DEF ReaderInv, NOBKT
  <2>5. CASE bkt # Len(bkts)
    <3>1. bkt < Len(bkts) /\ bkt \in 1..(Len(bkts) - 1)
      BY <1>1, <2>2, <2>5
    <3>2. bkt' = bkt + 1
      BY <2>1, <3>1 DEF NextBkt
    <3>3. /\ Base(bkt + 1) = Base(bkt) + SizeOf(bkts[bkt])
          /\ bkt + 1 \in 1..Len(bkts)
      BY <3>1, Laid
    <3>4. Base(bkt + 1) \in Nat /\ pos \in Nat /\ pos <= Base(bkt + 1) + 0
          /\ (offset = SizeOf(bkts[bkt]) => pos = Base(bkt + 1) + 0)
      BY <1>1, <1>3, <2>2, <3>3
    <3>5. Len(seen) = Base(bkt + 1) + 0 \/ Len(seen) >= startTotal
      BY <2>2, <3>4
    <3>6. SeenUpTo(Base(bkt + 1) + 0)
      <4>1. \A i \in 1..Len(seen) : seen[i] \in Nat
        BY <1>3 DEF SeenInv
      <4> HIDE DEF pos
      <4> QED
        BY <2>2, <3>4, <4>1 DEF SeenUpTo
    <3>7. SeenUpTo(Base(bkt) + offset)'
      BY <1>2, <2>1, <3>2, <3>6 DEF SeenUpTo
    <3>8. 0 < SizeOf(bkts[bkt + 1]) /\ bkt + 1 # 0 /\ bkt + 1 \in 0..Len(bkts)
      BY <1>1, <3>3
    <3> QED
      BY <1>2, <1>3, <2>1, <2>3, <3>2, <3>5, <3>7, <3>8 DEF ReaderInv, NOBKT
  <2> QED
    BY <2>4, <2>5
<1>6. CASE NextId
  <2>1. rpc = "load" /\ UNCHANGED << bkt, tmpBkt, startTotal >>
    BY <1>6 DEF NextId
  <2>6. UNCHANGED seen /\ rpc' = "done" => SeenInv'
    BY <1>2, <1>3, <2>1, SeenKept
  <2>2. CASE bkt = NOBKT
    <3>1. rpc' = "done" /\ UNCHANGED << offset, seen >>
      BY <1>6, <2>2 DEF NextId
    <3>2. Len(seen) >= startTotal
      BY <2>1, <2>2 DEF ReaderInv
    <3> QED
      BY <1>2, <1>3, <2>1, <2>6, <3>1, <3>2 DEF ReaderInv, NOBKT
  <2> DEFINE v == bkts[bkt].ids[offset]
  <2>3. ASSUME bkt # NOBKT
        PROVE  /\ bkt \in 1..Len(bkts) /\ offset < SizeOf(bkts[bkt])
               /\ SeenUpTo(pos) /\ (Len(seen) = pos \/ Len(seen) >= startTotal)
               /\ v \in {EMPTY, pos + 1} /\ v <= appended
               /\ offset < bkts[bkt].offset => v # EMPTY
    <3>1. bkt \in 1..Len(bkts) /\ offset < SizeOf(bkts[bkt])
          /\ SeenUpTo(pos) /\ (Len(seen) = pos \/ Len(seen) >= startTotal)
      BY <1>1, <1>3, <2>1, <2>3 DEF ReaderInv, NOBKT
    <3>2. offset \in 0..(SizeOf(bkts[bkt]) - 1)
      BY <1>1, <1>3, <3>1
    <3> QED
      BY <3>1, <3>2 DEF SlotsInv
  <2>4. CASE bkt # NOBKT /\ v = EMPTY
    <3>1. rpc' = "done" /\ UNCHANGED << offset, seen >>
      BY <1>6, <2>4 DEF NextId
    <3>2. bkt \in 1..Len(bkts) /\ offset >= bkts[bkt].offset
          /\ offset < SizeOf(bkts[bkt])
      <4>1. ~(offset < bkts[bkt].offset) /\ bkt \in 1..Len(bkts)
        BY <2>3, <2>4
      <4>2. bkts[bkt].offset \in Nat
        BY <1>1, <4>1
      <4> QED
        BY <1>3, <2>3, <2>4, <4>1, <4>2
    <3>3. total <= pos
      BY <1>3, <3>2, AllBefore
    <3>4. Len(seen) >= startTotal
      BY <1>1, <1>3, <2>3, <2>4, <3>2, <3>3
    <3> QED
      BY <1>2, <1>3, <2>1, <2>6, <3>1, <3>4 DEF ReaderInv, NOBKT
  <2>5. CASE bkt # NOBKT /\ v # EMPTY
    <3>1. rpc' = "next" /\ seen' = Append(seen, v) /\ offset' = offset + 1
      BY <1>6, <2>5 DEF NextId
    <3>2. /\ bkt \in 1..Len(bkts) /\ offset < SizeOf(bkts[bkt])
          /\ SeenUpTo(pos) /\ (Len(seen) = pos \/ Len(seen) >= startTotal)
          /\ v = pos + 1 /\ v <= appended
      BY <2>3, <2>5
    <3>3. pos \in Nat /\ offset' \in Nat /\ offset' <= SizeOf(bkts[bkt])
          /\ Base(bkt) + offset' = pos + 1
      BY <1>1, <1>3, <3>1, <3>2
    <3> HIDE DEF v, pos
    <3>4. v \in Nat /\ 1 <= v
      BY <3>2, <3>3
    <3>5. \A i \in 1..Len(seen) : seen[i] < v
      <4>1. \A i \in 1..Len(seen) : seen[i] \in Nat /\ seen[i] <= pos
        BY <1>3, <3>2 DEF SeenInv, SeenUpTo
      <4> QED
        BY <3>2, <3>3, <4>1
    <3>6. v = Len(seen) + 1 \/ (rpc' # "foreach" /\ Len(seen) >= startTotal)
      BY <3>1, <3>2
    <3>7. rpc' \in {rpc, "next"} /\ UNCHANGED << startTotal, appended >>
      BY <1>2, <2>1, <3>1
    <3>8. SeenInv' /\ Len(seen') = Len(seen) + 1
          /\ \A i \in 1..Len(seen') : seen'[i] <= v
      BY <1>1, <1>3, <3>1, <3>2, <3>4, <3>5, <3>6, <3>7, NextSeen
    <3>9. SeenUpTo(Base(bkt) + offset)'
      <4>1. Base(bkt)' + offset' = v
        BY <1>2, <2>1, <3>2, <3>3
      <4> QED
        BY <3>8, <4>1 DEF SeenUpTo
    <3>10. Len(seen') = Base(bkt) + offset' \/ Len(seen') >= startTotal
      BY <1>3, <3>2, <3>3, <3>8
    <3> QED
      BY <1>2, <1>3, <2>1, <2>5, <3>1, <3>2, <3>3, <3>8, <3>9, <3>10
         DEF ReaderInv, NOBKT
  <2> QED
    BY <2>2, <2>4, <2>5
<1>7. CASE ReadEnd
  <2>1. /\ rpc' = "idle" /\ bkt' = NOBKT /\ offset' = 0
        /\ seen' = << >> /\ startTotal' = 0
    BY <1>7 DEF ReadEnd
  <2>2. SeenInv'
    <3>1. seen' \in Seq(Nat) /\ 1..Len(seen') = {}
      BY <2>1
    <3> QED
      BY <3>1 DEF SeenInv
  <2> QED
    BY <1>1, <1>2, <2>1, <2>2 DEF ReaderInv, NOBKT
<1> QED
  BY <1>4, <1>5, <1>6, <1>7, <1>8

LEMMA DocIdsStep ==
  ASSUME BUCKET_SIZE \in Nat \ {0},
         DocIdsInv, [DocIdsNext]_<< docVars, docReader >>
  PROVE  DocIdsInv' \/ Fresh'
<1>1. BucketsInv /\ SlotsInv /\ WriterInv /\ ReaderInv
  BY DEF DocIdsInv
<1>2. UNCHANGED docVars => BucketsInv' /\ SlotsInv' /\ WriterInv'
  BY <1>1 DEF docVars, BucketsInv, SlotsInv, WriterInv, Base, SizeOf
<1>3. CASE UNCHANGED << docVars, docReader >>
  <2>1. ReaderInv'
    BY <1>1, <1>3 DEF docVars, docReader, ReaderInv, SeenInv,
       SeenUpTo, Base, SizeOf
  <2> QED
    BY <1>2, <1>3, <2>1 DEF DocIdsInv
<1>4. CASE AppendBegin \/ MoveTail \/ StoreId \/ AdvanceOffset \/ CountTotal
  <2>1. BucketsInv' /\ SlotsInv' /\ WriterInv' /\ Grows
    <3>1. CASE AppendBegin
      <4>1. CASE bkts[tailBkt].offset < SizeOf(bkts[tailBkt])
        BY <1>1, <3>1, <4>1, CountStep DEF AppendBegin
      <4>2. CASE ~(bkts[tailBkt].offset < SizeOf(bkts[tailBkt]))
        BY <1>1, <3>1, <4>2, BucketAdded
      <4> QED
        BY <4>1, <4>2
    <3>2. CASE MoveTail
      BY <1>1, <3>2, CountStep DEF MoveTail
    <3>3. CASE StoreId
      BY <1>1, <3>3, StoreStep
    <3>4. CASE AdvanceOffset
      BY <1>1, <3>4, AdvanceStep
    <3>5. CASE CountTotal
      BY <1>1, <3>5, CountStep DEF CountTotal
    <3> QED
      BY <1>4, <3>1, <3>2, <3>3, <3>4, <3>5
  <2>2. UNCHANGED docReader
    BY <1>4 DEF AppendBegin, MoveTail, StoreId, AdvanceOffset, CountTotal
  <2> QED
    BY <1>1, <2>1, <2>2, ReaderKept DEF DocIdsInv
<1>5. CASE Reset
  <2>1. rpc = "idle" /\ dpc = "idle" /\ UNCHANGED << dpc, docReader >>
        /\ bkts' = << NewBucket(BUCKET_SIZE) >> /\ tailBkt' = 1
        /\ total' = 0 /\ appended' = 0
    BY <1>5 DEF Reset
  <2>2. seen = << >> /\ startTotal = 0 /\ bkt = NOBKT /\ offset \in Nat
    BY <1>1, <2>1 DEF ReaderInv
  <2> QED
    BY <2>1, <2>2 DEF Fresh, docReader, NewBucket, NOBKT, EMPTY
<1>6. CASE ForeachBegin \/ ForeachId \/ ForeachBucket \/ ForeachEnd
  <2>1. UNCHANGED docVars
    BY <1>6 DEF ForeachBegin, ForeachId, ForeachBucket, ForeachEnd
  <2> QED
    BY <1>1, <1>2, <1>6, <2>1, ForeachStep DEF DocIdsInv
<1>7. CASE IterateBegin \/ NextTest \/ NextBucket \/ NextId \/ ReadEnd
  <2>1. UNCHANGED docVars
    BY <1>7 DEF IterateBegin, NextTest, NextBucket, NextId, ReadEnd
  <2> QED
    BY <1>1, <1>2, <1>7, <2>1, IterateStep DEF DocIdsInv
<1> QED
  BY <1>3, <1>4, <1>5, <1>6, <1>7 DEF DocIdsNext

\* A reader of a posting list, which takes no lock, is given pointers in the
\* order they were appended and none of them NULL or twice, whatever the writer is
\* in the middle of; those total counted when it began it is given without a gap,
\* and all of them by its end.  The iterator may miss pointers appended since
\* (docid.h:82-83), ts_docid_foreach leaves no gap at all.
THEOREM ReaderInOrderHolds == DocIdsSpec => []ReaderInOrder
<1>1. Fresh => DocIdsInv
  BY FreshInv, DocIdsAssumption
<1>2. Fresh' => DocIdsInv'
  BY <1>1, PTL
<1>3. DocIdsInit => DocIdsInv
  BY <1>1 DEF DocIdsInit, Fresh
<1>4. DocIdsInv /\ [DocIdsNext]_<< docVars, docReader >> => DocIdsInv'
  BY <1>2, DocIdsStep, DocIdsAssumption
<1>5. DocIdsInv => ReaderInOrder
  <2>1. SUFFICES ASSUME ReaderInv, WriterInv PROVE ReaderInOrder
    BY DEF DocIdsInv
  <2>2. seen \in Seq(Nat) /\ DOMAIN seen = 1..Len(seen)
        /\ \A i \in 1..Len(seen) : seen[i] \in Nat
    BY <2>1 DEF ReaderInv, SeenInv
  <2>3. appended \in Nat
    BY <2>1 DEF WriterInv
  <2>4. \A i \in DOMAIN seen : seen[i] \in 1..appended
    BY <2>1, <2>2, <2>3 DEF ReaderInv, SeenInv
  <2> QED
    BY <2>1, <2>2, <2>4 DEF ReaderInv, SeenInv, ReaderInOrder
<1> QED
  BY <1>3, <1>4, <1>5, PTL DEF DocIdsSpec

------------------------------------------------------------------------------
(* The fields of documents and the tokens of a request (document.c,        *)
(* adapter.c, query.c).                                                    *)

Fields == [name : FieldName, value : FieldValue]

\* The document, its clone and the fields dropped share no field, and are all
\* that is allocated; no two fields of the document have a name in common.
FieldsInv ==
  /\ heapF \in [FieldId -> Fields \cup {NoField}]
  /\ doc \in Seq(FieldId) /\ clone \in Seq(FieldId)
  /\ dropped \in SUBSET FieldId
  /\ Distinct(doc) /\ Distinct(clone)
  /\ Items(doc) \cap Items(clone) = {}
  /\ (Items(doc) \cup Items(clone)) \cap dropped = {}
  /\ Allocated = Items(doc) \cup Items(clone) \cup dropped
  /\ \A f, g \in Items(doc) : heapF[f].name = heapF[g].name => f = g
  /\ ~hasClone => clone = << >>
  /\ hasClone => Content(clone) = copied

TokensInv ==
  /\ protoDocs = replies
  /\ tokens \in Seq(Token) /\ strings = Len(tokens)
  /\ slots \in Nat /\ Len(tokens) <= slots

\* Fields set and cleared.
LEMMA HeapWritten ==
  ASSUME heapF \in [FieldId -> Fields \cup {NoField}], NEW f \in FieldId,
         NEW x \in Fields, NoField \notin Fields,
         heapF' = [heapF EXCEPT ![f] = x]
  PROVE  /\ heapF' \in [FieldId -> Fields \cup {NoField}]
         /\ Allocated' = Allocated \cup {f}
<1>1. heapF' \in [FieldId -> Fields \cup {NoField}]
  OBVIOUS
<1>2. \A g \in FieldId : heapF'[g] # NoField <=> g = f \/ heapF[g] # NoField
  OBVIOUS
<1>3. Allocated' = {g \in FieldId : heapF'[g] # NoField}
  BY DEF Allocated, NoField
<1> HIDE DEF NoField
<1>4. Allocated' = Allocated \cup {f}
  BY <1>2, <1>3 DEF Allocated
<1> QED
  BY <1>1, <1>4

LEMMA HeapFreed ==
  ASSUME heapF \in [FieldId -> Fields \cup {NoField}], NEW d \in Seq(FieldId),
         heapF' = Freed(d)
  PROVE  /\ heapF' \in [FieldId -> Fields \cup {NoField}]
         /\ Allocated' = Allocated \ Items(d)
         /\ \A f \in FieldId \ Items(d) : heapF'[f] = heapF[f]
<1>1. \A f : (\E i \in DOMAIN d : d[i] = f) <=> f \in Items(d)
  BY DEF Items
<1>2. heapF' = [f \in FieldId |-> IF f \in Items(d) THEN NoField ELSE heapF[f]]
  BY <1>1 DEF Freed
<1>3. Allocated' = {g \in FieldId : heapF'[g] # NoField}
  BY DEF Allocated, NoField
<1>4. Allocated' = Allocated \ Items(d)
  BY <1>2, <1>3 DEF Allocated
<1> QED
  BY <1>2, <1>4

LEMMA PlaceInFinds ==
  ASSUME doc \in Seq(FieldId), NEW name
  PROVE  /\ PlaceIn(doc, name) # 0 =>
              /\ PlaceIn(doc, name) \in 1..Len(doc)
              /\ heapF[doc[PlaceIn(doc, name)]].name = name
         /\ PlaceIn(doc, name) = 0 =>
              \A f \in Items(doc) : heapF[f].name # name
<1>1. DOMAIN doc = 1..Len(doc) /\ Len(doc) \in Nat
  OBVIOUS
<1>2. CASE \E i \in DOMAIN doc : heapF[doc[i]].name = name
  <2>1. PlaceIn(doc, name) \in DOMAIN doc
        /\ heapF[doc[PlaceIn(doc, name)]].name = name
    BY <1>2 DEF PlaceIn
  <2> QED
    BY <1>1, <2>1
<1>3. CASE ~(\E i \in DOMAIN doc : heapF[doc[i]].name = name)
  <2>1. PlaceIn(doc, name) = 0
    BY <1>3 DEF PlaceIn
  <2>2. \A f \in Items(doc) : heapF[f].name # name
    BY <1>1, <1>3 DEF Items
  <2> QED
    BY <2>1, <2>2
<1> QED
  BY <1>2, <1>3

LEMMA FieldAddKeeps ==
  ASSUME FieldsInv, NoField \notin Fields, NEW f \in FieldId,
         NEW name \in FieldName, NEW value \in FieldValue,
         FieldAdd(f, name, value)
  PROVE  FieldsInv'
<1> DEFINE i == PlaceIn(doc, name)
           x == [name |-> name, value |-> value]
           rest == WithoutPlace(doc, i)
<1>1. /\ heapF \in [FieldId -> Fields \cup {NoField}]
      /\ doc \in Seq(FieldId) /\ clone \in Seq(FieldId)
      /\ dropped \in SUBSET FieldId /\ Distinct(doc) /\ Distinct(clone)
      /\ Items(doc) \cap Items(clone) = {}
      /\ (Items(doc) \cup Items(clone)) \cap dropped = {}
      /\ Allocated = Items(doc) \cup Items(clone) \cup dropped
      /\ \A g, h \in Items(doc) : heapF[g].name = heapF[h].name => g = h
  BY DEF FieldsInv
<1>2. /\ f \notin Allocated /\ heapF' = [heapF EXCEPT ![f] = x]
      /\ doc' = Append(rest, f)
      /\ dropped' = IF i = 0 THEN dropped ELSE dropped \cup {doc[i]}
      /\ UNCHANGED << clone, hasClone, copied >> /\ ~hasClone
  BY DEF FieldAdd
<1>3. clone = << >> /\ Items(clone) = {}
  BY <1>2, NothingIn DEF FieldsInv
<1>4. x \in Fields
  BY DEF Fields
<1>5. /\ heapF' \in [FieldId -> Fields \cup {NoField}]
      /\ Allocated' = Allocated \cup {f}
  BY <1>1, <1>2, <1>4, HeapWritten
<1>6. /\ i # 0 => i \in 1..Len(doc) /\ heapF[doc[i]].name = name
      /\ i = 0 => \A g \in Items(doc) : heapF[g].name # name
  BY <1>1, PlaceInFinds
<1> HIDE DEF i
<1>7. i # 0 => doc[i] \in Items(doc)
  BY <1>6 DEF Items
<1>8. /\ rest \in Seq(FieldId) /\ Distinct(rest)
      /\ Items(rest) = IF i = 0 THEN Items(doc) ELSE Items(doc) \ {doc[i]}
  <2>1. CASE i = 0
    BY <1>1, <2>1 DEF WithoutPlace
  <2>2. CASE i # 0
    BY <1>1, <1>6, <2>2, Removed DEF WithoutPlace
  <2> QED
    BY <2>1, <2>2
<1>9. f \notin Items(doc) /\ f \notin dropped
  BY <1>1, <1>2
<1> HIDE DEF rest
<1>10. /\ doc' \in Seq(FieldId) /\ Distinct(doc')
       /\ Items(doc') = Items(rest) \cup {f}
  <2>1. f \notin Items(rest)
    BY <1>8, <1>9
  <2> QED
    BY <1>2, <1>8, <2>1, Appended
<1>11. Items(clone') = {} /\ clone' = << >> /\ hasClone' = hasClone
  BY <1>2, <1>3
<1>12. /\ (Items(doc') \cup Items(clone')) \cap dropped' = {}
       /\ Allocated' = Items(doc') \cup Items(clone') \cup dropped'
       /\ dropped' \in SUBSET FieldId
  <2>1. CASE i = 0
    BY <1>1, <1>2, <1>3, <1>5, <1>8, <1>9, <1>10, <1>11, <2>1
  <2>2. CASE i # 0
    <3>1. doc[i] \in FieldId /\ doc[i] # f
      BY <1>1, <1>6, <1>7, <1>9, <2>2
    <3>2. dropped' = dropped \cup {doc[i]} /\ Items(rest) = Items(doc) \ {doc[i]}
      BY <1>2, <1>8, <2>2
    <3> QED
      BY <1>1, <1>3, <1>5, <1>7, <1>9, <1>10, <1>11, <2>2, <3>1, <3>2
  <2> QED
    BY <2>1, <2>2
<1>13. ASSUME NEW g \in Items(doc'), NEW h \in Items(doc'),
              heapF'[g].name = heapF'[h].name
       PROVE  g = h
  <2>1. \A k \in Items(rest) : /\ k \in Items(doc) /\ k # f /\ heapF'[k] = heapF[k]
                               /\ heapF[k].name # name
    <3>1. SUFFICES ASSUME NEW k \in Items(rest)
                   PROVE  /\ k \in Items(doc) /\ k # f /\ heapF'[k] = heapF[k]
                          /\ heapF[k].name # name
      OBVIOUS
    <3>2. k \in Items(doc) /\ k # f /\ k \in FieldId
      BY <1>1, <1>8, <1>9, ItemsTyped
    <3>3. heapF'[k] = heapF[k]
      BY <1>1, <1>2, <3>2
    <3>4. CASE i = 0
      BY <1>6, <3>2, <3>3, <3>4
    <3>5. CASE i # 0
      <4>1. k # doc[i]
        BY <1>8, <3>5
      <4> QED
        BY <1>1, <1>6, <1>7, <3>2, <3>3, <3>5, <4>1
    <3> QED
      BY <3>4, <3>5
  <2>2. heapF'[f].name = name
    BY <1>1, <1>2
  <2>3. (g \in Items(rest) \/ g = f) /\ (h \in Items(rest) \/ h = f)
    BY <1>10
  <2> QED
    BY <1>1, <1>13, <2>1, <2>2, <2>3
<1>14. Distinct(clone') /\ clone' \in Seq(FieldId)
  BY <1>11, NothingIn
<1> QED
  BY <1>2, <1>5, <1>10, <1>11, <1>12, <1>13, <1>14 DEF FieldsInv, NoField

LEMMA FieldDelKeeps ==
  ASSUME FieldsInv, NEW name \in FieldName, FieldDel(name)
  PROVE  FieldsInv'
<1> DEFINE i == PlaceIn(doc, name)
<1>1. /\ heapF \in [FieldId -> Fields \cup {NoField}]
      /\ doc \in Seq(FieldId) /\ clone \in Seq(FieldId)
      /\ dropped \in SUBSET FieldId /\ Distinct(doc) /\ Distinct(clone)
      /\ Items(doc) \cap Items(clone) = {}
      /\ (Items(doc) \cup Items(clone)) \cap dropped = {}
      /\ Allocated = Items(doc) \cup Items(clone) \cup dropped
      /\ \A g, h \in Items(doc) : heapF[g].name = heapF[h].name => g = h
  BY DEF FieldsInv
<1>2. /\ i # 0 /\ doc' = RemoveAt(doc, i) /\ dropped' = dropped \cup {doc[i]}
      /\ UNCHANGED << heapF, clone, hasClone, copied >> /\ ~hasClone
  BY DEF FieldDel
<1>3. i \in 1..Len(doc)
  BY <1>1, <1>2, PlaceInFinds
<1> HIDE DEF i
<1>4. doc[i] \in Items(doc) /\ doc[i] \in FieldId
  BY <1>1, <1>3 DEF Items
<1>5. /\ doc' \in Seq(FieldId) /\ Distinct(doc')
      /\ Items(doc') = Items(doc) \ {doc[i]}
  BY <1>1, <1>2, <1>3, Removed
<1>6. Allocated' = Allocated
  BY <1>2 DEF Allocated, NoField
<1>7. clone = << >> /\ clone' = clone /\ hasClone' = hasClone
      /\ Items(clone') = Items(clone) /\ Distinct(clone')
  BY <1>1, <1>2 DEF FieldsInv
<1> QED
  BY <1>1, <1>2, <1>4, <1>5, <1>6, <1>7 DEF FieldsInv, NoField

LEMMA DocumentFreeKeeps ==
  ASSUME FieldsInv, DocumentFree
  PROVE  FieldsInv'
<1>1. /\ heapF \in [FieldId -> Fields \cup {NoField}]
      /\ doc \in Seq(FieldId) /\ dropped \in SUBSET FieldId
      /\ Items(doc) \cap dropped = {}
      /\ Allocated = Items(doc) \cup Items(clone) \cup dropped
  BY DEF FieldsInv
<1>2. /\ doc' = << >> /\ heapF' = Freed(doc)
      /\ UNCHANGED << clone, hasClone, copied, dropped >> /\ ~hasClone
  BY DEF DocumentFree
<1>3. clone = << >> /\ Items(clone) = {}
  BY <1>2, NothingIn DEF FieldsInv
<1>4. /\ heapF' \in [FieldId -> Fields \cup {NoField}]
      /\ Allocated' = Allocated \ Items(doc)
  BY <1>1, <1>2, HeapFreed
<1>5. Items(doc') = {} /\ Distinct(doc') /\ Items(clone') = {} /\ Distinct(clone')
  BY <1>2, <1>3, NothingIn
<1>6. doc' \in Seq(FieldId) /\ clone' \in Seq(FieldId) /\ clone' = << >>
  BY <1>2, <1>3
<1>7. Allocated' = dropped'
  BY <1>1, <1>2, <1>3, <1>4
<1> QED
  BY <1>1, <1>2, <1>4, <1>5, <1>6, <1>7 DEF FieldsInv, NoField

LEMMA ReplyKeeps ==
  ASSUME FieldsInv, Reply
  PROVE  FieldsInv'
<1>1. /\ heapF \in [FieldId -> Fields \cup {NoField}]
      /\ doc \in Seq(FieldId) /\ clone \in Seq(FieldId)
      /\ dropped \in SUBSET FieldId /\ Distinct(doc)
      /\ Items(doc) \cap Items(clone) = {}
      /\ (Items(doc) \cup Items(clone)) \cap dropped = {}
      /\ Allocated = Items(doc) \cup Items(clone) \cup dropped
      /\ \A g, h \in Items(doc) : heapF[g].name = heapF[h].name => g = h
  BY DEF FieldsInv
<1>2. /\ clone' = << >> /\ hasClone' = FALSE /\ heapF' = Freed(clone)
      /\ UNCHANGED << doc, dropped >>
  BY DEF Reply
<1>3. /\ heapF' \in [FieldId -> Fields \cup {NoField}]
      /\ Allocated' = Allocated \ Items(clone)
      /\ \A f \in FieldId \ Items(clone) : heapF'[f] = heapF[f]
  BY <1>1, <1>2, HeapFreed
<1>4. Items(clone') = {} /\ Distinct(clone') /\ clone' \in Seq(FieldId)
  BY <1>2, NothingIn
<1>5. Items(doc) \in SUBSET FieldId
  BY <1>1, ItemsTyped
<1>6. \A f \in Items(doc) : heapF'[f] = heapF[f]
  BY <1>1, <1>3, <1>5
<1>7. Allocated' = Items(doc') \cup Items(clone') \cup dropped'
  BY <1>1, <1>2, <1>3, <1>4
<1> QED
  BY <1>1, <1>2, <1>3, <1>4, <1>6, <1>7 DEF FieldsInv, NoField

LEMMA DocumentCloneKeeps ==
  ASSUME FieldsInv, DocumentClone
  PROVE  FieldsInv'
<1>1. /\ heapF \in [FieldId -> Fields \cup {NoField}]
      /\ doc \in Seq(FieldId) /\ Len(doc) \in Nat /\ DOMAIN doc = 1..Len(doc)
      /\ dropped \in SUBSET FieldId /\ Distinct(doc)
      /\ Items(doc) \cap dropped = {}
      /\ Allocated = Items(doc) \cup Items(clone) \cup dropped
      /\ \A g, h \in Items(doc) : heapF[g].name = heapF[h].name => g = h
  BY DEF FieldsInv
<1>2. PICK fs \in [DOMAIN doc -> FieldId \ Allocated] :
        /\ IsInjective(fs)
        /\ clone' = fs
        /\ heapF' = [f \in FieldId |->
             IF \E i \in DOMAIN fs : fs[i] = f
             THEN heapF[doc[CHOOSE i \in DOMAIN fs : fs[i] = f]] ELSE heapF[f]]
  BY DEF DocumentClone
<1>3. /\ hasClone' = TRUE /\ copied' = Content(doc) /\ ~hasClone
      /\ UNCHANGED << doc, dropped >>
  BY DEF DocumentClone
<1>4. clone = << >> /\ Items(clone) = {}
  BY <1>3, NothingIn DEF FieldsInv
<1>5. /\ fs \in [1..Len(doc) -> FieldId \ Allocated] /\ DOMAIN fs = 1..Len(doc)
  BY <1>1, <1>2
<1>6. fs \in Seq(FieldId) /\ Len(fs) = Len(doc)
  <2>1. fs \in [1..Len(doc) -> FieldId]
    BY <1>5
  <2>2. fs \in Seq(FieldId)
    BY <1>1, <2>1
  <2>3. Len(fs) \in Nat /\ DOMAIN fs = 1..Len(fs)
    BY <2>2
  <2>4. \A p, q \in Nat : 1..p = 1..q => p = q
    <3>1. SUFFICES ASSUME NEW p \in Nat, NEW q \in Nat, 1..p = 1..q
                   PROVE  p = q
      OBVIOUS
    <3>2. (p < q => q \in 1..q /\ q \notin 1..p)
          /\ (q < p => p \in 1..p /\ p \notin 1..q)
      OBVIOUS
    <3> QED
      BY <3>1, <3>2
  <2>5. 1..Len(fs) = 1..Len(doc)
    BY <1>5, <2>3
  <2> QED
    BY <1>1, <2>2, <2>3, <2>4, <2>5
<1>7. \A i, j \in 1..Len(doc) : fs[i] = fs[j] => i = j
  BY <1>2, <1>5 DEF IsInjective
<1>8. Distinct(fs)
  BY <1>6, <1>7 DEF Distinct
<1>9. \A i \in 1..Len(doc) : /\ fs[i] \in FieldId /\ fs[i] \notin Allocated
                             /\ doc[i] \in FieldId /\ doc[i] \in Items(doc)
  BY <1>1, <1>5 DEF Items
<1>10. Items(fs) \in SUBSET FieldId /\ Items(fs) \cap Allocated = {}
       /\ Items(fs) = {fs[i] : i \in 1..Len(doc)}
  BY <1>6, <1>9 DEF Items
<1>11. \A i \in 1..Len(doc) : heapF'[fs[i]] = heapF[doc[i]]
  <2>1. SUFFICES ASSUME NEW i \in 1..Len(doc)
                 PROVE  heapF'[fs[i]] = heapF[doc[i]]
    OBVIOUS
  <2>2. (CHOOSE j \in DOMAIN fs : fs[j] = fs[i]) = i
    BY <1>5, <1>7
  <2>3. \E j \in DOMAIN fs : fs[j] = fs[i]
    BY <1>5
  <2> QED
    BY <1>2, <1>9, <2>2, <2>3
<1>12. \A f \in FieldId : f \notin Items(fs) => heapF'[f] = heapF[f]
  <2>1. SUFFICES ASSUME NEW f \in FieldId, f \notin Items(fs)
                 PROVE  heapF'[f] = heapF[f]
    OBVIOUS
  <2>2. ~(\E i \in DOMAIN fs : fs[i] = f)
    BY <1>5, <1>10, <2>1
  <2> QED
    BY <1>2, <2>2
<1>13. \A i \in 1..Len(doc) : heapF[doc[i]] \in Fields
  <2>1. \A i \in 1..Len(doc) : doc[i] \in Allocated
    BY <1>1, <1>9
  <2> QED
    BY <1>1, <1>9, <2>1 DEF Allocated
<1>14. heapF' \in [FieldId -> Fields \cup {NoField}]
  <2>1. ASSUME NEW f \in FieldId PROVE heapF'[f] \in Fields \cup {NoField}
    <3>1. CASE f \in Items(fs)
      BY <1>10, <1>11, <1>13, <3>1
    <3>2. CASE f \notin Items(fs)
      BY <1>1, <1>12, <3>2
    <3> QED
      BY <3>1, <3>2
  <2>2. heapF' = [f \in FieldId |-> heapF'[f]]
    BY <1>2
  <2> HIDE <1>2
  <2> QED
    BY <2>1, <2>2
<1>15. Allocated' = Allocated \cup Items(fs)
  <2>1. \A f \in Items(fs) : f \in FieldId /\ heapF'[f] # NoField
    <3>1. SUFFICES ASSUME NEW i \in 1..Len(doc)
                   PROVE  fs[i] \in FieldId /\ heapF'[fs[i]] # NoField
      BY <1>10
    <3>2. heapF[doc[i]] # NoField
      BY <1>1, <1>9 DEF Allocated
    <3> QED
      BY <1>9, <1>11, <3>2
  <2>2. Allocated' = {f \in FieldId : heapF'[f] # NoField}
    BY DEF Allocated, NoField
  <2> QED
    BY <1>12, <2>1, <2>2 DEF Allocated
<1>16. Content(clone)' = copied'
  <2>1. Content(clone)' = [i \in DOMAIN fs |-> heapF'[fs[i]]]
    BY <1>2 DEF Content
  <2>2. Content(doc) = [i \in DOMAIN fs |-> heapF[doc[i]]]
    BY <1>1, <1>5 DEF Content
  <2> QED
    BY <1>3, <1>5, <1>11, <2>1, <2>2
<1>17. \A f \in Items(doc) : heapF'[f] = heapF[f]
  <2>1. Items(doc) \in SUBSET FieldId
    BY <1>1, ItemsTyped
  <2>2. Items(doc) \cap Items(fs) = {}
    BY <1>1, <1>10
  <2> QED
    BY <1>12, <2>1, <2>2
<1>18. /\ Items(doc') \cap Items(clone') = {}
       /\ (Items(doc') \cup Items(clone')) \cap dropped' = {}
       /\ Allocated' = Items(doc') \cup Items(clone') \cup dropped'
  BY <1>1, <1>2, <1>3, <1>4, <1>10, <1>15
<1>19. clone' \in Seq(FieldId) /\ Distinct(clone')
  BY <1>2, <1>6, <1>8
<1> HIDE <1>2
<1> QED
  BY <1>1, <1>3, <1>14, <1>16, <1>17, <1>18, <1>19 DEF FieldsInv, NoField

LEMMA TokensKeep ==
  ASSUME TokensInv, NEW t \in Token, AppendToken(t) \/ RequestFree
  PROVE  TokensInv'
<1>1. /\ tokens \in Seq(Token) /\ Len(tokens) \in Nat /\ slots \in Nat
      /\ strings = Len(tokens) /\ Len(tokens) <= slots /\ protoDocs = replies
  BY DEF TokensInv
<1>2. CASE AppendToken(t)
  <2>1. /\ tokens' = Append(tokens, t) /\ strings' = strings + 1
        /\ slots' = IF Len(tokens) < slots THEN slots
                    ELSE IF slots = 0 THEN 8 ELSE 2 * slots
        /\ UNCHANGED << protoDocs, replies >>
    BY <1>2 DEF AppendToken
  <2>2. tokens' \in Seq(Token) /\ Len(tokens') = Len(tokens) + 1
    BY <1>1, <2>1
  <2>3. \A l, s \in Nat : l <= s =>
          LET r == IF l < s THEN s ELSE IF s = 0 THEN 8 ELSE 2 * s
          IN  r \in Nat /\ l + 1 <= r
    OBVIOUS
  <2>4. slots' \in Nat /\ Len(tokens) + 1 <= slots'
    BY <1>1, <2>1, <2>3
  <2> QED
    BY <1>1, <2>1, <2>2, <2>4 DEF TokensInv
<1>3. CASE RequestFree
  <2>1. /\ tokens # << >> /\ tokens' = << >> /\ slots' = 0
        /\ strings' = IF slots > 0 THEN strings - Len(tokens) ELSE strings
        /\ UNCHANGED << protoDocs, replies >>
    BY <1>3 DEF RequestFree
  <2>2. slots > 0
    <3>1. Len(tokens) # 0
      BY <1>1, <2>1
    <3> QED
      BY <1>1, <3>1
  <2>3. strings' = 0
    BY <1>1, <2>1, <2>2
  <2> QED
    BY <1>1, <2>1, <2>3 DEF TokensInv
<1> QED
  BY <1>2, <1>3

LEMMA DocumentsStart == DocumentsInit => FieldsInv /\ TokensInv
<1> SUFFICES ASSUME DocumentsInit PROVE FieldsInv /\ TokensInv
  OBVIOUS
<1>1. /\ heapF = [f \in FieldId |-> NoField] /\ doc = << >> /\ clone = << >>
      /\ dropped = {} /\ hasClone = FALSE
      /\ tokens = << >> /\ strings = 0 /\ slots = 0
      /\ protoDocs = 0 /\ replies = 0
  BY DEF DocumentsInit
<1>2. Allocated = {}
  BY <1>1 DEF Allocated
<1>3. Items(doc) = {} /\ Items(clone) = {} /\ Distinct(doc) /\ Distinct(clone)
  BY <1>1, NothingIn
<1>4. heapF \in [FieldId -> Fields \cup {NoField}]
  BY <1>1
<1>5. FieldsInv
  BY <1>1, <1>2, <1>3, <1>4 DEF FieldsInv
<1> QED
  BY <1>1, <1>5 DEF TokensInv

LEMMA DocumentsStep ==
  ASSUME NoField \notin Fields, FieldsInv, TokensInv,
         [DocumentsNext]_documentVars
  PROVE  FieldsInv' /\ TokensInv'
<1>1. ASSUME UNCHANGED << heapF, doc, clone, hasClone, copied, dropped >>
      PROVE  FieldsInv'
  <2>1. /\ heapF' = heapF /\ doc' = doc /\ clone' = clone
        /\ hasClone' = hasClone /\ copied' = copied /\ dropped' = dropped
    BY <1>1
  <2>2. Allocated' = Allocated /\ Content(clone)' = Content(clone)
    BY <2>1 DEF Allocated, Content
  <2>3. /\ Items(doc)' = Items(doc) /\ Items(clone)' = Items(clone)
        /\ Distinct(doc)' = Distinct(doc) /\ Distinct(clone)' = Distinct(clone)
    BY <2>1 DEF Items, Distinct
  <2> QED
    BY <2>1, <2>2, <2>3 DEF FieldsInv
<1>2. UNCHANGED << tokens, strings, slots, protoDocs, replies >> => TokensInv'
  BY DEF TokensInv
<1>3. CASE UNCHANGED documentVars
  BY <1>1, <1>2, <1>3 DEF documentVars
<1>4. CASE DocumentNew
  BY <1>1, <1>2, <1>4 DEF DocumentNew
<1>5. ASSUME NEW f \in FieldId, NEW name \in FieldName, NEW value \in FieldValue,
             FieldAdd(f, name, value)
      PROVE  FieldsInv' /\ TokensInv'
  <2>1. UNCHANGED << tokens, strings, slots, protoDocs, replies >>
    BY <1>5 DEF FieldAdd
  <2> QED
    BY <1>2, <1>5, <2>1, FieldAddKeeps
<1>6. ASSUME NEW name \in FieldName, FieldDel(name)
      PROVE  FieldsInv' /\ TokensInv'
  <2>1. UNCHANGED << tokens, strings, slots, protoDocs, replies >>
    BY <1>6 DEF FieldDel
  <2> QED
    BY <1>2, <1>6, <2>1, FieldDelKeeps
<1>7. CASE DocumentFree
  <2>1. UNCHANGED << tokens, strings, slots, protoDocs, replies >>
    BY <1>7 DEF DocumentFree
  <2> QED
    BY <1>2, <1>7, <2>1, DocumentFreeKeeps
<1>8. CASE DocumentClone
  <2>1. UNCHANGED << tokens, strings, slots, protoDocs, replies >>
    BY <1>8 DEF DocumentClone
  <2> QED
    BY <1>2, <1>8, <2>1, DocumentCloneKeeps
<1>9. CASE Reply
  <2>1. /\ UNCHANGED << tokens, strings, slots >>
        /\ protoDocs' = protoDocs + 1 /\ replies' = replies + 1
    BY <1>9 DEF Reply
  <2>2. TokensInv'
    BY <2>1 DEF TokensInv
  <2> QED
    BY <1>9, <2>2, ReplyKeeps
<1>10. ASSUME NEW t \in Token, AppendToken(t)
       PROVE  FieldsInv' /\ TokensInv'
  <2>1. UNCHANGED << heapF, doc, clone, hasClone, copied, dropped >>
    BY <1>10 DEF AppendToken
  <2> QED
    BY <1>1, <1>10, <2>1, TokensKeep
<1>11. CASE RequestFree
  <2>1. UNCHANGED << heapF, doc, clone, hasClone, copied, dropped >>
    BY <1>11 DEF RequestFree
  <2>2. PICK t \in Token : TRUE
    <3>1. tokens # << >> /\ tokens \in Seq(Token)
      BY <1>11 DEF RequestFree, TokensInv
    <3>2. tokens[1] \in Token
      BY <3>1
    <3> QED
      BY <3>2
  <2> QED
    BY <1>1, <1>11, <2>1, <2>2, TokensKeep
<1> QED
  BY <1>3, <1>4, <1>5, <1>6, <1>7, <1>8, <1>9, <1>10, <1>11 DEF DocumentsNext

\* The fields of a document and of its clone are allocated once each and shared by
\* nobody, those taken out of a document are never freed, a clone says what the
\* document said, and the copies of a request's tokens are freed with it, for any
\* fields, values and tokens (document.c, query.c, adapter.c).
THEOREM MemoryAccountedHolds == DocumentsSpec => []MemoryAccounted
<1>1. DocumentsInit => FieldsInv /\ TokensInv
  BY DocumentsStart
<1>2. FieldsInv /\ TokensInv /\ [DocumentsNext]_documentVars
        => FieldsInv' /\ TokensInv'
  BY DocumentsStep, DocumentsAssumption DEF Fields
<1>3. FieldsInv /\ TokensInv => MemoryAccounted
  <2>1. SUFFICES ASSUME FieldsInv, TokensInv PROVE MemoryAccounted
    OBVIOUS
  <2>2. doc \in Seq(FieldId) /\ clone \in Seq(FieldId) /\ DOMAIN doc = 1..Len(doc)
        /\ DOMAIN clone = 1..Len(clone) /\ Len(doc) \in Nat /\ Len(clone) \in Nat
    BY <2>1 DEF FieldsInv
  <2>3. ToSet(doc) = Items(doc) /\ ToSet(clone) = Items(clone)
    BY <2>2 DEF ToSet, Items
  <2> DEFINE both == doc \o clone
             n == Len(doc)
             m == Len(clone)
  <2>4. /\ both \in Seq(FieldId) /\ DOMAIN both = 1..(n + m)
        /\ \A i \in 1..(n + m) :
             both[i] = IF i <= n THEN doc[i] ELSE clone[i - n]
    <3>1. /\ both \in Seq(FieldId) /\ Len(both) = n + m
          /\ \A i \in 1..(n + m) :
               both[i] = IF i <= n THEN doc[i] ELSE clone[i - n]
      BY <2>2, ConcatProperties
    <3> QED
      BY <3>1
  <2> HIDE DEF both
  <2>5. \A i \in 1..(n + m) : /\ i <= n => i \in 1..n
                              /\ ~(i <= n) => i - n \in 1..m
    BY <2>2
  <2>6. ASSUME NEW i \in 1..(n + m)
        PROVE  /\ i <= n => both[i] = doc[i] /\ both[i] \in Items(doc)
               /\ ~(i <= n) => both[i] = clone[i - n] /\ both[i] \in Items(clone)
    BY <2>4, <2>5 DEF Items
  <2>7. IsInjective(both)
    <3>1. SUFFICES ASSUME NEW i \in 1..(n + m), NEW j \in 1..(n + m),
                          both[i] = both[j]
                   PROVE  i = j
      BY <2>4 DEF IsInjective
    <3>2. Items(doc) \cap Items(clone) = {} /\ Distinct(doc) /\ Distinct(clone)
      BY <2>1 DEF FieldsInv
    <3>3. CASE i <= n /\ j <= n
      BY <2>5, <2>6, <3>1, <3>2, <3>3 DEF Distinct
    <3>4. CASE ~(i <= n) /\ ~(j <= n)
      <4>1. i - n = j - n
        BY <2>5, <2>6, <3>1, <3>2, <3>4 DEF Distinct
      <4> QED
        BY <2>2, <4>1
    <3>5. CASE (i <= n) # (j <= n)
      BY <2>6, <3>1, <3>2, <3>5
    <3> QED
      BY <3>3, <3>4, <3>5
  <2>8. ToSet(both) \in SUBSET (Items(doc) \cup Items(clone))
    <3>1. \A i \in 1..(n + m) : both[i] \in Items(doc) \cup Items(clone)
      BY <2>6
    <3> QED
      BY <2>4, <3>1 DEF ToSet
  <2>9. \A i, j \in DOMAIN doc : heapF[doc[i]].name = heapF[doc[j]].name => i = j
    <3>1. SUFFICES ASSUME NEW i \in 1..Len(doc), NEW j \in 1..Len(doc),
                          heapF[doc[i]].name = heapF[doc[j]].name
                   PROVE  i = j
      BY <2>2
    <3>2. doc[i] \in Items(doc) /\ doc[j] \in Items(doc)
      BY DEF Items
    <3> QED
      BY <2>1, <3>1, <3>2 DEF FieldsInv, Distinct
  <2>10. /\ Allocated = ToSet(doc) \cup ToSet(clone) \cup dropped
         /\ ToSet(both) \cap dropped = {}
         /\ hasClone => Content(clone) = copied
    BY <2>1, <2>3, <2>8 DEF FieldsInv
  <2>11. protoDocs = replies /\ strings = Len(tokens) /\ Len(tokens) <= slots
    BY <2>1 DEF TokensInv
  <2> QED
    BY <2>7, <2>9, <2>10, <2>11 DEF MemoryAccounted, both
<1> QED
  BY <1>1, <1>2, <1>3, PTL DEF DocumentsSpec

-----------------------------------------------------------------------------
(* The array of strings (utarray.h).                                       *)

\* The memory of an array is n slots, of which the first u are used.
Memory(sl, n) == n \in Nat /\ sl = [k \in 0..n - 1 |-> sl[k]]

\* Each slot in use holds null or a string that is allocated, and what it says
\* is what the sequence has there.
Reads(sl, u, tx, r) ==
  \A k \in 0..u - 1 :
    IF sl[k] = NULLS THEN r[k + 1] = NoText
    ELSE sl[k] \in DOMAIN tx /\ r[k + 1] = tx[sl[k]]

\* Every string allocated is in a slot, and no string is in two.
Kept(sl, u, tx) == \A s \in DOMAIN tx : \E k \in 0..u - 1 : sl[k] = s
Apart(sl, u) == \A j, k \in 0..u - 1 : j # k /\ sl[j] = sl[k] => sl[j] = NULLS

Says == Text \cup {NoText}
IsText(tx) == DOMAIN tx \subseteq StringId /\ tx = [s \in DOMAIN tx |-> tx[s]]
IsRef(r, u) == u \in Nat /\ r \in Seq(Says) /\ Len(r) = u

HoldsTexts(sl, u, tx, r) ==
  /\ \E n \in Nat : Memory(sl, n) /\ u <= n
  /\ IsText(tx) /\ IsRef(r, u)
  /\ Reads(sl, u, tx, r) /\ Kept(sl, u, tx) /\ Apart(sl, u)

ArrayInv == ~broken /\ HoldsTexts(slot, used, text, ref)

\* No string has the address null.
LEMMA NoNullString ==
  ASSUME NEW tx, IsText(tx)
  PROVE  NULLS \notin DOMAIN tx
BY ArrayAssumption DEF IsText, NULLS

LEMMA SlotsCounted ==
  ASSUME NEW sl, NEW n \in Nat, Memory(sl, n)
  PROVE  DOMAIN sl = 0..n - 1 /\ Cardinality(DOMAIN sl) = n
<1>1. DOMAIN sl = 0..n - 1
  BY DEF Memory
<1>2. 0 \in Int /\ n - 1 \in Int
  OBVIOUS
<1>3. \A a, b \in Int : Cardinality(a..b) = IF a > b THEN 0 ELSE b - a + 1
  BY FS_Interval
<1>4. Cardinality(0..n - 1) = IF 0 > n - 1 THEN 0 ELSE (n - 1) - 0 + 1
  BY <1>2, <1>3
<1>5. Cardinality(0..n - 1) = n
  BY <1>4
<1> QED
  BY <1>1, <1>5

\* Doubling stops at no less than there was, and no less than is needed.
LEMMA DoubledFits ==
  ASSUME NEW n \in Nat, NEW need \in Nat
  PROVE  Doubled(n, need) \in Nat /\ Doubled(n, need) >= n
         /\ Doubled(n, need) >= need
<1> DEFINE next(c) == IF c >= need THEN c ELSE IF c = 0 THEN FIRST_SLOTS ELSE 2 * c
           G == [d \in 0..need |-> [c \in Nat |-> next(c)]]
           Rule(f) == f = [d \in 0..need |->
                             IF d = 0 THEN n
                             ELSE IF f[d - 1] >= need THEN f[d - 1]
                             ELSE IF f[d - 1] = 0 THEN FIRST_SLOTS ELSE 2 * f[d - 1]]
           size == CHOOSE f : Rule(f)
<1>1. FIRST_SLOTS \in Nat /\ FIRST_SLOTS >= 1
  BY ArrayAssumption
<1>2. \A c \in Nat : /\ next(c) \in Nat /\ next(c) >= c
                     /\ next(c) >= need \/ next(c) >= c + 1
  <2> SUFFICES ASSUME NEW c \in Nat
               PROVE  /\ next(c) \in Nat /\ next(c) >= c
                      /\ next(c) >= need \/ next(c) >= c + 1
    OBVIOUS
  <2>1. 2 * c \in Nat /\ (c # 0 => 2 * c >= c + 1)
    OBVIOUS
  <2> QED
    BY <1>1, <2>1
<1>3. G \in [0..need -> [Nat -> Nat]]
  <2> HIDE DEF next
  <2> QED
    BY <1>2
<1>4. PICK f \in [0..need -> Nat] : IsIterate(need, n, G, f)
  <2> HIDE DEF G
  <2> QED
    BY <1>3, Iterates
<1>5. ASSUME NEW d \in 0..need
      PROVE  f[d] = IF d = 0 THEN n ELSE next(f[d - 1])
  <2>1. f[d] = IF d = 0 THEN n ELSE G[d][f[d - 1]]
    <3> HIDE DEF G
    <3> QED
      BY <1>4 DEF IsIterate
  <2>2. d # 0 => d - 1 \in 0..need
    OBVIOUS
  <2>3. d # 0 => f[d - 1] \in Nat
    BY <2>2
  <2> HIDE DEF next
  <2> QED
    BY <2>1, <2>3
<1>6. Rule(f)
  <2>1. f = [d \in 0..need |-> f[d]]
    OBVIOUS
  <2> QED
    BY <1>5, <2>1
<1>7. Rule(size)
  <2> HIDE DEF Rule
  <2> QED
    BY <1>6
<1>8. Doubled(n, need) = size[need]
  BY DEF Doubled
<1> HIDE DEF size
<1>9. ASSUME NEW d \in 0..need
      PROVE  size[d] = IF d = 0 THEN n ELSE next(size[d - 1])
  BY <1>7
<1> DEFINE Good(d) == /\ size[d] \in Nat /\ size[d] >= n
                      /\ size[d] >= need \/ size[d] >= d
           P == {d \in Nat : d <= need => Good(d)}
<1> HIDE DEF next
<1>10. 0 \in P
  <2>1. size[0] = n
    BY <1>9
  <2> QED
    BY <2>1
<1>11. ASSUME NEW d \in Nat, d \in P PROVE d + 1 \in P
  <2>1. ASSUME d + 1 <= need PROVE Good(d + 1)
    <3>1. d <= need /\ d + 1 \in 0..need /\ d + 1 # 0 /\ (d + 1) - 1 = d
      BY <2>1
    <3>2. Good(d)
      BY <1>11, <3>1
    <3>3. size[d + 1] = next(size[d])
      BY <1>9, <3>1
    <3>4. /\ size[d + 1] \in Nat /\ size[d + 1] >= size[d]
          /\ size[d + 1] >= need \/ size[d + 1] >= size[d] + 1
      BY <1>2, <3>2, <3>3
    <3>5. \A a, b \in Nat : /\ b >= a /\ a >= n => b >= n
                            /\ b >= a /\ a >= need => b >= need
                            /\ b >= a + 1 /\ a >= d => b >= d + 1
      OBVIOUS
    <3> QED
      BY <3>2, <3>4, <3>5
  <2> QED
    BY <2>1
<1>12. need \in P
  <2> HIDE DEF P
  <2>1. P \in SUBSET Nat
    BY DEF P
  <2> QED
    BY <1>10, <1>11, <2>1, Induction
<1>13. Good(need)
  BY <1>12
<1> QED
  BY <1>8, <1>13

LEMMA RoomMade ==
  ASSUME NEW sl, NEW n \in Nat, Memory(sl, n), NEW need \in Nat
  PROVE  \E m \in Nat : /\ m >= n /\ m >= need
                        /\ Memory(WithRoom(sl, need), m)
                        /\ \A k \in 0..n - 1 : WithRoom(sl, need)[k] = sl[k]
<1> DEFINE m == Doubled(n, need)
<1>1. DOMAIN sl = 0..n - 1 /\ Cardinality(DOMAIN sl) = n
  BY SlotsCounted
<1>2. m \in Nat /\ m >= n /\ m >= need
  BY DoubledFits
<1>3. WithRoom(sl, need) = [k \in 0..m - 1 |-> IF k \in DOMAIN sl THEN sl[k] ELSE GARBAGE]
  BY <1>1 DEF WithRoom
<1> HIDE DEF m
<1>4. \A k \in 0..n - 1 : k \in 0..m - 1
  BY <1>2
<1>5. Memory(WithRoom(sl, need), m)
  BY <1>2, <1>3 DEF Memory
<1> QED
  BY <1>1, <1>2, <1>3, <1>4, <1>5

\* Where the slots of an array, or what a sequence holds from o on, were before
\* the n elements g came in at j.
Filled(old, u, j, n, g, new, o) ==
  /\ \A k \in 0..j - 1 : new[k + o] = old[k + o]
  /\ \A i \in 1..n : new[j + i - 1 + o] = g[i]
  /\ \A k \in j..u - 1 : new[k + n + o] = old[k + o]

\* The elements that come in are null, or strings of their own.
ComesIn(tx, n, g, gr, tx2) ==
  /\ DOMAIN tx2 = DOMAIN tx \cup ({g[i] : i \in 1..n} \ {NULLS})
  /\ \A s \in DOMAIN tx : tx2[s] = tx[s]
  /\ \A i \in 1..n : g[i] \notin DOMAIN tx
  /\ \A i, k \in 1..n : i # k /\ g[i] = g[k] => g[i] = NULLS
  /\ \A i \in 1..n : gr[i] = IF g[i] = NULLS THEN NoText ELSE tx2[g[i]]

LEMMA FilledFrom ==
  ASSUME NEW u \in Nat, NEW n \in Nat, NEW j \in 0..u, NEW k \in 0..(u + n) - 1
  PROVE  \/ k < j /\ k \in 0..j - 1 /\ k \in 0..u - 1
         \/ /\ k - j + 1 \in 1..n /\ k = j + (k - j + 1) - 1
         \/ k - n >= j /\ k - n \in j..u - 1 /\ k - n \in 0..u - 1 /\ k = (k - n) + n
OBVIOUS

LEMMA HoldsWhenFilled ==
  ASSUME NEW sl, NEW u, NEW tx, NEW r, HoldsTexts(sl, u, tx, r),
         NEW j \in 0..u, NEW n \in Nat, NEW g, NEW gr,
         NEW sl2, NEW tx2, NEW r2,
         \E m \in Nat : Memory(sl2, m) /\ u + n <= m,
         IsText(tx2), IsRef(r2, u + n), ComesIn(tx, n, g, gr, tx2),
         Filled(sl, u, j, n, g, sl2, 0), Filled(r, u, j, n, gr, r2, 1)
  PROVE  HoldsTexts(sl2, u + n, tx2, r2)
<1>1. u \in Nat /\ u + n \in Nat
  BY DEF HoldsTexts, IsRef
<1>2. ASSUME NEW k \in 0..(u + n) - 1
      PROVE  \/ k < j /\ k \in 0..u - 1 /\ sl2[k] = sl[k] /\ r2[k + 1] = r[k + 1]
             \/ \E i \in 1..n : k = j + i - 1 /\ sl2[k] = g[i] /\ r2[k + 1] = gr[i]
             \/ k - n >= j /\ k - n \in 0..u - 1 /\ sl2[k] = sl[k - n]
                /\ r2[k + 1] = r[(k - n) + 1]
  <2>1. CASE k < j /\ k \in 0..j - 1 /\ k \in 0..u - 1
    <3>1. sl2[k + 0] = sl[k + 0] /\ r2[k + 1] = r[k + 1]
      BY <2>1 DEF Filled
    <3>2. k + 0 = k
      OBVIOUS
    <3> QED
      BY <2>1, <3>1, <3>2
  <2>2. CASE k - j + 1 \in 1..n /\ k = j + (k - j + 1) - 1
    <3>1. PICK i \in 1..n : i = k - j + 1 /\ k = j + i - 1
      BY <2>2
    <3>2. sl2[j + i - 1 + 0] = g[i] /\ r2[j + i - 1 + 1] = gr[i]
      BY DEF Filled
    <3>3. j + i - 1 + 0 = k /\ j + i - 1 + 1 = k + 1
      BY <3>1
    <3> QED
      BY <3>1, <3>2, <3>3
  <2>3. CASE k - n >= j /\ k - n \in j..u - 1 /\ k - n \in 0..u - 1 /\ k = (k - n) + n
    <3>1. PICK p \in j..u - 1 : p = k - n /\ k = p + n
      BY <2>3
    <3>2. sl2[p + n + 0] = sl[p + 0] /\ r2[p + n + 1] = r[p + 1]
      BY DEF Filled
    <3>3. p + n + 0 = k /\ p + 0 = p /\ p + n + 1 = k + 1
      BY <3>1
    <3> QED
      BY <2>3, <3>1, <3>2, <3>3
  <2> QED
    BY <1>1, <2>1, <2>2, <2>3, FilledFrom
<1>3. NULLS \notin DOMAIN tx /\ NULLS \notin DOMAIN tx2
  BY NoNullString DEF HoldsTexts
<1>4. Reads(sl2, u + n, tx2, r2)
  <2> SUFFICES ASSUME NEW k \in 0..(u + n) - 1
               PROVE  IF sl2[k] = NULLS THEN r2[k + 1] = NoText
                      ELSE sl2[k] \in DOMAIN tx2 /\ r2[k + 1] = tx2[sl2[k]]
    BY DEF Reads
  <2>1. ASSUME NEW p \in 0..u - 1
        PROVE  IF sl[p] = NULLS THEN r[p + 1] = NoText
               ELSE sl[p] \in DOMAIN tx2 /\ r[p + 1] = tx2[sl[p]]
    <3>1. IF sl[p] = NULLS THEN r[p + 1] = NoText
          ELSE sl[p] \in DOMAIN tx /\ r[p + 1] = tx[sl[p]]
      BY DEF HoldsTexts, Reads
    <3> QED
      BY <3>1 DEF ComesIn
  <2>2. ASSUME NEW i \in 1..n
        PROVE  IF g[i] = NULLS THEN gr[i] = NoText
               ELSE g[i] \in DOMAIN tx2 /\ gr[i] = tx2[g[i]]
    BY DEF ComesIn
  <2> QED
    BY <1>2, <2>1, <2>2
<1>5. Kept(sl2, u + n, tx2)
  <2> SUFFICES ASSUME NEW s \in DOMAIN tx2
               PROVE  \E k \in 0..(u + n) - 1 : sl2[k] = s
    BY DEF Kept
  <2>1. CASE s \in DOMAIN tx
    <3>1. PICK p \in 0..u - 1 : sl[p] = s
      BY <2>1 DEF HoldsTexts, Kept
    <3>2. CASE p < j
      <4>1. p \in 0..j - 1 /\ p + 0 = p /\ p \in 0..(u + n) - 1
        BY <1>1, <3>2
      <4>2. sl2[p + 0] = sl[p + 0]
        BY <4>1 DEF Filled
      <4> QED
        BY <3>1, <4>1, <4>2
    <3>3. CASE p >= j
      <4>1. p \in j..u - 1 /\ p + 0 = p /\ p + n \in 0..(u + n) - 1 /\ p + n + 0 = p + n
        BY <1>1, <3>3
      <4>2. sl2[p + n + 0] = sl[p + 0]
        BY <4>1 DEF Filled
      <4> QED
        BY <3>1, <4>1, <4>2
    <3> QED
      BY <1>1, <3>2, <3>3
  <2>2. CASE s \notin DOMAIN tx
    <3>1. PICK i \in 1..n : g[i] = s
      BY <2>2 DEF ComesIn
    <3>2. j + i - 1 \in 0..(u + n) - 1 /\ j + i - 1 + 0 = j + i - 1
      BY <1>1
    <3>3. sl2[j + i - 1 + 0] = g[i]
      BY DEF Filled
    <3> QED
      BY <3>1, <3>2, <3>3
  <2> QED
    BY <2>1, <2>2
<1>6. Apart(sl2, u + n)
  <2> SUFFICES ASSUME NEW a \in 0..(u + n) - 1, NEW b \in 0..(u + n) - 1,
                      a # b, sl2[a] = sl2[b], sl2[a] # NULLS
               PROVE  FALSE
    BY DEF Apart
  <2> DEFINE Stayed(k, p) == /\ p \in 0..u - 1 /\ sl2[k] = sl[p]
                          /\ ((p < j /\ k = p) \/ (p >= j /\ k = p + n))
             CameIn(k, i) == i \in 1..n /\ k = j + i - 1 /\ sl2[k] = g[i]
  <2>1. ASSUME NEW k \in 0..(u + n) - 1
        PROVE  (\E p \in 0..u - 1 : Stayed(k, p)) \/ (\E i \in 1..n : CameIn(k, i))
    <3>1. k - n >= j => k = (k - n) + n
      OBVIOUS
    <3> QED
      BY <1>2, <3>1
  <2>2. ASSUME NEW p \in 0..u - 1, NEW i \in 1..n, sl[p] = g[i], g[i] # NULLS
        PROVE  FALSE
    <3>1. sl[p] \in DOMAIN tx
      BY <2>2 DEF HoldsTexts, Reads
    <3> QED
      BY <2>2, <3>1 DEF ComesIn
  <2>3. ASSUME NEW p \in 0..u - 1, NEW q \in 0..u - 1, Stayed(a, p), Stayed(b, q)
        PROVE  FALSE
    <3>1. sl[p] = sl[q] /\ sl[p] # NULLS
      BY <2>3
    <3>2. p = q
      BY <3>1 DEF HoldsTexts, Apart
    <3>3. a = b
      BY <2>3, <3>2
    <3> QED
      BY <3>3
  <2>4. ASSUME NEW i \in 1..n, NEW k \in 1..n, CameIn(a, i), CameIn(b, k)
        PROVE  FALSE
    <3>1. g[i] = g[k] /\ g[i] # NULLS
      BY <2>4
    <3>2. i = k
      BY <3>1 DEF ComesIn
    <3> QED
      BY <2>4, <3>2
  <2>5. ASSUME NEW p \in 0..u - 1, NEW i \in 1..n,
               (Stayed(a, p) /\ CameIn(b, i)) \/ (Stayed(b, p) /\ CameIn(a, i))
        PROVE  FALSE
    <3>1. sl[p] = g[i] /\ g[i] # NULLS
      BY <2>5
    <3> QED
      BY <2>2, <3>1
  <2> HIDE DEF Stayed, CameIn
  <2> QED
    BY <2>1, <2>3, <2>4, <2>5
<1> QED
  BY <1>4, <1>5, <1>6 DEF HoldsTexts

\* Where they were before the n elements from p on were taken out.
Emptied(old, u, p, n, new, o) ==
  /\ \A k \in 0..p - 1 : new[k + o] = old[k + o]
  /\ \A k \in p..(u - n) - 1 : new[k + o] = old[k + n + o]

\* The strings of the slots from p on, n of them, are freed.
LetGo(sl, tx, p, n, tx2) ==
  /\ DOMAIN tx2 = DOMAIN tx \ ({sl[k] : k \in p..(p + n) - 1} \ {NULLS})
  /\ \A s \in DOMAIN tx2 : tx2[s] = tx[s]

LEMMA HoldsWhenEmptied ==
  ASSUME NEW sl, NEW u, NEW tx, NEW r, HoldsTexts(sl, u, tx, r),
         NEW p \in Nat, NEW n \in Nat, p + n <= u,
         NEW sl2, NEW tx2, NEW r2,
         \E m \in Nat : Memory(sl2, m) /\ u - n <= m,
         IsText(tx2), IsRef(r2, u - n), LetGo(sl, tx, p, n, tx2),
         Emptied(sl, u, p, n, sl2, 0), Emptied(r, u, p, n, r2, 1)
  PROVE  HoldsTexts(sl2, u - n, tx2, r2)
<1>1. u \in Nat /\ u - n \in Nat
  BY DEF HoldsTexts, IsRef
<1> DEFINE Stayed(k, q) == /\ q \in 0..u - 1 /\ q \notin p..(p + n) - 1
                           /\ sl2[k] = sl[q] /\ r2[k + 1] = r[q + 1]
                           /\ ((q < p /\ k = q) \/ (q >= p + n /\ k = q - n))
<1>2. ASSUME NEW k \in 0..(u - n) - 1
      PROVE  \E q \in 0..u - 1 : Stayed(k, q)
  <2>1. CASE k < p
    <3>1. k \in 0..p - 1 /\ k + 0 = k /\ k \in 0..u - 1 /\ k \notin p..(p + n) - 1
      BY <1>1, <2>1
    <3>2. sl2[k + 0] = sl[k + 0] /\ r2[k + 1] = r[k + 1]
      BY <3>1 DEF Emptied
    <3>3. Stayed(k, k)
      BY <2>1, <3>1, <3>2
    <3> QED
      BY <3>1, <3>3
  <2>2. CASE k >= p
    <3>1. k \in p..(u - n) - 1 /\ k + 0 = k
      BY <1>1, <2>2
    <3>2. PICK q \in 0..u - 1 : /\ q = k + n /\ k = q - n /\ q >= p + n
                                /\ q \notin p..(p + n) - 1
      BY <1>1, <2>2
    <3>3. sl2[k + 0] = sl[k + n + 0] /\ r2[k + 1] = r[k + n + 1]
      BY <3>1 DEF Emptied
    <3>4. k + n + 0 = q /\ k + n + 1 = q + 1
      BY <3>2
    <3>5. Stayed(k, q)
      BY <3>1, <3>2, <3>3, <3>4
    <3> QED
      BY <3>5
  <2> QED
    BY <1>1, <2>1, <2>2
<1>3. ASSUME NEW q \in 0..u - 1, q \notin p..(p + n) - 1
      PROVE  \E k \in 0..(u - n) - 1 : sl2[k] = sl[q]
  <2>1. CASE q < p
    <3>1. q \in 0..p - 1 /\ q + 0 = q /\ q \in 0..(u - n) - 1
      BY <1>1, <2>1
    <3>2. sl2[q + 0] = sl[q + 0]
      BY <3>1 DEF Emptied
    <3> QED
      BY <3>1, <3>2
  <2>2. CASE q >= p + n
    <3>1. PICK k \in p..(u - n) - 1 : k = q - n /\ k + n + 0 = q /\ k + 0 = k
      BY <1>1, <2>2
    <3>2. sl2[k + 0] = sl[k + n + 0] /\ k \in 0..(u - n) - 1
      BY DEF Emptied
    <3> QED
      BY <3>1, <3>2
  <2>3. q < p \/ q >= p + n
    BY <1>1, <1>3
  <2> QED
    BY <2>1, <2>2, <2>3
<1>4. \A j, k \in 0..u - 1 : j # k /\ sl[j] = sl[k] => sl[j] = NULLS
  BY DEF HoldsTexts, Apart
<1>5. ASSUME NEW q \in 0..u - 1, q \notin p..(p + n) - 1, sl[q] # NULLS
      PROVE  sl[q] \in DOMAIN tx2
  <2>1. sl[q] \in DOMAIN tx
    BY <1>5 DEF HoldsTexts, Reads
  <2>2. ASSUME NEW k \in p..(p + n) - 1 PROVE sl[k] # sl[q]
    <3>1. k \in 0..u - 1 /\ k # q
      BY <1>1, <1>5
    <3> QED
      BY <1>4, <1>5, <3>1
  <2> QED
    BY <2>1, <2>2 DEF LetGo
<1>6. Reads(sl2, u - n, tx2, r2)
  <2> SUFFICES ASSUME NEW k \in 0..(u - n) - 1
               PROVE  IF sl2[k] = NULLS THEN r2[k + 1] = NoText
                      ELSE sl2[k] \in DOMAIN tx2 /\ r2[k + 1] = tx2[sl2[k]]
    BY DEF Reads
  <2>1. PICK q \in 0..u - 1 : Stayed(k, q)
    BY <1>2
  <2>2. IF sl[q] = NULLS THEN r[q + 1] = NoText
        ELSE sl[q] \in DOMAIN tx /\ r[q + 1] = tx[sl[q]]
    BY DEF HoldsTexts, Reads
  <2>3. sl2[k] = sl[q] /\ r2[k + 1] = r[q + 1] /\ q \notin p..(p + n) - 1
    BY <2>1
  <2>4. sl[q] # NULLS => sl[q] \in DOMAIN tx2 /\ tx2[sl[q]] = tx[sl[q]]
    BY <1>5, <2>3 DEF LetGo
  <2> QED
    BY <2>2, <2>3, <2>4
<1>7. Kept(sl2, u - n, tx2)
  <2> SUFFICES ASSUME NEW s \in DOMAIN tx2
               PROVE  \E k \in 0..(u - n) - 1 : sl2[k] = s
    BY DEF Kept
  <2>1. s \in DOMAIN tx /\ s \notin {sl[k] : k \in p..(p + n) - 1} \ {NULLS}
    BY DEF LetGo
  <2>2. NULLS \notin DOMAIN tx
    BY NoNullString DEF HoldsTexts
  <2>3. PICK q \in 0..u - 1 : sl[q] = s
    BY <2>1 DEF HoldsTexts, Kept
  <2>4. q \notin p..(p + n) - 1
    BY <2>1, <2>2, <2>3
  <2> QED
    BY <1>3, <2>3, <2>4
<1>8. Apart(sl2, u - n)
  <2> SUFFICES ASSUME NEW a \in 0..(u - n) - 1, NEW b \in 0..(u - n) - 1,
                      a # b, sl2[a] = sl2[b], sl2[a] # NULLS
               PROVE  FALSE
    BY DEF Apart
  <2>1. PICK q \in 0..u - 1 : Stayed(a, q)
    BY <1>2
  <2>2. PICK w \in 0..u - 1 : Stayed(b, w)
    BY <1>2
  <2>3. q # w
    BY <2>1, <2>2
  <2>4. sl[q] = sl[w] /\ sl[q] # NULLS
    BY <2>1, <2>2
  <2> QED
    BY <1>4, <2>3, <2>4
<1> QED
  BY <1>6, <1>7, <1>8 DEF HoldsTexts

-----------------------------------------------------------------------------
(* What the sequence becomes.                                              *)

LEMMA FilledSequence ==
  ASSUME NEW r, NEW u, IsRef(r, u), NEW j \in 0..u, NEW w \in Seq(Says)
  PROVE  LET r2 == SubSeq(r, 1, j) \o w \o SubSeq(r, j + 1, u)
         IN  IsRef(r2, u + Len(w)) /\ Filled(r, u, j, Len(w), w, r2, 1)
<1> DEFINE a == SubSeq(r, 1, j)
           b == SubSeq(r, j + 1, u)
           n == Len(w)
<1>1. u \in Nat /\ r \in Seq(Says) /\ Len(r) = u /\ n \in Nat
  BY DEF IsRef
<1>2. \A i \in 1..u : r[i] \in Says
  BY <1>1
<1>3. /\ a \in Seq(Says) /\ Len(a) = j /\ \A i \in 1..j : a[i] = r[i]
  <2>1. 1 \in Int /\ j \in Int /\ \A i \in 1..j : r[i] \in Says
    BY <1>1, <1>2
  <2>2. /\ a \in Seq(Says) /\ Len(a) = IF 1 <= j THEN j - 1 + 1 ELSE 0
        /\ \A i \in 1..(j - 1 + 1) : a[i] = r[1 + i - 1]
    BY <2>1, SubSeqProperties
  <2>3. (IF 1 <= j THEN j - 1 + 1 ELSE 0) = j /\ j - 1 + 1 = j
        /\ \A i \in 1..j : 1 + i - 1 = i
    BY <1>1
  <2> QED
    BY <2>2, <2>3
<1>4. /\ b \in Seq(Says) /\ Len(b) = u - j
      /\ \A i \in 1..u - j : b[i] = r[j + i]
  <2>1. j + 1 \in Int /\ u \in Int /\ \A i \in (j + 1)..u : r[i] \in Says
    BY <1>1, <1>2
  <2>2. /\ b \in Seq(Says) /\ Len(b) = IF j + 1 <= u THEN u - (j + 1) + 1 ELSE 0
        /\ \A i \in 1..(u - (j + 1) + 1) : b[i] = r[(j + 1) + i - 1]
    BY <2>1, SubSeqProperties
  <2>3. (IF j + 1 <= u THEN u - (j + 1) + 1 ELSE 0) = u - j /\ u - (j + 1) + 1 = u - j
        /\ \A i \in 1..u - j : (j + 1) + i - 1 = j + i
    BY <1>1
  <2> QED
    BY <2>2, <2>3
<1> HIDE DEF a, b, n
<1>5. /\ a \o w \in Seq(Says) /\ Len(a \o w) = j + n
      /\ \A i \in 1..j + n : (a \o w)[i] = IF i <= j THEN a[i] ELSE w[i - j]
  BY <1>3, ConcatProperties DEF n
<1> DEFINE c == a \o w
           r2 == c \o b
<1> HIDE DEF c
<1>6. c \in Seq(Says) /\ Len(c) = j + n
      /\ \A i \in 1..j + n : c[i] = IF i <= j THEN a[i] ELSE w[i - j]
  BY <1>5 DEF c
<1>7. /\ r2 \in Seq(Says) /\ Len(r2) = (j + n) + (u - j)
      /\ \A i \in 1..(j + n) + (u - j) :
           r2[i] = IF i <= j + n THEN c[i] ELSE b[i - (j + n)]
  <2>1. /\ c \o b \in Seq(Says) /\ Len(c \o b) = Len(c) + Len(b)
        /\ \A i \in 1..Len(c) + Len(b) :
             (c \o b)[i] = IF i <= Len(c) THEN c[i] ELSE b[i - Len(c)]
    BY <1>4, <1>6, ConcatProperties
  <2>2. Len(c) = j + n /\ Len(b) = u - j
    BY <1>4, <1>6
  <2> QED
    BY <2>1, <2>2
<1> HIDE DEF r2
<1>8. (j + n) + (u - j) = u + n /\ u + n \in Nat
  BY <1>1
<1>9. IsRef(r2, u + n)
  BY <1>7, <1>8 DEF IsRef
<1>10. ASSUME NEW k \in 0..j - 1 PROVE r2[k + 1] = r[k + 1]
  <2>1. k + 1 \in 1..j /\ k + 1 \in 1..j + n /\ k + 1 \in 1..(j + n) + (u - j)
        /\ k + 1 <= j /\ k + 1 <= j + n
    BY <1>1
  <2> QED
    BY <1>3, <1>6, <1>7, <2>1
<1>11. ASSUME NEW i \in 1..n PROVE r2[j + i - 1 + 1] = w[i]
  <2>1. j + i \in 1..j + n /\ j + i \in 1..(j + n) + (u - j) /\ ~(j + i <= j)
        /\ j + i <= j + n /\ (j + i) - j = i /\ j + i - 1 + 1 = j + i
    BY <1>1
  <2> QED
    BY <1>6, <1>7, <2>1
<1>12. ASSUME NEW k \in j..u - 1 PROVE r2[k + n + 1] = r[k + 1]
  <2>1. PICK i \in 1..u - j : i = k + 1 - j /\ j + i = k + 1
    BY <1>1
  <2>2. k + n + 1 \in 1..(j + n) + (u - j) /\ ~(k + n + 1 <= j + n)
        /\ (k + n + 1) - (j + n) = i
    BY <1>1, <2>1
  <2>3. r2[k + n + 1] = b[i]
    BY <1>7, <2>2
  <2> QED
    BY <1>4, <2>1, <2>3
<1>13. Filled(r, u, j, n, w, r2, 1)
  BY <1>10, <1>11, <1>12 DEF Filled
<1> QED
  BY <1>9, <1>13 DEF r2, c, a, b, n

LEMMA JoinedSequence ==
  ASSUME NEW r, NEW u, IsRef(r, u), NEW w \in Seq(Says)
  PROVE  IsRef(r \o w, u + Len(w)) /\ Filled(r, u, u, Len(w), w, r \o w, 1)
<1>1. u \in Nat /\ r \in Seq(Says) /\ Len(r) = u /\ u \in 0..u
  BY DEF IsRef
<1>2. SubSeq(r, 1, u) = r
  BY <1>1, SubSeqFull
<1>3. SubSeq(r, u + 1, u) = << >>
  BY <1>1, SubSeqEmpty
<1>4. r \o w \in Seq(Says)
  BY <1>1, ConcatProperties
<1>5. r \o w = SubSeq(r, 1, u) \o w \o SubSeq(r, u + 1, u)
  BY <1>2, <1>3, <1>4, ConcatEmptySeq
<1> QED
  BY <1>1, <1>5, FilledSequence

LEMMA EmptiedSequence ==
  ASSUME NEW r, NEW u, IsRef(r, u), NEW p \in Nat, NEW n \in Nat, p + n <= u
  PROVE  LET r2 == SubSeq(r, 1, p) \o SubSeq(r, p + n + 1, u)
         IN  IsRef(r2, u - n) /\ Emptied(r, u, p, n, r2, 1)
<1> DEFINE a == SubSeq(r, 1, p)
           b == SubSeq(r, p + n + 1, u)
           d == u - (p + n)
<1>1. u \in Nat /\ r \in Seq(Says) /\ Len(r) = u /\ d \in Nat
  BY DEF IsRef
<1>2. \A i \in 1..u : r[i] \in Says
  BY <1>1
<1>3. /\ a \in Seq(Says) /\ Len(a) = p /\ \A i \in 1..p : a[i] = r[i]
  <2>1. 1 \in Int /\ p \in Int /\ \A i \in 1..p : r[i] \in Says
    BY <1>1, <1>2
  <2>2. /\ a \in Seq(Says) /\ Len(a) = IF 1 <= p THEN p - 1 + 1 ELSE 0
        /\ \A i \in 1..(p - 1 + 1) : a[i] = r[1 + i - 1]
    BY <2>1, SubSeqProperties
  <2>3. (IF 1 <= p THEN p - 1 + 1 ELSE 0) = p /\ p - 1 + 1 = p
        /\ \A i \in 1..p : 1 + i - 1 = i
    BY <1>1
  <2> QED
    BY <2>2, <2>3
<1>4. /\ b \in Seq(Says) /\ Len(b) = d
      /\ \A i \in 1..d : b[i] = r[(p + n) + i]
  <2>1. p + n + 1 \in Int /\ u \in Int /\ \A i \in (p + n + 1)..u : r[i] \in Says
    BY <1>1, <1>2
  <2>2. /\ b \in Seq(Says) /\ Len(b) = IF p + n + 1 <= u THEN u - (p + n + 1) + 1 ELSE 0
        /\ \A i \in 1..(u - (p + n + 1) + 1) : b[i] = r[(p + n + 1) + i - 1]
    BY <2>1, SubSeqProperties
  <2>3. (IF p + n + 1 <= u THEN u - (p + n + 1) + 1 ELSE 0) = d
        /\ u - (p + n + 1) + 1 = d
        /\ \A i \in 1..d : (p + n + 1) + i - 1 = (p + n) + i
    BY <1>1
  <2> QED
    BY <2>2, <2>3
<1> HIDE DEF a, b
<1> DEFINE r2 == a \o b
<1>5. /\ r2 \in Seq(Says) /\ Len(r2) = p + d
      /\ \A i \in 1..p + d : r2[i] = IF i <= p THEN a[i] ELSE b[i - p]
  <2>1. /\ a \o b \in Seq(Says) /\ Len(a \o b) = Len(a) + Len(b)
        /\ \A i \in 1..Len(a) + Len(b) :
             (a \o b)[i] = IF i <= Len(a) THEN a[i] ELSE b[i - Len(a)]
    BY <1>3, <1>4, ConcatProperties
  <2>2. Len(a) = p /\ Len(b) = d
    BY <1>3, <1>4
  <2> QED
    BY <2>1, <2>2
<1> HIDE DEF r2
<1>6. p + d = u - n /\ u - n \in Nat
  BY <1>1
<1>7. IsRef(r2, u - n)
  BY <1>5, <1>6 DEF IsRef
<1>8. ASSUME NEW k \in 0..p - 1 PROVE r2[k + 1] = r[k + 1]
  <2>1. k + 1 \in 1..p /\ k + 1 \in 1..p + d /\ k + 1 <= p
    BY <1>1
  <2> QED
    BY <1>3, <1>5, <2>1
<1>9. ASSUME NEW k \in p..(u - n) - 1 PROVE r2[k + 1] = r[k + n + 1]
  <2>1. PICK i \in 1..d : i = k + 1 - p /\ (p + n) + i = k + n + 1
    BY <1>1
  <2>2. k + 1 \in 1..p + d /\ ~(k + 1 <= p) /\ (k + 1) - p = i
    BY <1>1, <2>1
  <2>3. r2[k + 1] = b[i]
    BY <1>5, <2>2
  <2> QED
    BY <1>4, <2>1, <2>3
<1>10. Emptied(r, u, p, n, r2, 1)
  BY <1>8, <1>9 DEF Emptied
<1> QED
  BY <1>7, <1>10 DEF r2, a, b

LEMMA CutSequence ==
  ASSUME NEW r, NEW u, IsRef(r, u), NEW p \in 0..u
  PROVE  /\ IsRef(SubSeq(r, 1, p), u - (u - p))
         /\ Emptied(r, u, p, u - p, SubSeq(r, 1, p), 1)
<1>1. u \in Nat /\ r \in Seq(Says) /\ Len(r) = u
  BY DEF IsRef
<1>2. p \in Nat /\ u - p \in Nat /\ p + (u - p) <= u /\ p + (u - p) + 1 = u + 1
  BY <1>1
<1>3. \A i \in 1..p : r[i] \in Says
  BY <1>1
<1>4. SubSeq(r, 1, p) \in Seq(Says)
  <2>1. 1 \in Int /\ p \in Int
    BY <1>1
  <2> QED
    BY <1>3, <2>1, SubSeqProperties
<1>5. SubSeq(r, u + 1, u) = << >>
  BY <1>1, SubSeqEmpty
<1>6. SubSeq(r, 1, p) = SubSeq(r, 1, p) \o SubSeq(r, p + (u - p) + 1, u)
  BY <1>2, <1>4, <1>5, ConcatEmptySeq
<1>7. LET r2 == SubSeq(r, 1, p) \o SubSeq(r, p + (u - p) + 1, u)
      IN  IsRef(r2, u - (u - p)) /\ Emptied(r, u, p, u - p, r2, 1)
  BY <1>2, EmptiedSequence
<1> QED
  BY <1>6, <1>7

-----------------------------------------------------------------------------
(* What the memory becomes.                                                *)

LEMMA PutMemory ==
  ASSUME NEW sl, NEW m \in Nat, Memory(sl, m), NEW at \in Nat,
         NEW elts, NEW n \in Nat, Len(elts) = n, at + n <= m
  PROVE  /\ Memory(Put(sl, at, elts), m)
         /\ \A i \in 1..n : Put(sl, at, elts)[at + i - 1] = elts[i]
         /\ \A k \in 0..m - 1 : k \notin at..(at + n) - 1 => Put(sl, at, elts)[k] = sl[k]
<1>1. DOMAIN sl = 0..m - 1
  BY DEF Memory
<1> DEFINE s2 == Put(sl, at, elts)
<1>2. s2 = [k \in 0..m - 1 |-> IF k \in at..at + n - 1 THEN elts[k - at + 1] ELSE sl[k]]
  BY <1>1 DEF Put
<1>3. Memory(s2, m)
  BY <1>2 DEF Memory
<1>4. ASSUME NEW i \in 1..n PROVE s2[at + i - 1] = elts[i]
  <2>1. PICK k \in 0..m - 1 : k = at + i - 1 /\ k \in at..at + n - 1 /\ k - at + 1 = i
    OBVIOUS
  <2> HIDE DEF s2
  <2> QED
    BY <1>2, <2>1
<1>5. ASSUME NEW k \in 0..m - 1, k \notin at..(at + n) - 1 PROVE s2[k] = sl[k]
  <2>1. k \notin at..at + n - 1
    BY <1>5
  <2> HIDE DEF s2
  <2> QED
    BY <1>2, <2>1
<1> QED
  BY <1>3, <1>4, <1>5

IsMoved(sl, m, to, from, n, sl2) ==
  /\ Memory(sl2, m)
  /\ \A i \in 0..n - 1 : sl2[to + i] = sl[from + i]
  /\ \A k \in 0..m - 1 : k \notin to..(to + n) - 1 => sl2[k] = sl[k]

LEMMA MovedMemory ==
  ASSUME NEW sl, NEW m \in Nat, Memory(sl, m), NEW to \in Nat, NEW from \in Nat,
         NEW n \in Nat, to + n <= m, from + n <= m
  PROVE  IsMoved(sl, m, to, from, n, Moved(sl, to, from, n))
<1>1. DOMAIN sl = 0..m - 1
  BY DEF Memory
<1> DEFINE s2 == Moved(sl, to, from, n)
<1>2. s2 = [k \in 0..m - 1 |-> IF k \in to..to + n - 1 THEN sl[from + k - to] ELSE sl[k]]
  BY <1>1 DEF Moved
<1>3. Memory(s2, m)
  BY <1>2 DEF Memory
<1>4. ASSUME NEW i \in 0..n - 1 PROVE s2[to + i] = sl[from + i]
  <2>1. PICK k \in 0..m - 1 : k = to + i /\ k \in to..to + n - 1 /\ from + k - to = from + i
    OBVIOUS
  <2> HIDE DEF s2
  <2> QED
    BY <1>2, <2>1
<1>5. ASSUME NEW k \in 0..m - 1, k \notin to..(to + n) - 1 PROVE s2[k] = sl[k]
  <2>1. k \notin to..to + n - 1
    BY <1>5
  <2> HIDE DEF s2
  <2> QED
    BY <1>2, <2>1
<1> QED
  BY <1>3, <1>4, <1>5 DEF IsMoved

\* Room is made, what is behind j moves up, and the elements are put there.
Opened(sl, u, j, n) ==
  LET room == WithRoom(sl, u + n)
  IN  IF j < u THEN Moved(room, j + n, j, u - j) ELSE room

LEMMA FilledSlots ==
  ASSUME NEW sl, NEW c \in Nat, Memory(sl, c), NEW u \in Nat, u <= c,
         NEW j \in 0..u, NEW g, NEW n \in Nat, Len(g) = n
  PROVE  LET sl2 == Put(Opened(sl, u, j, n), j, g)
         IN  /\ \E m \in Nat : Memory(sl2, m) /\ u + n <= m
             /\ Filled(sl, u, j, n, g, sl2, 0)
<1> DEFINE room == WithRoom(sl, u + n)
           open == Opened(sl, u, j, n)
           sl2 == Put(open, j, g)
<1>1. PICK m \in Nat : /\ m >= c /\ m >= u + n /\ Memory(room, m)
                       /\ \A k \in 0..c - 1 : room[k] = sl[k]
  <2>1. u + n \in Nat
    OBVIOUS
  <2> QED
    BY <2>1, RoomMade
<1> HIDE DEF room
<1>2. /\ Memory(open, m)
      /\ \A k \in 0..j - 1 : open[k] = sl[k]
      /\ \A i \in 0..(u - j) - 1 : open[(j + n) + i] = sl[j + i]
  <2>1. \A k \in 0..j - 1 : k \in 0..c - 1
    OBVIOUS
  <2>2. CASE j < u
    <3>1. open = Moved(room, j + n, j, u - j)
      BY <2>2 DEF Opened, room
    <3> DEFINE to == j + n
               n1 == u - j
    <3>2. to \in Nat /\ j \in Nat /\ n1 \in Nat /\ to + n1 <= m /\ j + n1 <= m
      BY <1>1, <2>2
    <3>3. /\ Memory(open, m)
          /\ \A i \in 0..n1 - 1 : open[to + i] = room[j + i]
          /\ \A k \in 0..m - 1 : k \notin to..(to + n1) - 1 => open[k] = room[k]
      <4> HIDE DEF to, n1
      <4>1. open = Moved(room, to, j, n1)
        BY <3>1 DEF to, n1
      <4> HIDE DEF open
      <4> QED
        <5>1. IsMoved(room, m, to, j, n1, open)
          BY <1>1, <3>2, <4>1, MovedMemory
        <5> QED
          BY <5>1 DEF IsMoved
    <3>4. \A k \in 0..j - 1 : k \in 0..m - 1 /\ k \notin (j + n)..((j + n) + (u - j)) - 1
      BY <1>1
    <3>5. \A i \in 0..(u - j) - 1 : j + i \in 0..c - 1
      BY <2>2
    <3> QED
      BY <1>1, <2>1, <3>3, <3>4, <3>5
  <2>3. CASE ~(j < u)
    <3>1. open = room
      BY <2>3 DEF Opened, room
    <3>2. 0..(u - j) - 1 = {}
      BY <2>3
    <3> QED
      BY <1>1, <2>1, <3>1, <3>2
  <2> QED
    BY <2>2, <2>3
<1> HIDE DEF open
<1>3. /\ Memory(sl2, m)
      /\ \A i \in 1..n : sl2[j + i - 1] = g[i]
      /\ \A k \in 0..m - 1 : k \notin j..(j + n) - 1 => sl2[k] = open[k]
  <2>1. j \in Nat /\ j + n <= m
    BY <1>1
  <2> QED
    BY <1>2, <2>1, PutMemory
<1> HIDE DEF sl2
<1>4. ASSUME NEW k \in 0..j - 1 PROVE sl2[k + 0] = sl[k + 0]
  <2>1. k \in 0..m - 1 /\ k \notin j..(j + n) - 1 /\ k + 0 = k
    BY <1>1
  <2> QED
    BY <1>2, <1>3, <2>1
<1>5. ASSUME NEW i \in 1..n PROVE sl2[j + i - 1 + 0] = g[i]
  <2>1. j + i - 1 + 0 = j + i - 1
    OBVIOUS
  <2> QED
    BY <1>3, <2>1
<1>6. ASSUME NEW k \in j..u - 1 PROVE sl2[k + n + 0] = sl[k + 0]
  <2>1. k + n + 0 \in 0..m - 1 /\ k + n + 0 \notin j..(j + n) - 1
    BY <1>1
  <2>2. PICK i \in 0..(u - j) - 1 : /\ i = k - j /\ (j + n) + i = k + n + 0
                                    /\ j + i = k + 0
    OBVIOUS
  <2>3. open[(j + n) + i] = sl[j + i]
    BY <1>2
  <2> QED
    BY <1>3, <2>1, <2>2, <2>3
<1>7. Filled(sl, u, j, n, g, sl2, 0)
  BY <1>4, <1>5, <1>6 DEF Filled
<1> QED
  BY <1>1, <1>3, <1>7 DEF sl2, open

LEMMA EmptiedSlots ==
  ASSUME NEW sl, NEW c \in Nat, Memory(sl, c), NEW u \in Nat, u <= c,
         NEW p \in Nat, NEW n \in Nat, p + n <= u
  PROVE  LET sl2 == IF u > p + n THEN Moved(sl, p, p + n, u - (p + n)) ELSE sl
         IN  /\ Memory(sl2, c)
             /\ Emptied(sl, u, p, n, sl2, 0)
<1> DEFINE sl2 == IF u > p + n THEN Moved(sl, p, p + n, u - (p + n)) ELSE sl
<1>1. CASE u > p + n
  <2>1. sl2 = Moved(sl, p, p + n, u - (p + n))
    BY <1>1
  <2> DEFINE from == p + n
             n1 == u - from
  <2>2. from \in Nat /\ n1 \in Nat /\ p + n1 <= c /\ from + n1 <= c
    BY <1>1
  <2> HIDE DEF sl2
  <2>3. /\ Memory(sl2, c)
        /\ \A i \in 0..n1 - 1 : sl2[p + i] = sl[from + i]
        /\ \A k \in 0..c - 1 : k \notin p..(p + n1) - 1 => sl2[k] = sl[k]
    <3> HIDE DEF from, n1
    <3>1. sl2 = Moved(sl, p, from, n1)
      BY <2>1 DEF from, n1
    <3> QED
      <4>1. IsMoved(sl, c, p, from, n1, sl2)
        BY <2>2, <3>1, MovedMemory
      <4> QED
        BY <4>1 DEF IsMoved
  <2>4. ASSUME NEW k \in 0..p - 1 PROVE sl2[k + 0] = sl[k + 0]
    <3>1. k \in 0..c - 1 /\ k \notin p..(p + (u - (p + n))) - 1 /\ k + 0 = k
      BY <1>1
    <3> QED
      BY <2>3, <3>1
  <2>5. ASSUME NEW k \in p..(u - n) - 1 PROVE sl2[k + 0] = sl[k + n + 0]
    <3>1. PICK i \in 0..(u - (p + n)) - 1 : i = k - p /\ p + i = k + 0
                                            /\ (p + n) + i = k + n + 0
      BY <1>1
    <3>2. sl2[p + i] = sl[(p + n) + i]
      BY <2>3
    <3> QED
      BY <3>1, <3>2
  <2>6. Emptied(sl, u, p, n, sl2, 0)
    BY <2>4, <2>5 DEF Emptied
  <2> QED
    BY <2>3, <2>6 DEF sl2
<1>2. CASE ~(u > p + n)
  <2>1. sl2 = sl /\ p..(u - n) - 1 = {}
    BY <1>2
  <2> QED
    BY <2>1 DEF Emptied
<1> QED
  BY <1>1, <1>2

-----------------------------------------------------------------------------
(* What the strings become.                                                *)

LEMMA CopiedStrings ==
  ASSUME IsText(text), NEW texts \in Seq(Text), NEW n \in Nat, Len(texts) = n,
         NEW ids \in [1..n -> StringId], Copies(texts, ids)
  PROVE  /\ IsText(text') /\ ComesIn(text, n, ids, texts, text')
         /\ texts \in Seq(Says) /\ Len(ids) = n /\ broken' = broken
<1> DEFINE made == {ids[i] : i \in DOMAIN ids}
<1>1. DOMAIN ids = 1..n /\ ids \in Seq(StringId) /\ Len(ids) = n
  OBVIOUS
<1>2. /\ \A i \in 1..n : ids[i] \notin DOMAIN text
      /\ \A i, j \in 1..n : i < j => ids[i] < ids[j]
  BY <1>1 DEF Copies
<1>3. text' = [s \in made \cup DOMAIN text |->
                 IF s \in DOMAIN text THEN text[s]
                 ELSE texts[CHOOSE i \in DOMAIN ids : ids[i] = s]]
  BY DEF Copies
<1>4. DOMAIN text' = made \cup DOMAIN text
  BY <1>3
<1>5. \A i \in 1..n : ids[i] \in StringId /\ ids[i] \in Nat /\ ids[i] # NULLS
  BY ArrayAssumption DEF NULLS
<1>6. \A i, j \in 1..n : ids[i] = ids[j] => i = j
  <2> SUFFICES ASSUME NEW i \in 1..n, NEW j \in 1..n, i # j PROVE ids[i] # ids[j]
    OBVIOUS
  <2>1. i < j \/ j < i
    OBVIOUS
  <2>2. ids[i] < ids[j] \/ ids[j] < ids[i]
    BY <1>2, <2>1
  <2>3. ids[i] \in Nat /\ ids[j] \in Nat
    BY <1>5
  <2> QED
    BY <2>2, <2>3
<1>7. IsText(text')
  <2>1. DOMAIN text \subseteq StringId /\ made \subseteq StringId
    BY <1>1, <1>5 DEF IsText
  <2>2. text' = [s \in DOMAIN text' |-> text'[s]]
    <3> HIDE DEF made
    <3> QED
      BY <1>3, <1>4
  <2> QED
    BY <1>4, <2>1, <2>2 DEF IsText
<1>8. \A i \in 1..n : ids[i] \in made
  BY <1>1
<1>9. made = {ids[i] : i \in 1..n} \ {NULLS}
  BY <1>1, <1>5
<1>10. ASSUME NEW i \in 1..n PROVE text'[ids[i]] = texts[i]
  <2> DEFINE k == CHOOSE k \in DOMAIN ids : ids[k] = ids[i]
  <2>1. k \in 1..n /\ ids[k] = ids[i]
    BY <1>1
  <2>2. k = i
    BY <1>6, <2>1
  <2>3. text'[ids[i]] = texts[k]
    <3>1. ids[i] \in made \cup DOMAIN text /\ ids[i] \notin DOMAIN text
      BY <1>2, <1>8
    <3> HIDE DEF made
    <3> QED
      BY <1>3, <3>1
  <2> QED
    BY <2>2, <2>3
<1>11. ASSUME NEW s \in DOMAIN text PROVE text'[s] = text[s]
  BY <1>3
<1>12. ComesIn(text, n, ids, texts, text')
  <2>1. DOMAIN text' = DOMAIN text \cup ({ids[i] : i \in 1..n} \ {NULLS})
    <3> HIDE DEF made
    <3> QED
      BY <1>4, <1>9
  <2>2. \A i, k \in 1..n : i # k /\ ids[i] = ids[k] => ids[i] = NULLS
    BY <1>6
  <2>3. \A i \in 1..n : texts[i] = IF ids[i] = NULLS THEN NoText ELSE text'[ids[i]]
    BY <1>5, <1>10
  <2> QED
    BY <1>2, <1>11, <2>1, <2>2, <2>3 DEF ComesIn
<1>13. texts \in Seq(Says)
  BY DEF Says
<1> QED
  BY <1>1, <1>7, <1>12, <1>13 DEF Copies

LEMMA NullsAreFresh ==
  ASSUME NEW tx, IsText(tx), NEW n \in Nat
  PROVE  /\ ComesIn(tx, n, Nulls(n), NullTexts(n), tx)
         /\ Len(Nulls(n)) = n /\ Len(NullTexts(n)) = n /\ NullTexts(n) \in Seq(Says)
<1>1. Nulls(n) = [i \in 1..n |-> NULLS] /\ NullTexts(n) = [i \in 1..n |-> NoText]
  BY DEF Nulls, NullTexts
<1>2. \A i \in 1..n : Nulls(n)[i] = NULLS /\ NullTexts(n)[i] = NoText
  BY <1>1
<1>3. NULLS \notin DOMAIN tx
  BY NoNullString
<1>4. {Nulls(n)[i] : i \in 1..n} \ {NULLS} = {}
  BY <1>2
<1>5. NullTexts(n) \in Seq(Says) /\ Len(NullTexts(n)) = n
  <2>1. NoText \in Says
    BY DEF Says
  <2>2. NullTexts(n) \in [1..n -> Says]
    BY <1>1, <2>1
  <2> QED
    BY <1>1, <2>2
<1>6. Len(Nulls(n)) = n
  BY <1>1
<1>7. ComesIn(tx, n, Nulls(n), NullTexts(n), tx)
  BY <1>2, <1>3, <1>4 DEF ComesIn
<1> QED
  BY <1>5, <1>6, <1>7

LEMMA DestroyedFreed ==
  ASSUME ArrayInv, NEW p \in Nat, NEW n \in Nat, p + n <= used,
         Destroyed(p..(p + n) - 1)
  PROVE  ~broken' /\ IsText(text') /\ LetGo(slot, text, p, n, text')
<1> DEFINE ks == p..(p + n) - 1
           gone == {slot[k] : k \in ks} \ {NULLS}
<1>1. used \in Nat /\ \A k \in ks : k \in 0..used - 1
  BY DEF ArrayInv, HoldsTexts, IsRef
<1>2. \A k \in ks : slot[k] = NULLS \/ slot[k] \in DOMAIN text
  BY <1>1 DEF ArrayInv, HoldsTexts, Reads
<1>3. \A j, k \in ks : ~(j # k /\ slot[j] = slot[k] /\ slot[j] # NULLS)
  BY <1>1 DEF ArrayInv, HoldsTexts, Apart
<1>4. gone \subseteq DOMAIN text
  BY <1>2
<1>5. /\ text' = [s \in DOMAIN text \ gone |-> text[s]]
      /\ broken' = \/ broken
                   \/ ~(gone \subseteq DOMAIN text)
                   \/ \E j, k \in ks : j # k /\ slot[j] = slot[k] /\ slot[j] # NULLS
  BY DEF Destroyed
<1>6. ~broken'
  BY <1>3, <1>4, <1>5 DEF ArrayInv
<1>7. IsText(text')
  <2>1. DOMAIN text \subseteq StringId
    BY DEF ArrayInv, HoldsTexts, IsText
  <2> HIDE DEF gone
  <2> QED
    BY <1>5, <2>1 DEF IsText
<1>8. LetGo(slot, text, p, n, text')
  <2>1. DOMAIN text' = DOMAIN text \ gone
    BY <1>5
  <2>2. \A s \in DOMAIN text' : text'[s] = text[s]
    BY <1>5
  <2> QED
    BY <2>1, <2>2 DEF LetGo
<1> QED
  BY <1>6, <1>7, <1>8

-----------------------------------------------------------------------------
(* The macros.                                                             *)

LEMMA FilledHolds ==
  ASSUME NEW sl, NEW u, NEW tx, NEW r, HoldsTexts(sl, u, tx, r),
         NEW j \in 0..u, NEW n \in Nat, NEW g, Len(g) = n,
         NEW gr \in Seq(Says), Len(gr) = n,
         NEW tx2, IsText(tx2), ComesIn(tx, n, g, gr, tx2)
  PROVE  HoldsTexts(Put(Opened(sl, u, j, n), j, g), u + n, tx2,
               SubSeq(r, 1, j) \o gr \o SubSeq(r, j + 1, u))
<1> DEFINE sl2 == Put(Opened(sl, u, j, n), j, g)
           r2 == SubSeq(r, 1, j) \o gr \o SubSeq(r, j + 1, u)
<1>1. u \in Nat /\ IsRef(r, u)
  BY DEF HoldsTexts, IsRef
<1>2. PICK c \in Nat : Memory(sl, c) /\ u <= c
  BY DEF HoldsTexts
<1>3. /\ \E m \in Nat : Memory(sl2, m) /\ u + n <= m
      /\ Filled(sl, u, j, n, g, sl2, 0)
  BY <1>1, <1>2, FilledSlots
<1>4. IsRef(r2, u + n) /\ Filled(r, u, j, n, gr, r2, 1)
  BY <1>1, FilledSequence
<1> HIDE DEF sl2, r2
<1>5. HoldsTexts(sl2, u + n, tx2, r2)
  BY <1>3, <1>4, HoldsWhenFilled
<1> QED
  BY <1>5 DEF sl2, r2

LEMMA JoinedHolds ==
  ASSUME NEW sl, NEW u, NEW tx, NEW r, HoldsTexts(sl, u, tx, r),
         NEW n \in Nat, NEW g, Len(g) = n, NEW gr \in Seq(Says), Len(gr) = n,
         NEW tx2, IsText(tx2), ComesIn(tx, n, g, gr, tx2)
  PROVE  HoldsTexts(Put(WithRoom(sl, u + n), u, g), u + n, tx2, r \o gr)
<1>1. u \in Nat /\ u \in 0..u /\ r \in Seq(Says) /\ Len(r) = u
  BY DEF HoldsTexts, IsRef
<1>2. Opened(sl, u, u, n) = WithRoom(sl, u + n)
  BY <1>1 DEF Opened
<1>3. SubSeq(r, 1, u) = r
  BY <1>1, SubSeqFull
<1>4. SubSeq(r, u + 1, u) = << >>
  BY <1>1, SubSeqEmpty
<1>5. r \o gr \in Seq(Says)
  BY <1>1, ConcatProperties
<1>6. r \o gr = SubSeq(r, 1, u) \o gr \o SubSeq(r, u + 1, u)
  BY <1>3, <1>4, <1>5, ConcatEmptySeq
<1>7. HoldsTexts(Put(Opened(sl, u, u, n), u, g), u + n, tx2,
            SubSeq(r, 1, u) \o gr \o SubSeq(r, u + 1, u))
  BY <1>1, FilledHolds
<1> QED
  BY <1>2, <1>6, <1>7

LEMMA GrownHolds ==
  ASSUME ArrayInv, NEW num \in Nat, num > used
  PROVE  HoldsTexts(Grown(slot, num), num, text, ref \o NullTexts(num - used))
<1> DEFINE n == num - used
<1>1. used \in Nat /\ n \in Nat /\ used + n = num
  BY DEF ArrayInv, HoldsTexts, IsRef
<1>2. HoldsTexts(slot, used, text, ref) /\ IsText(text)
  BY DEF ArrayInv, HoldsTexts
<1> HIDE DEF n
<1>3. /\ ComesIn(text, n, Nulls(n), NullTexts(n), text)
      /\ Len(Nulls(n)) = n /\ Len(NullTexts(n)) = n /\ NullTexts(n) \in Seq(Says)
  BY <1>1, <1>2, NullsAreFresh
<1>4. HoldsTexts(Put(WithRoom(slot, used + n), used, Nulls(n)), used + n, text,
            ref \o NullTexts(n))
  BY <1>1, <1>2, <1>3, JoinedHolds
<1>5. Grown(slot, num) = Put(WithRoom(slot, used + n), used, Nulls(n))
  BY <1>1 DEF Grown, n
<1> QED
  BY <1>1, <1>4, <1>5 DEF n

LEMMA PushBackHolds ==
  ASSUME ArrayInv, NEW t \in Text, PushBack(t)
  PROVE  ArrayInv'
<1>1. PICK s \in StringId :
        /\ Copies(<< t >>, << s >>)
        /\ slot' = Put(WithRoom(slot, used + 1), used, << s >>)
  BY DEF PushBack
<1>2. HoldsTexts(slot, used, text, ref) /\ IsText(text) /\ ref \in Seq(Says) /\ t \in Says
  BY DEF ArrayInv, HoldsTexts, IsRef, Says
<1>3. << t >> \in Seq(Text) /\ << s >> \in [1..1 -> StringId] /\ Len(<< t >>) = 1
  OBVIOUS
<1>4. PICK n \in Nat : n = 1
  OBVIOUS
<1>5. Len(<< t >>) = n /\ << s >> \in [1..n -> StringId]
  BY <1>3, <1>4
<1>6. /\ IsText(text') /\ ComesIn(text, n, << s >>, << t >>, text')
      /\ << t >> \in Seq(Says) /\ Len(<< s >>) = n /\ broken' = broken
  BY <1>1, <1>2, <1>3, <1>5, CopiedStrings
<1>7. HoldsTexts(Put(WithRoom(slot, used + n), used, << s >>), used + n, text', ref \o << t >>)
  BY <1>2, <1>5, <1>6, JoinedHolds
<1>8. ref' = ref \o << t >>
  BY <1>2, AppendIsConcat DEF PushBack
<1>9. slot' = Put(WithRoom(slot, used + n), used, << s >>) /\ used' = used + n
  BY <1>1, <1>4 DEF PushBack
<1> QED
  BY <1>6, <1>7, <1>8, <1>9 DEF ArrayInv

LEMMA ExtendBackHolds ==
  ASSUME ArrayInv, ExtendBack
  PROVE  ArrayInv'
<1>1. HoldsTexts(slot, used, text, ref) /\ IsText(text) /\ ref \in Seq(Says)
  BY DEF ArrayInv, HoldsTexts, IsRef
<1>2. PICK n \in Nat : n = 1
  OBVIOUS
<1>3. /\ ComesIn(text, n, Nulls(n), NullTexts(n), text)
      /\ Len(Nulls(n)) = n /\ Len(NullTexts(n)) = n /\ NullTexts(n) \in Seq(Says)
  BY <1>1, NullsAreFresh
<1>4. Nulls(n) = << NULLS >> /\ NullTexts(n) = << NoText >>
  BY <1>2 DEF Nulls, NullTexts
<1>5. HoldsTexts(Put(WithRoom(slot, used + n), used, << NULLS >>), used + n, text,
            ref \o << NoText >>)
  BY <1>1, <1>3, <1>4, JoinedHolds
<1>6. ref' = ref \o << NoText >>
  <2>1. NoText \in Says
    BY DEF Says
  <2> QED
    BY <1>1, <2>1, AppendIsConcat DEF ExtendBack
<1>7. /\ slot' = Put(WithRoom(slot, used + n), used, << NULLS >>) /\ used' = used + n
      /\ text' = text /\ broken' = broken
  BY <1>2 DEF ExtendBack
<1> QED
  BY <1>5, <1>6, <1>7 DEF ArrayInv

LEMMA GrowHolds ==
  ASSUME ArrayInv, NEW num \in Nat, Grow(num)
  PROVE  ArrayInv'
<1>1. HoldsTexts(Grown(slot, num), num, text, ref \o NullTexts(num - used))
  BY GrownHolds DEF Grow
<1> QED
  BY <1>1 DEF ArrayInv, Grow

LEMMA InsertAHolds ==
  ASSUME ArrayInv, NEW texts \in Seq(Text), NEW j \in Nat, InsertA(texts, j)
  PROVE  ArrayInv'
<1> DEFINE n == Len(texts)
           grown == IF j > used THEN Grown(slot, j) ELSE slot
           now == IF j > used THEN j ELSE used
           ref0 == IF j > used THEN ref \o NullTexts(j - used) ELSE ref
<1>1. used \in Nat /\ n \in Nat
  BY DEF ArrayInv, HoldsTexts, IsRef
<1>2. HoldsTexts(grown, now, text, ref0) /\ IsText(text)
  <2>1. CASE j > used
    BY <2>1, GrownHolds DEF ArrayInv, HoldsTexts
  <2>2. CASE ~(j > used)
    BY <2>2 DEF ArrayInv, HoldsTexts
  <2> QED
    BY <2>1, <2>2
<1>3. j \in 0..now /\ now \in Nat
  BY <1>1
<1>4. PICK ids \in [1..n -> StringId] :
        /\ Copies(texts, ids)
        /\ slot' = Put(Opened(grown, now, j, n), j, ids)
  BY DEF InsertA, Opened
<1>5. /\ used' = now + n
      /\ ref' = SubSeq(ref0, 1, j) \o texts \o SubSeq(ref0, j + 1, now)
  BY DEF InsertA
<1>6. Len(texts) = n
  OBVIOUS
<1> HIDE DEF grown, now, ref0, n
<1>7. /\ IsText(text') /\ ComesIn(text, n, ids, texts, text')
      /\ texts \in Seq(Says) /\ Len(ids) = n /\ broken' = broken
  BY <1>1, <1>2, <1>4, <1>6, CopiedStrings
<1>8. HoldsTexts(slot', now + n, text', ref')
  BY <1>1, <1>2, <1>3, <1>4, <1>5, <1>6, <1>7, FilledHolds
<1> QED
  BY <1>5, <1>7, <1>8 DEF ArrayInv

\* The last elements are cut off, and the slots stay as they are.
LEMMA CutHolds ==
  ASSUME ArrayInv, NEW p \in Nat, p <= used, Destroyed(p..used - 1),
         slot' = slot, used' = p, ref' = SubSeq(ref, 1, p)
  PROVE  ArrayInv'
<1> DEFINE n == used - p
<1>1. used \in Nat /\ n \in Nat /\ p + n <= used /\ (p + n) - 1 = used - 1
      /\ used - n = p /\ p \in 0..used /\ IsRef(ref, used)
  BY DEF ArrayInv, HoldsTexts, IsRef
<1>2. HoldsTexts(slot, used, text, ref)
  BY DEF ArrayInv
<1>3. Destroyed(p..(p + n) - 1)
  BY <1>1
<1>4. PICK c \in Nat : Memory(slot, c) /\ used <= c
  BY <1>2 DEF HoldsTexts
<1>5. IsRef(ref', used - n) /\ Emptied(ref, used, p, n, ref', 1)
  BY <1>1, CutSequence
<1>6. Emptied(slot, used, p, n, slot', 0)
  <2>1. p..(used - n) - 1 = {}
    BY <1>1
  <2> QED
    BY <2>1 DEF Emptied
<1>7. \E m \in Nat : Memory(slot', m) /\ used - n <= m
  BY <1>1, <1>4
<1> HIDE DEF n
<1>8. ~broken' /\ IsText(text') /\ LetGo(slot, text, p, n, text')
  BY <1>1, <1>3, DestroyedFreed
<1>9. HoldsTexts(slot', used - n, text', ref')
  BY <1>1, <1>2, <1>5, <1>6, <1>7, <1>8, HoldsWhenEmptied
<1>10. used - n = used'
  BY <1>1
<1> QED
  BY <1>8, <1>9, <1>10 DEF ArrayInv

LEMMA PopBackHolds ==
  ASSUME ArrayInv, PopBack
  PROVE  ArrayInv'
<1>1. used \in Nat /\ used > 0
  BY DEF ArrayInv, HoldsTexts, IsRef, PopBack
<1>2. PICK p \in Nat : p = used - 1 /\ p <= used
  BY <1>1
<1>3. p..used - 1 = {used - 1}
  BY <1>1, <1>2
<1>4. /\ Destroyed(p..used - 1)
      /\ slot' = slot /\ used' = p /\ ref' = SubSeq(ref, 1, p)
  BY <1>2, <1>3 DEF PopBack
<1> QED
  BY <1>2, <1>4, CutHolds

LEMMA ShrinkHolds ==
  ASSUME ArrayInv, NEW num \in Nat, Shrink(num)
  PROVE  ArrayInv'
<1>1. num <= used
  BY DEF ArrayInv, HoldsTexts, IsRef, Shrink
<1> QED
  BY <1>1, CutHolds DEF Shrink

LEMMA ClearHolds ==
  ASSUME ArrayInv, Clear
  PROVE  ArrayInv'
<1>1. PICK p \in Nat : p = 0 /\ p <= used
  BY DEF ArrayInv, HoldsTexts, IsRef
<1>2. SubSeq(ref, 1, p) = << >>
  BY <1>1, SubSeqEmpty
<1> QED
  BY <1>1, <1>2, CutHolds DEF Clear

LEMMA FreeHolds ==
  ASSUME ArrayInv, Free
  PROVE  ArrayInv'
<1>1. used \in Nat
  BY DEF ArrayInv, HoldsTexts, IsRef
<1>2. PICK p \in Nat : p = 0 /\ p + used <= used
  BY <1>1
<1>3. HoldsTexts(slot, used, text, ref)
  BY DEF ArrayInv
<1>4. Destroyed(p..(p + used) - 1)
  BY <1>1, <1>2 DEF Free
<1>5. ~broken' /\ IsText(text') /\ LetGo(slot, text, p, used, text')
  BY <1>1, <1>2, <1>4, DestroyedFreed
<1>6. slot' = << >> /\ ref' = << >> /\ used' = 0 /\ used - used = 0
  BY <1>1 DEF Free
<1>7. \E m \in Nat : Memory(slot', m) /\ used - used <= m
  <2>1. PICK m \in Nat : m = 0
    OBVIOUS
  <2>2. 0..m - 1 = {}
    BY <2>1
  <2>3. Memory(slot', m)
    BY <1>6, <2>2 DEF Memory
  <2> QED
    BY <1>6, <2>1, <2>3
<1>8. IsRef(ref', used - used)
  BY <1>6 DEF IsRef
<1>9. p..(used - used) - 1 = {} /\ 0..p - 1 = {}
  BY <1>1, <1>2
<1>10. /\ Emptied(slot, used, p, used, slot', 0)
       /\ Emptied(ref, used, p, used, ref', 1)
  BY <1>9 DEF Emptied
<1>11. HoldsTexts(slot', used - used, text', ref')
  BY <1>1, <1>2, <1>3, <1>5, <1>7, <1>8, <1>10, HoldsWhenEmptied
<1> QED
  BY <1>5, <1>6, <1>11 DEF ArrayInv

LEMMA EraseHolds ==
  ASSUME ArrayInv, NEW pos \in Nat, NEW len \in Nat, Erase(pos, len)
  PROVE  ArrayInv'
<1>1. used \in Nat /\ IsRef(ref, used) /\ pos + len <= used
      /\ used - len \in Nat
  BY DEF ArrayInv, HoldsTexts, IsRef, Erase
<1>2. HoldsTexts(slot, used, text, ref)
  BY DEF ArrayInv
<1>3. PICK c \in Nat : Memory(slot, c) /\ used <= c
  BY <1>2 DEF HoldsTexts
<1>4. Destroyed(pos..(pos + len) - 1)
  BY <1>1 DEF Erase
<1>5. ~broken' /\ IsText(text') /\ LetGo(slot, text, pos, len, text')
  BY <1>1, <1>4, DestroyedFreed
<1>6. Memory(slot', c) /\ Emptied(slot, used, pos, len, slot', 0)
  <2>1. slot' = IF used > pos + len
                THEN Moved(slot, pos, pos + len, used - (pos + len)) ELSE slot
    BY DEF Erase
  <2> QED
    BY <1>1, <1>3, <2>1, EmptiedSlots
<1>7. IsRef(ref', used - len) /\ Emptied(ref, used, pos, len, ref', 1)
  BY <1>1, EmptiedSequence DEF Erase
<1>8. \E m \in Nat : Memory(slot', m) /\ used - len <= m
  BY <1>1, <1>3, <1>6
<1>9. HoldsTexts(slot', used - len, text', ref')
  BY <1>1, <1>2, <1>5, <1>6, <1>7, <1>8, HoldsWhenEmptied
<1> QED
  BY <1>5, <1>9 DEF ArrayInv, Erase

LEMMA ArrayStarts == ArrayInit => ArrayInv
<1> SUFFICES ASSUME ArrayInit PROVE ArrayInv
  OBVIOUS
<1>1. slot = << >> /\ used = 0 /\ text = << >> /\ ~broken /\ ref = << >>
  BY DEF ArrayInit
<1>2. \E m \in Nat : Memory(slot, m) /\ used <= m
  <2>1. PICK m \in Nat : m = 0
    OBVIOUS
  <2>2. 0..m - 1 = {}
    BY <2>1
  <2>3. Memory(slot, m)
    BY <1>1, <2>2 DEF Memory
  <2> QED
    BY <1>1, <2>1, <2>3
<1>3. IsText(text) /\ IsRef(ref, used) /\ DOMAIN text = {}
  BY <1>1 DEF IsText, IsRef
<1>4. 0..used - 1 = {}
  BY <1>1
<1>5. Reads(slot, used, text, ref) /\ Kept(slot, used, text) /\ Apart(slot, used)
  BY <1>3, <1>4 DEF Reads, Kept, Apart
<1> QED
  BY <1>1, <1>2, <1>3, <1>5 DEF ArrayInv, HoldsTexts

LEMMA ArrayKept == ArrayInv /\ [ArrayNext]_arrayVars => ArrayInv'
<1> SUFFICES ASSUME ArrayInv, [ArrayNext]_arrayVars PROVE ArrayInv'
  OBVIOUS
<1>1. CASE UNCHANGED arrayVars
  BY <1>1 DEF arrayVars, ArrayInv
<1>2. ASSUME NEW t \in Text, PushBack(t) PROVE ArrayInv'
  BY <1>2, PushBackHolds
<1>3. CASE PopBack
  BY <1>3, PopBackHolds
<1>4. CASE ExtendBack
  BY <1>4, ExtendBackHolds
<1>5. \A j \in 0..MaxLen : j \in Nat
  BY ArrayAssumption
<1>6. ASSUME NEW t \in Text, NEW j \in 0..MaxLen, Insert(t, j) PROVE ArrayInv'
  <2>1. << t >> \in Seq(Text) /\ j \in Nat
    BY <1>5
  <2> QED
    BY <1>6, <2>1, InsertAHolds DEF Insert
<1>7. ASSUME NEW t \in Text, NEW u \in Text, Concat(<< t, u >>) PROVE ArrayInv'
  <2>1. << t, u >> \in Seq(Text) /\ used \in Nat
    BY DEF ArrayInv, HoldsTexts, IsRef
  <2> QED
    BY <1>7, <2>1, InsertAHolds DEF Concat
<1>8. ASSUME NEW num \in 0..MaxLen, Shrink(num) \/ Grow(num) PROVE ArrayInv'
  BY <1>5, <1>8, ShrinkHolds, GrowHolds
<1>9. ASSUME NEW pos \in 0..MaxLen, NEW len \in 1..MaxLen, Erase(pos, len)
      PROVE  ArrayInv'
  <2>1. pos \in Nat /\ len \in Nat
    BY ArrayAssumption
  <2> QED
    BY <1>9, <2>1, EraseHolds
<1>10. CASE Clear
  BY <1>10, ClearHolds
<1>11. CASE Free
  BY <1>11, FreeHolds
<1> QED
  BY <1>1, <1>2, <1>3, <1>4, <1>6, <1>7, <1>8, <1>9, <1>10, <1>11 DEF ArrayNext

-----------------------------------------------------------------------------
(* What an iteration meets.                                                *)

LEMMA VisitedInOrder ==
  ASSUME ArrayInv
  PROVE  DOMAIN Visited = 1..used /\ \A i \in 1..used : Visited[i] = slot[i - 1]
<1>1. PICK c \in Nat : Memory(slot, c) /\ used <= c
  BY DEF ArrayInv, HoldsTexts
<1>2. used \in Nat /\ capacity = c /\ DOMAIN slot = 0..c - 1
  BY <1>1, SlotsCounted DEF ArrayInv, HoldsTexts, IsRef, capacity
<1> DEFINE Ends == 0..c
           S == {slot[k] : k \in 0..c - 1}
           V == [Ends -> Seq(S)]
           v == [k \in Ends |-> << >>]
           Step(w) == [k \in Ends |-> IF k = c THEN << >>
                                     ELSE << slot[k] >> \o w[NextAfter(k)]]
           G == [n \in 0..used |-> [w \in V |-> Step(w)]]
           Rule(f) == f = [n \in 0..used |->
                             [k \in 0..capacity |-> IF n = 0 \/ k = capacity THEN << >>
                                      ELSE << slot[k] >> \o f[n - 1][NextAfter(k)]]]
           from == CHOOSE f : Rule(f)
<1>3. \A k \in Ends : k # c => k \in 0..c - 1 /\ NextAfter(k) \in Ends
  BY <1>2 DEF NextAfter
<1>4. v \in V
  <2>1. << >> \in Seq(S)
    OBVIOUS
  <2> QED
    BY <2>1
<1>5. ASSUME NEW w \in V PROVE Step(w) \in V
  <2>1. ASSUME NEW k \in Ends
        PROVE  (IF k = c THEN << >> ELSE << slot[k] >> \o w[NextAfter(k)]) \in Seq(S)
    <3>1. CASE k # c
      <4>1. slot[k] \in S /\ NextAfter(k) \in Ends
        BY <1>3, <3>1
      <4> HIDE DEF S
      <4>2. << slot[k] >> \in Seq(S) /\ w[NextAfter(k)] \in Seq(S)
        BY <4>1
      <4> QED
        BY <3>1, <4>2, ConcatProperties
    <3> QED
      BY <3>1
  <2> HIDE DEF Ends, S
  <2> QED
    BY <2>1
<1>6. G \in [0..used -> [V -> V]]
  <2> HIDE DEF V, Step
  <2> QED
    BY <1>5
<1>7. PICK f \in [0..used -> V] : IsIterate(used, v, G, f)
  <2> HIDE DEF V, v, G
  <2> QED
    BY <1>2, <1>4, <1>6, Iterates
<1>8. ASSUME NEW n \in 0..used
      PROVE  f[n] = [k \in Ends |-> IF n = 0 \/ k = c THEN << >>
                                   ELSE << slot[k] >> \o f[n - 1][NextAfter(k)]]
  <2> HIDE DEF V, Ends
  <2>1. f[n] = IF n = 0 THEN v ELSE G[n][f[n - 1]]
    <3> HIDE DEF v, G
    <3> QED
      BY <1>7 DEF IsIterate
  <2>2. CASE n = 0
    BY <2>1, <2>2
  <2>3. CASE n # 0
    <3>1. n - 1 \in 0..used
      BY <1>2, <2>3
    <3>2. f[n - 1] \in V
      BY <3>1
    <3>3. f[n] = Step(f[n - 1])
      BY <2>1, <2>3, <3>2
    <3> QED
      BY <2>3, <3>3
  <2> QED
    BY <2>2, <2>3
<1>9. f = [n \in 0..used |-> f[n]]
  OBVIOUS
<1>10. Rule(f)
  BY <1>2, <1>8, <1>9
<1>11. Rule(from)
  <2> HIDE DEF Rule
  <2> QED
    BY <1>10
<1>12. Visited = IF used = 0 THEN << >> ELSE from[used][0]
  BY DEF Visited
<1> HIDE DEF from
<1>13. ASSUME NEW n \in 0..used, NEW k \in 0..c - 1
       PROVE  from[n][k] = IF n = 0 THEN << >> ELSE << slot[k] >> \o from[n - 1][NextAfter(k)]
  <2>1. k \in 0..capacity /\ k # capacity
    BY <1>2
  <2>2. from[n] = [j \in 0..capacity |-> IF n = 0 \/ j = capacity THEN << >>
                                        ELSE << slot[j] >> \o from[n - 1][NextAfter(j)]]
    BY <1>11
  <2> QED
    BY <2>1, <2>2
<1>14. ASSUME NEW n \in 0..used PROVE from[n][c] = << >>
  <2>1. c \in 0..capacity /\ c = capacity
    BY <1>2
  <2>2. from[n] = [j \in 0..capacity |-> IF n = 0 \/ j = capacity THEN << >>
                                        ELSE << slot[j] >> \o from[n - 1][NextAfter(j)]]
    BY <1>11
  <2> QED
    BY <2>1, <2>2
<1> DEFINE Rest(m) == SubSeq([i \in 1..used |-> slot[i - 1]], used - m + 1, used)
           P == {m \in Nat : m + 1 <= used => from[m + 1][used - (m + 1)] = Rest(m + 1)}
<1>15. ASSUME NEW m \in 1..used
       PROVE  /\ Rest(m) = << slot[used - m] >> \o Rest(m - 1)
              /\ used - m \in 0..c - 1
  <2> DEFINE all == [i \in 1..used |-> slot[i - 1]]
             i == used - m + 1
  <2>1. all \in Seq(S) /\ Len(all) = used
    <3>1. \A k \in 1..used : slot[k - 1] \in S
      BY <1>1, <1>2
    <3> HIDE DEF S
    <3> QED
      BY <1>2, <3>1
  <2>2. i \in 1..used /\ used \in i..used /\ i + 1 = used - (m - 1) + 1 /\ i - 1 = used - m
        /\ used - m \in 0..c - 1
    BY <1>1, <1>2
  <2>3. all[i] = slot[used - m]
    BY <2>2
  <2> HIDE DEF all, S, i
  <2>4. used \in 1..Len(all) /\ i \in 1..Len(all) /\ used \in i..Len(all)
    BY <1>2, <2>1, <2>2
  <2>5. SubSeq(all, i, used) = << all[i] >> \o SubSeq(all, i + 1, used)
    BY <2>1, <2>4, SubSeqRecursiveFirst
  <2> QED
    BY <2>2, <2>3, <2>5 DEF all, i
<1>16. Rest(0) = << >>
  <2>1. used - 0 + 1 \in Int /\ used \in Int /\ used < used - 0 + 1
    BY <1>2
  <2> QED
    BY <2>1, SubSeqEmpty
<1> HIDE DEF Rest, Rule
<1>17. 0 \in P
  <2>1. ASSUME 0 + 1 <= used PROVE from[0 + 1][used - (0 + 1)] = Rest(0 + 1)
    <3>1. PICK n \in 0..used : n = 1 /\ n - 1 = 0 /\ n \in 1..used /\ 0 + 1 = n
                               /\ n - 1 \in 0..used /\ n # 0
      BY <1>2, <2>1
    <3>2. PICK k \in 0..c - 1 : k = used - n
      BY <1>15, <3>1
    <3>3. NextAfter(k) = c
      BY <1>2, <3>1, <3>2 DEF NextAfter
    <3>4. from[n][k] = << slot[k] >> \o << >>
      BY <1>13, <1>14, <3>1, <3>3
    <3>5. Rest(n) = << slot[k] >> \o << >>
      BY <1>15, <1>16, <3>1, <3>2
    <3> QED
      BY <3>1, <3>2, <3>4, <3>5
  <2> QED
    BY <2>1
<1>18. ASSUME NEW m \in Nat, m \in P PROVE m + 1 \in P
  <2>1. ASSUME (m + 1) + 1 <= used
        PROVE  from[(m + 1) + 1][used - ((m + 1) + 1)] = Rest((m + 1) + 1)
    <3>1. PICK n \in 0..used : /\ n = (m + 1) + 1 /\ n - 1 = m + 1 /\ n \in 1..used
                               /\ n # 0 /\ m + 1 <= used
      BY <1>2, <2>1
    <3>2. PICK k \in 0..c - 1 : k = used - n
      BY <1>15, <3>1
    <3>3. NextAfter(k) = used - (m + 1)
      BY <1>2, <3>1, <3>2 DEF NextAfter
    <3>4. from[m + 1][used - (m + 1)] = Rest(m + 1)
      BY <1>18, <3>1
    <3>5. from[n][k] = << slot[k] >> \o Rest(m + 1)
      BY <1>13, <3>1, <3>3, <3>4
    <3>6. Rest(n) = << slot[k] >> \o Rest(m + 1)
      BY <1>15, <3>1, <3>2
    <3> QED
      BY <3>1, <3>2, <3>5, <3>6
  <2> QED
    BY <2>1
<1>19. \A m \in Nat : m \in P
  <2> HIDE DEF P
  <2>1. P \in SUBSET Nat
    BY DEF P
  <2> QED
    BY <1>17, <1>18, <2>1, Induction
<1>20. CASE used = 0
  <2>1. Visited = << >> /\ 1..used = {}
    BY <1>12, <1>20
  <2> QED
    BY <2>1
<1>21. CASE used # 0
  <2>1. PICK m \in Nat : m = used - 1 /\ m + 1 = used /\ m + 1 <= used
                         /\ used - (m + 1) = 0
    BY <1>2, <1>21
  <2>2. from[m + 1][used - (m + 1)] = Rest(m + 1)
    BY <1>19, <2>1
  <2>3. Visited = Rest(used)
    BY <1>12, <1>21, <2>1, <2>2
  <2>4. used - used + 1 = 1
    BY <1>2
  <2>5. Rest(used) = [i \in 1..used |-> slot[i - 1]]
    <3> DEFINE all == [i \in 1..used |-> slot[i - 1]]
    <3>1. all \in Seq(S) /\ Len(all) = used
      <4>1. \A k \in 1..used : slot[k - 1] \in S
        BY <1>1, <1>2
      <4> HIDE DEF S
      <4> QED
        BY <1>2, <4>1
    <3>2. Rest(used) = SubSeq(all, 1, used)
      BY <2>4 DEF Rest
    <3> HIDE DEF all, S
    <3>3. Rest(used) = all
      BY <3>1, <3>2, SubSeqFull
    <3> QED
      BY <3>3 DEF all
  <2> QED
    BY <2>3, <2>5
<1> QED
  BY <1>20, <1>21

\* Whatever an array goes through, an iteration meets what a sequence would hold,
\* every string allocated is in one slot, and none is freed twice (utarray.h:97).
THEOREM ArrayOwnsItsStringsHolds == ArraySpec => []ArrayOwnsItsStrings
<1>1. ArrayInv => ArrayOwnsItsStrings
  <2> SUFFICES ASSUME ArrayInv PROVE ArrayOwnsItsStrings
    OBVIOUS
  <2>1. PICK c \in Nat : Memory(slot, c) /\ used <= c
    BY DEF ArrayInv, HoldsTexts
  <2>2. used \in Nat /\ capacity = c /\ ref \in Seq(Says) /\ Len(ref) = used
    BY <2>1, SlotsCounted DEF ArrayInv, HoldsTexts, IsRef, capacity
  <2>3. \A k \in 0..used - 1 :
          IF slot[k] = NULLS THEN ref[k + 1] = NoText
          ELSE slot[k] \in DOMAIN text /\ ref[k + 1] = text[slot[k]]
    BY DEF ArrayInv, HoldsTexts, Reads
  <2>4. DOMAIN Visited = 1..used /\ \A i \in 1..used : Visited[i] = slot[i - 1]
    BY VisitedInOrder
  <2>5. [i \in DOMAIN Visited |-> TextOf(Visited[i])] = ref
    <3>1. ASSUME NEW i \in 1..used PROVE TextOf(Visited[i]) = ref[i]
      <4>1. PICK k \in 0..used - 1 : k = i - 1 /\ k + 1 = i
        BY <2>2
      <4>2. Visited[i] = slot[k]
        BY <2>4, <4>1
      <4> QED
        BY <2>3, <4>1, <4>2 DEF TextOf
    <3>2. ref = [i \in 1..used |-> ref[i]]
      BY <2>2
    <3> QED
      BY <2>4, <3>1, <3>2
  <2>6. DOMAIN text = {slot[k] : k \in 0..used - 1} \ {NULLS}
    <3>1. NULLS \notin DOMAIN text
      BY NoNullString DEF ArrayInv, HoldsTexts
    <3>2. \A s \in DOMAIN text : \E k \in 0..used - 1 : slot[k] = s
      BY DEF ArrayInv, HoldsTexts, Kept
    <3> QED
      BY <2>3, <3>1, <3>2
  <2>7. \A j, k \in 0..used - 1 : j # k /\ slot[j] = slot[k] => slot[j] = NULLS
    BY DEF ArrayInv, HoldsTexts, Apart
  <2>8. \A k \in 0..used - 1 : slot[k] \in DOMAIN text \cup {NULLS}
    BY <2>3
  <2>9. ~broken /\ used <= capacity
    BY <2>1, <2>2 DEF ArrayInv
  <2> QED
    BY <2>5, <2>6, <2>7, <2>8, <2>9 DEF ArrayOwnsItsStrings
<1> QED
  BY <1>1, ArrayStarts, ArrayKept, PTL DEF ArraySpec

-----------------------------------------------------------------------------
(* Searching a string (utstring.h).                                        *)

\* f says what a loop returns that begins at p, where the turns lead from p to
\* Nx[p] and W[p] is returned where it stops.
LoopsAs(D, Stops, W, Nx, f) ==
  f = [p \in D |-> IF p \in Stops THEN W[p] ELSE f[Nx[p]]]

Descends(D, Stops, Nx, rank) ==
  \A p \in D \ Stops : Nx[p] \in D /\ rank[Nx[p]] < rank[p]

\* A loop whose turns have a decreasing rank returns something.
LEMMA LoopEnds ==
  ASSUME NEW D, NEW Stops, NEW W, NEW Nx, NEW M \in Nat, NEW rank \in [D -> 0..M],
         Descends(D, Stops, Nx, rank)
  PROVE  \E f : LoopsAs(D, Stops, W, Nx, f)
<1> DEFINE Right(f, p) == f[p] = IF p \in Stops THEN W[p] ELSE f[Nx[p]]
           Below(m) == \E f : f = [p \in D |-> f[p]]
                              /\ \A p \in D : rank[p] < m => Right(f, p)
           S == {m \in Nat : Below(m)}
<1>1. 0 \in S
  <2> DEFINE f == [p \in D |-> 0]
  <2>1. f = [p \in D |-> f[p]] /\ \A p \in D : ~(rank[p] < 0)
    OBVIOUS
  <2> QED
    BY <2>1
<1>2. ASSUME NEW m \in Nat, m \in S PROVE m + 1 \in S
  <2>1. PICK f : f = [p \in D |-> f[p]] /\ \A p \in D : rank[p] < m => Right(f, p)
    BY <1>2
  <2> DEFINE g == [p \in D |-> IF rank[p] < m THEN f[p]
                               ELSE IF p \in Stops THEN W[p] ELSE f[Nx[p]]]
  <2>2. ASSUME NEW p \in D, rank[p] < m + 1 PROVE Right(g, p)
    <3>1. rank[p] \in Nat
      OBVIOUS
    <3>2. CASE p \in Stops
      BY <2>1, <3>2
    <3>3. CASE p \notin Stops
      <4>1. Nx[p] \in D /\ rank[Nx[p]] < rank[p] /\ rank[Nx[p]] \in Nat
        BY <3>3 DEF Descends
      <4>2. rank[Nx[p]] < m
        BY <2>2, <3>1, <4>1
      <4>3. g[Nx[p]] = f[Nx[p]]
        BY <4>1, <4>2
      <4>4. g[p] = f[Nx[p]]
        BY <2>1, <3>3
      <4> QED
        BY <3>3, <4>3, <4>4
    <3> QED
      BY <3>2, <3>3
  <2>3. g = [p \in D |-> g[p]]
    OBVIOUS
  <2> HIDE DEF g, Right
  <2> QED
    BY <2>2, <2>3
<1>3. S = Nat
  <2> HIDE DEF S
  <2>1. S \in SUBSET Nat
    BY DEF S
  <2> QED
    BY <1>1, <1>2, <2>1, Induction
<1>4. M + 1 \in S
  BY <1>3
<1>5. PICK f : f = [p \in D |-> f[p]] /\ \A p \in D : rank[p] < M + 1 => Right(f, p)
  BY <1>4
<1>6. \A p \in D : Right(f, p)
  BY <1>5
<1>7. f = [p \in D |-> IF p \in Stops THEN W[p] ELSE f[Nx[p]]]
  BY <1>5, <1>6
<1> QED
  BY <1>7 DEF LoopsAs

LEMMA LengthOf ==
  ASSUME NEW s, NEW n \in Nat, DOMAIN s = 0..n - 1
  PROVE  Length(s) = n
<1>1. 0 \in Int /\ n - 1 \in Int
  OBVIOUS
<1>2. \A a, b \in Int : Cardinality(a..b) = IF a > b THEN 0 ELSE b - a + 1
  BY FS_Interval
<1>3. Cardinality(0..n - 1) = IF 0 > n - 1 THEN 0 ELSE (n - 1) - 0 + 1
  BY <1>1, <1>2
<1>4. Cardinality(0..n - 1) = n
  BY <1>3
<1> QED
  BY <1>4 DEF Length

\* The first k characters of P are the last k of the first j of H.
Ends(P, H, j, k) == \A l \in 0..k - 1 : P[l] = H[j - k + l]

\* What ends with the first i characters of P ends with what those end with.
LEMMA EndsWithin ==
  ASSUME NEW P, NEW H, NEW j \in Nat, NEW i \in Nat, NEW k \in Nat, k <= i,
         Ends(P, H, j, i), Ends(P, P, i, k)
  PROVE  Ends(P, H, j, k)
<1>1. ASSUME NEW l \in 0..k - 1 PROVE P[l] = H[j - k + l]
  <2> DEFINE q == i - k + l
  <2>1. q \in 0..i - 1 /\ j - i + q = j - k + l
    OBVIOUS
  <2>2. P[q] = H[j - i + q]
    <3> HIDE DEF q
    <3> QED
      BY <2>1 DEF Ends
  <2>3. P[l] = P[q]
    BY DEF Ends
  <2> HIDE DEF q
  <2> QED
    BY <2>1, <2>2, <2>3
<1> QED
  BY <1>1 DEF Ends

LEMMA EndsBoth ==
  ASSUME NEW P, NEW H, NEW j \in Nat, NEW i \in Nat, NEW k \in Nat, k <= i,
         Ends(P, H, j, i), Ends(P, H, j, k)
  PROVE  Ends(P, P, i, k)
<1>1. ASSUME NEW l \in 0..k - 1 PROVE P[l] = P[i - k + l]
  <2> DEFINE q == i - k + l
  <2>1. q \in 0..i - 1 /\ j - i + q = j - k + l
    OBVIOUS
  <2>2. P[q] = H[j - i + q]
    <3> HIDE DEF q
    <3> QED
      BY <2>1 DEF Ends
  <2>3. P[l] = H[j - k + l]
    BY DEF Ends
  <2> HIDE DEF q
  <2>4. P[l] = P[q]
    BY <2>1, <2>2, <2>3
  <2> QED
    BY <2>4 DEF q
<1> QED
  BY <1>1 DEF Ends

LEMMA EndsNext ==
  ASSUME NEW P, NEW H, NEW j \in Nat, NEW k \in Nat
  PROVE  Ends(P, H, j + 1, k + 1) <=> Ends(P, H, j, k) /\ P[k] = H[j]
<1>1. \A l \in Int : (j + 1) - (k + 1) + l = j - k + l
  OBVIOUS
<1>2. j - k + k = j
  OBVIOUS
<1>3. \A l : l \in 0..(k + 1) - 1 <=> l \in 0..k - 1 \/ l = k
  OBVIOUS
<1>4. Ends(P, H, j + 1, k + 1) <=> \A l \in 0..k : P[l] = H[j - k + l]
  <2>1. (k + 1) - 1 = k
    OBVIOUS
  <2> QED
    BY <1>1, <2>1 DEF Ends
<1>5. (\A l \in 0..k : P[l] = H[j - k + l])
        <=> (\A l \in 0..k - 1 : P[l] = H[j - k + l]) /\ P[k] = H[j - k + k]
  <2>1. \A l : l \in 0..k <=> l \in 0..k - 1 \/ l = k
    OBVIOUS
  <2> QED
    BY <2>1
<1> QED
  BY <1>2, <1>4, <1>5 DEF Ends

\* What has matched so far without the last t characters.
LEMMA EndsShorter ==
  ASSUME NEW P, NEW H, NEW j \in Nat, NEW k \in Nat, NEW t \in Nat, t <= k, t <= j,
         Ends(P, H, j, k)
  PROVE  Ends(P, H, j - t, k - t)
<1>1. ASSUME NEW l \in 0..(k - t) - 1 PROVE P[l] = H[(j - t) - (k - t) + l]
  <2>1. l \in 0..k - 1 /\ (j - t) - (k - t) + l = j - k + l
    OBVIOUS
  <2>2. P[l] = H[j - k + l]
    BY <2>1 DEF Ends
  <2> QED
    BY <2>1, <2>2
<1> QED
  BY <1>1 DEF Ends

-----------------------------------------------------------------------------
(* How much matches, and where to go on.                                   *)

\* i is the greatest number up to m of characters of P that end the first j of H,
\* -1 if there is none.
Longest(P, H, j, i, m) ==
  /\ i \in -1..m
  /\ i >= 0 => Ends(P, H, j, i)
  /\ \A k \in i + 1..m : ~Ends(P, H, j, k)

\* Where a mismatch at x leads to: past all that would fail as x did.
Link(P, x, v) ==
  /\ v \in -1..x - 1
  /\ v >= 0 => Ends(P, P, x, v)
  /\ \A k \in v + 1..x - 1 : Ends(P, P, x, k) => P[k] = P[x]

\* r is the greatest number of characters that may be followed by c.
Goes(P, i, c, r) ==
  /\ r \in -1..i
  /\ r >= 0 => Ends(P, P, i, r) /\ P[r] = c
  /\ \A k \in r + 1..i : Ends(P, P, i, k) => P[k] # c

LEMMA GoesAlong ==
  ASSUME NEW P, NEW x \in Nat, NEW c, NEW v, NEW r,
         P[x] # c, Link(P, x, v), Goes(P, v, c, r)
  PROVE  Goes(P, x, c, r)
<1>1. v \in Int /\ r \in Int /\ -1 <= r /\ r <= v /\ v < x
  BY DEF Link, Goes
<1>2. ASSUME r >= 0 PROVE Ends(P, P, x, r) /\ P[r] = c
  <2>1. r \in Nat /\ v \in Nat /\ v >= 0
    BY <1>1, <1>2
  <2>2. Ends(P, P, x, v) /\ Ends(P, P, v, r) /\ P[r] = c
    BY <1>2, <2>1 DEF Link, Goes
  <2> QED
    BY <1>1, <2>1, <2>2, EndsWithin
<1>3. ASSUME NEW k \in r + 1..x, Ends(P, P, x, k) PROVE P[k] # c
  <2>1. k \in Nat
    BY <1>1
  <2>2. CASE k = x
    BY <2>2
  <2>3. CASE k # x /\ k > v
    <3>1. k \in v + 1..x - 1
      BY <1>1, <2>1, <2>3
    <3> QED
      BY <1>3, <3>1 DEF Link
  <2>4. CASE k <= v
    <3>1. v \in Nat /\ v >= 0 /\ k \in r + 1..v
      BY <1>1, <2>1, <2>4
    <3>2. Ends(P, P, x, v)
      BY <3>1 DEF Link
    <3>3. Ends(P, P, v, k)
      BY <1>3, <2>1, <2>4, <3>1, <3>2, EndsBoth
    <3> QED
      BY <3>1, <3>3 DEF Goes
  <2> QED
    BY <1>1, <2>1, <2>2, <2>3, <2>4
<1>4. r \in -1..x
  BY <1>1
<1> QED
  BY <1>2, <1>3, <1>4 DEF Goes

LEMMA LongestNext ==
  ASSUME NEW P, NEW H, NEW j \in Nat, NEW i, NEW m \in Int, NEW r,
         Longest(P, H, j, i, m), Goes(P, i, H[j], r)
  PROVE  Longest(P, H, j + 1, r + 1, m + 1)
<1>1. i \in Int /\ r \in Int /\ -1 <= r /\ r <= i /\ i <= m
  BY DEF Longest, Goes
<1>2. Ends(P, H, j + 1, r + 1)
  <2>1. CASE r = -1
    <3>1. (r + 1) - 1 = -1 /\ 0..-1 = {}
      BY <2>1
    <3> QED
      BY <3>1 DEF Ends
  <2>2. CASE r >= 0
    <3>1. r \in Nat /\ i \in Nat /\ i >= 0
      BY <1>1, <2>2
    <3>2. Ends(P, H, j, i) /\ Ends(P, P, i, r) /\ P[r] = H[j]
      BY <2>2, <3>1 DEF Longest, Goes
    <3>3. Ends(P, H, j, r)
      BY <1>1, <3>1, <3>2, EndsWithin
    <3> QED
      BY <3>1, <3>2, <3>3, EndsNext
  <2> QED
    BY <1>1, <2>1, <2>2
<1>3. ASSUME NEW k \in (r + 1) + 1..m + 1, Ends(P, H, j + 1, k) PROVE FALSE
  <2>1. PICK q \in Nat : k = q + 1 /\ q >= r + 1 /\ q <= m
    <3>1. k - 1 \in Nat /\ k = (k - 1) + 1 /\ k - 1 >= r + 1 /\ k - 1 <= m
      BY <1>1
    <3> QED
      BY <3>1
  <2>2. Ends(P, H, j, q) /\ P[q] = H[j]
    <3>1. Ends(P, H, j + 1, q + 1)
      BY <1>3, <2>1
    <3> QED
      BY <3>1, EndsNext
  <2>3. CASE q > i
    <3>1. q \in i + 1..m
      BY <1>1, <2>1, <2>3
    <3> QED
      BY <2>2, <3>1 DEF Longest
  <2>4. CASE q <= i
    <3>1. i \in Nat /\ i >= 0 /\ q \in r + 1..i
      <4>1. \A a, b, n \in Int : -1 <= a /\ b >= a + 1 /\ b <= n
                => n \in Nat /\ n >= 0 /\ b \in a + 1..n
        OBVIOUS
      <4>2. q \in Int /\ q >= r + 1
        BY <2>1
      <4> QED
        BY <1>1, <2>4, <4>1, <4>2
    <3>2. Ends(P, H, j, i)
      BY <3>1 DEF Longest
    <3>3. Ends(P, P, i, q)
      BY <2>2, <2>4, <3>1, <3>2, EndsBoth
    <3> QED
      BY <2>2, <3>1, <3>3 DEF Goes
  <2> QED
    BY <1>1, <2>1, <2>3, <2>4
<1>4. r + 1 \in -1..m + 1
  BY <1>1
<1> QED
  BY <1>2, <1>3, <1>4 DEF Longest

\* The entry for x: what matches before it, or where that leads to if it would
\* fail as x did.
LEMMA LinkOf ==
  ASSUME NEW P, NEW x \in Nat, NEW k \in Nat, k < x, Longest(P, P, x, k, x - 1),
         NEW v, v = k \/ (P[x] = P[k] /\ Link(P, k, v))
  PROVE  Link(P, x, v)
<1>1. Ends(P, P, x, k)
  BY DEF Longest
<1>2. CASE v = k
  <2>1. v \in -1..x - 1
    BY <1>2
  <2> QED
    BY <1>1, <1>2, <2>1 DEF Longest, Link
<1>3. CASE P[x] = P[k] /\ Link(P, k, v)
  <2>1. v \in Int /\ -1 <= v /\ v < k
    BY <1>3 DEF Link
  <2>2. ASSUME v >= 0 PROVE Ends(P, P, x, v)
    <3>1. v \in Nat /\ v <= k
      BY <2>1, <2>2
    <3>2. Ends(P, P, k, v)
      BY <1>3, <2>2 DEF Link
    <3> QED
      BY <1>1, <3>1, <3>2, EndsWithin
  <2>3. ASSUME NEW n \in v + 1..x - 1, Ends(P, P, x, n) PROVE P[n] = P[x]
    <3>1. n \in Nat /\ n <= k
      <4>1. n \in Nat /\ n <= x - 1
        BY <2>1
      <4>2. ~(n \in k + 1..x - 1)
        BY <2>3 DEF Longest
      <4> QED
        BY <4>1, <4>2
    <3>2. CASE n = k
      BY <1>3, <3>2
    <3>3. CASE n # k
      <4>1. Ends(P, P, k, n)
        BY <1>1, <2>3, <3>1, EndsBoth
      <4>2. n \in v + 1..k - 1
        BY <2>1, <3>1, <3>3
      <4> QED
        BY <1>3, <4>1, <4>2 DEF Link
    <3> QED
      BY <3>2, <3>3
  <2>4. v \in -1..x - 1
    BY <2>1
  <2> QED
    BY <2>2, <2>3, <2>4 DEF Link
<1> QED
  BY <1>2, <1>3

-----------------------------------------------------------------------------
(* The inner loop.                                                         *)

\* f says where the loop ends that begins at a position.
Chases(P, table, i, c, f) ==
  f = [x \in -1..i |-> IF x > -1 /\ P[x] # c THEN f[table[x]] ELSE x]

\* The entries up to i.
LinksBack(P, table, i) == \A x \in 0..i : Link(P, x, table[x])

LEMMA ChaseExists ==
  ASSUME NEW P, NEW table, NEW i \in Int, i >= -1, NEW c, LinksBack(P, table, i)
  PROVE  \E f : Chases(P, table, i, c, f)
<1> DEFINE D == -1..i
           Stops == {x \in D : ~(x > -1 /\ P[x] # c)}
           W == [x \in D |-> x]
           rank == [x \in D |-> x + 1]
<1>1. i + 1 \in Nat /\ rank \in [D -> 0..i + 1] /\ \A x \in D : W[x] = x
  OBVIOUS
<1>2. \A x \in D \ Stops : table[x] \in D /\ rank[table[x]] < rank[x]
  <2> SUFFICES ASSUME NEW x \in D \ Stops
               PROVE  table[x] \in D /\ rank[table[x]] < rank[x]
    OBVIOUS
  <2>1. x \in 0..i /\ x \in Int
    OBVIOUS
  <2>2. Link(P, x, table[x])
    BY <2>1 DEF LinksBack
  <2>3. table[x] \in -1..x - 1
    BY <2>2 DEF Link
  <2>4. table[x] \in D /\ table[x] < x /\ table[x] \in Int
    BY <2>1, <2>3
  <2> QED
    BY <2>1, <2>4
<1>3. \A x \in D : x \in Stops <=> ~(x > -1 /\ P[x] # c)
  OBVIOUS
<1> HIDE DEF D, Stops, W, rank
<1> DEFINE M == i + 1
<1>6. M \in Nat /\ rank \in [D -> 0..M]
  BY <1>1
<1> HIDE DEF M
<1>7. Descends(D, Stops, table, rank)
  BY <1>2 DEF Descends
<1>4. PICK f : LoopsAs(D, Stops, W, table, f)
  BY <1>6, <1>7, LoopEnds
<1>5. f = [x \in D |-> IF x > -1 /\ P[x] # c THEN f[table[x]] ELSE x]
  BY <1>1, <1>3, <1>4 DEF LoopsAs
<1> QED
  BY <1>5 DEF D, Chases

LEMMA ChaseGoes ==
  ASSUME NEW P, NEW table, NEW i \in Int, i >= -1, NEW c, LinksBack(P, table, i),
         NEW f, Chases(P, table, i, c, f)
  PROVE  \A x \in -1..i : Goes(P, x, c, f[x])
<1>1. ASSUME NEW x \in -1..i
      PROVE  f[x] = IF x > -1 /\ P[x] # c THEN f[table[x]] ELSE x
  BY DEF Chases
<1> DEFINE S == {n \in Nat : \A x \in -1..i : x < n => Goes(P, x, c, f[x])}
<1>2. 0 \in S
  <2>1. ASSUME NEW x \in -1..i, x < 0 PROVE Goes(P, x, c, f[x])
    <3>1. x = -1
      BY <2>1
    <3>2. f[x] = -1
      BY <1>1, <3>1
    <3>3. (-1) + 1 = 0 /\ 0..-1 = {} /\ -1 \in -1..-1 /\ ~(-1 >= 0)
      OBVIOUS
    <3> QED
      BY <3>1, <3>2, <3>3 DEF Goes
  <2> QED
    BY <2>1
<1>3. ASSUME NEW n \in Nat, n \in S PROVE n + 1 \in S
  <2>1. ASSUME NEW x \in -1..i, x < n + 1 PROVE Goes(P, x, c, f[x])
    <3>1. CASE x < n
      BY <1>3, <3>1
    <3>2. CASE ~(x < n)
      <4>1. x = n /\ x \in Nat /\ x \in 0..i /\ x > -1
        BY <2>1, <3>2
      <4>2. CASE P[x] = c
        <5>1. f[x] = x
          BY <1>1, <4>2
        <5>2. Ends(P, P, x, x)
          <6>1. \A l \in Int : x - x + l = l
            BY <4>1
          <6> QED
            BY <6>1 DEF Ends
        <5>3. x \in -1..x /\ x + 1..x = {}
          BY <4>1
        <5> QED
          BY <4>2, <5>1, <5>2, <5>3 DEF Goes
      <4>3. CASE P[x] # c
        <5> DEFINE v == table[x]
        <5>1. f[x] = f[v]
          BY <1>1, <4>1, <4>3
        <5>2. Link(P, x, v)
          BY <4>1 DEF LinksBack
        <5>3. v \in -1..i /\ v < n
          <6>1. v \in -1..x - 1
            BY <5>2 DEF Link
          <6> QED
            BY <4>1, <6>1
        <5>4. Goes(P, v, c, f[v])
          BY <1>3, <5>3
        <5> HIDE DEF v
        <5> QED
          BY <4>1, <4>3, <5>1, <5>2, <5>4, GoesAlong
      <4> QED
        BY <4>2, <4>3
    <3> QED
      BY <3>1, <3>2
  <2> QED
    BY <2>1
<1>4. S = Nat
  <2> HIDE DEF S
  <2>1. S \in SUBSET Nat
    BY DEF S
  <2> QED
    BY <1>2, <1>3, <2>1, Induction
<1>5. i + 1 \in Nat /\ \A x \in -1..i : x < i + 1
  OBVIOUS
<1>6. i + 1 \in S
  <2> HIDE DEF S
  <2> QED
    BY <1>4, <1>5
<1> QED
  BY <1>5, <1>6

LEMMA BackGoes ==
  ASSUME NEW P, NEW table, NEW i \in Int, i >= -1, NEW c, LinksBack(P, table, i)
  PROVE  Goes(P, i, c, Back(P, table, i, c))
<1> DEFINE f == CHOOSE f : Chases(P, table, i, c, f)
<1>1. Back(P, table, i, c) = f[i]
  BY DEF Back, Chases
<1>2. Chases(P, table, i, c, f)
  BY ChaseExists
<1>3. i \in -1..i
  OBVIOUS
<1> HIDE DEF f
<1> QED
  BY <1>1, <1>2, <1>3, ChaseGoes

\* P from its end.
Mirror(P, m) == [x \in 0..m - 1 |-> P[m - 1 - x]]
MirrorTable(table, m, i) == [x \in 0..i |-> m - 1 - table[m - x]]

LEMMA BackRGoes ==
  ASSUME NEW P, NEW m \in Nat, Length(P) = m, NEW table, NEW i \in -1..m - 1, NEW c,
         \A x \in m - i..m : table[x] \in Int,
         LinksBack(Mirror(P, m), MirrorTable(table, m, i), i)
  PROVE  /\ BackR(P, table, m - 1 - i, c) \in Int
         /\ Goes(Mirror(P, m), i, c, m - 1 - BackR(P, table, m - 1 - i, c))
<1> DEFINE Q == Mirror(P, m)
           t == MirrorTable(table, m, i)
           o == m - 1 - i
           D == o..m
           EndsAt(f) == f = [x \in D |-> IF x < m /\ P[x] # c THEN f[table[x + 1]]
                                         ELSE x]
           Mirrored(g) == [x \in D |-> m - 1 - g[m - 1 - x]]
<1>0. i \in Int /\ i >= -1 /\ i <= m - 1
  OBVIOUS
<1>1. ASSUME NEW x \in D
      PROVE  /\ m - 1 - x \in -1..i /\ x \in Int
             /\ m - 1 - (m - 1 - x) = x
             /\ x < m <=> m - 1 - x > -1
             /\ x < m => /\ m - 1 - x \in 0..i /\ m - 1 - x \in 0..m - 1
                         /\ m - (m - 1 - x) = x + 1 /\ x + 1 \in m - i..m
  OBVIOUS
<1>2. ASSUME NEW x \in D, x < m
      PROVE  Q[m - 1 - x] = P[x] /\ t[m - 1 - x] = m - 1 - table[x + 1]
  BY <1>1, <1>2 DEF Mirror, MirrorTable
<1>3. ASSUME NEW y \in 0..i PROVE t[y] \in -1..i /\ t[y] < y
  <2>1. Link(Q, y, t[y])
    BY DEF LinksBack
  <2>2. t[y] \in -1..y - 1
    BY <2>1 DEF Link
  <2> QED
    BY <1>0, <2>2
<1>4. ASSUME NEW x \in D, x < m
      PROVE  /\ table[x + 1] \in D
             /\ m - 1 - table[x + 1] = t[m - 1 - x]
             /\ m - 1 - t[m - 1 - x] = table[x + 1]
             /\ x < table[x + 1]
  <2>1. x + 1 \in m - i..m /\ m - 1 - x \in 0..i
    BY <1>1, <1>4
  <2>2. table[x + 1] \in Int
    BY <2>1
  <2>3. t[m - 1 - x] = m - 1 - table[x + 1]
    BY <1>2, <1>4
  <2>4. t[m - 1 - x] \in -1..i /\ t[m - 1 - x] < m - 1 - x
    BY <1>3, <2>1
  <2>5. \A a, b, z \in Int : a = m - 1 - b /\ a \in -1..i /\ a < m - 1 - z
                => b \in o..m /\ m - 1 - a = b /\ z < b
    BY <1>0
  <2>6. t[m - 1 - x] \in Int /\ x \in Int
    BY <1>1, <2>4
  <2> HIDE DEF t
  <2> QED
    BY <2>2, <2>3, <2>4, <2>5, <2>6
<1>5. ASSUME NEW y \in -1..i
      PROVE  /\ m - 1 - y \in D /\ m - 1 - (m - 1 - y) = y
             /\ y > -1 <=> m - 1 - y < m
  BY <1>0
<1>6. o \in D /\ m - 1 - o = i /\ i \in -1..i
  BY <1>0
<1>7. \E f : EndsAt(f)
  <2>1. PICK g : Chases(Q, t, i, c, g)
    BY <1>0, ChaseExists
  <2>2. \A y \in -1..i : g[y] \in Int
    <3>1. \A y \in -1..i : Goes(Q, y, c, g[y])
      BY <1>0, <2>1, ChaseGoes
    <3> QED
      BY <3>1 DEF Goes
  <2>3. ASSUME NEW y \in -1..i
        PROVE  g[y] = IF y > -1 /\ Q[y] # c THEN g[t[y]] ELSE y
    BY <2>1 DEF Chases
  <2> DEFINE f == Mirrored(g)
  <2> HIDE DEF Q, t, o, D
  <2>4. ASSUME NEW x \in D
        PROVE  f[x] = IF x < m /\ P[x] # c THEN f[table[x + 1]] ELSE x
    <3>1. f[x] = m - 1 - g[m - 1 - x] /\ m - 1 - x \in -1..i
      BY <1>1
    <3>2. CASE x < m /\ P[x] # c
      <4>1. g[m - 1 - x] = g[t[m - 1 - x]]
        BY <1>1, <1>2, <2>3, <3>2
      <4>2. f[table[x + 1]] = m - 1 - g[m - 1 - table[x + 1]]
        BY <1>4, <3>2
      <4> HIDE DEF f
      <4> QED
        BY <1>4, <3>1, <3>2, <4>1, <4>2
    <3>3. CASE ~(x < m /\ P[x] # c)
      <4>1. g[m - 1 - x] = m - 1 - x
        BY <1>1, <1>2, <2>3, <3>3
      <4> HIDE DEF f
      <4> QED
        BY <1>1, <3>1, <3>3, <4>1
    <3> QED
      BY <3>2, <3>3
  <2>5. f = [x \in D |-> f[x]]
    OBVIOUS
  <2>6. EndsAt(f)
    <3> HIDE DEF f
    <3> QED
      BY <2>4, <2>5
  <2> HIDE DEF EndsAt, f
  <2> QED
    BY <2>6
<1> DEFINE f == CHOOSE f : EndsAt(f)
<1>8. EndsAt(f) /\ BackR(P, table, o, c) = f[o]
  <2>1. EndsAt(f)
    BY <1>7
  <2>2. BackR(P, table, o, c) = f[o]
    BY DEF BackR
  <2> QED
    BY <2>1, <2>2
<1> HIDE DEF f
<1>9. ASSUME NEW x \in D
      PROVE  f[x] = IF x < m /\ P[x] # c THEN f[table[x + 1]] ELSE x
  BY <1>8
<1>15. \A x \in D : f[x] \in Int
  <2> DEFINE S == {n \in Nat : \A x \in D : m - x <= n => f[x] \in Int}
  <2>1. 0 \in S
    <3>1. ASSUME NEW x \in D, m - x <= 0 PROVE f[x] \in Int
      <4>1. x \in Int /\ ~(x < m)
        BY <1>1, <3>1
      <4> QED
        BY <1>9, <4>1
    <3> QED
      BY <3>1
  <2>2. ASSUME NEW n \in Nat, n \in S PROVE n + 1 \in S
    <3>1. ASSUME NEW x \in D, m - x <= n + 1 PROVE f[x] \in Int
      <4>1. CASE x < m /\ P[x] # c
        <5> DEFINE y == table[x + 1]
        <5>1. y \in D /\ x < y /\ f[x] = f[y]
          BY <1>4, <1>9, <4>1
        <5>2. x \in Int /\ y \in Int
          BY <1>1, <5>1
        <5> HIDE DEF y
        <5>3. m - y <= n
          BY <3>1, <5>1, <5>2
        <5> QED
          BY <2>2, <5>1, <5>3
      <4>2. CASE ~(x < m /\ P[x] # c)
        BY <1>1, <1>9, <4>2
      <4> QED
        BY <4>1, <4>2
    <3> QED
      BY <3>1
  <2>3. S = Nat
    <3> HIDE DEF S
    <3>1. S \in SUBSET Nat
      BY DEF S
    <3> QED
      BY <2>1, <2>2, <3>1, Induction
  <2>4. i + 1 \in Nat /\ \A x \in D : m - x <= i + 1
    BY <1>0
  <2>5. i + 1 \in S
    <3> HIDE DEF S
    <3> QED
      BY <2>3, <2>4
  <2> QED
    BY <2>4, <2>5
<1> DEFINE g == [y \in -1..i |-> m - 1 - f[m - 1 - y]]
<1>10. ASSUME NEW y \in -1..i
       PROVE  g[y] = IF y > -1 /\ Q[y] # c THEN g[t[y]] ELSE y
  <2> DEFINE x == m - 1 - y
  <2>1. x \in D /\ m - 1 - x = y /\ (y > -1 <=> x < m)
    BY <1>5
  <2>2. g[y] = m - 1 - f[x]
    OBVIOUS
  <2> HIDE DEF x, Q, t, D
  <2>3. CASE x < m /\ P[x] # c
    <3>1. f[x] = f[table[x + 1]] /\ Q[y] = P[x]
      BY <1>2, <1>9, <2>1, <2>3
    <3>2. m - 1 - t[y] = table[x + 1]
      BY <1>4, <2>1, <2>3
    <3>3. y \in 0..i
      BY <1>0, <2>1, <2>3
    <3>4. t[y] \in -1..i
      BY <1>3, <3>3
    <3>5. g[t[y]] = m - 1 - f[table[x + 1]]
      BY <3>2, <3>4
    <3> HIDE DEF g
    <3> QED
      BY <2>1, <2>2, <2>3, <3>1, <3>5
  <2>4. CASE ~(x < m /\ P[x] # c)
    <3>1. f[x] = x
      BY <1>9, <2>1, <2>4
    <3>2. ~(y > -1 /\ Q[y] # c)
      BY <1>2, <2>1, <2>4
    <3>3. g[y] = y
      BY <2>1, <2>2, <3>1
    <3> HIDE DEF g
    <3> QED
      BY <3>2, <3>3
  <2> QED
    BY <2>3, <2>4
<1>11. g = [y \in -1..i |-> g[y]]
  OBVIOUS
<1>12. g[i] = m - 1 - BackR(P, table, o, c)
  BY <1>6, <1>8
<1>13. Chases(Q, t, i, c, g)
  <2> HIDE DEF g, Q, t
  <2> QED
    BY <1>10, <1>11 DEF Chases
<1>14. Goes(Q, i, c, g[i])
  <2> HIDE DEF g, Q, t
  <2>1. LinksBack(Q, t, i)
    BY DEF Q, t
  <2> QED
    BY <1>0, <1>6, <1>13, <2>1, ChaseGoes
<1>16. BackR(P, table, o, c) \in Int
  BY <1>6, <1>8, <1>15
<1> QED
  <2> HIDE DEF g
  <2> QED
    BY <1>12, <1>14, <1>16

-----------------------------------------------------------------------------
(* The tables.                                                             *)

\* The entries up to n are right, and j is how much matches before n.
Built(P, m, n, t, j) ==
  /\ Longest(P, P, n, j, n - 1)
  /\ \A x \in 0..n : x < m => Link(P, x, t[x])

LEMMA BuiltNext ==
  ASSUME NEW P, NEW m \in Nat, NEW n \in Nat, n < m, NEW t, NEW j, Built(P, m, n, t, j),
         NEW r, Goes(P, j, P[n], r), NEW u, \A x \in 0..n : u[x] = t[x],
         u[n + 1] = r + 1 \/ (P[n + 1] = P[r + 1] /\ u[n + 1] = t[r + 1])
  PROVE  Built(P, m, n + 1, u, r + 1)
<1>1. j \in -1..n - 1 /\ r \in -1..j
  BY DEF Built, Longest, Goes
<1>2. r + 1 \in Nat /\ r + 1 < n + 1 /\ r + 1 \in 0..n /\ r + 1 < m
  BY <1>1
<1>3. Longest(P, P, n + 1, r + 1, (n + 1) - 1)
  <2>1. n - 1 \in Int /\ (n - 1) + 1 = (n + 1) - 1
    OBVIOUS
  <2>2. Longest(P, P, n, j, n - 1)
    BY DEF Built
  <2>3. Longest(P, P, n + 1, r + 1, (n - 1) + 1)
    BY <2>1, <2>2, LongestNext
  <2> QED
    BY <2>1, <2>3
<1>4. Link(P, r + 1, t[r + 1])
  BY <1>2 DEF Built
<1>5. Link(P, n + 1, u[n + 1])
  <2>1. u[n + 1] = r + 1 \/ (P[n + 1] = P[r + 1] /\ Link(P, r + 1, u[n + 1]))
    BY <1>4
  <2>2. n + 1 \in Nat
    OBVIOUS
  <2> QED
    BY <1>2, <1>3, <2>1, <2>2, LinkOf
<1>6. ASSUME NEW x \in 0..n + 1, x < m PROVE Link(P, x, u[x])
  <2>1. CASE x = n + 1
    BY <1>5, <2>1
  <2>2. CASE x # n + 1
    <3>1. x \in 0..n
      BY <2>2
    <3> QED
      BY <1>6, <3>1 DEF Built
  <2> QED
    BY <2>1, <2>2
<1> QED
  BY <1>3, <1>6 DEF Built

LEMMA BuiltFirst ==
  ASSUME NEW P, NEW m \in Nat, NEW t, t[0] = -1
  PROVE  Built(P, m, 0, t, -1)
<1>1. 0 - 1 = -1 /\ -1 \in -1..-1 /\ ~(-1 >= 0) /\ (-1) + 1 = 0 /\ 0..-1 = {}
  OBVIOUS
<1>2. Longest(P, P, 0, -1, 0 - 1)
  BY <1>1 DEF Longest
<1>3. Link(P, 0, -1)
  BY <1>1 DEF Link
<1>4. \A x \in 0..0 : x = 0
  OBVIOUS
<1> QED
  BY <1>2, <1>3, <1>4 DEF Built

LEMMA BuildTableLinks ==
  ASSUME NEW P, NEW m \in Nat \ {0}, Length(P) = m
  PROVE  LinksBack(P, BuildTable(P), m - 1)
<1> DEFINE v == [table |-> [x \in 0..0 |-> -1], j |-> -1]
           Step(f, n) == f[n] = IF n = 0 THEN v ELSE Extended(P, n - 1, f[n - 1])
           Runs(f) == f = [n \in 0..m |-> IF n = 0 THEN v
                                          ELSE Extended(P, n - 1, f[n - 1])]
<1>1. \E f : Runs(f)
  <2> DEFINE Upto(k) == \E f : f = [n \in 0..k |-> f[n]] /\ \A n \in 0..k : Step(f, n)
             S == {k \in Nat : Upto(k)}
  <2>1. 0 \in S
    <3> DEFINE f == [n \in 0..0 |-> v]
    <3>1. f = [n \in 0..0 |-> f[n]] /\ \A n \in 0..0 : n = 0 /\ f[n] = v
      OBVIOUS
    <3> HIDE DEF f, v
    <3> QED
      BY <3>1
  <2>2. ASSUME NEW k \in Nat, k \in S PROVE k + 1 \in S
    <3>1. PICK f : f = [n \in 0..k |-> f[n]] /\ \A n \in 0..k : Step(f, n)
      BY <2>2
    <3> DEFINE g == [n \in 0..k + 1 |-> IF n <= k THEN f[n]
                                        ELSE Extended(P, n - 1, f[n - 1])]
    <3>2. ASSUME NEW n \in 0..k + 1 PROVE Step(g, n)
      <4> HIDE DEF v
      <4>1. CASE n = 0
        <5>1. n \in 0..k /\ g[n] = f[n]
          BY <4>1
        <5> QED
          BY <3>1, <4>1, <5>1
      <4>2. CASE n # 0 /\ n <= k
        <5>1. n \in 0..k /\ n - 1 \in 0..k + 1 /\ n - 1 <= k
          BY <4>2
        <5>2. g[n] = f[n] /\ g[n - 1] = f[n - 1]
          BY <4>2, <5>1
        <5> HIDE DEF g
        <5> QED
          BY <3>1, <4>2, <5>1, <5>2
      <4>3. CASE ~(n <= k)
        <5>1. n # 0 /\ n - 1 \in 0..k + 1 /\ n - 1 <= k
          BY <4>3
        <5>2. g[n] = Extended(P, n - 1, f[n - 1]) /\ g[n - 1] = f[n - 1]
          BY <4>3, <5>1
        <5> HIDE DEF g
        <5> QED
          BY <5>1, <5>2
      <4> QED
        BY <4>1, <4>2, <4>3
    <3>3. g = [n \in 0..k + 1 |-> g[n]]
      OBVIOUS
    <3> HIDE DEF g, Step
    <3> QED
      BY <3>2, <3>3
  <2>3. S = Nat
    <3> HIDE DEF S
    <3>1. S \in SUBSET Nat
      BY DEF S
    <3> QED
      BY <2>1, <2>2, <3>1, Induction
  <2>4. PICK f : f = [n \in 0..m |-> f[n]] /\ \A n \in 0..m : Step(f, n)
    BY <2>3
  <2>5. Runs(f)
    <3> HIDE DEF v
    <3> QED
      BY <2>4
  <2> HIDE DEF Runs
  <2> QED
    BY <2>5
<1> DEFINE f == CHOOSE f : Runs(f)
<1>2. Runs(f) /\ BuildTable(P) = f[m].table
  <2>1. Runs(f)
    BY <1>1
  <2>2. BuildTable(P) = f[m].table
    BY DEF BuildTable
  <2> QED
    BY <2>1, <2>2
<1> HIDE DEF f
<1>3. /\ f[0] = v
      /\ \A n \in 0..m - 1 : f[n + 1] = Extended(P, n, f[n])
  <2>1. 0 \in 0..m
    OBVIOUS
  <2>2. ASSUME NEW n \in 0..m - 1 PROVE f[n + 1] = Extended(P, n, f[n])
    <3>1. n + 1 \in 0..m /\ n + 1 # 0 /\ (n + 1) - 1 = n
      OBVIOUS
    <3> HIDE DEF v
    <3> QED
      BY <1>2, <3>1
  <2> HIDE DEF v
  <2> QED
    BY <1>2, <2>1, <2>2
<1> DEFINE S == {n \in Nat : n <= m => Built(P, m, n, f[n].table, f[n].j)}
<1>4. 0 \in S
  <2>1. f[0].table[0] = -1 /\ f[0].j = -1
    BY <1>3
  <2> QED
    BY <2>1, BuiltFirst
<1>5. ASSUME NEW n \in Nat, n \in S PROVE n + 1 \in S
  <2>1. ASSUME n + 1 <= m PROVE Built(P, m, n + 1, f[n + 1].table, f[n + 1].j)
    <3> DEFINE t == f[n].table
               j == f[n].j
               r == Back(P, t, j, P[n])
               u == f[n + 1].table
    <3>1. n < m /\ n \in 0..m - 1 /\ Built(P, m, n, t, j)
      BY <1>5, <2>1
    <3>2. j \in -1..n - 1
      BY <3>1 DEF Built, Longest
    <3>3. LinksBack(P, t, j)
      <4>1. \A x \in 0..j : x \in 0..n /\ x < m
        BY <3>1, <3>2
      <4> HIDE DEF t, j
      <4> QED
        BY <3>1, <4>1 DEF Built, LinksBack
    <3>4. Goes(P, j, P[n], r)
      <4>1. j \in Int /\ j >= -1
        BY <3>2
      <4> HIDE DEF t, j
      <4> QED
        BY <3>3, <4>1, BackGoes
    <3>5. f[n + 1] = Extended(P, n, f[n])
      BY <1>3, <3>1
    <3>6. f[n + 1].j = r + 1
      BY <3>5 DEF Extended
    <3> DEFINE entry == IF n + 1 < m /\ P[n + 1] = P[r + 1] THEN t[r + 1] ELSE r + 1
    <3>7. u = [x \in 0..n + 1 |-> IF x <= n THEN t[x] ELSE entry]
      BY <3>5 DEF Extended
    <3>8. \A x \in 0..n : x \in 0..n + 1 /\ x <= n
      OBVIOUS
    <3>9. n + 1 \in 0..n + 1 /\ ~(n + 1 <= n)
      OBVIOUS
    <3> HIDE DEF t, j, r, u
    <3>10. \A x \in 0..n : u[x] = t[x]
      BY <3>7, <3>8
    <3>11. u[n + 1] = r + 1 \/ (P[n + 1] = P[r + 1] /\ u[n + 1] = t[r + 1])
      BY <3>7, <3>9
    <3>12. Built(P, m, n + 1, u, r + 1)
      BY <3>1, <3>4, <3>10, <3>11, BuiltNext
    <3> QED
      BY <3>6, <3>12 DEF u
  <2> QED
    BY <2>1
<1>6. S = Nat
  <2> HIDE DEF S
  <2>1. S \in SUBSET Nat
    BY DEF S
  <2> QED
    BY <1>4, <1>5, <2>1, Induction
<1>7. Built(P, m, m, f[m].table, f[m].j)
  <2>1. m \in S
    <3> HIDE DEF S
    <3> QED
      BY <1>6
  <2> QED
    BY <2>1
<1>8. \A x \in 0..m - 1 : x \in 0..m /\ x < m
  OBVIOUS
<1> QED
  BY <1>2, <1>7, <1>8 DEF Built, LinksBack

LEMMA BuildTableRLinks ==
  ASSUME NEW P, NEW m \in Nat \ {0}, Length(P) = m
  PROVE  /\ \A x \in 1..m : BuildTableR(P)[x] \in Int
         /\ LinksBack(Mirror(P, m), MirrorTable(BuildTableR(P), m, m - 1), m - 1)
<1> DEFINE v == [table |-> [x \in m..m |-> m], j |-> m]
           Q == Mirror(P, m)
           Step(f, n) == f[n] = IF n = 0 THEN v ELSE ExtendedR(P, m - n, f[n - 1])
           Runs(f) == f = [n \in 0..m |-> IF n = 0 THEN v
                                          ELSE ExtendedR(P, m - n, f[n - 1])]
<1>1. \E f : Runs(f)
  <2> DEFINE Upto(k) == \E f : f = [n \in 0..k |-> f[n]] /\ \A n \in 0..k : Step(f, n)
             S == {k \in Nat : Upto(k)}
  <2>1. 0 \in S
    <3> DEFINE f == [n \in 0..0 |-> v]
    <3>1. f = [n \in 0..0 |-> f[n]] /\ \A n \in 0..0 : n = 0 /\ f[n] = v
      OBVIOUS
    <3> HIDE DEF f, v
    <3> QED
      BY <3>1
  <2>2. ASSUME NEW k \in Nat, k \in S PROVE k + 1 \in S
    <3>1. PICK f : f = [n \in 0..k |-> f[n]] /\ \A n \in 0..k : Step(f, n)
      BY <2>2
    <3> DEFINE g == [n \in 0..k + 1 |-> IF n <= k THEN f[n]
                                        ELSE ExtendedR(P, m - n, f[n - 1])]
    <3>2. ASSUME NEW n \in 0..k + 1 PROVE Step(g, n)
      <4> HIDE DEF v
      <4>1. CASE n = 0
        <5>1. n \in 0..k /\ g[n] = f[n]
          BY <4>1
        <5> QED
          BY <3>1, <4>1, <5>1
      <4>2. CASE n # 0 /\ n <= k
        <5>1. n \in 0..k /\ n - 1 \in 0..k + 1 /\ n - 1 <= k
          BY <4>2
        <5>2. g[n] = f[n] /\ g[n - 1] = f[n - 1]
          BY <4>2, <5>1
        <5> HIDE DEF g
        <5> QED
          BY <3>1, <4>2, <5>1, <5>2
      <4>3. CASE ~(n <= k)
        <5>1. n # 0 /\ n - 1 \in 0..k + 1 /\ n - 1 <= k
          BY <4>3
        <5>2. g[n] = ExtendedR(P, m - n, f[n - 1]) /\ g[n - 1] = f[n - 1]
          BY <4>3, <5>1
        <5> HIDE DEF g
        <5> QED
          BY <5>1, <5>2
      <4> QED
        BY <4>1, <4>2, <4>3
    <3>3. g = [n \in 0..k + 1 |-> g[n]]
      OBVIOUS
    <3> HIDE DEF g, Step
    <3> QED
      BY <3>2, <3>3
  <2>3. S = Nat
    <3> HIDE DEF S
    <3>1. S \in SUBSET Nat
      BY DEF S
    <3> QED
      BY <2>1, <2>2, <3>1, Induction
  <2>4. PICK f : f = [n \in 0..m |-> f[n]] /\ \A n \in 0..m : Step(f, n)
    BY <2>3
  <2>5. Runs(f)
    <3> HIDE DEF v
    <3> QED
      BY <2>4
  <2> HIDE DEF Runs
  <2> QED
    BY <2>5
<1> DEFINE f == CHOOSE f : Runs(f)
<1>2. Runs(f) /\ BuildTableR(P) = f[m].table
  <2>1. Runs(f)
    BY <1>1
  <2>2. BuildTableR(P) = f[m].table
    BY DEF BuildTableR
  <2> QED
    BY <2>1, <2>2
<1> HIDE DEF f
<1>3. /\ f[0] = v
      /\ \A n \in 0..m - 1 : f[n + 1] = ExtendedR(P, m - (n + 1), f[n])
  <2>1. 0 \in 0..m
    OBVIOUS
  <2>2. ASSUME NEW n \in 0..m - 1 PROVE f[n + 1] = ExtendedR(P, m - (n + 1), f[n])
    <3>1. n + 1 \in 0..m /\ n + 1 # 0 /\ (n + 1) - 1 = n
      OBVIOUS
    <3> HIDE DEF v
    <3> QED
      BY <1>2, <3>1
  <2> HIDE DEF v
  <2> QED
    BY <1>2, <2>1, <2>2
<1> DEFINE Mirrored(n) == MirrorTable(f[n].table, m, n)
           Typed(n) == f[n].j \in Int /\ \A x \in m - n..m : f[n].table[x] \in Int
           S == {n \in Nat : n <= m => /\ Typed(n)
                                       /\ Built(Q, m, n, Mirrored(n), m - 1 - f[n].j)}
<1>4. 0 \in S
  <2>1. m \in m..m /\ \A x \in m - 0..m : x = m
    OBVIOUS
  <2>2. f[0].table[m] = m /\ f[0].j = m
    BY <1>3, <2>1
  <2>3. 0 \in 0..0 /\ m - 0 = m /\ m - 1 - m = -1
    OBVIOUS
  <2>4. Mirrored(0)[0] = -1
    BY <2>2, <2>3 DEF MirrorTable
  <2>5. Built(Q, m, 0, Mirrored(0), -1)
    <3> HIDE DEF Q, Mirrored
    <3> QED
      BY <2>4, BuiltFirst
  <2>6. Typed(0)
    BY <2>1, <2>2
  <2> HIDE DEF Mirrored, Typed
  <2> QED
    BY <2>2, <2>3, <2>5, <2>6
<1>5. ASSUME NEW n \in Nat, n \in S PROVE n + 1 \in S
  <2>1. ASSUME n + 1 <= m
        PROVE  /\ Typed(n + 1)
               /\ Built(Q, m, n + 1, Mirrored(n + 1), m - 1 - f[n + 1].j)
    <3> DEFINE b == f[n].table
               j == m - 1 - f[n].j
               i == m - (n + 1)
               k == BackR(P, b, f[n].j, P[i])
               r == m - 1 - k
               t == MirrorTable(b, m, n)
               u == MirrorTable(f[n + 1].table, m, n + 1)
    <3>1. n < m /\ n \in 0..m - 1 /\ Typed(n) /\ Built(Q, m, n, t, j)
      BY <1>5, <2>1
    <3>2. /\ j \in -1..n - 1 /\ j \in Int /\ j >= -1 /\ j <= m - 1
          /\ j \in -1..m - 1
          /\ m - 1 - j = f[n].j
      <4>1. j \in -1..n - 1
        <5> HIDE DEF j
        <5> QED
          BY <3>1 DEF Built, Longest
      <4>2. f[n].j \in Int
        BY <3>1
      <4>3. \A a \in Int : m - 1 - (m - 1 - a) = a
        OBVIOUS
      <4>4. m - 1 - j = f[n].j
        BY <4>2, <4>3
      <4> HIDE DEF j
      <4> QED
        BY <3>1, <4>1, <4>4
    <3>3. LinksBack(Q, MirrorTable(b, m, j), j)
      <4>1. \A x \in 0..j : x \in 0..n /\ x < m
        <5> HIDE DEF j
        <5> QED
          BY <3>1, <3>2
      <4>2. \A x \in 0..j : MirrorTable(b, m, j)[x] = t[x]
        <5> HIDE DEF j, b
        <5> QED
          BY <4>1 DEF MirrorTable
      <4>3. \A x \in 0..n : x < m => Link(Q, x, t[x])
        <5> HIDE DEF t, j, Q
        <5> QED
          BY <3>1 DEF Built
      <4> HIDE DEF t, j, b, Q
      <4> QED
        BY <4>1, <4>2, <4>3 DEF LinksBack
    <3>4. k \in Int /\ Goes(Q, j, P[i], r)
      <4>1. \A x \in m - j..m : b[x] \in Int
        <5>1. \A x \in m - j..m : x \in m - n..m
          <6> HIDE DEF j
          <6> QED
            BY <3>2
        <5> HIDE DEF j
        <5> QED
          BY <3>1, <5>1
      <4> DEFINE c == P[i]
      <4> HIDE DEF c, j, b
      <4>2. /\ BackR(P, b, m - 1 - j, c) \in Int
            /\ Goes(Mirror(P, m), j, c, m - 1 - BackR(P, b, m - 1 - j, c))
        BY <3>2, <3>3, <4>1, BackRGoes
      <4> QED
        BY <3>2, <4>2 DEF c
    <3>5. f[n + 1] = ExtendedR(P, i, f[n])
      BY <1>3, <3>1
    <3> DEFINE entry == IF i - 1 >= 0 /\ P[i - 1] = P[k - 1] THEN b[(k - 1) + 1]
                        ELSE k - 1
    <3>6. f[n + 1].j = k - 1
      BY <3>5 DEF ExtendedR
    <3>7. f[n + 1].table = [x \in i..m |-> IF x > i THEN b[x] ELSE entry]
      BY <3>5 DEF ExtendedR
    <3>8. r \in -1..j
      <4> HIDE DEF r, j, k, i
      <4> QED
        BY <3>4 DEF Goes
    <3>9. /\ r + 1 \in 0..n /\ r + 1 \in 0..m - 1 /\ m - (r + 1) = k
          /\ m - 1 - (r + 1) = k - 1 /\ (k - 1) + 1 = k /\ k \in m - n..m
          /\ m - 1 - (k - 1) = r + 1
      <4> HIDE DEF j, k
      <4> QED
        BY <3>1, <3>2, <3>4, <3>8
    <3>10. /\ i \in Nat /\ i = m - 1 - n /\ n \in 0..m - 1 /\ m - (n + 1) = i
           /\ i - 1 >= 0 => n + 1 \in 0..m - 1 /\ m - 1 - (n + 1) = i - 1
      BY <3>1
    <3>11. Q[n] = P[i] /\ Q[r + 1] = P[k - 1]
           /\ (i - 1 >= 0 => Q[n + 1] = P[i - 1])
      <4> HIDE DEF i, k, r
      <4> QED
        BY <3>9, <3>10 DEF Mirror
    <3>12. \A x \in 0..n : u[x] = t[x]
      <4>1. \A x \in 0..n : x \in 0..n + 1 /\ m - x \in i..m /\ m - x > i
        BY <3>1
      <4> HIDE DEF i, b, entry
      <4> QED
        BY <3>7, <4>1 DEF MirrorTable
    <3>13. u[n + 1] = m - 1 - entry
      <4>1. n + 1 \in 0..n + 1 /\ i \in i..m /\ ~(i > i)
        BY <3>1
      <4> HIDE DEF i, b, entry
      <4> QED
        BY <3>7, <3>10, <4>1 DEF MirrorTable
    <3>14. t[r + 1] = m - 1 - b[k]
      <4> HIDE DEF r, k, b
      <4> QED
        BY <3>9 DEF MirrorTable
    <3>15. u[n + 1] = r + 1 \/ (Q[n + 1] = Q[r + 1] /\ u[n + 1] = t[r + 1])
      <4>1. CASE i - 1 >= 0 /\ P[i - 1] = P[k - 1]
        <5>1. entry = b[k]
          BY <3>9, <4>1
        <5> HIDE DEF i, k, r, b, Q, t, u, entry
        <5> QED
          BY <3>11, <3>13, <3>14, <4>1, <5>1
      <4>2. CASE ~(i - 1 >= 0 /\ P[i - 1] = P[k - 1])
        <5>1. entry = k - 1
          BY <4>2
        <5> HIDE DEF i, k, r, b, Q, t, u, entry
        <5> QED
          BY <3>9, <3>13, <5>1
      <4> QED
        BY <4>1, <4>2
    <3>16. Built(Q, m, n + 1, u, r + 1)
      <4> HIDE DEF Q, t, j, u, r, i
      <4>1. Goes(Q, j, Q[n], r)
        BY <3>4, <3>11
      <4> QED
        BY <3>1, <3>12, <3>15, <4>1, BuiltNext
    <3>17. m - 1 - f[n + 1].j = r + 1
      BY <3>6, <3>9
    <3>18. Typed(n + 1)
      <4>1. \A x \in m - n..m : b[x] \in Int
        BY <3>1
      <4>2. entry \in Int
        <5>1. CASE i - 1 >= 0 /\ P[i - 1] = P[k - 1]
          <6>1. entry = b[k]
            BY <3>9, <5>1
          <6> HIDE DEF entry, k, b
          <6> QED
            BY <3>9, <4>1, <6>1
        <5>2. CASE ~(i - 1 >= 0 /\ P[i - 1] = P[k - 1])
          <6>1. entry = k - 1
            BY <5>2
          <6> HIDE DEF k
          <6> QED
            BY <3>4, <6>1
        <5> QED
          BY <5>1, <5>2
      <4>3. \A x \in m - (n + 1)..m : x \in i..m /\ (x > i => x \in m - n..m)
        BY <3>1
      <4> HIDE DEF i, b, entry, k
      <4>4. \A x \in m - (n + 1)..m : f[n + 1].table[x] \in Int
        BY <3>7, <4>1, <4>2, <4>3
      <4>5. f[n + 1].j \in Int
        BY <3>4, <3>6
      <4> QED
        BY <4>4, <4>5
    <3> HIDE DEF Typed, r, Q
    <3> QED
      BY <3>16, <3>17, <3>18
  <2> HIDE DEF Typed, Mirrored
  <2> QED
    BY <2>1
<1>6. S = Nat
  <2> HIDE DEF S
  <2>1. S \in SUBSET Nat
    BY DEF S
  <2> QED
    BY <1>4, <1>5, <2>1, Induction
<1>7. Typed(m) /\ Built(Q, m, m, Mirrored(m), m - 1 - f[m].j)
  <2>1. m \in S
    <3> HIDE DEF S
    <3> QED
      BY <1>6
  <2> HIDE DEF Typed, Mirrored
  <2> QED
    BY <2>1
<1>8. \A x \in 0..m - 1 : x \in 0..m /\ x < m
  OBVIOUS
<1>9. \A x \in 0..m - 1 : MirrorTable(f[m].table, m, m - 1)[x] = Mirrored(m)[x]
  BY <1>8 DEF MirrorTable
<1>10. LinksBack(Q, MirrorTable(f[m].table, m, m - 1), m - 1)
  <2> HIDE DEF Mirrored, Q
  <2> QED
    BY <1>7, <1>8, <1>9 DEF Built, LinksBack
<1>11. \A x \in 1..m : x \in m - m..m
  OBVIOUS
<1>12. \A x \in 1..m : f[m].table[x] \in Int
  BY <1>7, <1>11
<1> QED
  BY <1>2, <1>10, <1>12

-----------------------------------------------------------------------------
(* The outer loop.                                                         *)

\* After j characters of H the first i of P are what matches.
Reading(P, H, m, j, i) ==
  /\ i \in 0..m - 1
  /\ Longest(P, H, j, i, IF j < m THEN j ELSE m - 1)

\* No P ends in H after the a-th character and up to the b-th.
NoneEnds(P, H, m, a, b) == \A e \in a + 1..b : e >= m => ~Ends(P, H, e, m)

\* s is where the first P begins that ends after j characters, -1 if there is none.
Answer(P, H, m, n, j, s) ==
  \/ s = -1 /\ NoneEnds(P, H, m, j, n)
  \/ /\ s \in 0..n - m /\ s + m > j
     /\ Ends(P, H, s + m, m)
     /\ NoneEnds(P, H, m, j, s + m - 1)

LEMMA NothingLeft ==
  ASSUME NEW P, NEW H, NEW m \in Nat, NEW n \in Nat, NEW j \in 0..n, NEW i,
         Reading(P, H, m, j, i), ~(j < n /\ n - j + i >= m)
  PROVE  Answer(P, H, m, n, j, -1)
<1>1. ASSUME NEW e \in j + 1..n, e >= m, Ends(P, H, e, m) PROVE FALSE
  <2>1. i \in 0..m - 1 /\ j \in Nat /\ j <= n
    BY DEF Reading
  <2> DEFINE t == e - j
  <2>2. /\ e \in Nat /\ j < n /\ n - j + i < m
        /\ t \in Nat /\ t <= m /\ t <= e /\ e - t = j /\ m - t \in i + 1..m - 1
        /\ m - t <= j
    BY <1>1, <2>1
  <2> HIDE DEF t
  <2>3. Ends(P, H, e - t, m - t)
    BY <1>1, <2>2, EndsShorter
  <2>4. m - t \in i + 1..(IF j < m THEN j ELSE m - 1)
    BY <2>1, <2>2
  <2> QED
    BY <2>2, <2>3, <2>4 DEF Reading, Longest
<1> QED
  BY <1>1 DEF Answer, NoneEnds

LEMMA NextRead ==
  ASSUME NEW P, NEW H, NEW m \in Nat, NEW n \in Nat, NEW j \in 0..n - 1, NEW i,
         Reading(P, H, m, j, i), NEW r, Goes(P, i, H[j], r)
  PROVE  /\ r + 1 \in 0..m
         /\ r + 1 >= m => Answer(P, H, m, n, j, j + 1 - m)
         /\ r + 1 < m =>
              /\ Reading(P, H, m, j + 1, r + 1)
              /\ \A s : Answer(P, H, m, n, j + 1, s) => Answer(P, H, m, n, j, s)
<1> DEFINE K == IF j < m THEN j ELSE m - 1
<1>1. i \in 0..m - 1 /\ j \in Nat /\ j < n
  BY DEF Reading
<1>2. r \in -1..i
  BY DEF Goes
<1>3. r + 1 \in 0..m /\ r + 1 \in Nat
  BY <1>1, <1>2
<1>4. K \in Int /\ K <= j /\ K + 1 <= m /\ (j + 1 < m => K + 1 = j + 1)
      /\ (j + 1 >= m => K + 1 = m)
  BY <1>1
<1>5. Longest(P, H, j + 1, r + 1, K + 1)
  <2>1. Longest(P, H, j, i, K)
    BY DEF Reading
  <2> HIDE DEF K
  <2> QED
    BY <1>1, <1>4, <2>1, LongestNext
<1> HIDE DEF K
<1>6. CASE r + 1 >= m
  <2>1. r + 1 = m
    BY <1>3, <1>6
  <2>2. r + 1 <= K + 1 /\ r + 1 >= 0
    BY <1>3, <1>4, <1>5 DEF Longest
  <2>3. m <= j + 1
    BY <1>1, <1>4, <2>1, <2>2
  <2>4. Ends(P, H, j + 1, m)
    BY <1>5, <2>1, <2>2 DEF Longest
  <2> DEFINE s == j + 1 - m
  <2>5. s \in 0..n - m /\ s + m = j + 1 /\ s + m > j /\ j + 1..s + m - 1 = {}
    BY <1>1, <2>3
  <2> HIDE DEF s
  <2>6. Answer(P, H, m, n, j, s)
    BY <2>4, <2>5 DEF Answer, NoneEnds
  <2> QED
    BY <1>3, <1>6, <2>6 DEF s
<1>7. CASE r + 1 < m
  <2>1. Reading(P, H, m, j + 1, r + 1)
    <3> DEFINE L == IF j + 1 < m THEN j + 1 ELSE m - 1
    <3>1. L \in Int /\ L <= K + 1
      BY <1>1, <1>4
    <3>2. r + 1 <= L
      <4>1. r + 1 <= K + 1
        BY <1>5 DEF Longest
      <4> QED
        BY <1>1, <1>3, <1>4, <1>7, <4>1
    <3>3. r + 1 \in -1..L /\ \A k \in (r + 1) + 1..L : k \in (r + 1) + 1..K + 1
      <4> HIDE DEF L
      <4> QED
        BY <1>3, <1>4, <3>1, <3>2
    <3>4. Longest(P, H, j + 1, r + 1, L)
      <4> HIDE DEF L
      <4> QED
        BY <1>5, <3>3 DEF Longest
    <3>5. r + 1 \in 0..m - 1
      BY <1>3, <1>7
    <3> QED
      BY <3>4, <3>5 DEF Reading
  <2>2. j + 1 >= m => ~Ends(P, H, j + 1, m)
    <3>1. j + 1 >= m => m \in (r + 1) + 1..K + 1
      BY <1>1, <1>3, <1>4, <1>7
    <3> QED
      BY <1>5, <3>1 DEF Longest
  <2>3. ASSUME NEW b \in Int, NoneEnds(P, H, m, j + 1, b)
        PROVE  NoneEnds(P, H, m, j, b)
    <3>1. \A e \in j + 1..b : e = j + 1 \/ e \in (j + 1) + 1..b
      BY <1>1
    <3> QED
      BY <2>2, <2>3, <3>1 DEF NoneEnds
  <2>4. ASSUME NEW s, Answer(P, H, m, n, j + 1, s) PROVE Answer(P, H, m, n, j, s)
    <3>1. CASE s = -1 /\ NoneEnds(P, H, m, j + 1, n)
      <4>1. NoneEnds(P, H, m, j, n)
        BY <2>3, <3>1
      <4> QED
        BY <3>1, <4>1 DEF Answer
    <3>2. CASE /\ s \in 0..n - m /\ s + m > j + 1
               /\ Ends(P, H, s + m, m)
               /\ NoneEnds(P, H, m, j + 1, s + m - 1)
      <4>1. s + m - 1 \in Int /\ s + m > j
        BY <1>1, <3>2
      <4>2. NoneEnds(P, H, m, j, s + m - 1)
        BY <2>3, <3>2, <4>1
      <4> QED
        BY <3>2, <4>1, <4>2 DEF Answer
    <3> QED
      BY <2>4, <3>1, <3>2 DEF Answer
  <2> QED
    BY <1>3, <1>7, <2>1, <2>4
<1> QED
  BY <1>3, <1>6, <1>7

\* h[<< i, j >>] is what the loop returns that has read j characters, of which the
\* last i match; it returns at[s] for a P that begins at s.
LoopReads(P, H, m, n, h, at) ==
  \A i \in 0..m - 1, j \in 0..n :
    i <= j =>
    IF ~(j < n /\ n - j + i >= m) THEN h[<< i, j >>] = at[-1]
    ELSE \E r : /\ Goes(P, i, H[j], r)
                /\ h[<< i, j >>] = IF r + 1 >= m THEN at[j + 1 - m]
                                   ELSE h[<< r + 1, j + 1 >>]

LEMMA ReadsFirst ==
  ASSUME NEW P, NEW H, NEW m \in Nat \ {0}, NEW n \in Nat, NEW h, NEW at,
         LoopReads(P, H, m, n, h, at)
  PROVE  \E s : Answer(P, H, m, n, 0, s) /\ h[<< 0, 0 >>] = at[s]
<1> DEFINE Answered(i, j) == \E s : Answer(P, H, m, n, j, s) /\ h[<< i, j >>] = at[s]
           Upto(q) == \A i \in 0..m - 1, j \in 0..n :
                        n - j <= q /\ Reading(P, H, m, j, i) => Answered(i, j)
           S == {q \in Nat : Upto(q)}
<1>10. ASSUME NEW i \in 0..m - 1, NEW j \in 0..n, Reading(P, H, m, j, i)
       PROVE  i <= j
  <2> DEFINE K == IF j < m THEN j ELSE m - 1
  <2>1. K \in Int /\ K <= j
    OBVIOUS
  <2>2. i \in -1..K
    <3> HIDE DEF K
    <3>1. Longest(P, H, j, i, K)
      BY <1>10 DEF Reading, K
    <3> QED
      BY <3>1 DEF Longest
  <2> HIDE DEF K
  <2> QED
    BY <2>1, <2>2
<1>1. ASSUME NEW i \in 0..m - 1, NEW j \in 0..n, Reading(P, H, m, j, i),
             ~(j < n /\ n - j + i >= m)
      PROVE  Answered(i, j)
  <2>1. h[<< i, j >>] = at[-1]
    BY <1>1, <1>10 DEF LoopReads
  <2>2. Answer(P, H, m, n, j, -1)
    BY <1>1, NothingLeft
  <2> QED
    BY <2>1, <2>2
<1>2. ASSUME NEW i \in 0..m - 1, NEW j \in 0..n, Reading(P, H, m, j, i),
             j < n /\ n - j + i >= m,
             \A k \in 0..m - 1 : Reading(P, H, m, j + 1, k) => Answered(k, j + 1)
      PROVE  Answered(i, j)
  <2>1. PICK r : /\ Goes(P, i, H[j], r)
                 /\ h[<< i, j >>] = IF r + 1 >= m THEN at[j + 1 - m]
                                    ELSE h[<< r + 1, j + 1 >>]
    BY <1>2, <1>10 DEF LoopReads
  <2>2. j \in 0..n - 1
    BY <1>2
  <2>3. /\ r + 1 \in 0..m
        /\ r + 1 >= m => Answer(P, H, m, n, j, j + 1 - m)
        /\ r + 1 < m =>
             /\ Reading(P, H, m, j + 1, r + 1)
             /\ \A s : Answer(P, H, m, n, j + 1, s) => Answer(P, H, m, n, j, s)
    BY <1>2, <2>1, <2>2, NextRead
  <2>4. CASE r + 1 >= m
    BY <2>1, <2>3, <2>4
  <2>5. CASE ~(r + 1 >= m)
    <3>1. r + 1 < m /\ r + 1 \in 0..m - 1
      BY <2>3, <2>5
    <3>2. PICK s : Answer(P, H, m, n, j + 1, s) /\ h[<< r + 1, j + 1 >>] = at[s]
      BY <1>2, <2>3, <3>1
    <3> QED
      BY <2>1, <2>3, <2>5, <3>1, <3>2
  <2> QED
    BY <2>4, <2>5
<1>3. 0 \in S
  <2>1. ASSUME NEW i \in 0..m - 1, NEW j \in 0..n, n - j <= 0,
               Reading(P, H, m, j, i)
        PROVE  Answered(i, j)
    <3>1. ~(j < n)
      BY <2>1
    <3> HIDE DEF Answered
    <3> QED
      BY <1>1, <2>1, <3>1
  <2> HIDE DEF Answered
  <2> QED
    BY <2>1
<1>4. ASSUME NEW q \in Nat, q \in S PROVE q + 1 \in S
  <2>1. ASSUME NEW i \in 0..m - 1, NEW j \in 0..n, n - j <= q + 1,
               Reading(P, H, m, j, i)
        PROVE  Answered(i, j)
    <3>1. CASE ~(j < n /\ n - j + i >= m)
      BY <1>1, <2>1, <3>1
    <3>2. CASE j < n /\ n - j + i >= m
      <4>1. j + 1 \in 0..n /\ n - (j + 1) <= q
        BY <2>1, <3>2
      <4> HIDE DEF Answered
      <4>2. \A k \in 0..m - 1 : Reading(P, H, m, j + 1, k) => Answered(k, j + 1)
        BY <1>4, <4>1
      <4> QED
        BY <1>2, <2>1, <3>2, <4>2
    <3> QED
      BY <3>1, <3>2
  <2> HIDE DEF Answered
  <2> QED
    BY <2>1
<1>5. S = Nat
  <2> HIDE DEF S
  <2>1. S \in SUBSET Nat
    BY DEF S
  <2> QED
    BY <1>3, <1>4, <2>1, Induction
<1>6. Upto(n)
  <2>1. n \in S
    <3> HIDE DEF S
    <3> QED
      BY <1>5
  <2> HIDE DEF Upto
  <2> QED
    BY <2>1
<1>7. Reading(P, H, m, 0, 0)
  <2>1. 0 < m /\ 0 \in 0..m - 1 /\ 0 \in -1..0 /\ 0 + 1..0 = {} /\ 0..0 - 1 = {}
    OBVIOUS
  <2> QED
    BY <2>1 DEF Reading, Longest, Ends
<1>8. 0 \in 0..m - 1 /\ 0 \in 0..n /\ n - 0 <= n
  OBVIOUS
<1>9. Answered(0, 0)
  <2> HIDE DEF Answered
  <2> QED
    BY <1>6, <1>7, <1>8
<1> QED
  BY <1>9

LEMMA LinksBackTo ==
  ASSUME NEW P, NEW t, NEW m \in Nat, LinksBack(P, t, m - 1), NEW i \in 0..m - 1
  PROVE  LinksBack(P, t, i)
<1>1. \A x \in 0..i : x \in 0..m - 1
  OBVIOUS
<1> QED
  BY <1>1 DEF LinksBack

LEMMA FindFirst ==
  ASSUME NEW P, NEW m \in Nat \ {0}, Length(P) = m, NEW H, NEW n \in Nat, Length(H) = n,
         NEW table, LinksBack(P, table, m - 1)
  PROVE  Answer(P, H, m, n, 0, Find(H, P, table))
<1> DEFINE D == (0..m - 1) \X (0..n)
           Back1(p) == Back(P, table, p[1], H[p[2]]) + 1
           Ended(p) == ~(p[2] < n /\ n - p[2] + p[1] >= m)
           Runs(f) == f = [p \in D |-> IF Ended(p) THEN -1
                                       ELSE IF Back1(p) >= m THEN p[2] + 1 - Back1(p)
                                       ELSE f[<< Back1(p), p[2] + 1 >>]]
<1>1. ASSUME NEW i \in 0..m - 1, NEW c
      PROVE  /\ Goes(P, i, c, Back(P, table, i, c))
             /\ Back(P, table, i, c) \in -1..i
  <2>1. LinksBack(P, table, i)
    BY LinksBackTo
  <2>2. Goes(P, i, c, Back(P, table, i, c))
    BY <2>1, BackGoes
  <2> QED
    BY <2>2 DEF Goes
<1>2. ASSUME NEW p \in D
      PROVE  /\ p[1] \in 0..m - 1 /\ p[2] \in 0..n /\ p = << p[1], p[2] >>
             /\ Back1(p) \in 0..m
  <2>1. p[1] \in 0..m - 1 /\ p[2] \in 0..n /\ p = << p[1], p[2] >>
    OBVIOUS
  <2>2. Back(P, table, p[1], H[p[2]]) \in -1..p[1]
    BY <1>1, <2>1
  <2>3. Back1(p) \in 0..m
    BY <2>1, <2>2
  <2> QED
    BY <2>1, <2>3
<1>3. \E f : Runs(f)
  <2> DEFINE Stops == {p \in D : Ended(p) \/ Back1(p) >= m}
             W == [p \in D |-> IF Ended(p) THEN -1 ELSE p[2] + 1 - Back1(p)]
             Nx == [p \in D |-> << Back1(p), p[2] + 1 >>]
             rank == [p \in D |-> n - p[2]]
  <2>1. rank \in [D -> 0..n]
    <3>1. \A p \in D : n - p[2] \in 0..n
      BY <1>2
    <3> HIDE DEF D
    <3> QED
      BY <3>1
  <2>2. ASSUME NEW p \in D, p \notin Stops
        PROVE  Nx[p] \in D /\ rank[Nx[p]] < rank[p]
    <3> DEFINE k == Back1(p)
               j == p[2]
    <3>1. ~Ended(p) /\ ~(k >= m)
      BY <2>2
    <3>2. j \in 0..n /\ j < n /\ k \in 0..m
      <4>1. j < n
        BY <3>1
      <4> HIDE DEF Back1
      <4> QED
        BY <1>2, <4>1
    <3> HIDE DEF k, j
    <3>3. k \in 0..m - 1 /\ j + 1 \in 0..n /\ n - (j + 1) < n - j
      BY <3>1, <3>2
    <3>4. Nx[p] = << k, j + 1 >>
      BY DEF k, j
    <3>5. << k, j + 1 >> \in D /\ << k, j + 1 >>[2] = j + 1
      BY <3>3
    <3>6. rank[p] = n - j /\ rank[<< k, j + 1 >>] = n - (j + 1)
      BY <3>5 DEF j
    <3> HIDE DEF D, rank, Nx
    <3> QED
      BY <3>3, <3>4, <3>5, <3>6
  <2>3. Descends(D, Stops, Nx, rank)
    <3> HIDE DEF D, Stops, Nx, rank
    <3> QED
      BY <2>2 DEF Descends
  <2>4. PICK f : LoopsAs(D, Stops, W, Nx, f)
    <3> HIDE DEF D, Stops, W, Nx, rank
    <3> QED
      BY <2>1, <2>3, LoopEnds
  <2>5. f = [p \in D |-> IF p \in Stops THEN W[p] ELSE f[Nx[p]]]
    BY <2>4 DEF LoopsAs
  <2> HIDE DEF D, Ended, Back1
  <2>6. ASSUME NEW p \in D
        PROVE  f[p] = IF Ended(p) THEN -1
                      ELSE IF Back1(p) >= m THEN p[2] + 1 - Back1(p)
                      ELSE f[<< Back1(p), p[2] + 1 >>]
    <3>1. f[p] = IF p \in Stops THEN W[p] ELSE f[Nx[p]]
      <4> HIDE DEF Stops, W, Nx
      <4> QED
        BY <2>5
    <3>2. /\ p \in Stops <=> Ended(p) \/ Back1(p) >= m
          /\ W[p] = IF Ended(p) THEN -1 ELSE p[2] + 1 - Back1(p)
          /\ Nx[p] = << Back1(p), p[2] + 1 >>
      OBVIOUS
    <3> HIDE DEF Stops, W, Nx
    <3> QED
      BY <3>1, <3>2
  <2>7. f = [p \in D |-> f[p]]
    <3> HIDE DEF Stops, W, Nx
    <3> QED
      BY <2>5
  <2>8. Runs(f)
    BY <2>6, <2>7
  <2> HIDE DEF Runs
  <2> QED
    BY <2>8
<1> DEFINE f == CHOOSE f : Runs(f)
<1>4. Runs(f)
  <2> HIDE DEF Runs
  <2> QED
    BY <1>3
<1>5. Find(H, P, table) = f[<< 0, 0 >>]
  BY DEF Find
<1> HIDE DEF f
<1> DEFINE at == [s \in Int |-> s]
<1>6. LoopReads(P, H, m, n, f, at)
  <2> SUFFICES ASSUME NEW i \in 0..m - 1, NEW j \in 0..n, i <= j
               PROVE  IF ~(j < n /\ n - j + i >= m) THEN f[<< i, j >>] = at[-1]
                      ELSE \E r : /\ Goes(P, i, H[j], r)
                                  /\ f[<< i, j >>] = IF r + 1 >= m THEN at[j + 1 - m]
                                                     ELSE f[<< r + 1, j + 1 >>]
    BY DEF LoopReads
  <2> DEFINE r == Back(P, table, i, H[j])
  <2>1. Goes(P, i, H[j], r) /\ r \in -1..i
    BY <1>1
  <2>2. << i, j >> \in D /\ << i, j >>[1] = i /\ << i, j >>[2] = j
    OBVIOUS
  <2>3. f[<< i, j >>] = IF ~(j < n /\ n - j + i >= m) THEN -1
                        ELSE IF r + 1 >= m THEN j + 1 - (r + 1)
                        ELSE f[<< r + 1, j + 1 >>]
    <3> DEFINE p == << i, j >>
    <3>1. p \in D /\ p[1] = i /\ p[2] = j
      BY <2>2
    <3> HIDE DEF p, D
    <3>2. f[p] = IF Ended(p) THEN -1
                 ELSE IF Back1(p) >= m THEN p[2] + 1 - Back1(p)
                 ELSE f[<< Back1(p), p[2] + 1 >>]
      <4> HIDE DEF Ended, Back1
      <4> QED
        BY <1>4, <3>1
    <3> QED
      BY <3>1, <3>2 DEF p
  <2>4. at[-1] = -1 /\ at[j + 1 - m] = j + 1 - m
    OBVIOUS
  <2>5. r + 1 >= m => r + 1 = m
    <3> HIDE DEF r
    <3> QED
      BY <2>1
  <2> HIDE DEF r, at, D
  <2>6. CASE ~(j < n /\ n - j + i >= m)
    BY <2>3, <2>4, <2>6
  <2>7. CASE j < n /\ n - j + i >= m
    <3>1. f[<< i, j >>] = IF r + 1 >= m THEN at[j + 1 - m] ELSE f[<< r + 1, j + 1 >>]
      <4>1. CASE r + 1 >= m
        BY <2>3, <2>4, <2>5, <2>7, <4>1
      <4>2. CASE ~(r + 1 >= m)
        BY <2>3, <2>7, <4>2
      <4> QED
        BY <4>1, <4>2
    <3> QED
      BY <2>1, <2>7, <3>1
  <2> QED
    BY <2>6, <2>7
<1>7. PICK s : Answer(P, H, m, n, 0, s) /\ f[<< 0, 0 >>] = at[s]
  <2> HIDE DEF at
  <2> QED
    BY <1>6, ReadsFirst
<1>8. s \in Int
  BY <1>7 DEF Answer
<1>9. at[s] = s
  BY <1>8
<1> QED
  <2> HIDE DEF at
  <2> QED
    BY <1>5, <1>7, <1>9

\* r is where the last P begins in H: the first of their mirror images.
IsLast(P, H, m, n, r) ==
  \E s : /\ Answer(Mirror(P, m), Mirror(H, n), m, n, 0, s)
         /\ r = IF s = -1 THEN -1 ELSE n - m - s

LEMMA FindRLast ==
  ASSUME NEW P, NEW m \in Nat \ {0}, Length(P) = m, NEW H, NEW n \in Nat, Length(H) = n,
         NEW table, \A x \in 1..m : table[x] \in Int,
         LinksBack(Mirror(P, m), MirrorTable(table, m, m - 1), m - 1)
  PROVE  IsLast(P, H, m, n, FindR(H, P, table))
<1> DEFINE D == (0..m - 1) \X (-1..n - 1)
           Q == Mirror(P, m)
           G == Mirror(H, n)
           Back1(p) == BackR(P, table, p[1], H[p[2]]) - 1
           Ended(p) == ~(p[2] >= 0 /\ p[2] >= p[1])
           Runs(f) == f = [p \in D |-> IF Ended(p) THEN -1
                                       ELSE IF Back1(p) < 0 THEN p[2]
                                       ELSE f[<< Back1(p), p[2] - 1 >>]]
<1>1. ASSUME NEW i \in 0..m - 1, NEW c
      PROVE  /\ BackR(P, table, m - 1 - i, c) \in Int
             /\ Goes(Q, i, c, m - 1 - BackR(P, table, m - 1 - i, c))
             /\ m - 1 - BackR(P, table, m - 1 - i, c) \in -1..i
  <2>1. LinksBack(Q, MirrorTable(table, m, i), i)
    <3>1. LinksBack(Q, MirrorTable(table, m, m - 1), i)
      <4> HIDE DEF Q
      <4>1. LinksBack(Q, MirrorTable(table, m, m - 1), m - 1)
        BY DEF Q
      <4> DEFINE t == MirrorTable(table, m, m - 1)
      <4> HIDE DEF t
      <4> QED
        BY <4>1, LinksBackTo DEF t
    <3>2. \A x \in 0..i : MirrorTable(table, m, m - 1)[x] = MirrorTable(table, m, i)[x]
      <4>1. \A x \in 0..i : x \in 0..m - 1
        OBVIOUS
      <4> QED
        BY <4>1 DEF MirrorTable
    <3> HIDE DEF Q
    <3> QED
      BY <3>1, <3>2 DEF LinksBack
  <2>2. i \in -1..m - 1 /\ \A x \in m - i..m : table[x] \in Int
    <3>1. \A x \in m - i..m : x \in 1..m
      OBVIOUS
    <3> QED
      BY <3>1
  <2>3. /\ BackR(P, table, m - 1 - i, c) \in Int
        /\ Goes(Q, i, c, m - 1 - BackR(P, table, m - 1 - i, c))
    BY <2>1, <2>2, BackRGoes
  <2> HIDE DEF Q
  <2> QED
    BY <2>3 DEF Goes
<1>2. ASSUME NEW p \in D
      PROVE  /\ p[1] \in 0..m - 1 /\ p[2] \in -1..n - 1 /\ p = << p[1], p[2] >>
             /\ Back1(p) \in -1..m - 1
  <2>1. p[1] \in 0..m - 1 /\ p[2] \in -1..n - 1 /\ p = << p[1], p[2] >>
    OBVIOUS
  <2>2. PICK i \in 0..m - 1 : m - 1 - i = p[1]
    <3>1. m - 1 - p[1] \in 0..m - 1 /\ m - 1 - (m - 1 - p[1]) = p[1]
      BY <2>1
    <3> QED
      BY <3>1
  <2> DEFINE k == BackR(P, table, p[1], H[p[2]])
  <2>3. k \in Int /\ m - 1 - k \in -1..i
    BY <1>1, <2>2
  <2> HIDE DEF k
  <2>4. k - 1 \in -1..m - 1
    BY <2>3
  <2> QED
    BY <2>1, <2>4 DEF k
<1>3. \E f : Runs(f)
  <2> DEFINE Stops == {p \in D : Ended(p) \/ Back1(p) < 0}
             W == [p \in D |-> IF Ended(p) THEN -1 ELSE p[2]]
             Nx == [p \in D |-> << Back1(p), p[2] - 1 >>]
             rank == [p \in D |-> p[2] + 1]
  <2>1. rank \in [D -> 0..n]
    <3>1. \A p \in D : p[2] + 1 \in 0..n
      BY <1>2
    <3> HIDE DEF D
    <3> QED
      BY <3>1
  <2>2. ASSUME NEW p \in D, p \notin Stops
        PROVE  Nx[p] \in D /\ rank[Nx[p]] < rank[p]
    <3> DEFINE k == Back1(p)
               j == p[2]
    <3>1. ~Ended(p) /\ ~(k < 0)
      BY <2>2
    <3>2. j \in -1..n - 1 /\ j >= 0 /\ k \in -1..m - 1
      <4>1. j >= 0
        BY <3>1
      <4> HIDE DEF Back1
      <4> QED
        BY <1>2, <4>1
    <3> HIDE DEF k, j
    <3>3. k \in 0..m - 1 /\ j - 1 \in -1..n - 1 /\ (j - 1) + 1 < j + 1
      BY <3>1, <3>2
    <3>4. Nx[p] = << k, j - 1 >>
      BY DEF k, j
    <3>5. << k, j - 1 >> \in D /\ << k, j - 1 >>[2] = j - 1
      BY <3>3
    <3>6. rank[p] = j + 1 /\ rank[<< k, j - 1 >>] = (j - 1) + 1
      BY <3>5 DEF j
    <3> HIDE DEF D, rank, Nx
    <3> QED
      BY <3>3, <3>4, <3>5, <3>6
  <2>3. Descends(D, Stops, Nx, rank)
    <3> HIDE DEF D, Stops, Nx, rank
    <3> QED
      BY <2>2 DEF Descends
  <2>4. PICK f : LoopsAs(D, Stops, W, Nx, f)
    <3> HIDE DEF D, Stops, W, Nx, rank
    <3> QED
      BY <2>1, <2>3, LoopEnds
  <2>5. f = [p \in D |-> IF p \in Stops THEN W[p] ELSE f[Nx[p]]]
    BY <2>4 DEF LoopsAs
  <2> HIDE DEF D, Ended, Back1
  <2>6. ASSUME NEW p \in D
        PROVE  f[p] = IF Ended(p) THEN -1
                      ELSE IF Back1(p) < 0 THEN p[2]
                      ELSE f[<< Back1(p), p[2] - 1 >>]
    <3>1. f[p] = IF p \in Stops THEN W[p] ELSE f[Nx[p]]
      <4> HIDE DEF Stops, W, Nx
      <4> QED
        BY <2>5
    <3>2. /\ p \in Stops <=> Ended(p) \/ Back1(p) < 0
          /\ W[p] = IF Ended(p) THEN -1 ELSE p[2]
          /\ Nx[p] = << Back1(p), p[2] - 1 >>
      OBVIOUS
    <3> HIDE DEF Stops, W, Nx
    <3> QED
      BY <3>1, <3>2
  <2>7. f = [p \in D |-> f[p]]
    <3> HIDE DEF Stops, W, Nx
    <3> QED
      BY <2>5
  <2>8. Runs(f)
    BY <2>6, <2>7
  <2> HIDE DEF Runs
  <2> QED
    BY <2>8
<1> DEFINE f == CHOOSE f : Runs(f)
<1>4. Runs(f)
  <2> HIDE DEF Runs
  <2> QED
    BY <1>3
<1>5. FindR(H, P, table) = f[<< m - 1, n - 1 >>]
  BY DEF FindR
<1> HIDE DEF f
<1> DEFINE at == [s \in Int |-> IF s = -1 THEN -1 ELSE n - m - s]
           h == [p \in (0..m - 1) \X (0..n) |-> f[<< m - 1 - p[1], n - 1 - p[2] >>]]
<1>6. ASSUME NEW i \in 0..m - 1, NEW j \in 0..n
      PROVE  h[<< i, j >>] = f[<< m - 1 - i, n - 1 - j >>]
  OBVIOUS
<1>7. LoopReads(Q, G, m, n, h, at)
  <2> SUFFICES ASSUME NEW i \in 0..m - 1, NEW j \in 0..n, i <= j
               PROVE  IF ~(j < n /\ n - j + i >= m) THEN h[<< i, j >>] = at[-1]
                      ELSE \E r : /\ Goes(Q, i, G[j], r)
                                  /\ h[<< i, j >>] = IF r + 1 >= m THEN at[j + 1 - m]
                                                     ELSE h[<< r + 1, j + 1 >>]
    <3> HIDE DEF h, at, Q, G
    <3> QED
      BY DEF LoopReads
  <2> DEFINE x == m - 1 - i
             y == n - 1 - j
             k == BackR(P, table, x, H[y])
             r == m - 1 - k
  <2>1. /\ x \in 0..m - 1 /\ y \in -1..n - 1
        /\ (y >= 0 /\ y >= x) <=> (j < n /\ n - j + i >= m)
    OBVIOUS
  <2>2. k \in Int /\ Goes(Q, i, H[y], r) /\ r \in -1..i
    BY <1>1
  <2>3. f[<< x, y >>] = IF ~(y >= 0 /\ y >= x) THEN -1
                        ELSE IF k - 1 < 0 THEN y ELSE f[<< k - 1, y - 1 >>]
    <3> HIDE DEF x, y
    <3>1. << x, y >> \in D /\ << x, y >>[1] = x /\ << x, y >>[2] = y
      BY <2>1
    <3> DEFINE p == << x, y >>
    <3>2. p \in D /\ p[1] = x /\ p[2] = y
      BY <3>1
    <3> HIDE DEF p, D
    <3>3. f[p] = IF Ended(p) THEN -1
                 ELSE IF Back1(p) < 0 THEN p[2]
                 ELSE f[<< Back1(p), p[2] - 1 >>]
      <4> HIDE DEF Ended, Back1
      <4> QED
        BY <1>4, <3>2
    <3> QED
      BY <3>2, <3>3 DEF p
  <2>4. h[<< i, j >>] = f[<< x, y >>]
    BY <1>6
  <2>5. CASE ~(j < n /\ n - j + i >= m)
    <3>1. at[-1] = -1
      OBVIOUS
    <3> HIDE DEF x, y, h, at
    <3> QED
      BY <2>1, <2>3, <2>4, <2>5, <3>1
  <2>6. CASE j < n /\ n - j + i >= m
    <3>1. G[j] = H[y]
      <4>1. j \in 0..n - 1
        BY <2>6
      <4> QED
        BY <4>1 DEF Mirror
    <3>2. k \in Int /\ r \in -1..i /\ k = m - 1 - r /\ r \in Int
      <4> HIDE DEF k
      <4> QED
        BY <2>2
    <3>3. (k - 1 < 0 <=> r + 1 >= m) /\ k - 1 = m - 1 - (r + 1)
          /\ y - 1 = n - 1 - (j + 1) /\ (r + 1 < m => r + 1 \in 0..m - 1)
          /\ j + 1 \in 0..n
      <4> HIDE DEF k, r
      <4> QED
        BY <2>6, <3>2
    <3>4. r + 1 >= m => at[j + 1 - m] = y
      <4>1. j + 1 - m \in Int /\ n - m - (j + 1 - m) = y
        OBVIOUS
      <4>2. r + 1 >= m => j + 1 - m # -1
        <5> HIDE DEF r
        <5> QED
          BY <3>2
      <4>3. j + 1 - m # -1 => at[j + 1 - m] = y
        BY <4>1
      <4> QED
        BY <4>2, <4>3
    <3>5. h[<< i, j >>] = IF r + 1 >= m THEN at[j + 1 - m]
                          ELSE h[<< r + 1, j + 1 >>]
      <4>1. CASE r + 1 >= m
        <5> HIDE DEF x, y, k, r, h, at
        <5> QED
          BY <2>1, <2>3, <2>4, <2>6, <3>3, <3>4, <4>1
      <4>2. CASE ~(r + 1 >= m)
        <5>1. r + 1 \in 0..m - 1
          <6> HIDE DEF r, k
          <6> QED
            BY <3>2, <3>3, <4>2
        <5> HIDE DEF h
        <5>2. h[<< r + 1, j + 1 >>] = f[<< m - 1 - (r + 1), n - 1 - (j + 1) >>]
          <6> HIDE DEF r
          <6> QED
            BY <1>6, <3>3, <5>1
        <5>3. h[<< r + 1, j + 1 >>] = f[<< k - 1, y - 1 >>]
          <6> HIDE DEF r, k, y
          <6> QED
            BY <3>3, <5>2
        <5> HIDE DEF x, y, k, r, at
        <5> QED
          BY <2>1, <2>3, <2>4, <2>6, <3>3, <4>2, <5>3
      <4> QED
        BY <4>1, <4>2
    <3>6. Goes(Q, i, G[j], r)
      <4> HIDE DEF Q, G, r, y
      <4> QED
        BY <2>2, <3>1
    <3> HIDE DEF r, h, at, Q, G
    <3> QED
      BY <2>6, <3>5, <3>6
  <2> HIDE DEF h, at, Q, G
  <2> QED
    BY <2>5, <2>6
<1>8. PICK s : Answer(Q, G, m, n, 0, s) /\ h[<< 0, 0 >>] = at[s]
  <2> HIDE DEF at, h, Q, G
  <2> QED
    BY <1>7, ReadsFirst
<1>9. s \in Int
  <2> HIDE DEF Q, G
  <2> QED
    BY <1>8 DEF Answer
<1>10. at[s] = IF s = -1 THEN -1 ELSE n - m - s
  BY <1>9
<1>11. h[<< 0, 0 >>] = f[<< m - 1, n - 1 >>]
  <2>1. 0 \in 0..m - 1 /\ 0 \in 0..n /\ m - 1 - 0 = m - 1 /\ n - 1 - 0 = n - 1
    OBVIOUS
  <2> HIDE DEF h
  <2> QED
    BY <1>6, <2>1
<1> QED
  <2> HIDE DEF at, h
  <2> QED
    BY <1>5, <1>8, <1>10, <1>11 DEF IsLast

-----------------------------------------------------------------------------
(* Searches.                                                               *)

LEMMA LeftmostIs ==
  ASSUME NEW S, S \subseteq Int, NEW k \in S, \A x \in S : k <= x
  PROVE  Leftmost(S) = k
<1>1. S # {} /\ \A x \in S : (\A y \in S : x <= y) => x = k
  OBVIOUS
<1> QED
  BY <1>1 DEF Leftmost

LEMMA RightmostIs ==
  ASSUME NEW S, S \subseteq Int, NEW k \in S, \A x \in S : x <= k
  PROVE  Rightmost(S) = k
<1>1. S # {} /\ \A x \in S : (\A y \in S : y <= x) => x = k
  OBVIOUS
<1> QED
  BY <1>1 DEF Rightmost

\* A search from v on.
LEMMA SearchExact ==
  ASSUME NEW s, NEW N \in Nat \ {0}, DOMAIN s = 0..N - 1,
         NEW P, NEW m \in Nat, DOMAIN P = 0..m - 1,
         NEW position, NEW v \in 0..N + 1, v = StartOf(s, position)
  PROVE  utstring_find(s, position, P) =
           Leftmost(IF m = 0 THEN {} ELSE Occurrences(s, P, v, N - 1))
<1> DEFINE S == Occurrences(s, P, v, N - 1)
           n == N - v
           H == Part(s, v, N - 1)
           t == BuildTable(P)
           found == Find(H, P, t)
<1>1. Length(s) = N /\ Length(P) = m
  BY LengthOf
<1>2. utstring_find(s, position, P) =
        IF n < m \/ m = 0 THEN -1 ELSE IF found >= 0 THEN found + v ELSE found
  BY <1>1 DEF utstring_find
<1>3. S = {k \in v..N - m : \A i \in 0..m - 1 : s[k + i] = P[i]}
  <2>1. (N - 1) - m + 1 = N - m
    OBVIOUS
  <2> QED
    BY <1>1, <2>1 DEF Occurrences
<1>4. CASE n < m \/ m = 0
  <2>1. m # 0 => S = {}
    <3>1. m # 0 => v..N - m = {}
      BY <1>4
    <3> QED
      BY <1>3, <3>1
  <2> HIDE DEF S, n
  <2>2. (IF m = 0 THEN {} ELSE S) = {}
    BY <2>1
  <2>3. Leftmost({}) = -1
    BY DEF Leftmost
  <2> HIDE DEF found
  <2> QED
    BY <1>2, <1>4, <2>2, <2>3 DEF S
<1>5. CASE ~(n < m \/ m = 0)
  <2>1. n \in Nat /\ m \in Nat \ {0} /\ m <= n
    BY <1>5
  <2>2. DOMAIN H = 0..n - 1 /\ \A i \in 0..n - 1 : H[i] = s[v + i]
    <3>1. N - 1 - v = n - 1
      OBVIOUS
    <3>2. H = [i \in 0..n - 1 |-> s[v + i]]
      BY <3>1 DEF Part
    <3> HIDE DEF H, n
    <3> QED
      BY <3>2
  <2>3. Length(H) = n
    <3> HIDE DEF H, n
    <3> QED
      BY <2>1, <2>2, LengthOf
  <2>4. LinksBack(P, t, m - 1)
    BY <1>1, <2>1, BuildTableLinks
  <2>5. Answer(P, H, m, n, 0, found)
    <3> HIDE DEF H, n, t
    <3> QED
      BY <1>1, <2>1, <2>3, <2>4, FindFirst
  <2>6. ASSUME NEW k \in v..N - m
        PROVE  (\A i \in 0..m - 1 : s[k + i] = P[i]) <=> Ends(P, H, k - v + m, m)
    <3>1. ASSUME NEW i \in 0..m - 1
          PROVE  H[(k - v + m) - m + i] = s[k + i]
      <4> DEFINE x == k - v + i
      <4>1. x \in 0..n - 1 /\ (k - v + m) - m + i = x /\ v + x = k + i
        OBVIOUS
      <4> HIDE DEF x, H, n
      <4> QED
        BY <2>2, <4>1
    <3> HIDE DEF H
    <3> QED
      BY <3>1 DEF Ends
  <2>7. ASSUME NEW k \in v..N - m
        PROVE  k - v + m \in 0 + 1..n /\ k - v + m >= m
    BY <2>1
  <2> HIDE DEF found, H
  <2>8. CASE found = -1 /\ NoneEnds(P, H, m, 0, n)
    <3>1. S = {}
      <4> SUFFICES ASSUME NEW k \in S PROVE FALSE
        OBVIOUS
      <4>1. k \in v..N - m /\ \A i \in 0..m - 1 : s[k + i] = P[i]
        BY <1>3
      <4> HIDE DEF S, n
      <4> QED
        BY <2>6, <2>7, <2>8, <4>1 DEF NoneEnds
    <3>2. Leftmost({}) = -1 /\ ~(-1 >= 0)
      BY DEF Leftmost
    <3> HIDE DEF S, n
    <3> QED
      BY <1>2, <1>5, <2>8, <3>1, <3>2 DEF S
  <2>9. CASE /\ found \in 0..n - m
             /\ Ends(P, H, found + m, m)
             /\ NoneEnds(P, H, m, 0, found + m - 1)
    <3> DEFINE q == found + v
    <3>1. q \in v..N - m /\ q - v = found /\ found >= 0 /\ q \in Int
      BY <2>1, <2>9
    <3> HIDE DEF q
    <3>2. q \in S
      <4>1. \A i \in 0..m - 1 : s[q + i] = P[i]
        BY <2>6, <2>9, <3>1
      <4> QED
        BY <1>3, <3>1, <4>1
    <3>3. ASSUME NEW k \in S PROVE q <= k
      <4>1. k \in v..N - m /\ \A i \in 0..m - 1 : s[k + i] = P[i]
        BY <1>3
      <4>2. Ends(P, H, k - v + m, m)
        BY <2>6, <4>1
      <4>3. ~(k - v + m \in 0 + 1..found + m - 1)
        BY <2>7, <2>9, <4>1, <4>2 DEF NoneEnds
      <4>4. \A x, y, f \in Int : /\ y - v = f /\ f >= 0 /\ x >= v
                                 /\ ~(x - v + m \in 0 + 1..f + m - 1)
                                 => y <= x
        BY <2>1
      <4>5. k \in Int /\ k >= v /\ found \in Int
        BY <2>9, <4>1
      <4> QED
        BY <3>1, <4>3, <4>4, <4>5
    <3>4. S \subseteq Int
      BY <1>3
    <3> HIDE DEF S, n
    <3>5. Leftmost(S) = q
      BY <3>2, <3>3, <3>4, LeftmostIs
    <3> QED
      BY <1>2, <1>5, <3>1, <3>5 DEF S, q
  <2> HIDE DEF S, n
  <2> QED
    BY <2>5, <2>8, <2>9 DEF Answer
<1> QED
  BY <1>4, <1>5

\* A search that ends at v or before.
LEMMA SearchRExact ==
  ASSUME NEW s, NEW N \in Nat \ {0}, DOMAIN s = 0..N - 1,
         NEW P, NEW m \in Nat, DOMAIN P = 0..m - 1,
         NEW position, NEW v \in 0..N - 1, v = StartOf(s, position)
  PROVE  utstring_findR(s, position, P) =
           Rightmost(IF m = 0 THEN {} ELSE Occurrences(s, P, 0, v))
<1> DEFINE S == Occurrences(s, P, 0, v)
           n == v + 1
           H == Part(s, 0, v)
           t == BuildTableR(P)
           Q == Mirror(P, m)
           G == Mirror(H, n)
           found == FindR(H, P, t)
<1>1. Length(P) = m
  BY LengthOf
<1>2. utstring_findR(s, position, P) = IF n < m \/ m = 0 THEN -1 ELSE found
  BY <1>1 DEF utstring_findR
<1>3. S = {k \in 0..n - m : \A i \in 0..m - 1 : s[k + i] = P[i]}
  <2>1. v - m + 1 = n - m
    OBVIOUS
  <2> HIDE DEF n
  <2> QED
    BY <1>1, <2>1 DEF Occurrences
<1>4. CASE n < m \/ m = 0
  <2>1. m # 0 => S = {}
    <3>1. m # 0 => 0..n - m = {}
      BY <1>4
    <3> QED
      BY <1>3, <3>1
  <2> HIDE DEF S, n
  <2>2. (IF m = 0 THEN {} ELSE S) = {}
    BY <2>1
  <2>3. Rightmost({}) = -1
    BY DEF Rightmost
  <2> HIDE DEF found
  <2> QED
    BY <1>2, <1>4, <2>2, <2>3 DEF S
<1>5. CASE ~(n < m \/ m = 0)
  <2>1. n \in Nat /\ m \in Nat \ {0} /\ m <= n
    BY <1>5
  <2>2. DOMAIN H = 0..n - 1 /\ \A i \in 0..n - 1 : H[i] = s[i]
    <3>1. v - 0 = n - 1 /\ \A i \in 0..n - 1 : 0 + i = i
      OBVIOUS
    <3>2. H = [i \in 0..n - 1 |-> s[0 + i]]
      BY <3>1 DEF Part
    <3> HIDE DEF H, n
    <3> QED
      BY <3>1, <3>2
  <2>3. Length(H) = n
    <3> HIDE DEF H, n
    <3> QED
      BY <2>1, <2>2, LengthOf
  <2>4. /\ \A x \in 1..m : t[x] \in Int
        /\ LinksBack(Q, MirrorTable(t, m, m - 1), m - 1)
    BY <1>1, <2>1, BuildTableRLinks
  <2>5. PICK e : Answer(Q, G, m, n, 0, e) /\ found = IF e = -1 THEN -1 ELSE n - m - e
    <3> HIDE DEF H, n, t
    <3>1. IsLast(P, H, m, n, FindR(H, P, t))
      BY <1>1, <2>1, <2>3, <2>4, FindRLast
    <3> QED
      BY <3>1 DEF IsLast
  <2>6. ASSUME NEW k \in 0..n - m
        PROVE  (\A i \in 0..m - 1 : s[k + i] = P[i]) <=> Ends(Q, G, n - k, m)
    <3>1. ASSUME NEW l \in 0..m - 1
          PROVE  /\ m - 1 - l \in 0..m - 1 /\ m - 1 - (m - 1 - l) = l
                 /\ Q[l] = P[m - 1 - l]
                 /\ G[(n - k) - m + l] = s[k + (m - 1 - l)]
      <4> DEFINE x == (n - k) - m + l
                 y == k + (m - 1 - l)
      <4>1. x \in 0..n - 1 /\ y \in 0..n - 1 /\ n - 1 - x = y
        BY <2>1
      <4>2. G[x] = H[y]
        <5> HIDE DEF H, n, x, y
        <5> QED
          BY <4>1 DEF Mirror
      <4>3. H[y] = s[y]
        <5> HIDE DEF H, n, y
        <5> QED
          BY <2>2, <4>1
      <4>4. Q[l] = P[m - 1 - l]
        BY DEF Mirror
      <4>5. m - 1 - l \in 0..m - 1 /\ m - 1 - (m - 1 - l) = l
        OBVIOUS
      <4> HIDE DEF G, Q
      <4> QED
        BY <4>2, <4>3, <4>4, <4>5
    <3> HIDE DEF G, Q, n
    <3>2. ASSUME \A i \in 0..m - 1 : s[k + i] = P[i] PROVE Ends(Q, G, n - k, m)
      BY <3>1, <3>2 DEF Ends
    <3>3. ASSUME Ends(Q, G, n - k, m), NEW i \in 0..m - 1 PROVE s[k + i] = P[i]
      <4> DEFINE l == m - 1 - i
      <4>1. l \in 0..m - 1 /\ m - 1 - l = i
        OBVIOUS
      <4>2. Q[l] = G[(n - k) - m + l]
        <5> HIDE DEF l
        <5> QED
          BY <3>3, <4>1 DEF Ends
      <4> HIDE DEF l
      <4>3. Q[l] = P[i] /\ G[(n - k) - m + l] = s[k + i]
        BY <3>1, <4>1
      <4> QED
        BY <4>2, <4>3
    <3> QED
      BY <3>2, <3>3
  <2>7. ASSUME NEW k \in 0..n - m PROVE n - k \in 0 + 1..n /\ n - k >= m
    BY <2>1
  <2> HIDE DEF found, H, Q, G
  <2>8. CASE e = -1 /\ NoneEnds(Q, G, m, 0, n)
    <3>1. S = {}
      <4> SUFFICES ASSUME NEW k \in S PROVE FALSE
        OBVIOUS
      <4>1. k \in 0..n - m /\ \A i \in 0..m - 1 : s[k + i] = P[i]
        BY <1>3
      <4> HIDE DEF S, n
      <4> QED
        BY <2>6, <2>7, <2>8, <4>1 DEF NoneEnds
    <3>2. Rightmost({}) = -1
      BY DEF Rightmost
    <3> HIDE DEF S, n
    <3> QED
      BY <1>2, <1>5, <2>5, <2>8, <3>1, <3>2 DEF S
  <2>9. CASE /\ e \in 0..n - m
             /\ Ends(Q, G, e + m, m)
             /\ NoneEnds(Q, G, m, 0, e + m - 1)
    <3> DEFINE q == n - m - e
    <3>1. q \in 0..n - m /\ n - q = e + m /\ e # -1 /\ q \in Int
      BY <2>1, <2>9
    <3>2. found = q
      BY <2>5, <3>1
    <3> HIDE DEF q
    <3>3. q \in S
      <4>1. Ends(Q, G, n - q, m)
        BY <2>9, <3>1
      <4>2. \A i \in 0..m - 1 : s[q + i] = P[i]
        BY <2>6, <3>1, <4>1
      <4> QED
        BY <1>3, <3>1, <4>2
    <3>4. ASSUME NEW k \in S PROVE k <= q
      <4>1. k \in 0..n - m /\ \A i \in 0..m - 1 : s[k + i] = P[i]
        BY <1>3
      <4>2. Ends(Q, G, n - k, m)
        BY <2>6, <4>1
      <4>3. ~(n - k \in 0 + 1..e + m - 1)
        BY <2>7, <2>9, <4>1, <4>2 DEF NoneEnds
      <4>4. \A x, y, f \in Int : /\ n - y = f + m /\ x <= n - m
                                 /\ ~(n - x \in 0 + 1..f + m - 1)
                                 => x <= y
        BY <2>1
      <4>5. k \in Int /\ k <= n - m /\ e \in Int
        BY <2>9, <4>1
      <4> QED
        BY <3>1, <4>3, <4>4, <4>5
    <3>5. S \subseteq Int
      BY <1>3
    <3> HIDE DEF S, n
    <3>6. Rightmost(S) = q
      BY <3>3, <3>4, <3>5, RightmostIs
    <3> QED
      BY <1>2, <1>5, <3>2, <3>6 DEF S
  <2> HIDE DEF S, n
  <2> QED
    BY <2>5, <2>8, <2>9 DEF Answer
<1> QED
  BY <1>4, <1>5

\* The two searches of utstring.h find the first and the last occurrence, in any
\* string, of any other, from any place.
THEOREM FindExactHolds == SearchSpec => []FindExact
<1> DEFINE Drawn(n, m) == /\ n \in Nat \ {0} /\ m \in Nat
                          /\ DOMAIN hay = 0..n - 1 /\ DOMAIN needle = 0..m - 1
                          /\ start \in (0 - n)..(n + 1)
           Given == Length(hay) = 0 \/ \E n, m : Drawn(n, m)
<1>1. SearchInit => Given
  <2>1. DOMAIN << >> = 0..0 - 1 /\ 0 \in Nat
    OBVIOUS
  <2>2. Length(<< >>) = 0
    BY <2>1, LengthOf
  <2> QED
    BY <2>2 DEF SearchInit
<1>2. Given /\ [DrawStrings]_searchVars => Given'
  <2> SUFFICES ASSUME Given, [DrawStrings]_searchVars PROVE Given'
    OBVIOUS
  <2>1. CASE UNCHANGED searchVars
    BY <2>1 DEF searchVars, Length
  <2>2. CASE DrawStrings
    <3>1. PICK n \in 1..MaxHay, m \in 0..MaxNeedle :
            /\ hay' \in [0..n - 1 -> Char] /\ needle' \in [0..m - 1 -> Char]
            /\ start' \in (0 - n)..(n + 1)
      BY <2>2 DEF DrawStrings
    <3>2. n \in Nat \ {0} /\ m \in Nat
      BY SearchAssumption
    <3> QED
      BY <3>1, <3>2
  <2> QED
    BY <2>1, <2>2
<1>3. Given => FindExact
  <2> SUFFICES ASSUME NEW n, NEW m, Drawn(n, m) PROVE FindExact
    BY DEF FindExact
  <2> DEFINE v == StartOf(hay, start)
  <2>1. Length(hay) = n /\ Length(needle) = m
    BY LengthOf
  <2>2. v \in 0..n + 1
    BY <2>1 DEF StartOf
  <2> HIDE DEF v
  <2>3. utstring_find(hay, start, needle) =
          Leftmost(IF m = 0 THEN {} ELSE Occurrences(hay, needle, v, n - 1))
    BY <2>2, SearchExact DEF v
  <2>4. ASSUME v < n
        PROVE  utstring_findR(hay, start, needle) =
                 Rightmost(IF m = 0 THEN {} ELSE Occurrences(hay, needle, 0, v))
    <3>1. v \in 0..n - 1
      BY <2>2, <2>4
    <3> QED
      BY <3>1, SearchRExact DEF v
  <2> QED
    BY <2>1, <2>3, <2>4 DEF FindExact, v
<1> QED
  <2> HIDE DEF Given
  <2> QED
    BY <1>1, <1>2, <1>3, PTL DEF SearchSpec

=============================================================================
