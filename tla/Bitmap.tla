------------------------------- MODULE Bitmap --------------------------------
(***************************************************************************)
(* The bitmap of bitmap.h, the deletions of a segment: an array of bytes   *)
(* that grows in steps of TS_BITMAP_PREALLOC, and the clones lookups and   *)
(* merges take of it.  A byte is the set of its bits that are 1.           *)
(***************************************************************************)
EXTENDS Naturals, FiniteSets

CONSTANTS Bit,                \* the positions used
          TS_BITMAP_PREALLOC, \* in bytes, a power of two
          MaxClones           \* bound: clones of one behaviour

ASSUME BitmapAssumption == TS_BITMAP_PREALLOC \in Nat \ {0} /\ Bit \subseteq Nat

VARIABLES bm,      \* the bitmap: c, its bytes, and l, how many they are
          bmClone, \* a clone of it, when there is one
          cloned,  \* there is one
          clones,  \* how many have been made
          blocks,  \* blocks the clones have allocated and not freed
          bits,    \* history: the bits set in bm
          cloneBits, \* history: the bits of bm when the clone was made
          emptied  \* history: clones destroyed that were made of no bytes

bitmapVars == << bm, bmClone, cloned, clones, blocks, bits, cloneBits, emptied >>

\* ts_bitmap_init
NoBytes == [l |-> 0, c |-> [b \in {} |-> {}]]

BitmapInit ==
  /\ bm = NoBytes /\ bmClone = NoBytes
  /\ cloned = FALSE /\ clones = 0
  /\ blocks = 0
  /\ bits = {} /\ cloneBits = {} /\ emptied = 0

\* ts_bmp_dig, ts_bmp_mod, ts_bmp_align
Dig(p) == p \div 8
Mod(p) == p % 8
Align(s) ==
  ((s + TS_BITMAP_PREALLOC - 1) \div TS_BITMAP_PREALLOC) * TS_BITMAP_PREALLOC

\* Mutant of Reserved: the bytes kept are counted from 1.
ReservedOneShort(b, n) ==
  IF n <= b.l THEN b
  ELSE [l |-> Align(n),
        c |-> [i \in 0..(Align(n) - 1) |-> IF i + 1 < b.l THEN b.c[i] ELSE {}]]

\* ts_bitmap_reserve: the bytes added are cleared.
Reserved(b, n) ==
  IF n <= b.l THEN b
  ELSE [l |-> Align(n),
        c |-> [i \in 0..(Align(n) - 1) |-> IF i < b.l THEN b.c[i] ELSE {}]]

\* ts_bitmap_get
Get(b, p) == Dig(p) < b.l /\ Mod(p) \in b.c[Dig(p)]

BitmapSet(p) ==
  /\ bm' = LET r == Reserved(bm, Dig(p) + 1)
           IN  [r EXCEPT !.c[Dig(p)] = @ \cup {Mod(p)}]
  /\ bits' = bits \cup {p}
  /\ UNCHANGED << bmClone, cloned, clones, blocks, cloneBits, emptied >>

BitmapUnset(p) ==
  /\ bm' = IF Dig(p) < bm.l THEN [bm EXCEPT !.c[Dig(p)] = @ \ {Mod(p)}] ELSE bm
  /\ bits' = bits \ {p}
  /\ UNCHANGED << bmClone, cloned, clones, blocks, cloneBits, emptied >>

\* ts_bitmap_clone: a block is allocated, of no bytes if need be.
BitmapClone ==
  /\ ~cloned
  /\ clones < MaxClones
  /\ bmClone' = bm
  /\ cloned' = TRUE
  /\ clones' = clones + 1
  /\ blocks' = blocks + 1
  /\ cloneBits' = bits
  /\ UNCHANGED << bm, bits, emptied >>

\* ts_bitmap_destroy of the clone: a block of no bytes is not freed.
BitmapDestroy ==
  /\ cloned
  /\ cloned' = FALSE
  /\ bmClone' = NoBytes
  /\ cloneBits' = {}
  /\ blocks' = IF bmClone.l > 0 THEN blocks - 1 ELSE blocks
  /\ emptied' = IF bmClone.l = 0 THEN emptied + 1 ELSE emptied
  /\ UNCHANGED << bm, clones, bits >>

BitmapNext ==
  \/ \E p \in Bit : BitmapSet(p) \/ BitmapUnset(p)
  \/ BitmapClone
  \/ BitmapDestroy

BitmapSpec == BitmapInit /\ [][BitmapNext]_bitmapVars

\* The bitmap is the set of the bits set, whatever order it grew in, and its
\* clone what it was when it was cloned; the clones of a bitmap without bytes,
\* of a segment with no deletion (segment.c:110), are never freed, the others
\* are.
BitmapIsSet ==
  /\ \A p \in Bit : Get(bm, p) <=> p \in bits
  /\ cloned => \A p \in Bit : Get(bmClone, p) <=> p \in cloneBits
  /\ blocks = emptied + (IF cloned THEN 1 ELSE 0)

=============================================================================
