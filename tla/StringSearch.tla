---------------------------- MODULE StringSearch -----------------------------
(***************************************************************************)
(* The substring search of lib/utstring.h: Knuth, Morris and Pratt's       *)
(* algorithm from the left and from the right.  A table says, for each     *)
(* position of the needle, where to go on when the character there does    *)
(* not match; an entry never leads to an equal character.                  *)
(*                                                                         *)
(* Strings are functions from 0, as in C.  A table is defined where it was *)
(* written: TLC would report the use of any other entry.                   *)
(***************************************************************************)
EXTENDS Integers, FiniteSets

CONSTANTS Char,
          MaxHay, MaxNeedle   \* bounds: lengths of the strings that are drawn
ASSUME SearchAssumption == MaxHay \in Nat /\ MaxNeedle \in Nat

VARIABLES hay, needle, start
searchVars == << hay, needle, start >>

Length(s) == Cardinality(DOMAIN s)

-----------------------------------------------------------------------------
(* From the left.                                                          *)

\* Mutant of Back: a mismatch forgets what has been matched.
BackToStart(P, table, i, c) == IF i > -1 /\ P[i] # c THEN -1 ELSE i

\* The inner loop: back along the table to where c matches, or out of the needle.
Back(P, table, i, c) ==
  LET back[x \in -1..i] == IF x > -1 /\ P[x] # c THEN back[table[x]] ELSE x
  IN  back[i]

\* The table with the entry after position i, where b.j is how much matches.
Extended(P, i, b) ==
  LET k     == Back(P, b.table, b.j, P[i]) + 1
      entry == IF i + 1 < Length(P) /\ P[i + 1] = P[k] THEN b.table[k] ELSE k
  IN  [table |-> [x \in 0..i + 1 |-> IF x <= i THEN b.table[x] ELSE entry], j |-> k]

BuildTable(P) ==
  LET built[n \in 0..Length(P)] ==
        IF n = 0 THEN [table |-> [x \in 0..0 |-> -1], j |-> -1]
                 ELSE Extended(P, n - 1, built[n - 1])
  IN  built[Length(P)].table

\* _utstring_find: i characters of P have been matched before the j-th of H.
Find(H, P, table) ==
  LET from[p \in (0..Length(P) - 1) \X (0..Length(H))] ==
        LET i == p[1]
            j == p[2]
            k == Back(P, table, i, H[j]) + 1
        IN  IF ~(j < Length(H) /\ Length(H) - j + i >= Length(P)) THEN -1
            ELSE IF k >= Length(P) THEN j + 1 - k
            ELSE from[<< k, j + 1 >>]
  IN  from[<< 0, 0 >>]

-----------------------------------------------------------------------------
(* From the right.  The entry of a position is one further in the table.   *)

BackR(P, table, i, c) ==
  LET back[x \in i..Length(P)] ==
        IF x < Length(P) /\ P[x] # c THEN back[table[x + 1]] ELSE x
  IN  back[i]

ExtendedR(P, i, b) ==
  LET k     == BackR(P, b.table, b.j, P[i]) - 1
      entry == IF i - 1 >= 0 /\ P[i - 1] = P[k] THEN b.table[k + 1] ELSE k
  IN  [table |-> [x \in i..Length(P) |-> IF x > i THEN b.table[x] ELSE entry],
       j |-> k]

BuildTableR(P) ==
  LET built[n \in 0..Length(P)] ==
        IF n = 0 THEN [table |-> [x \in Length(P)..Length(P) |-> Length(P)],
                       j |-> Length(P)]
                 ELSE ExtendedR(P, Length(P) - n, built[n - 1])
  IN  built[Length(P)].table

\* _utstring_findR: P has been matched after i, with H after j.
FindR(H, P, table) ==
  LET from[p \in (0..Length(P) - 1) \X (-1..Length(H) - 1)] ==
        LET i == p[1]
            j == p[2]
            k == BackR(P, table, i, H[j]) - 1
        IN  IF ~(j >= 0 /\ j >= i) THEN -1
            ELSE IF k < 0 THEN j
            ELSE from[<< k, j - 1 >>]
  IN  from[<< Length(P) - 1, Length(H) - 1 >>]

-----------------------------------------------------------------------------
(* The two functions for users.  A negative position counts from the end.  *)

StartOf(s, position) == IF position < 0 THEN Length(s) + position ELSE position

Part(s, from, to) == [i \in 0..to - from |-> s[from + i]]

utstring_find(s, position, P) ==
  LET v == StartOf(s, position)
  IN  IF Length(s) - v < Length(P) \/ Length(P) = 0 THEN -1
      ELSE LET found == Find(Part(s, v, Length(s) - 1), P, BuildTable(P))
           IN  IF found >= 0 THEN found + v ELSE found

utstring_findR(s, position, P) ==
  LET v == StartOf(s, position)
  IN  IF v + 1 < Length(P) \/ Length(P) = 0 THEN -1
      ELSE FindR(Part(s, 0, v), P, BuildTableR(P))

-----------------------------------------------------------------------------
(* Searches.                                                               *)

\* A string, one to look for in it, and where to begin: within the string, or
\* just past it.
DrawStrings ==
  /\ Length(hay) = 0
  /\ \E n \in 1..MaxHay, m \in 0..MaxNeedle :
       /\ hay' \in [0..n - 1 -> Char]
       /\ needle' \in [0..m - 1 -> Char]
       /\ start' \in (0 - n)..(n + 1)

SearchInit == hay = << >> /\ needle = << >> /\ start = 0

SearchSpec == SearchInit /\ [][DrawStrings]_searchVars

\* The places of s from a to b where P occurs within them.
Occurrences(s, P, a, b) ==
  {k \in a..b - Length(P) + 1 : \A i \in DOMAIN P : s[k + i] = P[i]}

\* The least and the greatest member of a set of places, -1 if it is empty.
Leftmost(S)  == IF S = {} THEN -1 ELSE CHOOSE x \in S : \A y \in S : x <= y
Rightmost(S) == IF S = {} THEN -1 ELSE CHOOSE x \in S : \A y \in S : y <= x

\* A search from the left finds the first occurrence of the needle from the start
\* on, one from the right the last occurrence that ends at the start or before;
\* both find nothing for an empty needle.
FindExact ==
  Length(hay) > 0 =>
    LET v == StartOf(hay, start)
        within(a, b) == IF Length(needle) = 0 THEN {}
                        ELSE Occurrences(hay, needle, a, b)
    IN  /\ utstring_find(hay, start, needle) = Leftmost(within(v, Length(hay) - 1))
        /\ v < Length(hay) =>
             utstring_findR(hay, start, needle) = Rightmost(within(0, v))

=============================================================================
