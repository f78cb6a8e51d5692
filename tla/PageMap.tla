------------------------------- MODULE PageMap -------------------------------
(***************************************************************************)
(* The residency of a file, page by page: what mincore writes, the bit     *)
(* vector it is packed into, and what is made of that for the display      *)
(* (crates/pagers-core/src/mincore.rs and mode.rs,                         *)
(* crates/pagers-tui/src/state.rs and ui.rs).  A map is a sequence of      *)
(* BOOLEANs; a vector of bytes is one of naturals.                         *)
(***************************************************************************)
EXTENDS Naturals, Sequences, FiniteSets, SequencesExt

CONSTANTS
  PageSize,
  WordBits,      \* usize::BITS
  ByteBits       \* 8

Pages(map)  == 1 .. Len(map)
Filled(map) == {p \in Pages(map) : map[p]}

\* count_filled of the pages from .. to, counted from 0 and to excluded.
CountFilled(map, from, to) == Cardinality({p \in from + 1 .. to : map[p]})

\* v.chunks(n).
Chunks(v, n) ==
  [k \in 1 .. (Len(v) + n - 1) \div n |->
     SubSeq(v, (k - 1) * n + 1, IF k * n <= Len(v) THEN k * n ELSE Len(v))]

\* Mutant of Packed: the highest byte of a word comes first.
PackedBigEndian(bytes) ==
  [w \in DOMAIN Chunks(bytes, WordBits) |->
     LET subs == Chunks(Chunks(bytes, WordBits)[w], ByteBits)
     IN  [bit \in 0 .. WordBits - 1 |->
            LET sub == (WordBits - 1 - bit) \div ByteBits + 1
            IN  /\ sub <= Len(subs)
                /\ bit % ByteBits < Len(subs[sub])
                /\ subs[sub][(bit % ByteBits) + 1] # 0]]

\* One bit of a word for each byte, ByteBits bytes to a byte of the word, the
\* lowest first; the bits past the last byte are zero.
Packed(bytes) ==
  [w \in DOMAIN Chunks(bytes, WordBits) |->
     LET subs == Chunks(Chunks(bytes, WordBits)[w], ByteBits)
     IN  [bit \in 0 .. WordBits - 1 |->
            LET sub == bit \div ByteBits + 1
            IN  /\ sub <= Len(subs)
                /\ bit % ByteBits < Len(subs[sub])
                /\ subs[sub][(bit % ByteBits) + 1] # 0]]

\* BitVec::from_residency_bytes: the words, cut to the number of pages.
FromResidencyBytes(bytes) ==
  LET words == Packed(bytes)
      bits  == [p \in 1 .. Len(words) * WordBits |->
                  words[(p - 1) \div WordBits + 1][(p - 1) % WordBits]]
  IN  SubSeq(bits, 1, Len(bytes))

\* The bytes that mincore is given room for, for a mapping of len bytes.
VecLen(len) == (len + PageSize - 1) \div PageSize

\* PM::from_bools of a value repeated.
Repeated(value, n) == [p \in 1 .. n |-> value]

-----------------------------------------------------------------------------
\* The elements of a set of numbers, the least first.
InOrder(S) ==
  [k \in 1 .. Cardinality(S) |-> CHOOSE i \in S : Cardinality({j \in S : j < i}) = k - 1]

\* Mutant of Runs: a run ends a page early.
RunsShort(map) ==
  LET begins == {p \in Pages(map) : p = 1 \/ map[p] # map[p - 1]}
      bounds == InOrder(begins \cup {Len(map) + 1})
  IN  [n \in 1 .. Cardinality(begins) |->
         [offset |-> bounds[n] - 1, count |-> Max({1, bounds[n + 1] - bounds[n] - 1}),
          resident |-> map[bounds[n]]]]

\* send_residency: the map as runs of equal pages, in order.
Runs(map) ==
  LET begins == {p \in Pages(map) : p = 1 \/ map[p] # map[p - 1]}
      bounds == InOrder(begins \cup {Len(map) + 1})
  IN  [n \in 1 .. Cardinality(begins) |->
         [offset |-> bounds[n] - 1, count |-> bounds[n + 1] - bounds[n], resident |-> map[bounds[n]]]]

-----------------------------------------------------------------------------
\* Mutant of Bucketize: every bucket is as wide as the first.
BucketizeEvenly(map, width) ==
  LET n == Len(map)
      w == IF width <= n THEN width ELSE n
  IN  [i \in 1 .. w |-> [cached |-> CountFilled(map, (i - 1) * (n \div w), i * (n \div w)),
                         total  |-> n \div w]]

\* bucketize: the map in width buckets, or one for each page if those are fewer.
Bucketize(map, width) ==
  LET n == Len(map)
      w == IF width <= n THEN width ELSE n
  IN  [i \in 1 .. w |-> [cached |-> CountFilled(map, ((i - 1) * n) \div w, (i * n) \div w),
                         total  |-> (i * n) \div w - ((i - 1) * n) \div w]]

\* The character of a bucket in histogram_spans, by the share that is resident.
Cell(b) ==
  CASE b.total > 0 /\ b.cached >= b.total -> "#"
    [] b.cached < b.total /\ 4 * b.cached >= 3 * b.total -> "+"
    [] 4 * b.cached < 3 * b.total /\ 2 * b.cached >= b.total -> "="
    [] 2 * b.cached < b.total /\ 4 * b.cached >= b.total -> "-"
    [] 4 * b.cached < b.total /\ b.cached > 0 -> "."
    [] b.cached = 0 -> " "
==============================================================================
