-------------------------------- MODULE Extents --------------------------------
(***************************************************************************)
(* Block extents (payload/extents.go): sums and limits in 64-bit words,    *)
(* the blocks no extent covers, and the cursor with which extentsReader    *)
(* and extentsWriter walk the bytes of a list of extents.                  *)
(*                                                                         *)
(* An extent is [start |-> s, num |-> n].  uint64 is 0 .. 2 * MaxInt + 1   *)
(* and int64 its signed reading; a small MaxInt keeps every case of        *)
(* overflow within reach of the model checker.                             *)
(***************************************************************************)
EXTENDS Integers, Sequences, FiniteSets

CONSTANTS
  MaxInt,     \* math.MaxInt64
  BlockSize   \* the block size of the payload, in bytes

ASSUME ExtentsAssumption == MaxInt \in Nat /\ BlockSize \in 1 .. MaxInt

Wrap(n) == n % (2 * (MaxInt + 1))

Int64(n) == IF Wrap(n) > MaxInt THEN Wrap(n) - 2 * (MaxInt + 1) ELSE Wrap(n)

Word == 0 .. 2 * MaxInt + 1

AnyExtent == [start : Word, num : Word]

SparseHole == 2 * MaxInt + 1

\* The exact number of blocks of the first i extents, for each i.
Blocks(extents) ==
  LET sum[i \in 0 .. Len(extents)] == IF i = 0 THEN 0 ELSE sum[i - 1] + extents[i].num
  IN  sum

\* The code adds in 64 bits.
TotalBlocks(extents) == Wrap(Blocks(extents)[Len(extents)])

\* int64(n * blockSize)
Bytes(n) == Int64(n * BlockSize)

ValidExtent(e) ==
  /\ e.start # SparseHole
  /\ e.num # 0 => LET end == Wrap(e.start + e.num)
                  IN  end >= e.start /\ end <= MaxInt \div BlockSize

ValidExtents(extents) == \A i \in DOMAIN extents : ValidExtent(extents[i])

--------------------------------------------------------------------------------
(* uncoveredRanges                                                          *)

\* The ranges of the extents that are not empty, in any order that sort.Slice may
\* give: it compares starts only and is not stable. The end may wrap below the start.
SortedRanges(extents) ==
  LET nonEmpty == {x \in DOMAIN extents : extents[x].num # 0}
      places == 1 .. Cardinality(nonEmpty)
      orders == {p \in [places -> nonEmpty] :
                   /\ \A x \in nonEmpty : \E i \in places : p[i] = x
                   /\ \A i, j \in places : i < j => extents[p[i]].start <= extents[p[j]].start}
      RangeOf(e) == [start |-> e.start, end |-> Wrap(e.start + e.num)]
  IN  {[i \in places |-> RangeOf(extents[p[i]])] : p \in orders}

Gap(start, end) == [start |-> start, end |-> end]

\* Mutant of Visit: a range inside an earlier one moves the cursor back.
VisitForgetting(acc, r, total) ==
  [cursor |-> r.end,
   gaps |-> IF r.start > acc.cursor /\ acc.cursor < total
            THEN Append(acc.gaps, Gap(acc.cursor, IF r.start > total THEN total ELSE r.start))
            ELSE acc.gaps]

\* A range past the cursor leaves a gap before it; at the total the loop returns.
Visit(acc, r, total) ==
  IF acc.cursor >= total THEN acc
  ELSE [cursor |-> IF r.end > acc.cursor THEN r.end ELSE acc.cursor,
        gaps |-> IF r.start > acc.cursor
                 THEN Append(acc.gaps, Gap(acc.cursor, IF r.start > total THEN total ELSE r.start))
                 ELSE acc.gaps]

\* Cursor and gaps after the first i ranges, for each i.
Swept(covered, total) ==
  LET swept[i \in 0 .. Len(covered)] ==
        IF i = 0 THEN [cursor |-> 0, gaps |-> <<>>] ELSE Visit(swept[i - 1], covered[i], total)
  IN  swept

\* The gaps between sorted ranges and after the last one, below total.
Sweep(covered, total) ==
  LET last == Swept(covered, total)[Len(covered)]
  IN  IF last.cursor < total THEN Append(last.gaps, Gap(last.cursor, total)) ELSE last.gaps

\* What uncoveredRanges may return for a family of extents nobody has validated.
UncoveredRanges(extents, total) == {Sweep(covered, total) : covered \in SortedRanges(extents)}

--------------------------------------------------------------------------------
(* The cursor of extentsReader (idx, consumed) and extentsWriter (idx, written) *)

Start == [idx |-> 1, done |-> 0]

ExtentBytes(e) == Bytes(e.num)

AtEnd(c, extents) == c.idx > Len(extents)

Exhausted(c, extents) == ~ AtEnd(c, extents) /\ c.done >= ExtentBytes(extents[c.idx])

\* Mutant of NextExtent: the count of the extent before is kept.
NextExtentStale(c) == [c EXCEPT !.idx = @ + 1]

NextExtent(c) == [idx |-> c.idx + 1, done |-> 0]

\* How much of n bytes fits what is left of the extent.
Room(c, extents, n) ==
  LET remain == ExtentBytes(extents[c.idx]) - c.done IN IF n > remain THEN remain ELSE n

Offset(c, extents) == Bytes(extents[c.idx].start) + c.done

Moved(c, n) == [c EXCEPT !.done = @ + n]
================================================================================
