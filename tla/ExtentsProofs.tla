----------------------------- MODULE ExtentsProofs -----------------------------
(***************************************************************************)
(* What the validation of an extent buys, for every block size and every   *)
(* word: no sum or product the readers and writers compute from it wraps,  *)
(* and their cursor stays inside it; and the sweep of uncoveredRanges finds *)
(* exactly the blocks no extent covers.                                    *)
(*                                                                         *)
(* First the facts other proofs share: remainders, from which what is said *)
(* of 64-bit sums follows, and least elements, in the place of induction.  *)
(***************************************************************************)
EXTENDS Extents, FiniteSetTheorems, WellFoundedInduction, TLAPS

\* A quotient whose multiple is below the divisor is not positive, and one whose
\* multiple is above its opposite is not negative.
LEMMA SmallQuotient ==
  ASSUME NEW m \in Nat \ {0}, NEW q \in Int
  PROVE  /\ m * q \in Int
         /\ q > 0 => m * q >= m
         /\ q > 1 => m * q >= m + m
         /\ q < 0 => m * q <= -m
         /\ q = 0 => m * q = 0
         /\ q = 1 => m * q = m
OBVIOUS

\* The remainder of a number below twice the divisor.
LEMMA RemainderOfSum ==
  ASSUME NEW a \in Nat, NEW m \in Nat \ {0}, a < m + m
  PROVE  (a % m) = IF a < m THEN a ELSE a - m
<1> DEFINE q == a \div m
           s == m * q
           r == a % m
<1>1. q \in Int /\ r \in 0 .. m - 1 /\ a = s + r
  OBVIOUS
<1>2. /\ s \in Int /\ (q > 0 => s >= m) /\ (q > 1 => s >= m + m) /\ (q < 0 => s <= -m)
      /\ (q = 0 => s = 0) /\ (q = 1 => s = m)
  <2> HIDE DEF q
  <2> QED BY <1>1, SmallQuotient
<1> HIDE DEF q, s, r
<1>3. r = IF a < m THEN a ELSE a - m
  BY <1>1, <1>2
<1> QED BY <1>3 DEF r

--------------------------------------------------------------------------------
(* Induction                                                                *)

\* A set of numbers has a least one. An induction over data is done by taking the
\* least counterexample.
LEMMA Least ==
  ASSUME NEW T \in SUBSET Nat, T # {}
  PROVE  \E x \in T : \A y \in T : x <= y
<1> DEFINE R == OpToRel(<, Nat)
<1>1. IsWellFoundedOn(R, Nat)
  BY NatLessThanWellFounded
<1>2. \A x, y \in Nat : x < y => <<x, y>> \in R
  BY DEF OpToRel
<1> HIDE DEF R
<1>3. PICK x \in T : \A y \in T : ~ (<<y, x>> \in R)
  BY <1>1, WFMin
<1>4. ASSUME NEW y \in T PROVE x <= y
  <2>1. x \in Nat /\ y \in Nat
    OBVIOUS
  <2>2. ~ (y < x)
    BY <1>2, <1>3, <2>1
  <2> QED BY <2>1, <2>2
<1> QED BY <1>4

\* A recursive definition over 0 .. N, one step for each number, with values in X.
Steps(N, X) == [1 .. N -> [X -> X]]

Solutions(N, X, x0, step) ==
  {f \in [0 .. N -> X] : f[0] = x0 /\ \A n \in 1 .. N : f[n] = step[n][f[n - 1]]}

\* Such a definition defines a function.
LEMMA Recursion ==
  ASSUME NEW X, NEW N \in Nat, NEW x0 \in X, NEW step \in Steps(N, X)
  PROVE  Solutions(N, X, x0, step) # {}
<1> USE DEF Steps
<1> DEFINE Solves(f, m) == f[0] = x0 /\ \A n \in 1 .. m : f[n] = step[n][f[n - 1]]
           T == {m \in 0 .. N : ~ \E f \in [0 .. m -> X] : Solves(f, m)}
<1>1. ASSUME T # {} PROVE FALSE
  <2>1. PICK m \in T : \A y \in T : m <= y
    <3>1. T \in SUBSET Nat
      OBVIOUS
    <3> HIDE DEF T
    <3> QED BY <1>1, <3>1, Least
  <2>2. m \in 0 .. N /\ ~ \E f \in [0 .. m -> X] : Solves(f, m)
    OBVIOUS
  <2>3. CASE m = 0
    <3> DEFINE f == [n \in 0 .. 0 |-> x0]
    <3>1. f \in [0 .. m -> X] /\ Solves(f, m)
      BY <2>3
    <3> QED BY <2>2, <3>1
  <2>4. CASE m # 0
    <3>1. m - 1 \in 0 .. N /\ ~ (m <= m - 1)
      BY <2>2, <2>4
    <3>2. m - 1 \notin T
      BY <2>1, <3>1
    <3>3. PICK f \in [0 .. m - 1 -> X] : Solves(f, m - 1)
      BY <3>1, <3>2
    <3> DEFINE g == [n \in 0 .. m |-> IF n = m THEN step[m][f[m - 1]] ELSE f[n]]
    <3>4. step[m][f[m - 1]] \in X
      <4>1. m \in 1 .. N /\ m - 1 \in 0 .. m - 1
        BY <2>2, <2>4
      <4> QED BY <4>1
    <3>5. g \in [0 .. m -> X]
      BY <2>2, <3>4
    <3>6. g[0] = x0
      BY <2>2, <2>4, <3>3
    <3>7. ASSUME NEW n \in 1 .. m PROVE g[n] = step[n][g[n - 1]]
      <4>1. n - 1 \in 0 .. m - 1 /\ n \in 0 .. m /\ n - 1 # m /\ n - 1 \in 0 .. m
        BY <2>2
      <4>2. g[n - 1] = f[n - 1]
        BY <4>1
      <4>3. CASE n = m
        BY <4>1, <4>2, <4>3
      <4>4. CASE n # m
        <5>1. n \in 1 .. m - 1
          BY <2>2, <4>4
        <5> QED BY <3>3, <4>1, <4>2, <4>4, <5>1
      <4> QED BY <4>3, <4>4
    <3> HIDE DEF g
    <3> QED BY <2>2, <3>5, <3>6, <3>7
  <2> QED BY <2>3, <2>4
<1>2. PICK f \in [0 .. N -> X] : Solves(f, N)
  BY <1>1
<1> QED BY <1>2 DEF Solutions

\* All its values are of the type of its steps.
LEMMA RecursionTypes ==
  ASSUME NEW X, NEW N \in Nat, NEW step \in Steps(N, X), NEW f,
         f[0] \in X, \A n \in 1 .. N : f[n - 1] \in X => f[n] = step[n][f[n - 1]]
  PROVE  \A n \in 0 .. N : f[n] \in X
<1> DEFINE T == {n \in 0 .. N : f[n] \notin X}
<1>1. ASSUME T # {} PROVE FALSE
  <2>1. PICK n \in T : \A m \in T : n <= m
    <3>1. T \in SUBSET Nat
      OBVIOUS
    <3> HIDE DEF T
    <3> QED BY <1>1, <3>1, Least
  <2>2. n \in 0 .. N /\ f[n] \notin X /\ n # 0
    OBVIOUS
  <2>3. n \in 1 .. N /\ n - 1 \in 0 .. N /\ ~ (n <= n - 1)
    BY <2>2
  <2>4. f[n - 1] \in X
    BY <2>1, <2>3
  <2> QED BY <2>2, <2>3, <2>4 DEF Steps
<1> QED BY <1>1

--------------------------------------------------------------------------------
(* Words and extents                                                        *)

\* Below the modulus a sum is exact; above it, it comes out below either summand.
LEMMA WrapOfSum ==
  ASSUME NEW a \in Word, NEW b \in Word
  PROVE  /\ a + b <= 2 * MaxInt + 1 => Wrap(a + b) = a + b
         /\ a + b > 2 * MaxInt + 1 => Wrap(a + b) < a
<1> DEFINE m == 2 * (MaxInt + 1)
           s == a + b
           r == s % m
<1>1. MaxInt \in Nat
  BY ExtentsAssumption
<1>2. a \in Nat /\ b \in Nat /\ b < m /\ s \in Nat /\ m \in Nat \ {0} /\ s < m + m
  BY <1>1 DEF Word
<1>3. r = IF s < m THEN s ELSE s - m
  <2> HIDE DEF s, m
  <2> QED BY <1>2, RemainderOfSum
<1>4. Wrap(a + b) = r
  BY DEF Wrap
<1>5. /\ s <= 2 * MaxInt + 1 => r = s
      /\ s > 2 * MaxInt + 1 => r < a
  <2> HIDE DEF r
  <2> QED BY <1>1, <1>2, <1>3
<1> HIDE DEF r
<1> QED BY <1>4, <1>5

\* What fits an int64 is read back as it is.
LEMMA Int64Exact ==
  ASSUME NEW n \in 0 .. MaxInt
  PROVE  Int64(n) = n /\ Wrap(n) = n
<1>1. MaxInt \in Nat /\ n \in Nat /\ n \in Word /\ 0 \in Word /\ n <= 2 * MaxInt + 1
  BY ExtentsAssumption DEF Word
<1>2. Wrap(n) = n
  <2>1. Wrap(n + 0) = n + 0
    BY <1>1, WrapOfSum
  <2> QED BY <1>1, <2>1
<1> QED BY <1>1, <1>2 DEF Int64

\* Multiples of a number of blocks that fits, by name.
Times(a, b) == a * b

LEMMA TimesFacts ==
  ASSUME NEW a \in Nat, NEW b \in Nat, NEW c \in Nat
  PROVE  /\ Times(a, c) \in Nat
         /\ a <= b => Times(a, c) <= Times(b, c)
         /\ Times(a + b, c) = Times(a, c) + Times(b, c)
         /\ c > 0 => a <= Times(a, c)
BY DEF Times

\* The blocks below the limit have bytes below it.
LEMMA BlocksFit ==
  ASSUME NEW n \in Nat, n <= MaxInt \div BlockSize
  PROVE  Times(n, BlockSize) \in 0 .. MaxInt
<1> DEFINE q == MaxInt \div BlockSize
           r == MaxInt % BlockSize
<1>1. MaxInt \in Nat /\ BlockSize \in Nat \ {0}
  BY ExtentsAssumption
<1>2. q \in Nat /\ r \in Nat /\ MaxInt = BlockSize * q + r
  BY <1>1
<1>3. BlockSize * q = Times(q, BlockSize)
  BY <1>1, <1>2 DEF Times
<1>4. n <= q
  OBVIOUS
<1> HIDE DEF q, r
<1>5. Times(n, BlockSize) <= Times(q, BlockSize)
  BY <1>1, <1>2, <1>4, TimesFacts
<1>6. Times(n, BlockSize) \in Nat /\ Times(q, BlockSize) \in Nat
  BY <1>1, <1>2, TimesFacts
<1> QED BY <1>1, <1>2, <1>3, <1>5, <1>6

\* An extent that has been validated ends where the exact sum says, and its last
\* byte has a position (validateExtents): what the readers and writers compute
\* from it is exact.
THEOREM ValidExtentIsExact ==
  ASSUME NEW e \in AnyExtent, e.num # 0, ValidExtent(e)
  PROVE  /\ Wrap(e.start + e.num) = e.start + e.num
         /\ Times(e.start + e.num, BlockSize) <= MaxInt
         /\ Wrap(Times(e.start + e.num, BlockSize)) = Times(e.start + e.num, BlockSize)
         /\ Bytes(e.num) = Times(e.num, BlockSize)
         /\ Bytes(e.start) = Times(e.start, BlockSize)
<1> DEFINE n == e.start + e.num
<1>1. MaxInt \in Nat /\ BlockSize \in Nat \ {0}
  BY ExtentsAssumption
<1>2. e.start \in Word /\ e.num \in Word /\ e.start \in Nat /\ e.num \in Nat
  BY <1>1 DEF AnyExtent, Word
<1>3. Wrap(n) >= e.start /\ Wrap(n) <= MaxInt \div BlockSize
  BY DEF ValidExtent
<1>4. n \in Nat /\ Wrap(n) = n
  <2>1. n \in Nat
    BY <1>2
  <2>2. n <= 2 * MaxInt + 1 => Wrap(n) = n
    BY <1>2, WrapOfSum
  <2>3. n > 2 * MaxInt + 1 => Wrap(n) < e.start
    BY <1>2, WrapOfSum
  <2>4. CASE n <= 2 * MaxInt + 1
    BY <2>1, <2>2, <2>4
  <2>5. CASE n > 2 * MaxInt + 1
    <3> DEFINE w == Wrap(n)
    <3>1. w \in Int
      BY <1>1, <2>1 DEF Wrap
    <3>2. w < e.start /\ w >= e.start
      BY <1>3, <2>3, <2>5
    <3> HIDE DEF w, n
    <3> QED BY <1>2, <3>1, <3>2
  <2> QED BY <1>1, <2>1, <2>4, <2>5
<1>5. Times(n, BlockSize) \in 0 .. MaxInt
  <2> HIDE DEF n
  <2> QED BY <1>3, <1>4, BlocksFit
<1>6. /\ Times(e.start, BlockSize) \in 0 .. MaxInt
      /\ Times(e.num, BlockSize) \in 0 .. MaxInt
  <2>1. /\ Times(e.start, BlockSize) <= Times(n, BlockSize)
        /\ Times(e.num, BlockSize) <= Times(n, BlockSize)
        /\ Times(e.start, BlockSize) \in Nat /\ Times(e.num, BlockSize) \in Nat
    <3> DEFINE a == e.start
               b == e.num
    <3>1. a \in Nat /\ b \in Nat /\ a + b \in Nat /\ a <= a + b /\ b <= a + b
      BY <1>2
    <3> HIDE DEF a, b
    <3>2. /\ Times(a, BlockSize) <= Times(a + b, BlockSize)
          /\ Times(b, BlockSize) <= Times(a + b, BlockSize)
          /\ Times(a, BlockSize) \in Nat /\ Times(b, BlockSize) \in Nat
      BY <1>1, <3>1, TimesFacts
    <3> QED BY <3>2 DEF a, b
  <2> QED BY <1>1, <1>5, <2>1
<1>7. /\ Bytes(e.num) = Times(e.num, BlockSize)
      /\ Bytes(e.start) = Times(e.start, BlockSize)
  <2>1. /\ Bytes(e.num) = Int64(Times(e.num, BlockSize))
        /\ Bytes(e.start) = Int64(Times(e.start, BlockSize))
    BY DEF Bytes, Times
  <2> QED BY <1>6, <2>1, Int64Exact
<1>8. Wrap(Times(n, BlockSize)) = Times(n, BlockSize) /\ Times(n, BlockSize) <= MaxInt
  BY <1>1, <1>5, Int64Exact
<1> QED BY <1>4, <1>7, <1>8

\* Each read of extentsReader and each write of extentsWriter lies inside the
\* extent its cursor is in, at a position an int64 holds, and moves the cursor no
\* further than the end of the extent.
THEOREM CursorStaysInside ==
  ASSUME NEW extents \in Seq(AnyExtent), ValidExtents(extents),
         NEW c \in [idx : Nat \ {0}, done : Nat], NEW n \in Nat,
         c.idx <= Len(extents), extents[c.idx].num # 0, ~ Exhausted(c, extents)
  PROVE  LET e == extents[c.idx] room == Room(c, extents, n) IN
         /\ room \in 0 .. n
         /\ Offset(c, extents) >= Times(e.start, BlockSize)
         /\ Offset(c, extents) + room <= Times(e.start + e.num, BlockSize)
         /\ Times(e.start + e.num, BlockSize) <= MaxInt
         /\ Moved(c, room).done <= Times(e.num, BlockSize)
<1> DEFINE e == extents[c.idx]
           room == Room(c, extents, n)
           first == Times(e.start, BlockSize)
           size == Times(e.num, BlockSize)
<1>1. MaxInt \in Nat /\ BlockSize \in Nat \ {0} /\ c.idx \in Nat \ {0} /\ c.done \in Nat
  BY ExtentsAssumption
<1>2. e \in AnyExtent /\ e.num # 0 /\ ValidExtent(e)
  <2>1. c.idx \in DOMAIN extents
    BY <1>1
  <2> QED BY <2>1 DEF ValidExtents
<1>3. /\ Bytes(e.num) = size /\ Bytes(e.start) = first
      /\ Times(e.start + e.num, BlockSize) <= MaxInt
  BY <1>2, ValidExtentIsExact
<1>4. first \in Nat /\ size \in Nat /\ Times(e.start + e.num, BlockSize) = first + size
  <2>1. e.start \in Nat /\ e.num \in Nat
    BY <1>1, <1>2 DEF AnyExtent, Word
  <2> DEFINE a == e.start
             b == e.num
  <2>2. a \in Nat /\ b \in Nat
    BY <2>1
  <2> HIDE DEF a, b
  <2>3. Times(a, BlockSize) \in Nat /\ Times(b, BlockSize) \in Nat
    BY <1>1, <2>2, TimesFacts
  <2>4. Times(a + b, BlockSize) = Times(a, BlockSize) + Times(b, BlockSize)
    BY <1>1, <2>2 DEF Times
  <2> QED BY <2>3, <2>4 DEF a, b
<1>5. ExtentBytes(e) = size /\ Offset(c, extents) = first + c.done
  BY <1>3 DEF ExtentBytes, Offset
<1>6. c.done < size
  <2>1. ~ (c.done >= ExtentBytes(e))
    BY <1>1 DEF Exhausted, AtEnd
  <2> QED BY <1>1, <1>4, <1>5, <2>1
<1>7. room = IF n > size - c.done THEN size - c.done ELSE n
  BY <1>5 DEF Room
<1>8. Moved(c, room).done = c.done + room
  BY <1>1 DEF Moved
<1> HIDE DEF first, size, room, e
<1>9. room \in 0 .. n /\ c.done + room <= size
  BY <1>1, <1>4, <1>6, <1>7
<1>10. first + c.done >= first /\ first + c.done + room <= first + size
  BY <1>1, <1>4, <1>9
<1> QED BY <1>3, <1>4, <1>5, <1>8, <1>9, <1>10 DEF first, size, room, e

--------------------------------------------------------------------------------
(* Sums over a list of extents                                              *)

LEMMA ExtentFacts ==
  ASSUME NEW extents \in Seq(AnyExtent), NEW i \in 1 .. Len(extents)
  PROVE  /\ extents[i] \in AnyExtent
         /\ extents[i].num \in Nat /\ extents[i].start \in Nat
         /\ extents[i].num \in Word /\ extents[i].start \in Word
<1>1. extents[i] \in AnyExtent
  OBVIOUS
<1> QED BY <1>1, ExtentsAssumption DEF AnyExtent, Word

\* Blocks is what its recursive definition says.
LEMMA BlocksFacts ==
  ASSUME NEW extents \in Seq(AnyExtent)
  PROVE  /\ Blocks(extents) \in [0 .. Len(extents) -> Nat]
         /\ Blocks(extents)[0] = 0
         /\ \A i \in 1 .. Len(extents) :
              Blocks(extents)[i] = Blocks(extents)[i - 1] + extents[i].num
<1> DEFINE N == Len(extents)
           step == [i \in 1 .. N |-> [n \in Nat |-> n + extents[i].num]]
           IsSum(f) == f = [i \in 0 .. N |-> IF i = 0 THEN 0 ELSE f[i - 1] + extents[i].num]
           sum == Blocks(extents)
<1>1. N \in Nat /\ \A i \in 1 .. N : extents[i].num \in Nat
  BY ExtentFacts
<1>2. step \in Steps(N, Nat)
  BY <1>1 DEF Steps
<1>3. PICK g \in [0 .. N -> Nat] : g[0] = 0 /\ \A i \in 1 .. N : g[i] = step[i][g[i - 1]]
  <2> HIDE DEF step, N
  <2>1. Solutions(N, Nat, 0, step) # {}
    BY ONLY <1>1, <1>2, Recursion
  <2> QED BY <2>1 DEF Solutions
<1>4. IsSum(g)
  <2>1. ASSUME NEW i \in 0 .. N, i # 0 PROVE g[i] = g[i - 1] + extents[i].num
    <3>1. i \in 1 .. N /\ i - 1 \in 0 .. N
      BY <1>1, <2>1
    <3>2. g[i - 1] \in Nat
      BY <3>1
    <3> HIDE DEF N
    <3> QED BY <1>3, <3>1, <3>2
  <2> HIDE DEF N, step
  <2> QED BY <1>3, <2>1
<1>5. sum = CHOOSE f : IsSum(f)
  BY DEF Blocks
<1>6. IsSum(sum)
  <2> HIDE DEF IsSum, sum
  <2> QED BY <1>4, <1>5
<1>7. /\ sum = [i \in 0 .. N |-> sum[i]] /\ sum[0] = 0
      /\ \A i \in 1 .. N : sum[i] = sum[i - 1] + extents[i].num
  <2> HIDE DEF sum
  <2> QED BY <1>1, <1>6
<1> HIDE DEF sum
<1>8. \A i \in 1 .. N : sum[i - 1] \in Nat => sum[i] = step[i][sum[i - 1]]
  BY <1>7
<1>9. \A i \in 0 .. N : sum[i] \in Nat
  <2> HIDE DEF step, N
  <2>1. sum[0] \in Nat
    BY <1>7
  <2> QED BY ONLY <1>1, <1>2, <1>8, <2>1, RecursionTypes
<1> QED BY <1>7, <1>9 DEF sum

LEMMA BlocksGrow ==
  ASSUME NEW extents \in Seq(AnyExtent), NEW i \in 0 .. Len(extents), NEW j \in i .. Len(extents)
  PROVE  Blocks(extents)[i] <= Blocks(extents)[j]
<1> DEFINE sum == Blocks(extents)
           T == {k \in i .. Len(extents) : ~ (sum[i] <= sum[k])}
<1>1. /\ Len(extents) \in Nat /\ sum \in [0 .. Len(extents) -> Nat]
      /\ \A k \in 1 .. Len(extents) : sum[k] = sum[k - 1] + extents[k].num /\ extents[k].num \in Nat
  BY BlocksFacts, ExtentFacts
<1> HIDE DEF sum
<1>2. ASSUME T # {} PROVE FALSE
  <2>1. PICK k \in T : \A m \in T : k <= m
    <3>1. T \in SUBSET Nat
      BY <1>1
    <3> HIDE DEF T
    <3> QED BY <1>2, <3>1, Least
  <2>2. k \in i .. Len(extents) /\ ~ (sum[i] <= sum[k]) /\ sum[i] \in Nat /\ sum[k] \in Nat
    BY <1>1
  <2>3. k # i
    BY <2>2
  <2>4. k \in 1 .. Len(extents) /\ k - 1 \in i .. Len(extents) /\ ~ (k <= k - 1)
    BY <1>1, <2>2, <2>3
  <2>5. sum[i] <= sum[k - 1]
    BY <2>1, <2>4
  <2>6. sum[k - 1] \in Nat /\ extents[k].num \in Nat /\ sum[k] = sum[k - 1] + extents[k].num
    <3>1. k - 1 \in 0 .. Len(extents)
      BY <1>1, <2>4
    <3> QED BY <1>1, <2>4, <3>1
  <2> QED BY <2>2, <2>5, <2>6
<1>3. sum[i] <= sum[j]
  BY <1>2
<1> QED BY <1>3 DEF sum

--------------------------------------------------------------------------------
(* uncoveredRanges                                                          *)

RangeType == [start : Nat, end : Nat]

\* A gap holds a block, and lies below total.
GapType(total) == {g \in RangeType : g.start < g.end /\ g.end <= total}

SweepType(total) == [cursor : Nat, gaps : Seq(GapType(total))]

LEMMA Appended ==
  ASSUME NEW X, NEW s \in Seq(X), NEW e \in X
  PROVE  LET t == Append(s, e) IN
         /\ t \in Seq(X) /\ Len(s) \in Nat
         /\ DOMAIN s = 1 .. Len(s) /\ DOMAIN t = 1 .. Len(s) + 1
         /\ t[Len(s) + 1] = e /\ \A i \in DOMAIN s : t[i] = s[i]
OBVIOUS

LEMMA VisitType ==
  ASSUME NEW total \in Nat, NEW acc \in SweepType(total), NEW r \in RangeType
  PROVE  Visit(acc, r, total) \in SweepType(total)
<1> DEFINE end == IF r.start > total THEN total ELSE r.start
           cursor == IF r.end > acc.cursor THEN r.end ELSE acc.cursor
           more == Append(acc.gaps, Gap(acc.cursor, end))
<1>1. /\ acc.cursor \in Nat /\ acc.gaps \in Seq(GapType(total)) /\ r.start \in Nat /\ r.end \in Nat
      /\ cursor \in Nat /\ end \in Nat
  BY DEF RangeType, SweepType
<1>2. ASSUME acc.cursor < total, r.start > acc.cursor PROVE more \in Seq(GapType(total))
  <2>1. Gap(acc.cursor, end) \in GapType(total)
    BY <1>1, <1>2 DEF Gap, RangeType, GapType
  <2> QED BY <1>1, <2>1, Appended
<1>3. Visit(acc, r, total) =
        IF acc.cursor >= total THEN acc
        ELSE [cursor |-> cursor, gaps |-> IF r.start > acc.cursor THEN more ELSE acc.gaps]
  BY DEF Visit
<1> HIDE DEF cursor, more, end
<1> QED BY <1>1, <1>2, <1>3 DEF SweepType

\* Swept is what its recursive definition says.
LEMMA SweptFacts ==
  ASSUME NEW covered \in Seq(RangeType), NEW total \in Nat
  PROVE  /\ Swept(covered, total) \in [0 .. Len(covered) -> SweepType(total)]
         /\ Swept(covered, total)[0] = [cursor |-> 0, gaps |-> <<>>]
         /\ \A i \in 1 .. Len(covered) :
              Swept(covered, total)[i] = Visit(Swept(covered, total)[i - 1], covered[i], total)
<1> DEFINE N == Len(covered)
           none == [cursor |-> 0, gaps |-> <<>>]
           After(acc, i) == Visit(acc, covered[i], total)
           step == [i \in 1 .. N |-> [acc \in SweepType(total) |-> After(acc, i)]]
           IsSwept(f) == f = [i \in 0 .. N |-> IF i = 0 THEN none ELSE After(f[i - 1], i)]
           swept == Swept(covered, total)
<1>1. N \in Nat /\ \A i \in 1 .. N : covered[i] \in RangeType
  OBVIOUS
<1>2. none \in SweepType(total)
  <2>1. <<>> \in Seq(RangeType)
    OBVIOUS
  <2> QED BY <2>1 DEF SweepType
<1>3. \A i \in 1 .. N, acc \in SweepType(total) : After(acc, i) \in SweepType(total)
  BY <1>1, VisitType
<1> HIDE DEF After
<1>4. step \in Steps(N, SweepType(total))
  BY <1>3 DEF Steps
<1>5. PICK g \in [0 .. N -> SweepType(total)] : g[0] = none /\ \A i \in 1 .. N : g[i] = step[i][g[i - 1]]
  <2> HIDE DEF step, N, none
  <2>1. Solutions(N, SweepType(total), none, step) # {}
    BY ONLY <1>1, <1>2, <1>4, Recursion
  <2> QED BY <2>1 DEF Solutions
<1> HIDE DEF none
<1>6. IsSwept(g)
  <2>1. ASSUME NEW i \in 0 .. N, i # 0 PROVE g[i] = After(g[i - 1], i)
    <3>1. i \in 1 .. N /\ i - 1 \in 0 .. N
      BY <1>1, <2>1
    <3>2. g[i - 1] \in SweepType(total)
      BY <3>1
    <3> HIDE DEF N
    <3> QED BY <1>5, <3>1, <3>2
  <2> HIDE DEF N, step
  <2> QED BY <1>5, <2>1
<1>7. swept = CHOOSE f : IsSwept(f)
  BY DEF Swept, After, none
<1>8. IsSwept(swept)
  <2> HIDE DEF IsSwept, swept
  <2> QED BY <1>6, <1>7
<1>9. /\ swept = [i \in 0 .. N |-> swept[i]] /\ swept[0] = none
      /\ \A i \in 1 .. N : swept[i] = After(swept[i - 1], i)
  <2> HIDE DEF swept
  <2> QED BY <1>1, <1>8
<1> HIDE DEF swept
<1>10. \A i \in 1 .. N : swept[i - 1] \in SweepType(total) => swept[i] = step[i][swept[i - 1]]
  BY <1>9
<1>11. \A i \in 0 .. N : swept[i] \in SweepType(total)
  <2> HIDE DEF step, N
  <2>1. swept[0] \in SweepType(total)
    BY <1>2, <1>9
  <2> QED BY ONLY <1>1, <1>4, <1>10, <2>1, RecursionTypes
<1>12. swept \in [0 .. N -> SweepType(total)]
  BY <1>9, <1>11
<1> QED BY <1>9, <1>12 DEF swept, After, none

\* Block b lies in one of the gaps; in one of the first n ranges.
InGap(gaps, b) == \E k \in DOMAIN gaps : gaps[k].start <= b /\ b < gaps[k].end

InRange(covered, n, b) == \E m \in 1 .. n : covered[m].start <= b /\ b < covered[m].end

LEMMA OneMoreGap ==
  ASSUME NEW X, NEW gaps \in Seq(X), NEW start, NEW end, NEW b, Gap(start, end) \in X
  PROVE  InGap(Append(gaps, Gap(start, end)), b) <=> InGap(gaps, b) \/ (start <= b /\ b < end)
<1> DEFINE g == Gap(start, end)
           t == Append(gaps, g)
           n == Len(gaps)
<1>1. g \in X /\ g.start = start /\ g.end = end
  BY DEF Gap
<1> HIDE DEF g
<1>2. /\ n \in Nat /\ DOMAIN gaps = 1 .. n /\ DOMAIN t = 1 .. n + 1
      /\ t[n + 1] = g /\ \A i \in DOMAIN gaps : t[i] = gaps[i]
  BY <1>1, Appended
<1> HIDE DEF t, n
<1>3. \A i : i \in DOMAIN t <=> i \in DOMAIN gaps \/ i = n + 1
  BY <1>2
<1>4. InGap(t, b) <=> InGap(gaps, b) \/ (start <= b /\ b < end)
  BY <1>1, <1>2, <1>3, Zenon DEF InGap
<1> QED BY <1>4 DEF t, g

\* Ranges as uncoveredRanges sorts them, when none is empty and none has wrapped.
Sorted(covered) ==
  /\ \A i, j \in 1 .. Len(covered) : i < j => covered[i].start <= covered[j].start
  /\ \A i \in 1 .. Len(covered) : covered[i].start < covered[i].end

\* After i ranges: below the cursor each block is in a gap or in a range, a gap meets
\* no range, and the cursor is past the ranges seen.
SweptRight(covered, total, i) ==
  LET acc == Swept(covered, total)[i] IN
  /\ \A b \in Nat : b < acc.cursor /\ b < total => InGap(acc.gaps, b) \/ InRange(covered, i, b)
  /\ \A b \in Nat : InGap(acc.gaps, b) =>
       b < total /\ b < acc.cursor /\ ~ InRange(covered, Len(covered), b)
  /\ acc.cursor < total => \A m \in 1 .. i : covered[m].end <= acc.cursor

LEMMA SweptStep ==
  ASSUME NEW covered \in Seq(RangeType), NEW total \in Nat, Sorted(covered),
         NEW i \in 1 .. Len(covered), SweptRight(covered, total, i - 1)
  PROVE  SweptRight(covered, total, i)
<1> DEFINE N == Len(covered)
           acc == Swept(covered, total)[i - 1]
           now == Swept(covered, total)[i]
           r == covered[i]
           end == IF r.start > total THEN total ELSE r.start
<1>1. /\ N \in Nat /\ acc \in SweepType(total) /\ now = Visit(acc, r, total)
      /\ r \in RangeType /\ i - 1 \in 0 .. N /\ i \in 1 .. N
  <2>1. N \in Nat /\ i - 1 \in 0 .. N /\ r \in RangeType
    OBVIOUS
  <2> QED BY <2>1, SweptFacts
<1>2. /\ acc.cursor \in Nat /\ acc.gaps \in Seq(GapType(total)) /\ r.start \in Nat /\ r.end \in Nat
      /\ r.start < r.end
  BY <1>1 DEF SweepType, RangeType, Sorted
<1>3. /\ \A b \in Nat : b < acc.cursor /\ b < total => InGap(acc.gaps, b) \/ InRange(covered, i - 1, b)
      /\ \A b \in Nat : InGap(acc.gaps, b) =>
            b < total /\ b < acc.cursor /\ ~ InRange(covered, N, b)
      /\ acc.cursor < total => \A m \in 1 .. i - 1 : covered[m].end <= acc.cursor
  BY DEF SweptRight
<1>4. \A b \in Nat : InRange(covered, i - 1, b) => InRange(covered, i, b)
  <2>1. 1 .. i - 1 \subseteq 1 .. i
    BY <1>1
  <2> QED BY <2>1 DEF InRange
<1>5. \A m \in 1 .. i : m = i \/ m \in 1 .. i - 1
  BY <1>1
<1> HIDE DEF acc, now, r, N
<1>6. CASE acc.cursor >= total
  <2>1. now = acc
    BY <1>1, <1>6 DEF Visit
  <2>2. ~ (acc.cursor < total)
    BY <1>2, <1>6
  <2> QED BY <1>3, <1>4, <2>1, <2>2 DEF SweptRight, now, N
<1>7. CASE acc.cursor < total
  <2> DEFINE cursor == IF r.end > acc.cursor THEN r.end ELSE acc.cursor
             gaps == IF r.start > acc.cursor
                     THEN Append(acc.gaps, Gap(acc.cursor, end)) ELSE acc.gaps
  <2>1. now = [cursor |-> cursor, gaps |-> gaps]
    <3>1. ~ (acc.cursor >= total)
      BY <1>2, <1>7
    <3> QED BY <1>1, <3>1 DEF Visit
  <2>2. end \in Nat /\ cursor \in Nat /\ cursor >= acc.cursor /\ cursor >= r.end
    BY <1>2
  <2>3. ASSUME NEW b \in Nat
        PROVE  InGap(gaps, b) <=> \/ InGap(acc.gaps, b)
                                  \/ acc.cursor <= b /\ b < r.start /\ b < total
    <3>1. CASE r.start > acc.cursor
      <4>1. InGap(gaps, b) <=> InGap(acc.gaps, b) \/ (acc.cursor <= b /\ b < end)
        <5>1. Gap(acc.cursor, end) \in GapType(total)
          BY <1>2, <1>7, <2>2, <3>1 DEF Gap, RangeType, GapType
        <5> QED BY <1>2, <3>1, <5>1, OneMoreGap
      <4> QED BY <1>2, <4>1
    <3>2. CASE ~ (r.start > acc.cursor)
      <4>1. ~ (acc.cursor <= b /\ b < r.start)
        BY <1>2, <3>2
      <4> QED BY <3>2, <4>1
    <3> QED BY <3>1, <3>2
  <2>4. ASSUME NEW b \in Nat, b < cursor, b < total
        PROVE  InGap(gaps, b) \/ InRange(covered, i, b)
    <3>1. CASE b < acc.cursor
      BY <1>3, <1>4, <2>3, <2>4, <3>1
    <3>2. CASE acc.cursor <= b /\ b < r.start
      BY <2>3, <2>4, <3>2
    <3>3. CASE r.start <= b /\ b < r.end
      <4>1. i \in 1 .. i
        BY <1>1
      <4> QED BY <3>3, <4>1 DEF InRange, r
    <3> QED BY <1>2, <2>4, <3>1, <3>2, <3>3
  <2>5. ASSUME NEW b \in Nat, InGap(gaps, b)
        PROVE  b < total /\ b < cursor /\ ~ InRange(covered, N, b)
    <3>1. CASE InGap(acc.gaps, b)
      BY <1>2, <1>3, <2>2, <3>1
    <3>2. CASE acc.cursor <= b /\ b < r.start /\ b < total
      <4>1. b < cursor
        BY <1>2, <2>2, <3>2
      <4>2. ASSUME NEW m \in 1 .. N PROVE ~ (covered[m].start <= b /\ b < covered[m].end)
        <5>1. m \in Nat /\ covered[m].start \in Nat /\ covered[m].end \in Nat
          <6>1. m \in 1 .. Len(covered)
            BY DEF N
          <6>2. covered[m] \in RangeType
            BY <6>1
          <6> QED BY <6>1, <6>2 DEF RangeType
        <5>2. CASE m < i
          <6>1. m \in 1 .. i - 1
            BY <1>1, <5>2
          <6>2. covered[m].end <= acc.cursor
            BY <1>3, <1>7, <6>1
          <6> QED BY <1>2, <3>2, <5>1, <6>2
        <5>3. CASE m = i
          BY <1>2, <3>2, <5>3 DEF r
        <5>4. CASE i < m
          <6>1. r.start <= covered[m].start
            BY <1>1, <5>4 DEF Sorted, N, r
          <6> QED BY <1>2, <3>2, <5>1, <6>1
        <5> QED BY <1>1, <5>2, <5>3, <5>4
      <4> QED BY <3>2, <4>1, <4>2 DEF InRange
    <3> QED BY <2>3, <2>5, <3>1, <3>2
  <2>6. ASSUME cursor < total, NEW m \in 1 .. i PROVE covered[m].end <= cursor
    <3>1. CASE m = i
      BY <2>2, <3>1 DEF r
    <3>2. CASE m \in 1 .. i - 1
      <4>1. covered[m].end <= acc.cursor
        BY <1>3, <1>7, <3>2
      <4>2. covered[m].end \in Nat
        <5>1. m \in 1 .. Len(covered)
          BY <1>1, <3>2 DEF N
        <5>2. covered[m] \in RangeType
          BY <5>1
        <5> QED BY <5>2 DEF RangeType
      <4> QED BY <1>2, <2>2, <4>1, <4>2
    <3> QED BY <1>5, <3>1, <3>2
  <2>7. now.cursor = cursor /\ now.gaps = gaps
    BY <2>1
  <2> HIDE DEF cursor, gaps
  <2> QED BY <2>4, <2>5, <2>6, <2>7 DEF SweptRight, now, N
<1> QED BY <1>2, <1>6, <1>7

LEMMA SweptAlways ==
  ASSUME NEW covered \in Seq(RangeType), NEW total \in Nat, Sorted(covered),
         NEW i \in 0 .. Len(covered)
  PROVE  SweptRight(covered, total, i)
<1> DEFINE T == {n \in 0 .. Len(covered) : ~ SweptRight(covered, total, n)}
<1>1. ASSUME T # {} PROVE FALSE
  <2>1. PICK n \in T : \A m \in T : n <= m
    <3>1. T \in SUBSET Nat
      OBVIOUS
    <3> HIDE DEF T
    <3> QED BY <1>1, <3>1, Least
  <2>2. n \in 0 .. Len(covered) /\ ~ SweptRight(covered, total, n) /\ Len(covered) \in Nat
    OBVIOUS
  <2>3. n # 0
    <3>1. SweptRight(covered, total, 0)
      <4> DEFINE acc == Swept(covered, total)[0]
      <4>1. acc.cursor = 0 /\ acc.gaps = <<>>
        BY SweptFacts
      <4> HIDE DEF acc
      <4>2. \A b \in Nat : ~ InGap(acc.gaps, b) /\ ~ (b < acc.cursor)
        BY <4>1 DEF InGap
      <4> QED BY <4>2 DEF SweptRight, acc
    <3> QED BY <2>2, <3>1
  <2>4. n \in 1 .. Len(covered) /\ n - 1 \in 0 .. Len(covered) /\ ~ (n <= n - 1)
    BY <2>2, <2>3
  <2>5. SweptRight(covered, total, n - 1)
    BY <2>1, <2>4
  <2> QED BY <2>2, <2>4, <2>5, SweptStep
<1> QED BY <1>1

LEMMA SweepIsComplement ==
  ASSUME NEW covered \in Seq(RangeType), NEW total \in Nat
  PROVE  /\ Sweep(covered, total) \in Seq(GapType(total))
         /\ Sorted(covered) =>
              \A b \in Nat : InGap(Sweep(covered, total), b)
                               <=> b < total /\ ~ InRange(covered, Len(covered), b)
<1> DEFINE N == Len(covered)
           last == Swept(covered, total)[N]
           more == Append(last.gaps, Gap(last.cursor, total))
           swept == Sweep(covered, total)
<1>1. N \in Nat /\ N \in 0 .. N
  OBVIOUS
<1>2. last \in SweepType(total)
  BY <1>1, SweptFacts
<1>3. swept = IF last.cursor < total THEN more ELSE last.gaps
  BY DEF Sweep
<1>4. Sorted(covered) => SweptRight(covered, total, N)
  BY <1>1, SweptAlways
<1>5. Sorted(covered) =>
        /\ \A b \in Nat : b < last.cursor /\ b < total => InGap(last.gaps, b) \/ InRange(covered, N, b)
        /\ \A b \in Nat : InGap(last.gaps, b) =>
              b < total /\ b < last.cursor /\ ~ InRange(covered, N, b)
        /\ last.cursor < total => \A m \in 1 .. N : covered[m].end <= last.cursor
  BY <1>4 DEF SweptRight
<1> HIDE DEF last, swept
<1>6. last.cursor \in Nat /\ last.gaps \in Seq(GapType(total))
  BY <1>2 DEF SweepType
<1>7. last.cursor < total => Gap(last.cursor, total) \in GapType(total)
  BY <1>6 DEF Gap, GapType, RangeType
<1>8. swept \in Seq(GapType(total))
  <2>1. last.cursor < total => more \in Seq(GapType(total))
    BY <1>6, <1>7, Appended
  <2> HIDE DEF more
  <2> QED BY <1>3, <1>6, <2>1
<1>9. ASSUME Sorted(covered), NEW b \in Nat
      PROVE  InGap(swept, b) <=> b < total /\ ~ InRange(covered, N, b)
  <2>1. CASE last.cursor < total
    <3>1. InGap(swept, b) <=> InGap(last.gaps, b) \/ (last.cursor <= b /\ b < total)
      BY <1>3, <1>6, <1>7, <2>1, OneMoreGap
    <3>2. ASSUME last.cursor <= b PROVE ~ InRange(covered, N, b)
      <4>1. ASSUME NEW m \in 1 .. N PROVE ~ (b < covered[m].end)
        <5>1. covered[m].end <= last.cursor /\ covered[m] \in RangeType
          BY <1>5, <1>9, <2>1
        <5>2. covered[m].end \in Nat
          BY <5>1 DEF RangeType
        <5> QED BY <1>6, <3>2, <5>1, <5>2
      <4> QED BY <4>1 DEF InRange
    <3> HIDE DEF N
    <3> QED BY <1>5, <1>6, <1>9, <3>1, <3>2
  <2>2. CASE ~ (last.cursor < total)
    <3> HIDE DEF N
    <3> QED BY <1>3, <1>5, <1>6, <1>9, <2>2
  <2> QED BY <2>1, <2>2
<1> QED BY <1>8, <1>9 DEF swept

\* Block b lies in one of a family of extents.
InExtent(extents, b) ==
  \E x \in DOMAIN extents : extents[x].start <= b /\ b < extents[x].start + extents[x].num

LEMMA SortedRangesFacts ==
  ASSUME NEW X, IsFiniteSet(X), NEW extents \in [X -> AnyExtent],
         NEW covered \in SortedRanges(extents)
  PROVE  /\ covered \in Seq(RangeType)
         /\ ValidExtents(extents) =>
              /\ Sorted(covered)
              /\ \A b \in Nat : InRange(covered, Len(covered), b) <=> InExtent(extents, b)
<1> DEFINE nonEmpty == {x \in DOMAIN extents : extents[x].num # 0}
           N == Cardinality(nonEmpty)
           places == 1 .. N
           orders == {p \in [places -> nonEmpty] :
                        /\ \A x \in nonEmpty : \E i \in places : p[i] = x
                        /\ \A i, j \in places : i < j => extents[p[i]].start <= extents[p[j]].start}
           RangeOf(e) == [start |-> e.start, end |-> Wrap(e.start + e.num)]
           Ranges(p) == [i \in places |-> RangeOf(extents[p[i]])]
<1>1. N \in Nat
  <2>1. nonEmpty \subseteq X
    OBVIOUS
  <2> HIDE DEF nonEmpty
  <2> QED BY <2>1, FS_Subset, FS_CardinalityType
<1>2. PICK p \in [places -> nonEmpty] :
        /\ \A x \in nonEmpty : \E i \in places : p[i] = x
        /\ \A i, j \in places : i < j => extents[p[i]].start <= extents[p[j]].start
        /\ covered = [i \in places |-> RangeOf(extents[p[i]])]
  <2>1. SortedRanges(extents) = {Ranges(p) : p \in orders}
    BY DEF SortedRanges
  <2> HIDE DEF orders, Ranges
  <2>2. PICK p \in orders : covered = Ranges(p)
    BY <2>1
  <2>3. /\ p \in [places -> nonEmpty]
        /\ \A x \in nonEmpty : \E i \in places : p[i] = x
        /\ \A i, j \in places : i < j => extents[p[i]].start <= extents[p[j]].start
    BY DEF orders
  <2> QED BY <2>2, <2>3 DEF Ranges
<1>3. \A x \in nonEmpty : x \in X /\ extents[x] \in AnyExtent /\ extents[x].num # 0
  OBVIOUS
<1>4. \A x \in nonEmpty : /\ extents[x].start \in Nat /\ extents[x].num \in Nat
                          /\ extents[x].start + extents[x].num \in Nat
  BY <1>3, ExtentsAssumption DEF AnyExtent, Word
<1>5. \A n \in Nat : Wrap(n) \in Nat
  BY ExtentsAssumption DEF Wrap
<1> HIDE DEF nonEmpty, N
<1>6. \A i \in places : p[i] \in nonEmpty /\ RangeOf(extents[p[i]]) \in RangeType
  BY <1>2, <1>4, <1>5 DEF RangeType
<1>7. covered \in Seq(RangeType) /\ Len(covered) = N
  <2> HIDE DEF RangeOf
  <2>1. covered \in [1 .. N -> RangeType]
    BY <1>2, <1>6
  <2> QED BY <1>1, <2>1
<1>8. ASSUME ValidExtents(extents)
      PROVE  /\ Sorted(covered)
             /\ \A b \in Nat : InRange(covered, Len(covered), b) <=> InExtent(extents, b)
  <2>1. ASSUME NEW x \in nonEmpty
        PROVE  RangeOf(extents[x]) = [start |-> extents[x].start, end |-> extents[x].start + extents[x].num]
    <3>1. ValidExtent(extents[x]) /\ extents[x] \in AnyExtent /\ extents[x].num # 0
      BY <1>3, <1>8 DEF ValidExtents
    <3> QED BY <3>1, ValidExtentIsExact
  <2>2. \A i \in places : /\ covered[i].start = extents[p[i]].start
                          /\ covered[i].end = extents[p[i]].start + extents[p[i]].num
    <3> HIDE DEF RangeOf
    <3>1. ASSUME NEW i \in places
          PROVE  /\ covered[i].start = extents[p[i]].start
                 /\ covered[i].end = extents[p[i]].start + extents[p[i]].num
      <4>1. p[i] \in nonEmpty
        BY <1>6
      <4>2. covered[i] = RangeOf(extents[p[i]])
        BY <1>2
      <4>3. covered[i] = [start |-> extents[p[i]].start, end |-> extents[p[i]].start + extents[p[i]].num]
        <5> HIDE DEF places
        <5> QED BY <2>1, <4>1, <4>2, Zenon
      <4> QED BY <4>3
    <3> QED BY <3>1
  <2>3. Sorted(covered)
    <3>1. \A i, j \in places : i < j => covered[i].start <= covered[j].start
      BY <1>2, <2>2
    <3>2. ASSUME NEW i \in places PROVE covered[i].start < covered[i].end
      <4>1. p[i] \in nonEmpty
        BY <1>6
      <4> QED BY <1>3, <1>4, <2>2, <4>1
    <3> QED BY <1>7, <3>1, <3>2 DEF Sorted
  <2>4. ASSUME NEW b \in Nat PROVE InRange(covered, N, b) <=> InExtent(extents, b)
    <3>1. ASSUME InRange(covered, N, b) PROVE InExtent(extents, b)
      <4>1. PICK i \in places : covered[i].start <= b /\ b < covered[i].end
        BY <3>1 DEF InRange
      <4>2. p[i] \in X
        BY <1>3, <1>6
      <4> QED BY <2>2, <4>1, <4>2 DEF InExtent
    <3>2. ASSUME InExtent(extents, b) PROVE InRange(covered, N, b)
      <4>1. PICK x \in X : extents[x].start <= b /\ b < extents[x].start + extents[x].num
        BY <3>2 DEF InExtent
      <4>2. extents[x].num # 0
        <5>1. extents[x].start \in Nat
          <6>1. extents[x] \in AnyExtent
            OBVIOUS
          <6> QED BY <6>1, ExtentsAssumption DEF AnyExtent, Word
        <5> QED BY <4>1, <5>1
      <4>3. PICK i \in places : p[i] = x
        BY <1>2, <4>2 DEF nonEmpty
      <4> QED BY <2>2, <4>1, <4>3 DEF InRange
    <3> QED BY <3>1, <3>2
  <2> QED BY <1>7, <2>3, <2>4
<1> QED BY <1>7, <1>8

\* The gaps uncoveredRanges returns are never empty and lie below total, whatever
\* the extents and whether or not their ends wrap; when they are valid, a block
\* below total is in a gap exactly when it is in no extent.
THEOREM UncoveredIsComplement ==
  ASSUME NEW X, IsFiniteSet(X), NEW extents \in [X -> AnyExtent], NEW total \in Nat,
         NEW gaps \in UncoveredRanges(extents, total)
  PROVE  /\ gaps \in Seq(GapType(total))
         /\ ValidExtents(extents) =>
              \A b \in Nat : InGap(gaps, b) <=> b < total /\ ~ InExtent(extents, b)
<1>1. PICK covered \in SortedRanges(extents) : gaps = Sweep(covered, total)
  BY DEF UncoveredRanges
<1>2. /\ covered \in Seq(RangeType)
      /\ ValidExtents(extents) =>
           /\ Sorted(covered)
           /\ \A b \in Nat : InRange(covered, Len(covered), b) <=> InExtent(extents, b)
  BY SortedRangesFacts
<1> QED BY <1>1, <1>2, SweepIsComplement

================================================================================
