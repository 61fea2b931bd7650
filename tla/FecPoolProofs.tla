----------------------------- MODULE FecPoolProofs -----------------------------
(***************************************************************************)
(* The FEC generator, proved.  First what the geometry of FecParams        *)
(* guarantees for every partition size, number of roots and batch size     *)
(* that passes Validate: the batches are an exact, non-overlapping cover   *)
(* of the parity rounds, and the symbols of the rounds of the data blocks. *)
(* Then the safety properties of FecPool, for every set of calls, every    *)
(* parameters, every number of workers and every capacity, and that the    *)
(* pool keeps the promise of ParityGen at each of its steps.               *)
(***************************************************************************)
EXTENDS FecPool, TLAPS, FiniteSetTheorems

--------------------------------------------------------------------------------
(* The geometry of rounds, symbols and batches                              *)

\* Quotient and remainder under names of their own: the solvers find the
\* instances of the facts below by these names.
Quot(a, b) == a \div b
Rem(a, b) == a % b

\* Euclidean division.
LEMMA DivMod ==
  ASSUME NEW a \in Nat, NEW b \in Nat \ {0}
  PROVE  /\ Quot(a, b) \in Nat
         /\ Rem(a, b) \in 0 .. b - 1
         /\ a = b * Quot(a, b) + Rem(a, b)
BY DEF Quot, Rem

\* Multiplication by a natural number is monotone.
LEMMA MulMonotone ==
  ASSUME NEW a \in Nat, NEW b \in Nat, NEW c \in Nat, a <= b
  PROVE  a * c \in Nat /\ b * c \in Nat /\ a * c <= b * c /\ c * a = a * c
OBVIOUS

\* The quotient is the largest multiple that fits.
LEMMA QuotBounds ==
  ASSUME NEW a \in Nat, NEW b \in Nat \ {0}
  PROVE  /\ Quot(a, b) \in Nat
         /\ b * Quot(a, b) \in Nat
         /\ b * Quot(a, b) <= a
         /\ a < b * Quot(a, b) + b
<1> DEFINE q == Quot(a, b)
           s == b * q
<1>1. q \in Nat /\ Rem(a, b) \in 0 .. b - 1 /\ a = s + Rem(a, b)
  BY DivMod
<1>2. s \in Nat
  BY <1>1
<1> HIDE DEF s, q
<1>3. s <= a /\ a < s + b
  BY <1>1, <1>2
<1> QED BY <1>1, <1>2, <1>3 DEF s, q

\* Rounding up: the result covers a, and one less does not.
LEMMA CeilDivBounds ==
  ASSUME NEW a \in Nat, NEW b \in Nat \ {0}
  PROVE  /\ CeilDiv(a, b) \in Nat
         /\ a <= b * CeilDiv(a, b)
         /\ a > 0 => CeilDiv(a, b) > 0 /\ b * (CeilDiv(a, b) - 1) < a
<1> DEFINE q == a \div b
<1>1. /\ q \in Nat /\ a % b \in 0 .. b - 1
      /\ a = b * q + (a % b)
  BY DivMod DEF Quot, Rem
<1>2. CASE a % b = 0
  <2>1. CeilDiv(a, b) = q
    BY <1>2 DEF CeilDiv
  <2>2. a = b * q
    BY <1>1, <1>2
  <2>3. a > 0 => q > 0 /\ b * (q - 1) < a
    <3>1. a > 0 => q # 0
      BY <1>1, <2>2
    <3>2. b * (q - 1) = b * q - b
      BY <1>1
    <3> QED BY <1>1, <2>2, <3>1, <3>2
  <2> QED BY <1>1, <2>1, <2>2, <2>3
<1>3. CASE a % b # 0
  <2>1. CeilDiv(a, b) = q + 1
    BY <1>3 DEF CeilDiv
  <2>2. b * (q + 1) = b * q + b
    BY <1>1
  <2>3. b * ((q + 1) - 1) = b * q
    BY <1>1
  <2> QED BY <1>1, <1>3, <2>1, <2>2, <2>3
<1> QED BY <1>2, <1>3

\* The sizes derived from parameters that pass Validate are positive.
LEMMA ValidSizes ==
  ASSUME NEW p \in ParamsType, Valid(p)
  PROVE  /\ p.dataBlocks \in Nat \ {0}
         /\ p.roots \in Nat \ {0}
         /\ RsN(p) \in Nat \ {0}
         /\ Rounds(p) \in Nat \ {0}
         /\ BatchRounds(p) \in Nat \ {0}
         /\ Batches(p) \in Nat \ {0}
<1>1. p.dataBlocks \in Nat \ {0} /\ p.roots \in Nat \ {0} /\ RsN(p) \in Nat \ {0}
  BY FecConstantsAssumption DEF Valid, ParamsType, RsN
<1>2. Rounds(p) \in Nat \ {0}
  BY <1>1, CeilDivBounds DEF Rounds
<1>3. BatchRounds(p) \in Nat \ {0}
  BY FecConstantsAssumption DEF BatchRounds, ParamsType
<1>4. Batches(p) \in Nat \ {0}
  BY <1>2, <1>3, CeilDivBounds DEF Batches
<1> QED BY <1>1, <1>2, <1>3, <1>4

\* A batch of generateBatch is never empty, never larger than the buffers its
\* worker allocated, and ends within the rounds of the partition.
THEOREM BatchFitsBuffer ==
  ASSUME NEW p \in ParamsType, Valid(p), NEW b \in BatchSet(p)
  PROVE  /\ BatchWidth(p, b) \in 1 .. BufferRounds(p)
         /\ BatchStart(p, b) \in RoundSet(p)
         /\ BatchSpan(p, b) \subseteq RoundSet(p)
<1> DEFINE n == Rounds(p)
           k == BatchRounds(p)
           m == Batches(p)
<1>1. n \in Nat \ {0} /\ k \in Nat \ {0} /\ m \in Nat \ {0}
  BY ValidSizes
<1>2. k * (m - 1) < n
  BY <1>1, CeilDivBounds DEF Batches
<1>3. b \in Nat /\ b <= m - 1
  BY <1>1 DEF BatchSet
<1>4. b * k \in Nat /\ b * k < n
  <2>1. b * k <= k * (m - 1)
    BY <1>1, <1>3
  <2> QED BY <1>1, <1>2, <1>3, <2>1
<1>5. BatchStart(p, b) = b * k
  BY DEF BatchStart
<1>6. BatchWidth(p, b) = IF n - b * k < k THEN n - b * k ELSE k
  BY <1>5 DEF BatchWidth
<1>7. /\ BatchWidth(p, b) \in 1 .. n - b * k
      /\ BatchWidth(p, b) <= k
  <2> DEFINE s == b * k
             w == BatchWidth(p, b)
  <2>1. s \in Nat /\ s < n
    BY <1>4
  <2>2. w = IF n - s < k THEN n - s ELSE k
    BY <1>6
  <2> HIDE DEF s, w, n, k
  <2>3. w \in 1 .. n - s /\ w <= k
    BY <1>1, <2>1, <2>2
  <2> QED BY <2>3 DEF s, w
<1>8. BatchWidth(p, b) \in 1 .. BufferRounds(p)
  <2> DEFINE s == b * k
             w == BatchWidth(p, b)
  <2>1. BufferRounds(p) = IF k < n THEN k ELSE n
    BY DEF BufferRounds
  <2>2. s \in Nat /\ w \in 1 .. n - s /\ w <= k
    BY <1>4, <1>7
  <2> HIDE DEF s, w, n, k
  <2>3. w \in 1 .. BufferRounds(p)
    BY <1>1, <2>1, <2>2
  <2> QED BY <2>3 DEF w
<1>9. BatchSpan(p, b) \subseteq RoundSet(p)
  <2> DEFINE s == b * k
  <2>1. s \in Nat
    BY <1>4
  <2>2. BatchWidth(p, b) \in 1 .. n - s
    BY <1>7
  <2>3. BatchSpan(p, b) = s .. s + BatchWidth(p, b) - 1
    BY <1>5 DEF BatchSpan
  <2> HIDE DEF s, n
  <2>4. RoundSet(p) = 0 .. n - 1
    BY DEF RoundSet, n
  <2> QED BY <1>1, <2>1, <2>2, <2>3, <2>4
<1>10. BatchStart(p, b) \in RoundSet(p)
  BY <1>1, <1>4, <1>5 DEF RoundSet
<1> QED BY <1>8, <1>9, <1>10

\* No round belongs to two batches: WriteAt calls of different batches never
\* touch the same bytes.
THEOREM BatchesDisjoint ==
  ASSUME NEW p \in ParamsType, Valid(p),
         NEW a \in BatchSet(p), NEW b \in BatchSet(p), a # b
  PROVE  BatchSpan(p, a) \cap BatchSpan(p, b) = {}
<1> DEFINE k == BatchRounds(p)
<1>1. k \in Nat \ {0} /\ Rounds(p) \in Nat /\ Batches(p) \in Nat
  BY ValidSizes
<1>2. a \in Nat /\ b \in Nat
  BY <1>1 DEF BatchSet
<1>3. \A c \in BatchSet(p) : \A r \in BatchSpan(p, c) :
        r \in Int /\ c * k <= r /\ r < c * k + k
  <2> SUFFICES ASSUME NEW c \in BatchSet(p), NEW r \in BatchSpan(p, c)
               PROVE  r \in Int /\ c * k <= r /\ r < c * k + k
    OBVIOUS
  <2>1. c \in Nat
    BY <1>1 DEF BatchSet
  <2>2. c * k \in Nat
    BY <1>1, <2>1
  <2>3. BatchStart(p, c) = c * k
    BY DEF BatchStart
  <2>4. BatchWidth(p, c) \in Int /\ BatchWidth(p, c) <= k
    BY <1>1, <2>2, <2>3 DEF BatchWidth
  <2> DEFINE s == c * k
  <2>5. r \in s .. s + BatchWidth(p, c) - 1 /\ s \in Nat
    BY <2>2, <2>3 DEF BatchSpan
  <2> HIDE DEF s
  <2> QED BY <1>1, <2>4, <2>5 DEF s
<1>4. \A c, d \in Nat : c < d => c * k + k <= d * k
  <2> SUFFICES ASSUME NEW c \in Nat, NEW d \in Nat, c < d
               PROVE  c * k + k <= d * k
    OBVIOUS
  <2>1. c * k + k = (c + 1) * k
    BY <1>1
  <2> QED BY <1>1, <2>1
<1>5. \A c, d \in BatchSet(p) : c < d => BatchSpan(p, c) \cap BatchSpan(p, d) = {}
  <2> SUFFICES ASSUME NEW c \in BatchSet(p), NEW d \in BatchSet(p), c < d,
                      NEW r \in BatchSpan(p, c), r \in BatchSpan(p, d)
               PROVE  FALSE
    OBVIOUS
  <2>1. c \in Nat /\ d \in Nat
    BY <1>1 DEF BatchSet
  <2>2. r \in Int /\ r < c * k + k /\ d * k <= r
    BY <1>3
  <2>3. c * k + k <= d * k
    BY <1>4, <2>1
  <2>4. c * k \in Nat /\ d * k \in Nat
    BY <1>1, <2>1
  <2> QED BY <1>1, <2>2, <2>3, <2>4
<1> QED BY <1>2, <1>5

\* Every round belongs to a batch: when all batches are written, so is all parity.
THEOREM BatchesCover ==
  ASSUME NEW p \in ParamsType, Valid(p), NEW r \in RoundSet(p)
  PROVE  \E b \in BatchSet(p) : r \in BatchSpan(p, b)
<1> DEFINE n == Rounds(p)
           k == BatchRounds(p)
           m == Batches(p)
           b == Quot(r, k)
<1>1. n \in Nat \ {0} /\ k \in Nat \ {0} /\ m \in Nat \ {0}
  BY ValidSizes
<1>2. r \in Nat /\ r < n
  BY <1>1 DEF RoundSet
<1>3. b \in Nat /\ k * b <= r /\ r < k * b + k
  BY <1>1, <1>2, QuotBounds
<1>4. n <= k * m
  BY <1>1, CeilDivBounds DEF Batches
<1>5. b < m
  <2>1. SUFFICES ASSUME m <= b PROVE FALSE
    BY <1>1, <1>3
  <2>2. k * m <= k * b
    BY <1>1, <1>3, <2>1, MulMonotone
  <2>3. k * m \in Nat /\ k * b \in Nat
    BY <1>1, <1>3
  <2> QED BY <1>1, <1>2, <1>3, <1>4, <2>2, <2>3
<1>6. b \in BatchSet(p)
  BY <1>1, <1>3, <1>5 DEF BatchSet
<1>7. BatchStart(p, b) = k * b
  BY <1>1, <1>3 DEF BatchStart
<1>8. r \in BatchSpan(p, b)
  <2> DEFINE s == k * b
  <2>1. s \in Nat /\ s <= r /\ r < s + k /\ BatchStart(p, b) = s
    BY <1>1, <1>3, <1>7
  <2>2. BatchWidth(p, b) = IF n - s < k THEN n - s ELSE k
    BY <2>1 DEF BatchWidth
  <2>3. BatchSpan(p, b) = s .. s + BatchWidth(p, b) - 1
    BY <2>1 DEF BatchSpan
  <2> HIDE DEF s, b, n, k
  <2>4. r \in s .. s + BatchWidth(p, b) - 1
    BY <1>1, <1>2, <2>1, <2>2
  <2> QED BY <2>3, <2>4
<1> QED BY <1>6, <1>8

\* The interleaving of symbols: each data block is symbol j of round r for
\* exactly one pair, so every block is protected and none is read twice.
THEOREM BlocksCoveredOnce ==
  ASSUME NEW p \in ParamsType, Valid(p), NEW x \in 0 .. p.dataBlocks - 1
  PROVE  /\ \E r \in RoundSet(p), j \in 0 .. RsN(p) - 1 : BlockOf(p, r, j) = x
         /\ \A r, q \in RoundSet(p), i, j \in 0 .. RsN(p) - 1 :
              BlockOf(p, r, i) = x /\ BlockOf(p, q, j) = x => r = q /\ i = j
<1> DEFINE n == Rounds(p)
           k == RsN(p)
<1>1. n \in Nat \ {0} /\ k \in Nat \ {0} /\ p.dataBlocks \in Nat \ {0}
  BY ValidSizes
<1>2. x \in Nat /\ x < p.dataBlocks
  BY <1>1
<1>3. p.dataBlocks <= k * n
  BY <1>1, CeilDivBounds DEF Rounds
<1>4. \E r \in RoundSet(p), j \in 0 .. k - 1 : BlockOf(p, r, j) = x
  <2> DEFINE j == Quot(x, n)
             r == Rem(x, n)
  <2>1. j \in Nat /\ r \in 0 .. n - 1 /\ x = n * j + r
    BY <1>1, <1>2, DivMod
  <2>2. j < k
    <3>1. SUFFICES ASSUME k <= j PROVE FALSE
      BY <1>1, <2>1
    <3>2. k * n <= n * j
      BY <1>1, <2>1, <3>1, MulMonotone
    <3>3. n * j <= x
      BY <1>1, <1>2, QuotBounds
    <3>4. n * j \in Nat /\ k * n \in Nat
      BY <1>1, <2>1
    <3> HIDE DEF n, k, j
    <3> QED BY <1>1, <1>2, <1>3, <3>2, <3>3, <3>4
  <2>3. BlockOf(p, r, j) = x
    BY <1>1, <2>1 DEF BlockOf
  <2>4. r \in RoundSet(p) /\ j \in 0 .. k - 1
    BY <1>1, <2>1, <2>2 DEF RoundSet
  <2> HIDE DEF j, r
  <2> QED BY <2>3, <2>4
<1>5. ASSUME NEW r \in RoundSet(p), NEW q \in RoundSet(p),
             NEW i \in 0 .. k - 1, NEW j \in 0 .. k - 1,
             BlockOf(p, r, i) = BlockOf(p, q, j)
      PROVE  r = q /\ i = j
  <2>1. /\ r \in Nat /\ r < n /\ q \in Nat /\ q < n
        /\ i \in Nat /\ j \in Nat /\ i * n + r = j * n + q
    BY <1>1, <1>5 DEF RoundSet, BlockOf
  <2>2. \A a, b \in Nat : a < b => a * n + n <= b * n
    <3> SUFFICES ASSUME NEW a \in Nat, NEW b \in Nat, a < b
                 PROVE  a * n + n <= b * n
      OBVIOUS
    <3>1. a * n + n = (a + 1) * n
      BY <1>1
    <3> QED BY <1>1, <3>1
  <2>3. i * n \in Nat /\ j * n \in Nat
    BY <1>1, <2>1
  <2>4. ~ (i < j) /\ ~ (j < i)
    <3>1. i < j => i * n + n <= j * n
      BY <2>1, <2>2
    <3>2. j < i => j * n + n <= i * n
      BY <2>1, <2>2
    <3> DEFINE u == i * n
               v == j * n
    <3> HIDE DEF u, v
    <3>3. u \in Nat /\ v \in Nat /\ u + r = v + q
      BY <2>1, <2>3 DEF u, v
    <3>4. (i < j => u + n <= v) /\ (j < i => v + n <= u)
      BY <3>1, <3>2 DEF u, v
    <3> QED BY <1>1, <2>1, <3>3, <3>4
  <2>5. i = j
    BY <2>1, <2>4
  <2> QED BY <2>1, <2>3, <2>5
<1> QED BY <1>4, <1>5

\* Whatever passes Validate is addressable: the byte offsets of the last data
\* block and of the parity, and the buffers of a worker, stay below 2^63.
THEOREM OffsetsDoNotOverflow ==
  ASSUME NEW p \in ParamsType, Valid(p)
  PROVE  /\ p.dataBlocks * p.blockSize <= MaxInt
         /\ ParityBytes(p) <= MaxInt
         /\ BufferRounds(p) * p.roots * p.blockSize <= MaxInt
<1> DEFINE bs == p.blockSize
           q == Quot(MaxInt, bs)
           h == Quot(q, p.roots)
<1>1. bs \in Nat \ {0} /\ p.roots \in Nat \ {0} /\ MaxInt \in Nat
  BY ValidSizes, FecConstantsAssumption DEF Valid
<1>2. q \in Nat /\ bs * q \in Nat /\ bs * q <= MaxInt
  BY <1>1, QuotBounds
<1>3. h \in Nat /\ p.roots * h \in Nat /\ p.roots * h <= q
  BY <1>1, <1>2, QuotBounds
<1>4. p.dataBlocks <= q /\ Rounds(p) <= h /\ BufferRounds(p) <= h
  BY DEF Valid, Quot
<1>5. \A x \in Nat : x <= h => x * p.roots * bs <= MaxInt
  <2> SUFFICES ASSUME NEW x \in Nat, x <= h
               PROVE  x * p.roots * bs <= MaxInt
    OBVIOUS
  <2> DEFINE y == x * p.roots
  <2> HIDE DEF q, h, bs
  <2>1. y \in Nat /\ y <= p.roots * h
    BY <1>1, <1>3, MulMonotone DEF y
  <2>2. y <= q
    BY <1>2, <1>3, <2>1
  <2> HIDE DEF y
  <2>3. y * bs <= bs * q /\ y * bs \in Nat
    BY <1>1, <1>2, <2>1, <2>2, MulMonotone
  <2>4. y * bs <= MaxInt
    BY <1>1, <1>2, <2>3
  <2> QED BY <2>4 DEF y
<1>6. p.dataBlocks * bs <= MaxInt
  <2> HIDE DEF q, bs
  <2>1. p.dataBlocks \in Nat
    BY ValidSizes
  <2>2. p.dataBlocks * bs <= bs * q /\ p.dataBlocks * bs \in Nat
    BY <1>1, <1>2, <1>4, <2>1, MulMonotone
  <2> QED BY <1>1, <1>2, <2>2
<1>7. Rounds(p) \in Nat /\ BufferRounds(p) \in Nat
  BY ValidSizes DEF BufferRounds
<1> QED BY <1>4, <1>5, <1>6, <1>7 DEF ParityBytes

--------------------------------------------------------------------------------
(* Workers and their calls                                                  *)

LEMMA WorkerFacts ==
  ASSUME NEW w \in Workers
  PROVE  /\ CallOf(w) \in Calls
         /\ w \in WorkersOf(CallOf(w))
         /\ Valid(Params[CallOf(w)])
         /\ Params[CallOf(w)] \in ParamsType
<1>1. PICK c \in Calls : w \in WorkersOf(c)
  BY DEF Workers
<1>2. CallOf(w) = c
  BY <1>1 DEF WorkersOf, CallOf
<1>3. Valid(Params[c])
  BY <1>1 DEF WorkersOf, WorkerCount
<1> QED BY <1>1, <1>2, <1>3, FecPoolAssumption

LEMMA CallFacts ==
  ASSUME NEW c \in Calls
  PROVE  /\ Params[c] \in ParamsType
         /\ WorkersOf(c) \subseteq Workers
         /\ \A w \in WorkersOf(c) : CallOf(w) = c
         /\ Valid(Params[c]) => WorkersOf(c) # {}
<1>1. Params[c] \in ParamsType
  BY FecPoolAssumption
<1>2. WorkersOf(c) \subseteq Workers /\ \A w \in WorkersOf(c) : CallOf(w) = c
  BY DEF Workers, WorkersOf, CallOf
<1>3. ASSUME Valid(Params[c]) PROVE WorkersOf(c) # {}
  <2>1. WorkerCount(c) \in Nat \ {0}
    BY <1>1, <1>3, ValidSizes, FecPoolAssumption DEF WorkerCount
  <2>2. <<c, 1>> \in WorkersOf(c)
    BY <2>1 DEF WorkersOf
  <2> QED BY <2>2
<1> QED BY <1>1, <1>2, <1>3

LEMMA SpanIsNat ==
  ASSUME NEW p \in ParamsType, Valid(p), NEW b \in Nat
  PROVE  BatchSpan(p, b) \subseteq Nat
<1>1. BatchRounds(p) \in Nat /\ Rounds(p) \in Nat
  BY ValidSizes
<1>2. BatchStart(p, b) \in Nat
  BY <1>1 DEF BatchStart
<1>3. BatchWidth(p, b) \in Int
  BY <1>1, <1>2 DEF BatchWidth
<1> QED BY <1>2, <1>3 DEF BatchSpan

--------------------------------------------------------------------------------
(* Types                                                                    *)

LEMMA InitType == Init => TypeInv
<1> SUFFICES ASSUME Init PROVE TypeInv
  OBVIOUS
<1> USE DEF Init
<1>1. ctxDone \in BOOLEAN /\ permits \in Nat
  BY FecPoolAssumption
<1>2. /\ call \in [Calls -> {"idle", "running", "returned"}]
      /\ gerr \in [Calls -> {"none", "params", "io", "cancelled"}]
      /\ next \in [Calls -> Nat] /\ done \in [Calls -> Nat]
  OBVIOUS
<1>3. parity \in [Calls -> SUBSET Nat] /\ reported \in [Calls -> SUBSET Nat]
  OBVIOUS
<1>4. /\ pc \in [Workers -> Holding \cup {"idle", "acquire", "return", "returned"}]
      /\ werr \in [Workers -> {"none", "io", "cancelled"}]
  OBVIOUS
<1>5. batch \in [Workers -> Nat] /\ sym \in [Workers -> Nat] /\ seq \in [Workers -> Nat]
  OBVIOUS
<1> QED BY <1>1, <1>2, <1>3, <1>4, <1>5 DEF TypeInv

LEMMA NextType == TypeInv /\ [Next]_vars => TypeInv'
<1> SUFFICES ASSUME TypeInv, [Next]_vars PROVE TypeInv'
  OBVIOUS
<1> USE DEF TypeInv, Holding, Goto, Abandon
<1>1. CASE Cancel
  BY <1>1 DEF Cancel, callVars, workerVars
<1>2. ASSUME NEW c \in Calls, Generate(c) PROVE TypeInv'
  BY <1>2 DEF Generate
<1>3. ASSUME NEW c \in Calls, RejectParams(c) PROVE TypeInv'
  BY <1>3 DEF RejectParams, workerVars
<1>4. ASSUME NEW c \in Calls, GenerateReturns(c) PROVE TypeInv'
  BY <1>4 DEF GenerateReturns, workerVars
<1>5. ASSUME NEW w \in Workers, Acquire(w) PROVE TypeInv'
  BY <1>5 DEF Acquire, callVars
<1>6. ASSUME NEW w \in Workers, AcquireFails(w) PROVE TypeInv'
  BY <1>6 DEF AcquireFails, callVars
<1>7. ASSUME NEW w \in Workers, TakeBatch(w) PROVE TypeInv'
  BY <1>7, WorkerFacts DEF TakeBatch
<1>8. ASSUME NEW w \in Workers, ReadSymbol(w) PROVE TypeInv'
  BY <1>8 DEF ReadSymbol, callVars
<1>9. ASSUME NEW w \in Workers, ReadCancelled(w) PROVE TypeInv'
  BY <1>9 DEF ReadCancelled, callVars
<1>10. ASSUME NEW w \in Workers, ReadFails(w) PROVE TypeInv'
  BY <1>10 DEF ReadFails, callVars
<1>11. ASSUME NEW w \in Workers, WriteParity(w) PROVE TypeInv'
  <2>1. BatchOf(w) \subseteq Nat
    BY WorkerFacts, SpanIsNat DEF BatchOf
  <2> QED BY <1>11, <2>1 DEF WriteParity
<1>12. ASSUME NEW w \in Workers, WriteFails(w) PROVE TypeInv'
  <2>1. BatchOf(w) \subseteq Nat
    BY WorkerFacts, SpanIsNat DEF BatchOf
  <2> QED BY <1>12, <2>1 DEF WriteFails
<1>13. ASSUME NEW w \in Workers, CountBatch(w) PROVE TypeInv'
  BY <1>13, WorkerFacts DEF CountBatch
<1>14. ASSUME NEW w \in Workers, Deliver(w) PROVE TypeInv'
  BY <1>14 DEF Deliver
<1>15. ASSUME NEW w \in Workers, Release(w) PROVE TypeInv'
  BY <1>15 DEF Release, callVars
<1>16. ASSUME NEW w \in Workers, Return(w) PROVE TypeInv'
  BY <1>16 DEF Return
<1>17. CASE UNCHANGED vars
  BY <1>17 DEF vars, callVars, workerVars
<1> QED
  BY <1>1, <1>2, <1>3, <1>4, <1>5, <1>6, <1>7, <1>8, <1>9, <1>10, <1>11,
     <1>12, <1>13, <1>14, <1>15, <1>16, <1>17 DEF Next, WorkerStep, Fault

\* Every variable of the worker pool keeps its type.
THEOREM TypeCorrect == Spec => []TypeInv
BY InitType, NextType, PTL DEF Spec

--------------------------------------------------------------------------------
(* The inductive invariant                                                  *)

\* A call and its workers: none has begun before the call, none is left after it.
Lifecycle ==
  /\ \A w \in Workers :
       /\ call[CallOf(w)] = "idle" <=> pc[w] = "idle"
       /\ call[CallOf(w)] = "returned" => pc[w] = "returned"
  /\ \A c \in Calls :
       call[c] # "idle" => Valid(Params[c]) \/ gerr[c] # "none"

InLoop(w) == pc[w] \in {"read", "write", "count", "deliver"}

\* Where errors come from and where they go: a worker that reports cancellation
\* has seen it, a worker still computing has no error, and the error of a
\* worker that has returned is with the group.
ErrorFlow ==
  /\ \A w \in Workers :
       /\ werr[w] = "cancelled" => GroupDone(CallOf(w))
       /\ pc[w] \in {"idle", "acquire", "take"} \/ InLoop(w) => werr[w] = "none"
       /\ pc[w] = "returned" /\ werr[w] # "none" => gerr[CallOf(w)] # "none"
  /\ CauseIsReported

\* A batch is taken once: it has at most one owner, and its number has left
\* the counter.
Ownership ==
  \A w \in Workers : InLoop(w) =>
    /\ batch[w] \in BatchSet(Params[CallOf(w)])
    /\ batch[w] < next[CallOf(w)]
    /\ \A v \in Workers :
         InLoop(v) /\ CallOf(v) = CallOf(w) /\ batch[v] = batch[w] => v = w

\* The parity on disk: nothing of a batch before its owner writes it, all of it
\* afterwards, and nothing outside the rounds of the partition.
ParityFollowsOwners ==
  /\ \A c \in Calls : Valid(Params[c]) =>
       /\ parity[c] \subseteq RoundSet(Params[c])
       /\ \A b \in BatchSet(Params[c]) :
            b >= next[c] => BatchSpan(Params[c], b) \cap parity[c] = {}
  /\ \A w \in Workers :
       /\ pc[w] \in {"read", "write"} => BatchOf(w) \cap parity[CallOf(w)] = {}
       /\ pc[w] \in {"count", "deliver"} => BatchOf(w) \subseteq parity[CallOf(w)]

\* A batch that was taken is written, or somebody is at work on it, or a worker
\* of the call has failed; and who leaves without an error leaves nothing to take.
Kept(c, b) ==
  \/ BatchSpan(Params[c], b) \subseteq parity[c]
  \/ \E w \in WorkersOf(c) : InLoop(w) /\ batch[w] = b
  \/ \E w \in WorkersOf(c) : werr[w] # "none"

NoneLost ==
  /\ \A c \in Calls : Valid(Params[c]) =>
       \A b \in BatchSet(Params[c]) : b < next[c] => Kept(c, b)
  /\ \A w \in Workers :
       pc[w] \in {"release", "return", "returned"} /\ werr[w] = "none" =>
         next[CallOf(w)] >= NumBatches(CallOf(w))

\* Batches that are written and whose owner, if any is left, has counted them.
Counted(c) ==
  {b \in BatchSet(Params[c]) :
     /\ BatchSpan(Params[c], b) \subseteq parity[c]
     /\ \A w \in WorkersOf(c) : pc[w] = "count" => batch[w] # b}

Delivering(c) == {w \in WorkersOf(c) : pc[w] = "deliver"}

\* The counter of completed batches, and the values drawn from it: each is
\* either reported or about to be, by one worker.
CountingOf(c) ==
  /\ done[c] = Cardinality(Counted(c))
  /\ reported[c] \cup {seq[w] : w \in Delivering(c)} = 1 .. done[c]
  /\ \A w \in Delivering(c) :
       /\ seq[w] \notin reported[c]
       /\ \A v \in Delivering(c) : seq[v] = seq[w] => v = w

Counting == \A c \in Calls : Valid(Params[c]) => CountingOf(c)

\* The inductive invariant of the worker pool.
IInv ==
  /\ TypeInv /\ Lifecycle /\ ErrorFlow
  /\ Ownership /\ ParityFollowsOwners /\ NoneLost /\ Counting


--------------------------------------------------------------------------------
(* Each part is preserved by every step                                     *)

LEMMA LifecycleStep ==
  ASSUME TypeInv, Lifecycle, [Next]_vars
  PROVE  Lifecycle'
<1> USE DEF TypeInv, Lifecycle, Goto, Abandon, Holding
<1>1. CASE Cancel
  BY <1>1 DEF Cancel, callVars, workerVars
<1>2. ASSUME NEW c \in Calls, Generate(c) PROVE Lifecycle'
  BY <1>2 DEF Generate
<1>3. ASSUME NEW c \in Calls, RejectParams(c) PROVE Lifecycle'
  BY <1>3, WorkerFacts DEF RejectParams, workerVars
<1>4. ASSUME NEW c \in Calls, GenerateReturns(c) PROVE Lifecycle'
  <2>1. \A w \in Workers : CallOf(w) = c => pc[w] = "returned"
    BY <1>4, WorkerFacts DEF GenerateReturns, AllReturned
  <2>2. call' = [call EXCEPT ![c] = "returned"] /\ pc' = pc /\ gerr' = gerr
    BY <1>4 DEF GenerateReturns, workerVars
  <2>3. Valid(Params[c]) \/ gerr[c] # "none"
    BY <1>4 DEF GenerateReturns
  <2> QED BY <2>1, <2>2, <2>3, WorkerFacts
<1>5. ASSUME NEW w \in Workers, Acquire(w) PROVE Lifecycle'
  BY <1>5 DEF Acquire, callVars
<1>6. ASSUME NEW w \in Workers, AcquireFails(w) PROVE Lifecycle'
  BY <1>6 DEF AcquireFails, callVars
<1>7. ASSUME NEW w \in Workers, TakeBatch(w) PROVE Lifecycle'
  BY <1>7 DEF TakeBatch
<1>8. ASSUME NEW w \in Workers, ReadSymbol(w) PROVE Lifecycle'
  BY <1>8 DEF ReadSymbol, callVars
<1>9. ASSUME NEW w \in Workers, ReadCancelled(w) PROVE Lifecycle'
  BY <1>9 DEF ReadCancelled, callVars
<1>10. ASSUME NEW w \in Workers, ReadFails(w) PROVE Lifecycle'
  BY <1>10 DEF ReadFails, callVars
<1>11. ASSUME NEW w \in Workers, WriteParity(w) PROVE Lifecycle'
  BY <1>11 DEF WriteParity
<1>12. ASSUME NEW w \in Workers, WriteFails(w) PROVE Lifecycle'
  BY <1>12 DEF WriteFails
<1>13. ASSUME NEW w \in Workers, CountBatch(w) PROVE Lifecycle'
  BY <1>13 DEF CountBatch
<1>14. ASSUME NEW w \in Workers, Deliver(w) PROVE Lifecycle'
  BY <1>14 DEF Deliver
<1>15. ASSUME NEW w \in Workers, Release(w) PROVE Lifecycle'
  BY <1>15 DEF Release, callVars
<1>16. ASSUME NEW w \in Workers, Return(w) PROVE Lifecycle'
  BY <1>16, WorkerFacts DEF Return
<1>17. CASE UNCHANGED vars
  BY <1>17 DEF vars, callVars, workerVars
<1> QED
  BY <1>1, <1>2, <1>3, <1>4, <1>5, <1>6, <1>7, <1>8, <1>9, <1>10, <1>11,
     <1>12, <1>13, <1>14, <1>15, <1>16, <1>17 DEF Next, WorkerStep, Fault

LEMMA ErrorFlowStep ==
  ASSUME TypeInv, Lifecycle, ErrorFlow, [Next]_vars
  PROVE  ErrorFlow'
<1> USE DEF TypeInv, ErrorFlow, CauseIsReported, GroupDone, InLoop, Goto, Abandon, Holding
<1>1. CASE Cancel
  BY <1>1 DEF Cancel, callVars, workerVars
<1>2. ASSUME NEW c \in Calls, Generate(c) PROVE ErrorFlow'
  <2>1. \A w \in Workers : CallOf(w) = c => pc[w] = "idle"
    BY <1>2 DEF Generate, Lifecycle
  <2>2. /\ pc' = [w \in Workers |-> IF CallOf(w) = c THEN "acquire" ELSE pc[w]]
        /\ werr' = werr /\ gerr' = gerr /\ ctxDone' = ctxDone
    BY <1>2 DEF Generate
  <2> QED BY <2>1, <2>2
<1>3. ASSUME NEW c \in Calls, RejectParams(c) PROVE ErrorFlow'
  BY <1>3, WorkerFacts DEF RejectParams, workerVars
<1>4. ASSUME NEW c \in Calls, GenerateReturns(c) PROVE ErrorFlow'
  BY <1>4, CallFacts, WorkerFacts DEF GenerateReturns, AllReturned, workerVars
<1>5. ASSUME NEW w \in Workers, Acquire(w) PROVE ErrorFlow'
  BY <1>5 DEF Acquire, callVars
<1>6. ASSUME NEW w \in Workers, AcquireFails(w) PROVE ErrorFlow'
  BY <1>6 DEF AcquireFails, callVars
<1>7. ASSUME NEW w \in Workers, TakeBatch(w) PROVE ErrorFlow'
  BY <1>7 DEF TakeBatch
<1>8. ASSUME NEW w \in Workers, ReadSymbol(w) PROVE ErrorFlow'
  BY <1>8 DEF ReadSymbol, callVars
<1>9. ASSUME NEW w \in Workers, ReadCancelled(w) PROVE ErrorFlow'
  BY <1>9 DEF ReadCancelled, callVars
<1>10. ASSUME NEW w \in Workers, ReadFails(w) PROVE ErrorFlow'
  BY <1>10 DEF ReadFails, callVars
<1>11. ASSUME NEW w \in Workers, WriteParity(w) PROVE ErrorFlow'
  BY <1>11 DEF WriteParity
<1>12. ASSUME NEW w \in Workers, WriteFails(w) PROVE ErrorFlow'
  BY <1>12 DEF WriteFails
<1>13. ASSUME NEW w \in Workers, CountBatch(w) PROVE ErrorFlow'
  BY <1>13 DEF CountBatch
<1>14. ASSUME NEW w \in Workers, Deliver(w) PROVE ErrorFlow'
  BY <1>14 DEF Deliver
<1>15. ASSUME NEW w \in Workers, Release(w) PROVE ErrorFlow'
  BY <1>15 DEF Release, callVars
<1>16. ASSUME NEW w \in Workers, Return(w) PROVE ErrorFlow'
  BY <1>16, WorkerFacts DEF Return
<1>17. CASE UNCHANGED vars
  BY <1>17 DEF vars, callVars, workerVars
<1> QED
  BY <1>1, <1>2, <1>3, <1>4, <1>5, <1>6, <1>7, <1>8, <1>9, <1>10, <1>11,
     <1>12, <1>13, <1>14, <1>15, <1>16, <1>17 DEF Next, WorkerStep, Fault


LEMMA OwnershipStep ==
  ASSUME TypeInv, Lifecycle, Ownership, [Next]_vars
  PROVE  Ownership'
<1> USE DEF TypeInv, Ownership, InLoop, Goto, Abandon, Holding
<1>1. CASE Cancel
  BY <1>1 DEF Cancel, callVars, workerVars
<1>2. ASSUME NEW c \in Calls, Generate(c) PROVE Ownership'
  <2>1. \A w \in Workers : CallOf(w) = c => pc[w] = "idle"
    BY <1>2 DEF Generate, Lifecycle
  <2>2. /\ pc' = [w \in Workers |-> IF CallOf(w) = c THEN "acquire" ELSE pc[w]]
        /\ batch' = batch /\ next' = next
    BY <1>2 DEF Generate
  <2> QED BY <2>1, <2>2
<1>3. ASSUME NEW c \in Calls, RejectParams(c) PROVE Ownership'
  BY <1>3, WorkerFacts DEF RejectParams, workerVars
<1>4. ASSUME NEW c \in Calls, GenerateReturns(c) PROVE Ownership'
  BY <1>4 DEF GenerateReturns, workerVars
<1>5. ASSUME NEW w \in Workers, Acquire(w) PROVE Ownership'
  BY <1>5 DEF Acquire, callVars
<1>6. ASSUME NEW w \in Workers, AcquireFails(w) PROVE Ownership'
  BY <1>6 DEF AcquireFails, callVars
<1>7. ASSUME NEW w \in Workers, TakeBatch(w) PROVE Ownership'
  <2> DEFINE c == CallOf(w)
  <2>1. c \in Calls /\ Params[c] \in ParamsType /\ Valid(Params[c])
    BY WorkerFacts
  <2>2. CASE next[c] >= NumBatches(c)
    BY <1>7, <2>1, <2>2 DEF TakeBatch
  <2>3. CASE ~ (next[c] >= NumBatches(c))
    <3>1. next[c] \in BatchSet(Params[c])
      BY <2>1, <2>3, ValidSizes DEF BatchSet, NumBatches
    <3>2. /\ pc' = [pc EXCEPT ![w] = "read"] /\ batch' = [batch EXCEPT ![w] = next[c]]
          /\ next' = [next EXCEPT ![c] = @ + 1] /\ pc[w] = "take"
      BY <1>7, <2>3 DEF TakeBatch
    <3>3. next'[c] = next[c] + 1 /\ \A d \in Calls : next'[d] >= next[d]
      BY <2>1, <3>2
    <3> QED BY <2>1, <3>1, <3>2, <3>3, WorkerFacts
  <2> QED BY <2>2, <2>3
<1>8. ASSUME NEW w \in Workers, ReadSymbol(w) PROVE Ownership'
  BY <1>8 DEF ReadSymbol, callVars
<1>9. ASSUME NEW w \in Workers, ReadCancelled(w) PROVE Ownership'
  BY <1>9 DEF ReadCancelled, callVars
<1>10. ASSUME NEW w \in Workers, ReadFails(w) PROVE Ownership'
  BY <1>10 DEF ReadFails, callVars
<1>11. ASSUME NEW w \in Workers, WriteParity(w) PROVE Ownership'
  BY <1>11 DEF WriteParity
<1>12. ASSUME NEW w \in Workers, WriteFails(w) PROVE Ownership'
  BY <1>12 DEF WriteFails
<1>13. ASSUME NEW w \in Workers, CountBatch(w) PROVE Ownership'
  BY <1>13 DEF CountBatch
<1>14. ASSUME NEW w \in Workers, Deliver(w) PROVE Ownership'
  BY <1>14 DEF Deliver
<1>15. ASSUME NEW w \in Workers, Release(w) PROVE Ownership'
  BY <1>15 DEF Release, callVars
<1>16. ASSUME NEW w \in Workers, Return(w) PROVE Ownership'
  BY <1>16 DEF Return
<1>17. CASE UNCHANGED vars
  BY <1>17 DEF vars, callVars, workerVars
<1> QED
  BY <1>1, <1>2, <1>3, <1>4, <1>5, <1>6, <1>7, <1>8, <1>9, <1>10, <1>11,
     <1>12, <1>13, <1>14, <1>15, <1>16, <1>17 DEF Next, WorkerStep, Fault

\* A write, whole or in part, touches the rounds of its own batch only.
LEMMA WriteTouchesOwnBatch ==
  ASSUME TypeInv, Ownership, ParityFollowsOwners, NEW w \in Workers,
         WriteParity(w) \/ WriteFails(w)
  PROVE  /\ \A d \in Calls : Valid(Params[d]) =>
            /\ parity'[d] \subseteq RoundSet(Params[d])
            /\ \A b \in BatchSet(Params[d]) :
                 b >= next'[d] => BatchSpan(Params[d], b) \cap parity'[d] = {}
         /\ \A v \in Workers : v # w =>
            /\ pc[v] \in {"read", "write"} => BatchOf(v) \cap parity'[CallOf(v)] = {}
            /\ pc[v] \in {"count", "deliver"} => BatchOf(v) \subseteq parity'[CallOf(v)]
<1> USE DEF TypeInv, ParityFollowsOwners, InLoop, Goto, Abandon, BatchOf
<1> DEFINE c == CallOf(w)
           new == parity'[c]
<1>1. /\ c \in Calls /\ Params[c] \in ParamsType /\ Valid(Params[c])
      /\ batch[w] \in BatchSet(Params[c]) /\ batch[w] < next[c] /\ pc[w] = "write"
  BY WorkerFacts DEF WriteParity, WriteFails, Ownership
<1>2. /\ new \subseteq parity[c] \cup BatchOf(w) /\ parity[c] \subseteq new
      /\ \A d \in Calls : d # c => parity'[d] = parity[d]
      /\ next' = next
  BY <1>1 DEF WriteParity, WriteFails
<1>3. BatchOf(w) \subseteq RoundSet(Params[c])
  BY <1>1, BatchFitsBuffer
<1>4. \A b \in BatchSet(Params[c]) : b # batch[w] /\ BatchSpan(Params[c], b) \cap parity[c] = {}
         => BatchSpan(Params[c], b) \cap new = {}
  BY <1>1, <1>2, BatchesDisjoint
<1>5. \A d \in Calls : Valid(Params[d]) =>
        /\ parity'[d] \subseteq RoundSet(Params[d])
        /\ \A b \in BatchSet(Params[d]) :
             b >= next'[d] => BatchSpan(Params[d], b) \cap parity'[d] = {}
  <2>1. \A b \in BatchSet(Params[c]) : b >= next[c] => b # batch[w]
    BY <1>1, ValidSizes DEF BatchSet
  <2>2. \A b \in BatchSet(Params[c]) :
          b >= next'[c] => BatchSpan(Params[c], b) \cap new = {}
    BY <1>1, <1>2, <1>4, <2>1
  <2>3. new \subseteq RoundSet(Params[c])
    BY <1>1, <1>2, <1>3
  <2> QED BY <1>2, <2>2, <2>3
<1>6. \A v \in Workers : v # w =>
        /\ pc[v] \in {"read", "write"} => BatchOf(v) \cap parity'[CallOf(v)] = {}
        /\ pc[v] \in {"count", "deliver"} => BatchOf(v) \subseteq parity'[CallOf(v)]
  <2> SUFFICES ASSUME NEW v \in Workers, v # w
               PROVE  /\ pc[v] \in {"read", "write"} => BatchOf(v) \cap parity'[CallOf(v)] = {}
                      /\ pc[v] \in {"count", "deliver"} => BatchOf(v) \subseteq parity'[CallOf(v)]
    OBVIOUS
  <2>1. CASE CallOf(v) # c
    BY <1>2, <2>1, WorkerFacts
  <2>2. CASE CallOf(v) = c
    <3>1. InLoop(v) => batch[v] \in BatchSet(Params[c]) /\ batch[v] # batch[w]
      BY <1>1, <2>2 DEF Ownership
    <3> QED BY <1>2, <1>4, <2>2, <3>1
  <2> QED BY <2>1, <2>2
<1> QED BY <1>5, <1>6

LEMMA ParityStep ==
  ASSUME TypeInv, Lifecycle, Ownership, ParityFollowsOwners, [Next]_vars
  PROVE  ParityFollowsOwners'
<1> USE DEF TypeInv, ParityFollowsOwners, InLoop, Goto, Abandon, Holding, BatchOf
<1>1. CASE Cancel
  BY <1>1 DEF Cancel, callVars, workerVars
<1>2. ASSUME NEW c \in Calls, Generate(c) PROVE ParityFollowsOwners'
  <2>1. \A w \in Workers : CallOf(w) = c => pc[w] = "idle"
    BY <1>2 DEF Generate, Lifecycle
  <2>2. /\ pc' = [w \in Workers |-> IF CallOf(w) = c THEN "acquire" ELSE pc[w]]
        /\ batch' = batch /\ next' = next /\ parity' = parity
    BY <1>2 DEF Generate
  <2> QED BY <2>1, <2>2
<1>3. ASSUME NEW c \in Calls, RejectParams(c) PROVE ParityFollowsOwners'
  BY <1>3, WorkerFacts DEF RejectParams, workerVars
<1>4. ASSUME NEW c \in Calls, GenerateReturns(c) PROVE ParityFollowsOwners'
  BY <1>4 DEF GenerateReturns, workerVars
<1>5. ASSUME NEW w \in Workers, Acquire(w) PROVE ParityFollowsOwners'
  BY <1>5 DEF Acquire, callVars
<1>6. ASSUME NEW w \in Workers, AcquireFails(w) PROVE ParityFollowsOwners'
  BY <1>6 DEF AcquireFails, callVars
<1>7. ASSUME NEW w \in Workers, TakeBatch(w) PROVE ParityFollowsOwners'
  <2> DEFINE c == CallOf(w)
  <2>1. c \in Calls /\ Params[c] \in ParamsType /\ Valid(Params[c])
    BY WorkerFacts
  <2>2. /\ next' = [next EXCEPT ![c] = @ + 1] /\ parity' = parity /\ pc[w] = "take"
        /\ \A d \in Calls : next'[d] >= next[d]
    BY <1>7, <2>1 DEF TakeBatch
  <2>3. \A d \in Calls : Valid(Params[d]) =>
          /\ parity'[d] \subseteq RoundSet(Params[d])
          /\ \A b \in BatchSet(Params[d]) :
               b >= next'[d] => BatchSpan(Params[d], b) \cap parity'[d] = {}
    <3> SUFFICES ASSUME NEW d \in Calls, Valid(Params[d]),
                        NEW b \in BatchSet(Params[d]), b >= next'[d]
                 PROVE  BatchSpan(Params[d], b) \cap parity[d] = {}
      BY <2>2
    <3>1. b \in Nat
      BY CallFacts, ValidSizes DEF BatchSet
    <3>2. b >= next[d]
      BY <2>2, <3>1
    <3> QED BY <3>2
  <2>4. CASE next[c] >= NumBatches(c)
    <3>1. pc' = [pc EXCEPT ![w] = "release"] /\ batch' = batch
      BY <1>7, <2>4 DEF TakeBatch
    <3> QED BY <2>2, <2>3, <3>1
  <2>5. CASE ~ (next[c] >= NumBatches(c))
    <3>1. next[c] \in BatchSet(Params[c])
      BY <2>1, <2>5, ValidSizes DEF BatchSet, NumBatches
    <3>2. BatchSpan(Params[c], next[c]) \cap parity[c] = {}
      <4> HIDE DEF BatchOf
      <4>1. next[c] >= next[c]
        BY <2>1
      <4> QED BY <2>1, <3>1, <4>1
    <3>3. pc' = [pc EXCEPT ![w] = "read"] /\ batch' = [batch EXCEPT ![w] = next[c]]
      BY <1>7, <2>5 DEF TakeBatch
    <3>4. \A v \in Workers :
            /\ pc'[v] \in {"read", "write"} =>
                 BatchSpan(Params[CallOf(v)], batch'[v]) \cap parity'[CallOf(v)] = {}
            /\ pc'[v] \in {"count", "deliver"} =>
                 BatchSpan(Params[CallOf(v)], batch'[v]) \subseteq parity'[CallOf(v)]
      <4> SUFFICES ASSUME NEW v \in Workers
                   PROVE  /\ pc'[v] \in {"read", "write"} =>
                               BatchSpan(Params[CallOf(v)], batch'[v]) \cap parity'[CallOf(v)] = {}
                          /\ pc'[v] \in {"count", "deliver"} =>
                               BatchSpan(Params[CallOf(v)], batch'[v]) \subseteq parity'[CallOf(v)]
        OBVIOUS
      <4>1. CASE v = w
        BY <2>2, <3>2, <3>3, <4>1
      <4>2. CASE v # w
        BY <2>2, <3>3, <4>2
      <4> QED BY <4>1, <4>2
    <3> QED BY <2>3, <3>4
  <2> QED BY <2>4, <2>5
<1>8. ASSUME NEW w \in Workers, ReadSymbol(w) PROVE ParityFollowsOwners'
  BY <1>8 DEF ReadSymbol, callVars
<1>9. ASSUME NEW w \in Workers, ReadCancelled(w) PROVE ParityFollowsOwners'
  BY <1>9 DEF ReadCancelled, callVars
<1>10. ASSUME NEW w \in Workers, ReadFails(w) PROVE ParityFollowsOwners'
  BY <1>10 DEF ReadFails, callVars
<1>11. ASSUME NEW w \in Workers, WriteParity(w) PROVE ParityFollowsOwners'
  <2>1. /\ pc' = [pc EXCEPT ![w] = "count"] /\ batch' = batch
        /\ BatchOf(w) \subseteq parity'[CallOf(w)]
    BY <1>11, WorkerFacts DEF WriteParity
  <2>2. \A v \in Workers :
          /\ pc'[v] \in {"read", "write"} => BatchOf(v) \cap parity'[CallOf(v)] = {}
          /\ pc'[v] \in {"count", "deliver"} => BatchOf(v) \subseteq parity'[CallOf(v)]
    BY <1>11, <2>1, WriteTouchesOwnBatch
  <2> QED BY <1>11, <2>1, <2>2, WriteTouchesOwnBatch
<1>12. ASSUME NEW w \in Workers, WriteFails(w) PROVE ParityFollowsOwners'
  <2>1. pc' = [pc EXCEPT ![w] = "release"] /\ batch' = [batch EXCEPT ![w] = 0]
    BY <1>12 DEF WriteFails
  <2> QED BY <1>12, <2>1, WriteTouchesOwnBatch
<1>13. ASSUME NEW w \in Workers, CountBatch(w) PROVE ParityFollowsOwners'
  BY <1>13 DEF CountBatch
<1>14. ASSUME NEW w \in Workers, Deliver(w) PROVE ParityFollowsOwners'
  BY <1>14 DEF Deliver
<1>15. ASSUME NEW w \in Workers, Release(w) PROVE ParityFollowsOwners'
  BY <1>15 DEF Release, callVars
<1>16. ASSUME NEW w \in Workers, Return(w) PROVE ParityFollowsOwners'
  BY <1>16 DEF Return
<1>17. CASE UNCHANGED vars
  BY <1>17 DEF vars, callVars, workerVars
<1> QED
  BY <1>1, <1>2, <1>3, <1>4, <1>5, <1>6, <1>7, <1>8, <1>9, <1>10, <1>11,
     <1>12, <1>13, <1>14, <1>15, <1>16, <1>17 DEF Next, WorkerStep, Fault

\* What is written stays written, who is at work stays at work and an error
\* stays: then a batch that was accounted for still is.
LEMMA KeptStays ==
  ASSUME NEW d \in Calls, NEW b, Kept(d, b),
         parity[d] \subseteq parity'[d],
         \A v \in WorkersOf(d) : InLoop(v) => InLoop(v)' /\ batch'[v] = batch[v],
         \A v \in WorkersOf(d) : werr[v] # "none" => werr'[v] # "none"
  PROVE  Kept(d, b)'
  BY DEF Kept

LEMMA NoneLostStep ==
  ASSUME TypeInv, Lifecycle, Ownership, ParityFollowsOwners, NoneLost, [Next]_vars
  PROVE  NoneLost'
<1> USE CallFacts, WorkerFacts
    DEF TypeInv, NoneLost, InLoop, Goto, Abandon, Holding
<1>1. CASE Cancel
  BY <1>1 DEF Cancel, callVars, workerVars, Kept
<1>2. ASSUME NEW c \in Calls, Generate(c) PROVE NoneLost'
  <2>1. \A w \in Workers : CallOf(w) = c => pc[w] = "idle"
    BY <1>2 DEF Generate, Lifecycle
  <2>2. /\ pc' = [w \in Workers |-> IF CallOf(w) = c THEN "acquire" ELSE pc[w]]
        /\ batch' = batch /\ next' = next /\ parity' = parity /\ werr' = werr
    BY <1>2 DEF Generate
  <2> QED BY <2>1, <2>2 DEF Kept
<1>3. ASSUME NEW c \in Calls, RejectParams(c) PROVE NoneLost'
  BY <1>3, WorkerFacts DEF RejectParams, workerVars, Kept
<1>4. ASSUME NEW c \in Calls, GenerateReturns(c) PROVE NoneLost'
  BY <1>4 DEF GenerateReturns, workerVars, Kept
<1>5. ASSUME NEW w \in Workers, Acquire(w) PROVE NoneLost'
  BY <1>5 DEF Acquire, callVars, Kept
<1>6. ASSUME NEW w \in Workers, AcquireFails(w) PROVE NoneLost'
  BY <1>6 DEF AcquireFails, callVars, Kept
<1>7. ASSUME NEW w \in Workers, TakeBatch(w) PROVE NoneLost'
  <2> DEFINE c == CallOf(w)
  <2>1. c \in Calls /\ Params[c] \in ParamsType /\ Valid(Params[c]) /\ w \in WorkersOf(c)
    OBVIOUS
  <2>2. /\ next' = [next EXCEPT ![c] = @ + 1] /\ parity' = parity /\ werr' = werr
        /\ pc[w] = "take" /\ next'[c] = next[c] + 1
        /\ \A d \in Calls : next'[d] >= next[d] /\ (d # c => next'[d] = next[d])
    BY <1>7, <2>1 DEF TakeBatch
  <2>3. CASE next[c] >= NumBatches(c)
    <3>1. pc' = [pc EXCEPT ![w] = "release"] /\ batch' = batch
      BY <1>7, <2>3 DEF TakeBatch
    <3>2. \A b \in BatchSet(Params[c]) : b < next[c]
      BY <2>1, <2>3, ValidSizes DEF BatchSet, NumBatches
    <3>3. \A v \in Workers : InLoop(v) => InLoop(v)' /\ batch'[v] = batch[v]
      BY <2>2, <3>1
    <3>4. \A d \in Calls : Valid(Params[d]) =>
            \A b \in BatchSet(Params[d]) : b < next'[d] => Kept(d, b)'
      <4> SUFFICES ASSUME NEW d \in Calls, Valid(Params[d]),
                          NEW b \in BatchSet(Params[d]), b < next'[d]
                   PROVE  Kept(d, b)'
        OBVIOUS
      <4>1. b < next[d]
        BY <2>2, <3>2
      <4>2. Kept(d, b)
        BY <4>1
      <4> QED BY <2>2, <3>3, <4>2, KeptStays
    <3>5. \A v \in Workers :
            pc'[v] \in {"release", "return", "returned"} /\ werr'[v] = "none" =>
              next'[CallOf(v)] >= NumBatches(CallOf(v))
      <4> SUFFICES ASSUME NEW v \in Workers,
                          pc'[v] \in {"release", "return", "returned"}, werr'[v] = "none"
                   PROVE  next'[CallOf(v)] >= NumBatches(CallOf(v))
        OBVIOUS
      <4>1. NumBatches(CallOf(v)) \in Nat
        BY ValidSizes DEF NumBatches
      <4>2. next[CallOf(v)] >= NumBatches(CallOf(v))
        BY <2>2, <2>3, <3>1
      <4> QED BY <2>2, <4>1, <4>2
    <3> QED BY <3>4, <3>5
  <2>4. CASE ~ (next[c] >= NumBatches(c))
    <3>1. pc' = [pc EXCEPT ![w] = "read"] /\ batch' = [batch EXCEPT ![w] = next[c]]
      BY <1>7, <2>4 DEF TakeBatch
    <3>2. \A v \in Workers : InLoop(v) => InLoop(v)' /\ batch'[v] = batch[v]
      BY <2>2, <3>1
    <3>3. InLoop(w)' /\ batch'[w] = next[c]
      BY <3>1
    <3>4. \A d \in Calls : Valid(Params[d]) =>
            \A b \in BatchSet(Params[d]) : b < next'[d] => Kept(d, b)'
      <4> SUFFICES ASSUME NEW d \in Calls, Valid(Params[d]),
                          NEW b \in BatchSet(Params[d]), b < next'[d]
                   PROVE  Kept(d, b)'
        OBVIOUS
      <4>1. b \in Nat
        BY ValidSizes DEF BatchSet
      <4>2. next[d] \in Nat /\ next[c] \in Nat
        BY <2>1
      <4>3. CASE b < next[d]
        <5>1. Kept(d, b)
          BY <4>3
        <5> QED BY <2>2, <3>2, <5>1, KeptStays
      <4>4. CASE ~ (b < next[d])
        <5>1. d = c
          BY <2>2, <4>4
        <5>2. b < next[c] + 1
          BY <2>2, <5>1
        <5>3. b = next[c]
          <6> DEFINE n == next[c]
          <6>1. n \in Nat /\ b < n + 1 /\ ~ (b < n)
            BY <4>2, <4>4, <5>1, <5>2
          <6> HIDE DEF n
          <6>2. b = n
            BY ONLY <4>1, <6>1
          <6> QED BY ONLY <6>2 DEF n
        <5> QED BY <2>1, <3>3, <5>1, <5>3 DEF Kept
      <4> QED BY <4>3, <4>4
    <3>5. \A v \in Workers :
            pc'[v] \in {"release", "return", "returned"} /\ werr'[v] = "none" =>
              next'[CallOf(v)] >= NumBatches(CallOf(v))
      <4> SUFFICES ASSUME NEW v \in Workers,
                          pc'[v] \in {"release", "return", "returned"}, werr'[v] = "none"
                   PROVE  next'[CallOf(v)] >= NumBatches(CallOf(v))
        OBVIOUS
      <4>1. NumBatches(CallOf(v)) \in Nat
        BY ValidSizes DEF NumBatches
      <4>2. next[CallOf(v)] >= NumBatches(CallOf(v))
        BY <2>2, <3>1
      <4> QED BY <2>2, <4>1, <4>2
    <3> QED BY <3>4, <3>5
  <2> QED BY <2>3, <2>4
<1>8. ASSUME NEW w \in Workers, ReadSymbol(w) PROVE NoneLost'
  BY <1>8 DEF ReadSymbol, callVars, Kept
<1>9. ASSUME NEW w \in Workers, ReadCancelled(w) PROVE NoneLost'
  BY <1>9 DEF ReadCancelled, callVars, Kept
<1>10. ASSUME NEW w \in Workers, ReadFails(w) PROVE NoneLost'
  BY <1>10 DEF ReadFails, callVars, Kept
<1>11. ASSUME NEW w \in Workers, WriteParity(w) PROVE NoneLost'
  BY <1>11 DEF WriteParity, Kept
<1>12. ASSUME NEW w \in Workers, WriteFails(w) PROVE NoneLost'
  <2> DEFINE c == CallOf(w)
  <2>1. c \in Calls /\ w \in WorkersOf(c)
    OBVIOUS
  <2>2. /\ next' = next /\ pc[w] = "write"
        /\ pc' = [pc EXCEPT ![w] = "release"] /\ werr' = [werr EXCEPT ![w] = "io"]
        /\ batch' = [batch EXCEPT ![w] = 0]
        /\ \A d \in Calls : d # c => parity'[d] = parity[d]
    BY <1>12, <2>1 DEF WriteFails
  <2>3. \A d \in Calls : Valid(Params[d]) =>
          \A b \in BatchSet(Params[d]) : b < next'[d] => Kept(d, b)'
    <3> SUFFICES ASSUME NEW d \in Calls, Valid(Params[d]),
                        NEW b \in BatchSet(Params[d]), b < next'[d]
                 PROVE  Kept(d, b)'
      OBVIOUS
    <3>1. CASE d = c
      BY <2>1, <2>2, <3>1 DEF Kept
    <3>2. CASE d # c
      <4>1. \A v \in WorkersOf(d) : v # w /\ pc'[v] = pc[v] /\ batch'[v] = batch[v]
                                   /\ werr'[v] = werr[v]
        BY <2>2, <3>2
      <4> QED BY <2>2, <3>2, <4>1 DEF Kept
    <3> QED BY <3>1, <3>2
  <2>4. \A v \in Workers :
          pc'[v] \in {"release", "return", "returned"} /\ werr'[v] = "none" =>
            next'[CallOf(v)] >= NumBatches(CallOf(v))
    BY <2>2
  <2> QED BY <2>3, <2>4
<1>13. ASSUME NEW w \in Workers, CountBatch(w) PROVE NoneLost'
  BY <1>13 DEF CountBatch, Kept
<1>14. ASSUME NEW w \in Workers, Deliver(w) PROVE NoneLost'
  <2> DEFINE c == CallOf(w)
  <2>1. c \in Calls /\ w \in WorkersOf(c)
    OBVIOUS
  <2>2. /\ next' = next /\ pc[w] = "deliver" /\ parity' = parity /\ werr' = werr
        /\ pc' = [pc EXCEPT ![w] = "take"] /\ batch' = [batch EXCEPT ![w] = 0]
    BY <1>14, <2>1 DEF Deliver
  <2>3. BatchSpan(Params[c], batch[w]) \subseteq parity[c]
    BY <2>2 DEF ParityFollowsOwners, BatchOf
  <2>4. \A d \in Calls : Valid(Params[d]) =>
          \A b \in BatchSet(Params[d]) : b < next'[d] => Kept(d, b)'
    <3> SUFFICES ASSUME NEW d \in Calls, Valid(Params[d]),
                        NEW b \in BatchSet(Params[d]), b < next'[d]
                 PROVE  Kept(d, b)'
      OBVIOUS
    <3>1. \A v \in WorkersOf(d) : v # w => pc'[v] = pc[v] /\ batch'[v] = batch[v]
      BY <2>2
    <3>2. CASE w \in WorkersOf(d) /\ batch[w] = b
      BY <2>2, <2>3, <3>2 DEF Kept
    <3>3. CASE ~ (w \in WorkersOf(d) /\ batch[w] = b)
      BY <2>2, <3>1, <3>3 DEF Kept
    <3> QED BY <3>2, <3>3
  <2>5. \A v \in Workers :
          pc'[v] \in {"release", "return", "returned"} /\ werr'[v] = "none" =>
            next'[CallOf(v)] >= NumBatches(CallOf(v))
    BY <2>2
  <2> QED BY <2>4, <2>5
<1>15. ASSUME NEW w \in Workers, Release(w) PROVE NoneLost'
  BY <1>15 DEF Release, callVars, Kept
<1>16. ASSUME NEW w \in Workers, Return(w) PROVE NoneLost'
  BY <1>16 DEF Return, Kept
<1>17. CASE UNCHANGED vars
  BY <1>17 DEF vars, callVars, workerVars, Kept
<1> QED
  BY <1>1, <1>2, <1>3, <1>4, <1>5, <1>6, <1>7, <1>8, <1>9, <1>10, <1>11,
     <1>12, <1>13, <1>14, <1>15, <1>16, <1>17 DEF Next, WorkerStep, Fault

LEMMA CountedIsFinite ==
  ASSUME NEW c \in Calls, Valid(Params[c])
  PROVE  /\ IsFiniteSet(Counted(c))
         /\ IsFiniteSet(BatchSet(Params[c]))
         /\ Cardinality(BatchSet(Params[c])) = NumBatches(c)
<1>1. NumBatches(c) \in Nat \ {0}
  BY CallFacts, ValidSizes DEF NumBatches
<1>2. BatchSet(Params[c]) = 0 .. NumBatches(c) - 1
  BY DEF BatchSet, NumBatches
<1>3. IsFiniteSet(BatchSet(Params[c])) /\ Cardinality(BatchSet(Params[c])) = NumBatches(c)
  BY <1>1, <1>2, FS_Interval
<1>4. Counted(c) \subseteq BatchSet(Params[c])
  BY DEF Counted
<1> QED BY <1>3, <1>4, FS_Subset

\* A step that leaves the parity, the counters and the workers at "count" and
\* "deliver" of a call alone leaves its accounts alone.
LEMMA CountingFrame ==
  ASSUME NEW c \in Calls, CountingOf(c),
         parity'[c] = parity[c], done'[c] = done[c], reported'[c] = reported[c],
         \A v \in WorkersOf(c) :
           /\ pc'[v] = "count" <=> pc[v] = "count"
           /\ pc'[v] = "deliver" <=> pc[v] = "deliver"
           /\ pc[v] = "count" => batch'[v] = batch[v]
           /\ pc[v] = "deliver" => seq'[v] = seq[v]
  PROVE  CountingOf(c)'
<1>1. Counted(c)' = Counted(c)
  BY DEF Counted
<1>2. Delivering(c)' = Delivering(c)
  BY DEF Delivering
<1>3. \A v \in Delivering(c) : seq'[v] = seq[v]
  BY DEF Delivering
<1>4. {seq'[w] : w \in Delivering(c)} = {seq[w] : w \in Delivering(c)}
  BY <1>3
<1> QED BY <1>1, <1>2, <1>3, <1>4 DEF CountingOf

\* Writing parity, whole or in part, counts nothing yet.
LEMMA WriteCountsNothing ==
  ASSUME TypeInv, Ownership, ParityFollowsOwners, NEW w \in Workers,
         WriteParity(w) \/ WriteFails(w)
  PROVE  Counted(CallOf(w))' = Counted(CallOf(w))
<1> DEFINE c == CallOf(w)
           p == Params[c]
           new == parity'[c]
<1>1. /\ c \in Calls /\ p \in ParamsType /\ Valid(p) /\ w \in WorkersOf(c)
      /\ WorkersOf(c) \subseteq Workers
  BY WorkerFacts, CallFacts
<1>2. pc[w] = "write" /\ batch[w] \in BatchSet(p)
  BY DEF WriteParity, WriteFails, Ownership, InLoop
<1>3. BatchOf(w) = BatchSpan(p, batch[w]) /\ BatchOf(w) \cap parity[c] = {}
  BY <1>2 DEF BatchOf, ParityFollowsOwners
<1>4. parity[c] \subseteq new /\ new \subseteq parity[c] \cup BatchOf(w)
  BY <1>1 DEF WriteParity, WriteFails, TypeInv
<1>5. \A b \in BatchSet(p) : b # batch[w] =>
        (BatchSpan(p, b) \subseteq new <=> BatchSpan(p, b) \subseteq parity[c])
  BY <1>1, <1>2, <1>3, <1>4, BatchesDisjoint
<1>6. ~ (BatchOf(w) \subseteq parity[c])
  <2>1. BatchStart(p, batch[w]) \in BatchOf(w)
    <3>1. /\ BatchStart(p, batch[w]) \in RoundSet(p)
          /\ BatchWidth(p, batch[w]) \in 1 .. BufferRounds(p)
      BY <1>1, <1>2, BatchFitsBuffer
    <3> QED BY <1>3, <3>1 DEF BatchSpan, RoundSet
  <2> QED BY <1>3, <2>1
<1>7. CASE WriteParity(w)
  <2>1. pc' = [pc EXCEPT ![w] = "count"] /\ batch' = batch
    BY <1>7 DEF WriteParity, Goto
  <2>2. \A b \in BatchSet(p) :
          (\A v \in WorkersOf(c) : pc'[v] = "count" => batch'[v] # b)
            <=> (\A v \in WorkersOf(c) : pc[v] = "count" => batch[v] # b) /\ b # batch[w]
    BY <1>1, <1>2, <2>1 DEF TypeInv
  <2> QED BY <1>3, <1>5, <1>6, <2>2 DEF Counted
<1>8. CASE WriteFails(w)
  <2>1. pc' = [pc EXCEPT ![w] = "release"] /\ batch' = [batch EXCEPT ![w] = 0]
    BY <1>8 DEF WriteFails, Abandon, Goto
  <2>2. \A v \in WorkersOf(c) : /\ pc'[v] = "count" <=> pc[v] = "count"
                                /\ pc[v] = "count" => batch'[v] = batch[v]
    BY <1>1, <1>2, <2>1 DEF TypeInv
  <2>3. ~ (BatchOf(w) \subseteq new)
    <3>1. PICK n \in BatchOf(w) :
            parity' = [parity EXCEPT ![CallOf(w)] = @ \cup {r \in BatchOf(w) : r < n}]
      BY <1>8 DEF WriteFails
    <3>2. new = parity[c] \cup {r \in BatchOf(w) : r < n}
      BY <1>1, <3>1 DEF TypeInv
    <3>3. n \in Int
      BY <1>3 DEF BatchSpan
    <3>4. n \notin {r \in BatchOf(w) : r < n}
      BY <3>3
    <3>5. n \notin new
      BY <1>3, <3>1, <3>2, <3>4
    <3>6. n \in BatchOf(w)
      BY <3>1
    <3> HIDE DEF new
    <3> QED BY <3>5, <3>6
  <2>4. \A b \in BatchSet(p) : BatchSpan(p, b) \subseteq new <=> BatchSpan(p, b) \subseteq parity[c]
    BY <1>3, <1>5, <1>6, <2>3
  <2>5. \A b : (\A v \in WorkersOf(c) : pc'[v] = "count" => batch'[v] # b)
                <=> (\A v \in WorkersOf(c) : pc[v] = "count" => batch[v] # b)
    BY <2>2
  <2> QED BY <2>4, <2>5 DEF Counted
<1> QED BY <1>7, <1>8

LEMMA CountBatchCounts ==
  ASSUME TypeInv, Ownership, ParityFollowsOwners, NEW w \in Workers,
         CountingOf(CallOf(w)), CountBatch(w)
  PROVE  CountingOf(CallOf(w))'
<1> DEFINE c == CallOf(w)
           b == batch[w]
           n == done[c]
<1>1. /\ c \in Calls /\ Valid(Params[c]) /\ w \in WorkersOf(c) /\ n \in Nat
      /\ WorkersOf(c) \subseteq Workers /\ \A v \in WorkersOf(c) : CallOf(v) = c
  BY WorkerFacts, CallFacts DEF TypeInv
<1>2. /\ pc[w] = "count" /\ pc' = [pc EXCEPT ![w] = "deliver"] /\ batch' = batch
      /\ done' = [done EXCEPT ![c] = @ + 1] /\ seq' = [seq EXCEPT ![w] = n + 1]
      /\ parity' = parity /\ reported' = reported
  BY DEF CountBatch, Goto
<1>3. b \in BatchSet(Params[c]) /\ BatchSpan(Params[c], b) \subseteq parity[c]
  BY <1>2 DEF Ownership, InLoop, ParityFollowsOwners, BatchOf
<1>4. \A v \in WorkersOf(c) : v # w /\ pc[v] = "count" => batch[v] # b
  BY <1>1, <1>2 DEF Ownership, InLoop
<1>5. Counted(c)' = Counted(c) \cup {b}
  <2>1. \A x : (\A v \in WorkersOf(c) : pc'[v] = "count" => batch'[v] # x)
               <=> (\A v \in WorkersOf(c) : pc[v] = "count" /\ v # w => batch[v] # x)
    BY <1>1, <1>2 DEF TypeInv
  <2> QED BY <1>1, <1>2, <1>3, <1>4, <2>1 DEF Counted
<1>6. b \notin Counted(c)
  BY <1>1, <1>2 DEF Counted
<1>7. done'[c] = Cardinality(Counted(c)')
  <2>1. IsFiniteSet(Counted(c))
    BY <1>1, CountedIsFinite
  <2>2. Cardinality(Counted(c) \cup {b}) = Cardinality(Counted(c)) + 1
    BY <1>6, <2>1, FS_AddElement
  <2>3. done'[c] = n + 1
    BY <1>1, <1>2 DEF TypeInv
  <2> QED BY <1>5, <2>2, <2>3 DEF CountingOf
<1>8. Delivering(c)' = Delivering(c) \cup {w} /\ w \notin Delivering(c)
  BY <1>1, <1>2 DEF Delivering, TypeInv
<1>9. /\ seq'[w] = n + 1
      /\ \A v \in Delivering(c) : seq'[v] = seq[v] /\ seq[v] \in 1 .. n
  BY <1>1, <1>2, <1>8 DEF CountingOf, TypeInv, Delivering
<1>10. reported[c] \subseteq 1 .. n
  BY DEF CountingOf
<1>11. done'[c] = n + 1 /\ reported'[c] = reported[c]
  BY <1>1, <1>2 DEF TypeInv
<1>12. reported'[c] \cup {seq'[v] : v \in Delivering(c)'} = 1 .. done'[c]
  <2>1. {seq'[v] : v \in Delivering(c)'} = {seq[v] : v \in Delivering(c)} \cup {n + 1}
    BY <1>8, <1>9
  <2>2. 1 .. n + 1 = (1 .. n) \cup {n + 1}
    BY <1>1
  <2> QED BY <1>11, <2>1, <2>2 DEF CountingOf
<1>13. \A v \in Delivering(c)' :
         /\ seq'[v] \notin reported'[c]
         /\ \A u \in Delivering(c)' : seq'[u] = seq'[v] => u = v
  <2>1. n + 1 \notin 1 .. n
    BY <1>1
  <2>2. n + 1 \notin reported[c] /\ \A v \in Delivering(c) : seq'[v] # n + 1
    BY <1>9, <1>10, <2>1
  <2> QED BY <1>8, <1>9, <1>11, <2>2 DEF CountingOf
<1> QED BY <1>7, <1>12, <1>13 DEF CountingOf

LEMMA DeliverKeepsCount ==
  ASSUME TypeInv, NEW w \in Workers, CountingOf(CallOf(w)), Deliver(w)
  PROVE  CountingOf(CallOf(w))'
<1> DEFINE c == CallOf(w)
<1>1. c \in Calls /\ w \in WorkersOf(c) /\ WorkersOf(c) \subseteq Workers
  BY WorkerFacts, CallFacts
<1>2. /\ pc[w] = "deliver" /\ pc' = [pc EXCEPT ![w] = "take"]
      /\ reported' = [reported EXCEPT ![c] = @ \cup {seq[w]}]
      /\ batch' = [batch EXCEPT ![w] = 0] /\ seq' = [seq EXCEPT ![w] = 0]
      /\ parity' = parity /\ done' = done
  BY DEF Deliver, Goto
<1>3. Counted(c)' = Counted(c)
  <2>1. \A v \in WorkersOf(c) : /\ pc'[v] = "count" <=> pc[v] = "count"
                                /\ pc[v] = "count" => batch'[v] = batch[v]
    BY <1>1, <1>2 DEF TypeInv
  <2> QED BY <1>2, <2>1 DEF Counted
<1>4. Delivering(c)' = Delivering(c) \ {w} /\ w \in Delivering(c)
  BY <1>1, <1>2 DEF Delivering, TypeInv
<1>5. \A v \in Delivering(c) : v # w => seq'[v] = seq[v]
  BY <1>1, <1>2 DEF Delivering, TypeInv
<1>6. reported'[c] = reported[c] \cup {seq[w]}
  BY <1>1, <1>2 DEF TypeInv
<1>7. {seq'[v] : v \in Delivering(c)'} \cup {seq[w]} = {seq[v] : v \in Delivering(c)}
  BY <1>4, <1>5
<1>8. reported'[c] \cup {seq'[v] : v \in Delivering(c)'} = 1 .. done'[c]
  BY <1>2, <1>6, <1>7 DEF CountingOf
<1>9. \A v \in Delivering(c)' :
        /\ seq'[v] \notin reported'[c]
        /\ \A u \in Delivering(c)' : seq'[u] = seq'[v] => u = v
  BY <1>4, <1>5, <1>6 DEF CountingOf
<1> QED BY <1>2, <1>3, <1>8, <1>9 DEF CountingOf

LEMMA CountingStep ==
  ASSUME TypeInv, Lifecycle, Ownership, ParityFollowsOwners, Counting, [Next]_vars
  PROVE  Counting'
<1> USE DEF TypeInv, Goto, Abandon, Holding
<1>1. ASSUME parity' = parity, done' = done, reported' = reported,
             \A v \in Workers :
               /\ pc'[v] = "count" <=> pc[v] = "count"
               /\ pc'[v] = "deliver" <=> pc[v] = "deliver"
               /\ pc[v] = "count" => batch'[v] = batch[v]
               /\ pc[v] = "deliver" => seq'[v] = seq[v]
      PROVE  Counting'
  <2> SUFFICES ASSUME NEW d \in Calls, Valid(Params[d]) PROVE CountingOf(d)'
    BY DEF Counting
  <2>1. CountingOf(d) /\ WorkersOf(d) \subseteq Workers
    BY CallFacts DEF Counting
  <2> QED BY <1>1, <2>1, CountingFrame
<1>2. ASSUME NEW w \in Workers, CountingOf(CallOf(w))',
             \A d \in Calls : d # CallOf(w) =>
               parity'[d] = parity[d] /\ done'[d] = done[d] /\ reported'[d] = reported[d],
             \A v \in Workers : v # w =>
               pc'[v] = pc[v] /\ batch'[v] = batch[v] /\ seq'[v] = seq[v]
      PROVE  Counting'
  <2> SUFFICES ASSUME NEW d \in Calls, Valid(Params[d]), d # CallOf(w)
               PROVE  CountingOf(d)'
    BY <1>2 DEF Counting
  <2>1. CountingOf(d) /\ \A v \in WorkersOf(d) : v \in Workers /\ v # w
    BY CallFacts DEF Counting
  <2>2. \A v \in WorkersOf(d) : pc'[v] = pc[v] /\ batch'[v] = batch[v] /\ seq'[v] = seq[v]
    BY <1>2, <2>1
  <2> QED BY <1>2, <2>1, <2>2, CountingFrame
<1>3. CASE Cancel \/ UNCHANGED vars
  BY <1>1, <1>3 DEF Cancel, vars, callVars, workerVars
<1>4. ASSUME NEW c \in Calls, Generate(c) PROVE Counting'
  <2>1. \A v \in Workers : CallOf(v) = c => pc[v] = "idle"
    BY <1>4 DEF Generate, Lifecycle
  <2> QED BY <1>1, <1>4, <2>1 DEF Generate
<1>5. ASSUME NEW c \in Calls, RejectParams(c) \/ GenerateReturns(c) PROVE Counting'
  BY <1>1, <1>5 DEF RejectParams, GenerateReturns, workerVars
<1>6. ASSUME NEW w \in Workers,
             \/ Acquire(w) \/ AcquireFails(w) \/ TakeBatch(w) \/ ReadSymbol(w)
             \/ ReadCancelled(w) \/ ReadFails(w) \/ Release(w) \/ Return(w)
      PROVE  Counting'
  BY <1>1, <1>6 DEF Acquire, AcquireFails, TakeBatch, ReadSymbol, ReadCancelled,
     ReadFails, Release, Return, callVars
<1>7. ASSUME NEW w \in Workers, WriteParity(w) \/ WriteFails(w) PROVE Counting'
  <2>1. CallOf(w) \in Calls /\ CountingOf(CallOf(w))
    BY WorkerFacts DEF Counting
  <2>2. Counted(CallOf(w))' = Counted(CallOf(w))
    BY <1>7, WriteCountsNothing
  <2>3. /\ WorkersOf(CallOf(w)) \subseteq Workers /\ pc[w] = "write"
        /\ \/ pc' = [pc EXCEPT ![w] = "count"]
           \/ pc' = [pc EXCEPT ![w] = "release"]
        /\ seq' = seq /\ done' = done /\ reported' = reported
    BY <1>7, <2>1, CallFacts DEF WriteParity, WriteFails
  <2>4. Delivering(CallOf(w))' = Delivering(CallOf(w))
    BY <2>3 DEF Delivering
  <2>5. CountingOf(CallOf(w))'
    BY <2>1, <2>2, <2>3, <2>4 DEF CountingOf
  <2> QED BY <1>2, <1>7, <2>5 DEF WriteParity, WriteFails
<1>8. ASSUME NEW w \in Workers, CountBatch(w) \/ Deliver(w) PROVE Counting'
  <2>1. CountingOf(CallOf(w))
    BY WorkerFacts DEF Counting
  <2>2. CountingOf(CallOf(w))'
    BY <1>8, <2>1, CountBatchCounts, DeliverKeepsCount
  <2> QED BY <1>2, <1>8, <2>2 DEF CountBatch, Deliver
<1> QED
  BY <1>3, <1>4, <1>5, <1>6, <1>7, <1>8 DEF Next, WorkerStep, Fault

--------------------------------------------------------------------------------
(* The invariant, and the safety properties it implies                      *)

LEMMA InitIInv == Init => IInv
<1> SUFFICES ASSUME Init PROVE IInv
  OBVIOUS
<1>1. TypeInv
  BY InitType
<1>2. Lifecycle /\ ErrorFlow
  BY WorkerFacts DEF Init, Lifecycle, ErrorFlow, CauseIsReported, InLoop
<1>3. Ownership
  BY DEF Init, Ownership, InLoop
<1>4. ParityFollowsOwners
  BY DEF Init, ParityFollowsOwners
<1>5. NoneLost
  <2>1. \A c \in Calls : next[c] = 0
    BY DEF Init
  <2>2. \A c \in Calls : \A b \in BatchSet(Params[c]) : ~ (b < next[c])
    BY <2>1 DEF BatchSet
  <2> QED BY <2>2 DEF Init, NoneLost
<1>6. Counting
  <2> SUFFICES ASSUME NEW c \in Calls, Valid(Params[c]) PROVE CountingOf(c)
    BY DEF Counting
  <2>1. Delivering(c) = {}
    BY CallFacts DEF Init, Delivering
  <2>2. Counted(c) = {}
    <3>1. \A b \in BatchSet(Params[c]) : BatchSpan(Params[c], b) # {}
      <4> SUFFICES ASSUME NEW b \in BatchSet(Params[c])
                   PROVE  BatchSpan(Params[c], b) # {}
        OBVIOUS
      <4>1. /\ BatchStart(Params[c], b) \in RoundSet(Params[c])
            /\ BatchWidth(Params[c], b) \in 1 .. BufferRounds(Params[c])
        BY CallFacts, BatchFitsBuffer
      <4>2. BatchStart(Params[c], b) \in BatchSpan(Params[c], b)
        BY <4>1 DEF BatchSpan, RoundSet
      <4> QED BY <4>2
    <3>2. parity[c] = {}
      BY DEF Init
    <3> QED BY <3>1, <3>2 DEF Counted
  <2>3. done[c] = 0 /\ reported[c] = {} /\ 1 .. 0 = {} /\ Cardinality({}) = 0
    BY FS_EmptySet DEF Init
  <2> QED BY <2>1, <2>2, <2>3 DEF CountingOf
<1> QED BY <1>1, <1>2, <1>3, <1>4, <1>5, <1>6 DEF IInv

LEMMA NextIInv == IInv /\ [Next]_vars => IInv'
BY NextType, LifecycleStep, ErrorFlowStep, OwnershipStep, ParityStep,
   NoneLostStep, CountingStep DEF IInv

\* The inductive invariant holds in every reachable state.
THEOREM Invariant == Spec => []IInv
BY InitIInv, NextIInv, PTL DEF Spec

\* A call reports a cancellation only if its caller's context has ended.
THEOREM CauseReported == Spec => []CauseIsReported
<1>1. IInv => CauseIsReported
  BY DEF IInv, ErrorFlow
<1> QED BY <1>1, Invariant, PTL

\* No batch is computed twice, by two workers or after its parity is written.
THEOREM ExclusiveBatches == Spec => []BatchesAreExclusive
<1>1. IInv => BatchesAreExclusive
  BY DEF IInv, BatchesAreExclusive, Ownership, ParityFollowsOwners, InLoop, BatchOf
<1> QED BY <1>1, Invariant, PTL

\* When all workers of a call have returned and none has failed, nothing is left to do.
LEMMA AllDone ==
  ASSUME IInv, NEW c \in Calls, Valid(Params[c]), AllReturned(c), gerr[c] = "none"
  PROVE  /\ parity[c] = RoundSet(Params[c])
         /\ reported[c] = 1 .. NumBatches(c)
<1> USE DEF IInv
<1> DEFINE p == Params[c]
<1>1. p \in ParamsType
  BY CallFacts
<1>2. \A w \in WorkersOf(c) : pc[w] = "returned" /\ werr[w] = "none"
  BY CallFacts DEF AllReturned, ErrorFlow
<1>3. next[c] >= NumBatches(c)
  <2>1. PICK w \in WorkersOf(c) : TRUE
    BY CallFacts
  <2>2. w \in Workers /\ CallOf(w) = c
    BY CallFacts
  <2> QED BY <1>2, <2>2 DEF NoneLost
<1>4. \A b \in BatchSet(p) : b < next[c]
  <2>1. NumBatches(c) \in Nat /\ next[c] \in Nat
    BY <1>1, ValidSizes DEF NumBatches, TypeInv
  <2>2. \A b \in BatchSet(p) : b \in Int /\ b < NumBatches(c)
    BY <2>1 DEF BatchSet, NumBatches
  <2> QED BY <1>3, <2>1, <2>2
<1>5. \A b \in BatchSet(p) : BatchSpan(p, b) \subseteq parity[c]
  BY <1>2, <1>4 DEF NoneLost, InLoop, Kept
<1>6. parity[c] = RoundSet(p)
  <2>1. parity[c] \subseteq RoundSet(p)
    BY DEF ParityFollowsOwners
  <2>2. \A r \in RoundSet(p) : r \in parity[c]
    BY <1>1, <1>5, BatchesCover
  <2> QED BY <2>1, <2>2
<1>7. Delivering(c) = {}
  BY <1>2 DEF Delivering
<1>8. Counted(c) = BatchSet(p)
  BY <1>2, <1>5 DEF Counted
<1>9. CountingOf(c)
  BY DEF Counting
<1>10. reported[c] = 1 .. NumBatches(c)
  BY <1>7, <1>8, <1>9, CountedIsFinite DEF CountingOf
<1> QED BY <1>6, <1>10

\* A call that returns nil has written the parity of every round, and progress
\* has been given every value up to the number of batches.
THEOREM SuccessComplete == Spec => []SuccessIsComplete
<1>1. ASSUME IInv, NEW c \in Calls, call[c] = "returned", gerr[c] = "none"
      PROVE  /\ parity[c] = RoundSet(Params[c])
             /\ reported[c] = 1 .. NumBatches(c)
  <2>1. Valid(Params[c]) /\ AllReturned(c)
    BY <1>1, CallFacts DEF IInv, Lifecycle, AllReturned
  <2> QED BY <1>1, <2>1, AllDone
<1>2. IInv => SuccessIsComplete
  BY <1>1 DEF SuccessIsComplete
<1> QED BY <1>2, Invariant, PTL

LEMMA HonestCounts == IInv => ProgressIsHonest
<1> SUFFICES ASSUME IInv PROVE ProgressIsHonest
  OBVIOUS
<1> USE DEF IInv
<1> SUFFICES ASSUME NEW w \in Workers, pc[w] = "deliver"
             PROVE  /\ seq[w] \in 1 .. Cardinality(WrittenBatches[CallOf(w)])
                    /\ seq[w] \notin reported[CallOf(w)]
                    /\ \A v \in WorkersOf(CallOf(w)) \ {w} :
                         pc[v] = "deliver" => seq[v] # seq[w]
  BY DEF ProgressIsHonest
<1> DEFINE c == CallOf(w)
           written == WrittenBatches[c]
<1>1. c \in Calls /\ Valid(Params[c]) /\ w \in WorkersOf(c)
  BY WorkerFacts
<1>2. CountingOf(c) /\ w \in Delivering(c)
  BY <1>1 DEF Counting, Delivering
<1>3. seq[w] \in 1 .. Cardinality(Counted(c))
  BY <1>2 DEF CountingOf
<1>4. IsFiniteSet(BatchSet(Params[c]))
  BY <1>1, CountedIsFinite
<1>5. Counted(c) \subseteq written /\ written \subseteq BatchSet(Params[c])
  BY <1>1 DEF Counted, WrittenBatches, BatchesOf
<1>6. IsFiniteSet(written)
  BY <1>4, <1>5, FS_Subset
<1>7. /\ Cardinality(Counted(c)) \in Nat /\ Cardinality(written) \in Nat
      /\ Cardinality(Counted(c)) <= Cardinality(written)
  BY <1>1, <1>5, <1>6, CountedIsFinite, FS_Subset, FS_CardinalityType
<1>8. seq[w] \in 1 .. Cardinality(written)
  BY <1>3, <1>7
<1>9. \A v \in WorkersOf(c) \ {w} : pc[v] = "deliver" => seq[v] # seq[w]
  BY <1>2 DEF CountingOf, Delivering
<1> QED BY <1>2, <1>8, <1>9 DEF CountingOf

\* What progress is told is new, and that many batches are in the file.
THEOREM HonestProgress == Spec => []ProgressIsHonest
BY HonestCounts, Invariant, PTL

\* Once a call has returned, none of its workers writes parity or reports.
THEOREM Quiet == Spec => QuietAfterReturn
<1>1. ASSUME IInv, [Next]_vars, NEW c \in Calls, call[c] = "returned"
      PROVE  parity'[c] = parity[c] /\ reported'[c] = reported[c]
  <2>1. \A w \in Workers : CallOf(w) = c => pc[w] = "returned"
    BY <1>1 DEF IInv, Lifecycle
  <2>2. ASSUME NEW w \in Workers, WriteParity(w) \/ WriteFails(w) \/ Deliver(w)
        PROVE  CallOf(w) # c
    BY <2>1, <2>2 DEF WriteParity, WriteFails, Deliver
  <2>3. ASSUME NEW w \in Workers, WriteParity(w) \/ WriteFails(w)
        PROVE  parity'[c] = parity[c] /\ reported' = reported
    BY <1>1, <2>2, <2>3 DEF WriteParity, WriteFails, IInv, TypeInv
  <2>4. ASSUME NEW w \in Workers, Deliver(w)
        PROVE  parity' = parity /\ reported'[c] = reported[c]
    BY <1>1, <2>2, <2>4 DEF Deliver, IInv, TypeInv
  <2>5. \/ parity' = parity /\ reported' = reported
        \/ \E w \in Workers : WriteParity(w) \/ WriteFails(w) \/ Deliver(w)
    BY <1>1 DEF Next, WorkerStep, Fault, Cancel, Generate, RejectParams,
       GenerateReturns, Acquire, AcquireFails, TakeBatch, ReadSymbol,
       ReadCancelled, ReadFails, CountBatch, Release, Return,
       vars, callVars, workerVars
  <2> QED BY <2>3, <2>4, <2>5
<1>2. IInv /\ [Next]_vars =>
        [\A c \in Calls : call[c] = "returned" =>
           parity'[c] = parity[c] /\ reported'[c] = reported[c]]_vars
  BY <1>1
<1> QED BY <1>2, Invariant, PTL DEF Spec, QuietAfterReturn

--------------------------------------------------------------------------------
(* Permits                                                                  *)

Holders == {w \in Workers : Holds(w)}

\* The account of the permits: the holders are finitely many, so they count.
PermitAccount == IsFiniteSet(Holders) /\ PermitsConserved

LEMMA PermitStep ==
  ASSUME TypeInv, Lifecycle, PermitAccount, [Next]_vars
  PROVE  PermitAccount'
<1> USE DEF TypeInv, Goto, Abandon, Holding
<1>1. ASSUME permits' = permits, \A v \in Workers : pc'[v] \in Holding <=> pc[v] \in Holding
      PROVE  PermitAccount'
  <2>1. Holders' = Holders
    BY <1>1 DEF Holders, Holds
  <2> QED BY <1>1, <2>1 DEF PermitAccount, PermitsConserved, Holders
<1>2. ASSUME NEW w \in Workers, Acquire(w) PROVE PermitAccount'
  <2>1. Holders' = Holders \cup {w} /\ w \notin Holders
    BY <1>2 DEF Acquire, Holders, Holds
  <2>2. IsFiniteSet(Holders') /\ Cardinality(Holders') = Cardinality(Holders) + 1
    BY <2>1, FS_AddElement DEF PermitAccount
  <2>3. Cardinality(Holders) \in Nat /\ permits \in Nat /\ permits' = permits - 1
    BY <1>2, FS_CardinalityType DEF PermitAccount, Acquire
  <2>4. permits + Cardinality(Holders) = Capacity
    BY DEF PermitAccount, PermitsConserved, Holders
  <2>5. permits' + Cardinality(Holders') = Capacity
    BY <2>2, <2>3, <2>4
  <2> QED BY <2>2, <2>5 DEF PermitAccount, PermitsConserved, Holders
<1>3. ASSUME NEW w \in Workers, Release(w) PROVE PermitAccount'
  <2>1. Holders' = Holders \ {w} /\ w \in Holders
    BY <1>3 DEF Release, Holders, Holds
  <2>2. IsFiniteSet(Holders') /\ Cardinality(Holders') = Cardinality(Holders) - 1
    BY <2>1, FS_RemoveElement DEF PermitAccount
  <2>3. Cardinality(Holders) \in Nat /\ permits \in Nat /\ permits' = permits + 1
    BY <1>3, FS_CardinalityType DEF PermitAccount, Release
  <2>4. permits + Cardinality(Holders) = Capacity
    BY DEF PermitAccount, PermitsConserved, Holders
  <2>5. permits' + Cardinality(Holders') = Capacity
    BY <2>2, <2>3, <2>4
  <2> QED BY <2>2, <2>5 DEF PermitAccount, PermitsConserved, Holders
<1>4. CASE Cancel \/ UNCHANGED vars
  BY <1>1, <1>4 DEF Cancel, vars, callVars, workerVars
<1>5. ASSUME NEW c \in Calls, Generate(c) PROVE PermitAccount'
  BY <1>1, <1>5 DEF Generate, Lifecycle
<1>6. ASSUME NEW c \in Calls, RejectParams(c) \/ GenerateReturns(c)
      PROVE  PermitAccount'
  BY <1>1, <1>6 DEF RejectParams, GenerateReturns, workerVars
<1>7. ASSUME NEW w \in Workers,
             \/ AcquireFails(w) \/ TakeBatch(w) \/ ReadSymbol(w) \/ ReadCancelled(w)
             \/ ReadFails(w) \/ WriteParity(w) \/ WriteFails(w) \/ CountBatch(w)
             \/ Deliver(w) \/ Return(w)
      PROVE  PermitAccount'
  BY <1>1, <1>7 DEF AcquireFails, TakeBatch, ReadSymbol, ReadCancelled, ReadFails,
     WriteParity, WriteFails, CountBatch, Deliver, Return, callVars
<1> QED
  BY <1>2, <1>3, <1>4, <1>5, <1>6, <1>7 DEF Next, WorkerStep, Fault

\* Permits are neither lost nor made: the free ones and the holders add up to
\* the capacity, so at most that many workers of all calls compute at once.
THEOREM PermitsAddUp == Spec => []PermitsConserved
<1>1. Init => PermitAccount
  <2> SUFFICES ASSUME Init PROVE PermitAccount
    OBVIOUS
  <2>1. Holders = {}
    BY DEF Init, Holders, Holds, Holding
  <2>2. permits + Cardinality({}) = Capacity
    BY FS_EmptySet, FecPoolAssumption DEF Init
  <2> QED BY <2>1, <2>2, FS_EmptySet DEF PermitAccount, PermitsConserved, Holders
<1>2. IInv /\ PermitAccount /\ [Next]_vars => PermitAccount'
  BY PermitStep DEF IInv
<1>3. PermitAccount => PermitsConserved
  BY DEF PermitAccount
<1> QED BY <1>1, <1>2, <1>3, Invariant, PTL DEF Spec

--------------------------------------------------------------------------------
(* What fec.Generate promises                                               *)

\* The batch a worker has written is the only one its write completes.
LEMMA WriteCompletesOne ==
  ASSUME TypeInv, Ownership, ParityFollowsOwners, NEW w \in Workers, WriteParity(w)
  PROVE  /\ batch[w] \in BatchesOf(CallOf(w)) \ WrittenBatches[CallOf(w)]
         /\ WrittenBatches' = [WrittenBatches EXCEPT ![CallOf(w)] = @ \cup {batch[w]}]
<1> DEFINE c == CallOf(w)
           p == Params[c]
           new == parity'[c]
<1>1. c \in Calls /\ p \in ParamsType /\ Valid(p)
  BY WorkerFacts
<1>2. pc[w] = "write" /\ batch[w] \in BatchSet(p)
  BY DEF WriteParity, Ownership, InLoop
<1>3. BatchOf(w) = BatchSpan(p, batch[w]) /\ BatchOf(w) \cap parity[c] = {}
  BY <1>2 DEF BatchOf, ParityFollowsOwners
<1>4. new = parity[c] \cup BatchOf(w) /\ \A d \in Calls : d # c => parity'[d] = parity[d]
  BY <1>1 DEF WriteParity, TypeInv
<1>5. ~ (BatchOf(w) \subseteq parity[c])
  <2>1. /\ BatchStart(p, batch[w]) \in RoundSet(p)
        /\ BatchWidth(p, batch[w]) \in 1 .. BufferRounds(p)
    BY <1>1, <1>2, BatchFitsBuffer
  <2>2. BatchStart(p, batch[w]) \in BatchOf(w)
    BY <1>3, <2>1 DEF BatchSpan, RoundSet
  <2> QED BY <1>3, <2>2
<1>6. \A b \in BatchSet(p) : b # batch[w] =>
        (BatchSpan(p, b) \subseteq new <=> BatchSpan(p, b) \subseteq parity[c])
  BY <1>1, <1>2, <1>3, <1>4, BatchesDisjoint
<1>7. {b \in BatchSet(p) : BatchSpan(p, b) \subseteq new}
        = {b \in BatchSet(p) : BatchSpan(p, b) \subseteq parity[c]} \cup {batch[w]}
  BY <1>2, <1>3, <1>4, <1>6
<1>8. BatchesOf(c) = BatchSet(p)
  BY <1>1 DEF BatchesOf
<1>9. ASSUME NEW d \in Calls
      PROVE  WrittenBatches'[d] = IF d = c THEN WrittenBatches[c] \cup {batch[w]} ELSE WrittenBatches[d]
  BY <1>1, <1>4, <1>7, <1>8 DEF WrittenBatches
<1>10. /\ WrittenBatches' = [d \in Calls |-> WrittenBatches'[d]]
       /\ WrittenBatches = [d \in Calls |-> WrittenBatches[d]]
  BY DEF WrittenBatches
<1>11. WrittenBatches' = [WrittenBatches EXCEPT ![c] = @ \cup {batch[w]}]
  BY <1>1, <1>9, <1>10
<1>12. batch[w] \in BatchesOf(c) \ WrittenBatches[c]
  BY <1>1, <1>2, <1>3, <1>5, <1>8 DEF WrittenBatches
<1> QED BY <1>11, <1>12

\* A write that fails completes none: the rounds it has not reached are missing.
LEMMA FailureCompletesNone ==
  ASSUME TypeInv, Ownership, ParityFollowsOwners, NEW w \in Workers, WriteFails(w)
  PROVE  WrittenBatches' = WrittenBatches
<1> DEFINE c == CallOf(w)
           p == Params[c]
           new == parity'[c]
<1>1. c \in Calls /\ p \in ParamsType /\ Valid(p)
  BY WorkerFacts
<1>2. pc[w] = "write" /\ batch[w] \in BatchSet(p)
  BY DEF WriteFails, Ownership, InLoop
<1>3. BatchOf(w) = BatchSpan(p, batch[w]) /\ BatchOf(w) \cap parity[c] = {}
  BY <1>2 DEF BatchOf, ParityFollowsOwners
<1>4. PICK n \in BatchOf(w) :
        parity' = [parity EXCEPT ![c] = @ \cup {r \in BatchOf(w) : r < n}]
  BY DEF WriteFails
<1>5. /\ new = parity[c] \cup {r \in BatchOf(w) : r < n}
      /\ \A d \in Calls : d # c => parity'[d] = parity[d]
  BY <1>1, <1>4 DEF TypeInv
<1>6. n \in Int
  BY <1>3 DEF BatchSpan
<1>7. n \notin new /\ n \notin parity[c]
  BY <1>3, <1>4, <1>5, <1>6
<1>8. ~ (BatchOf(w) \subseteq new) /\ ~ (BatchOf(w) \subseteq parity[c])
  BY <1>4, <1>7
<1>9. \A b \in BatchSet(p) : BatchSpan(p, b) \subseteq new <=> BatchSpan(p, b) \subseteq parity[c]
  BY <1>1, <1>2, <1>3, <1>5, <1>8, BatchesDisjoint
<1>10. BatchesOf(c) = BatchSet(p)
  BY <1>1 DEF BatchesOf
<1>11. \A d \in Calls : \A b \in BatchesOf(d) :
         BatchSpan(Params[d], b) \subseteq parity'[d] <=> BatchSpan(Params[d], b) \subseteq parity[d]
  BY <1>5, <1>9, <1>10
<1> QED BY <1>11 DEF WrittenBatches

\* The promise counts as the pool does: its copy of FiniteSets is the same.
LEMMA PromiseCounts == ASSUME NEW S PROVE Promise!Cardinality(S) = Cardinality(S)
BY DEF Promise!Cardinality, Cardinality

\* Each step of the pool is a step of the promise, or nothing to it.
LEMMA PromiseStep ==
  ASSUME IInv, [Next]_vars
  PROVE  [Promise!Next]_(Promise!vars)
<1> USE DEF IInv, Promise!Next, Promise!Step, Promise!vars
<1>1. ASSUME UNCHANGED <<ctxDone, call, gerr, parity, reported>>
      PROVE  UNCHANGED Promise!vars
  BY <1>1 DEF WrittenBatches
<1>2. ASSUME parity' = parity PROVE WrittenBatches' = WrittenBatches
  BY <1>2 DEF WrittenBatches
<1>3. CASE Cancel
  BY <1>2, <1>3 DEF Cancel, callVars, Promise!Cancel
<1>4. ASSUME NEW c \in Calls, Generate(c) PROVE Promise!Next
  BY <1>2, <1>4 DEF Generate, Promise!Start, ValidCall
<1>5. ASSUME NEW c \in Calls, RejectParams(c) PROVE Promise!Next
  BY <1>2, <1>5 DEF RejectParams, Promise!Reject, ValidCall
<1>6. ASSUME NEW c \in Calls, GenerateReturns(c) PROVE Promise!Next
  <2>1. /\ call[c] = "running" /\ call' = [call EXCEPT ![c] = "returned"]
        /\ UNCHANGED <<ctxDone, gerr, reported>> /\ WrittenBatches' = WrittenBatches
    BY <1>2, <1>6 DEF GenerateReturns
  <2>2. CASE gerr[c] # "none"
    BY <2>1, <2>2 DEF Promise!Fail
  <2>3. CASE gerr[c] = "none"
    <3>1. Valid(Params[c])
      BY <2>1, <2>3 DEF Lifecycle
    <3>2. parity[c] = RoundSet(Params[c]) /\ reported[c] = 1 .. NumBatches(c)
      BY <1>6, <2>3, <3>1, AllDone DEF GenerateReturns
    <3>3. BatchesOf(c) = BatchSet(Params[c])
      BY <3>1 DEF BatchesOf
    <3>4. \A b \in BatchSet(Params[c]) : BatchSpan(Params[c], b) \subseteq parity[c]
      BY <3>1, <3>2, CallFacts, BatchFitsBuffer
    <3>5. WrittenBatches[c] = BatchesOf(c)
      BY <3>3, <3>4 DEF WrittenBatches
    <3>6. Cardinality(BatchesOf(c)) = NumBatches(c)
      BY <3>1, <3>3, CountedIsFinite
    <3>7. Promise!Succeed(c)
      BY <2>1, <2>3, <3>2, <3>5, <3>6, PromiseCounts DEF Promise!Succeed
    <3> QED BY <3>7
  <2> QED BY <2>2, <2>3
<1>7. ASSUME NEW w \in Workers, pc[w] \notin {"idle", "returned"}
      PROVE  CallOf(w) \in Calls /\ call[CallOf(w)] = "running"
  BY <1>7, WorkerFacts DEF TypeInv, Lifecycle
<1>8. ASSUME NEW w \in Workers, WriteParity(w) PROVE Promise!Next
  <2> DEFINE c == CallOf(w)
  <2>1. c \in Calls /\ call[c] = "running"
    BY <1>7, <1>8 DEF WriteParity
  <2>2. /\ batch[w] \in BatchesOf(c) \ WrittenBatches[c]
        /\ WrittenBatches' = [WrittenBatches EXCEPT ![c] = @ \cup {batch[w]}]
    BY <1>8, WriteCompletesOne
  <2>3. Promise!WriteBatch(c, batch[w])
    BY <1>8, <2>1, <2>2 DEF WriteParity, Promise!WriteBatch
  <2> QED BY <2>1, <2>2, <2>3
<1>9. ASSUME NEW w \in Workers, WriteFails(w) PROVE UNCHANGED Promise!vars
  BY <1>9, FailureCompletesNone DEF WriteFails
<1>10. ASSUME NEW w \in Workers, Deliver(w) PROVE Promise!Next
  <2> DEFINE c == CallOf(w)
  <2>1. c \in Calls /\ call[c] = "running" /\ w \in Workers /\ pc[w] = "deliver"
    BY <1>7, <1>10 DEF Deliver
  <2>2. seq[w] \in 1 .. Cardinality(WrittenBatches[c]) /\ seq[w] \notin reported[c]
    BY <2>1, HonestCounts DEF ProgressIsHonest
  <2>3. Promise!Report(c, seq[w])
    BY <1>2, <1>10, <2>1, <2>2, PromiseCounts DEF Deliver, Promise!Report
  <2>4. seq[w] \in 1 .. Cardinality(BatchesOf(c))
    <3>1. Valid(Params[c])
      BY WorkerFacts
    <3>2. IsFiniteSet(BatchesOf(c)) /\ WrittenBatches[c] \subseteq BatchesOf(c)
      BY <2>1, <3>1, CountedIsFinite DEF BatchesOf, WrittenBatches
    <3>3. /\ Cardinality(WrittenBatches[c]) <= Cardinality(BatchesOf(c))
          /\ Cardinality(WrittenBatches[c]) \in Nat /\ Cardinality(BatchesOf(c)) \in Nat
      BY <3>2, FS_Subset, FS_CardinalityType
    <3> QED BY <2>2, <3>3
  <2> QED BY <2>1, <2>3, <2>4, PromiseCounts
<1>11. ASSUME NEW w \in Workers, Return(w) PROVE Promise!Next \/ UNCHANGED Promise!vars
  <2> DEFINE c == CallOf(w)
  <2>1. c \in Calls /\ call[c] = "running"
    BY <1>7, <1>11 DEF Return
  <2>2. /\ gerr' = [gerr EXCEPT ![c] = IF @ = "none" THEN werr[w] ELSE @]
        /\ UNCHANGED <<ctxDone, call, reported, parity>>
    BY <1>11 DEF Return
  <2>3. CASE gerr[c] = "none" /\ werr[w] # "none"
    <3>1. werr[w] \in {"io", "cancelled"} /\ (werr[w] = "cancelled" => ctxDone)
      BY <2>3 DEF TypeInv, ErrorFlow, GroupDone
    <3>2. gerr' = [gerr EXCEPT ![c] = werr[w]]
      BY <2>2, <2>3
    <3>3. Promise!Fault(c, werr[w])
      BY <1>2, <2>1, <2>2, <2>3, <3>1, <3>2 DEF Promise!Fault
    <3>4. werr[w] \in Promise!Errors \ {"params"}
      BY <3>1 DEF Promise!Errors
    <3> QED BY <2>1, <3>3, <3>4
  <2>4. CASE ~ (gerr[c] = "none" /\ werr[w] # "none")
    <3>1. gerr' = gerr
      BY <2>1, <2>2, <2>4 DEF TypeInv
    <3> QED BY <1>1, <2>2, <3>1
  <2> QED BY <2>3, <2>4
<1>12. ASSUME NEW w \in Workers,
              \/ Acquire(w) \/ AcquireFails(w) \/ TakeBatch(w) \/ ReadSymbol(w)
              \/ ReadCancelled(w) \/ ReadFails(w) \/ CountBatch(w) \/ Release(w)
       PROVE  UNCHANGED Promise!vars
  <2>1. UNCHANGED <<ctxDone, call, gerr, parity, reported>>
    BY <1>12 DEF Acquire, AcquireFails, TakeBatch, ReadSymbol, ReadCancelled, ReadFails,
       CountBatch, Release, callVars
  <2> QED BY <1>1, <2>1
<1>13. CASE UNCHANGED vars
  BY <1>1, <1>13 DEF vars, callVars
<1> HIDE DEF Promise!Next, Promise!vars
<1> QED
  BY <1>3, <1>4, <1>5, <1>6, <1>8, <1>9, <1>10, <1>11, <1>12, <1>13
     DEF Next, WorkerStep, Fault

\* The worker pool implements ParityGen, but for termination: its initial states are
\* the promise's, and every step of a worker, of Generate, of a fault or a cancellation
\* is one the promise allows or changes nothing it speaks of. With WrittenBatches for
\* the batches in the file, Extract may use the promise for the pool.
THEOREM KeepsPromise == Spec => Promise!Init /\ [][Promise!Next]_(Promise!vars)
<1>1. Init => Promise!Init
  <2> SUFFICES ASSUME Init PROVE Promise!Init
    OBVIOUS
  <2>1. ASSUME NEW c \in Calls PROVE WrittenBatches[c] = {}
    <3>1. parity[c] = {} /\ Params[c] \in ParamsType
      BY CallFacts DEF Init
    <3>2. ASSUME Valid(Params[c]), NEW b \in BatchSet(Params[c])
          PROVE  BatchSpan(Params[c], b) # {}
      <4>1. /\ BatchStart(Params[c], b) \in RoundSet(Params[c])
            /\ BatchWidth(Params[c], b) \in 1 .. BufferRounds(Params[c])
        BY <3>1, <3>2, BatchFitsBuffer
      <4>2. BatchStart(Params[c], b) \in BatchSpan(Params[c], b)
        BY <4>1 DEF BatchSpan, RoundSet
      <4> QED BY <4>2
    <3>3. \A b \in BatchesOf(c) : ~ (BatchSpan(Params[c], b) \subseteq parity[c])
      BY <3>1, <3>2 DEF BatchesOf
    <3> QED BY <3>3 DEF WrittenBatches
  <2>2. WrittenBatches = [c \in Calls |-> {}]
    BY <2>1 DEF WrittenBatches
  <2> QED BY <2>2 DEF Init, Promise!Init
<1>2. IInv /\ [Next]_vars => [Promise!Next]_(Promise!vars)
  BY PromiseStep
<1> QED BY <1>1, <1>2, Invariant, PTL DEF Spec
================================================================================
